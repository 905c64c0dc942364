----------------------------- MODULE MCSessions -----------------------------
(***************************************************************************)
(* GameSession with four clients, of which one asks to watch: of these no  *)
(* more than three ever come, so that either three play or two play while  *)
(* one watches.                                                            *)
(***************************************************************************)
EXTENDS GameSession

CONSTANTS
  a, b, c, w, o1, o2,
  MaxClients  \* bound

Came == {p \in Protocol : conn[p] # "new"}

MCNext == Next /\ Cardinality(Came') <= MaxClients

MCSpec == Init /\ [][MCNext]_vars

(* Sound: the only CHOOSE, in Disconnect, orders the spectators of a       *)
(* caster, and there is at most one.                                       *)
ClientSymmetry == Permutations({a, b, c}) \cup Permutations({o1, o2})
=============================================================================
