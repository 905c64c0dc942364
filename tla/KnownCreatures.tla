--------------------------- MODULE KnownCreatures ---------------------------
(***************************************************************************)
(* Which creatures a client has been told of (newsrc/protocolgame.cpp).    *)
(* A creature is described to a client once, and named from then on; of    *)
(* too many the server has the client forget one.  What a caster is sent   *)
(* goes to its spectators as it is, when its buffer is sent: they are told *)
(* on joining of all that the caster has been told of.                     *)
(***************************************************************************)
EXTENDS Naturals, Sequences, FiniteSets

CONSTANTS
  Creature,
  Limit,      \* knownCreatureSet holds no more (250 in the code)
  MaxBuffer   \* bound: descriptions in the caster's buffer

ASSUME KnownAssumption == Limit \in Nat /\ MaxBuffer \in Nat

VARIABLES
  seen,      \* the creatures the caster can see
  known,     \* the caster's knownCreatureSet
  buffer,    \* what is in its output buffer: descriptions
  client,    \* external: the creatures the caster's client knows
  phase,     \* the spectator: "away", "joining" or "watching"
  own,       \* its knownCreatureSet
  watcher,   \* external: the creatures its client knows
  baffled,   \* external: the clients that were named a creature they did
             \* not know
  evicted    \* history: a client was made to forget a creature

knownVars ==
  <<seen, known, buffer, client, phase, own, watcher, baffled, evicted>>

KnownInit ==
  /\ seen = {} /\ known = {} /\ buffer = <<>> /\ client = {}
  /\ phase = "away" /\ own = {} /\ watcher = {}
  /\ baffled = {} /\ evicted = FALSE

-----------------------------------------------------------------------------
(* A description of one creature: that it is known, or all about it and    *)
(* which to forget.                                                        *)
Named(c) == [creature |-> c, known |-> TRUE, forget |-> {}]
Described(c, gone) == [creature |-> c, known |-> FALSE, forget |-> gone]

(* Faulty variant: the creature that makes room is not struck from the set.*)
checkCreatureAsKnownFull(sight, set, c) ==
  IF c \in set THEN {<<set, Named(c)>>}
  ELSE IF Cardinality(set) < Limit
       THEN {<<set \cup {c}, Described(c, {})>>}
       ELSE {<<set \cup {c}, Described(c, {r})>> : r \in set}

(* checkCreatureAsKnown: the set and the description that follow.  Of too  *)
(* many one goes that is not in sight, or, if all are, another than c.     *)
checkCreatureAsKnown(sight, set, c) ==
  LET all == set \cup {c}
      hidden == all \ sight
      forgettable == IF hidden # {} THEN hidden ELSE all \ {c}
  IN IF c \in set THEN {<<set, Named(c)>>}
     ELSE IF Cardinality(set) < Limit THEN {<<all, Described(c, {})>>}
          ELSE {<<all \ {r}, Described(c, {r})>> : r \in forgettable}

(* A client reads descriptions: what it knows then, and if it could.       *)
Told(r, d) ==
  IF d.known THEN [r EXCEPT !.ok = @ /\ d.creature \in r.set]
  ELSE [r EXCEPT !.set = (@ \ d.forget) \cup {d.creature}]

Read(set, told) ==
  LET after[n \in 0 .. Len(told)] ==
        IF n = 0 THEN [set |-> set, ok |-> TRUE]
        ELSE Told(after[n - 1], told[n])
  IN after[Len(told)]

-----------------------------------------------------------------------------

Joining == phase = "joining" \* spectate is one task

(* AddCreature, of one in sight that came or that is on a tile to describe.*)
Describe(c) ==
  /\ ~Joining /\ Len(buffer) < MaxBuffer
  /\ seen' = seen \cup {c}
  /\ \E e \in checkCreatureAsKnown(seen', known, c) :
       /\ known' = e[1]
       /\ buffer' = Append(buffer, e[2])
       /\ evicted' = (evicted \/ e[2].forget # {})
  /\ UNCHANGED <<client, phase, own, watcher, baffled>>

(* A creature or the caster goes, or the creature becomes invisible.       *)
LoseSight(c) ==
  /\ ~Joining
  /\ c \in seen
  /\ seen' = seen \ {c}
  /\ UNCHANGED <<known, buffer, client, phase, own, watcher, baffled, evicted>>

(* The buffer is sent, and broadcast.                                      *)
SendBuffer ==
  /\ ~Joining /\ buffer # <<>>
  /\ LET r == Read(client, buffer) w == Read(watcher, buffer)
     IN /\ client' = r.set
        /\ watcher' = IF phase = "watching" THEN w.set ELSE watcher
        /\ baffled' = baffled
             \cup (IF r.ok THEN {} ELSE {"caster"})
             \cup (IF phase = "watching" /\ ~w.ok THEN {"spectator"} ELSE {})
  /\ buffer' = <<>>
  /\ UNCHANGED <<seen, known, phase, own, evicted>>

(* spectate: the map around the caster.                                    *)
Spectate ==
  /\ phase = "away"
  /\ phase' = "joining"
  /\ own' = {} /\ watcher' = {}
  /\ UNCHANGED <<seen, known, buffer, client, baffled, evicted>>

TellWatcher(c) ==
  /\ \E e \in checkCreatureAsKnown(seen, own, c) :
       /\ own' = e[1]
       /\ watcher' = Read(watcher, <<e[2]>>).set
       /\ evicted' = (evicted \/ e[2].forget # {})
  /\ UNCHANGED <<seen, known, buffer, client, phase, baffled>>

(* What it sees, and then, in syncKnownCreatureSets, the rest of what the  *)
(* caster was told of.                                                     *)
DescribeMap(c) ==
  /\ Joining
  /\ c \in seen \ watcher
  /\ TellWatcher(c)

syncKnownCreatureSets(c) ==
  /\ Joining
  /\ seen \subseteq watcher
  /\ c \in (known \ own) \ watcher
  /\ TellWatcher(c)

(* Faulty variant: a spectator is not told of what is out of sight.        *)
addSpectatorUnsynced ==
  /\ Joining
  /\ seen \subseteq watcher
  /\ phase' = "watching"
  /\ UNCHANGED <<seen, known, buffer, client, own, watcher, baffled, evicted>>

addSpectator ==
  /\ Joining
  /\ seen \subseteq watcher /\ known \ own \subseteq watcher
  /\ phase' = "watching"
  /\ UNCHANGED <<seen, known, buffer, client, own, watcher, baffled, evicted>>

(* The sight of so many that they do not fit: no more can be told.         *)
JoinCrowded ==
  /\ Joining /\ evicted
  /\ phase' = "watching"
  /\ UNCHANGED <<seen, known, buffer, client, own, watcher, baffled, evicted>>

StopSpectating ==
  /\ phase = "watching"
  /\ phase' = "away"
  /\ UNCHANGED <<seen, known, buffer, client, own, watcher, baffled, evicted>>

KnownNext ==
  \/ \E c \in Creature :
       \/ Describe(c) \/ LoseSight(c)
       \/ DescribeMap(c) \/ syncKnownCreatureSets(c)
  \/ SendBuffer \/ Spectate \/ addSpectator \/ JoinCrowded
  \/ StopSpectating

KnownSpec == KnownInit /\ [][KnownNext]_knownVars

-----------------------------------------------------------------------------
(* Properties *)

KnownTypeOK ==
  /\ seen \subseteq Creature /\ known \subseteq Creature
  /\ client \subseteq Creature /\ watcher \subseteq Creature
  /\ own \subseteq Creature
  /\ buffer \in Seq([creature : Creature, known : BOOLEAN,
                     forget : SUBSET Creature])
  /\ Len(buffer) <= MaxBuffer
  /\ phase \in {"away", "joining", "watching"}
  /\ baffled \subseteq {"caster", "spectator"}
  /\ evicted \in BOOLEAN

(* No client is named a creature that it was not told of: the caster's     *)
(* never, and a spectator's not as long as nobody had to forget any        *)
(* (checkCreatureAsKnown, syncKnownCreatureSets, broadcastMessage).        *)
NamedAreKnown ==
  /\ KnownTypeOK
  /\ "caster" \notin baffled
  /\ "spectator" \in baffled => evicted
=============================================================================
