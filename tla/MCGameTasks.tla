----------------------------- MODULE MCGameTasks ------------------------------
(*****************************************************************************)
(* What players do with each other, each rule run by single tasks of the     *)
(* dispatcher thread: the waiting list, trading, parties with their chat     *)
(* channel, private channels, the creatures named in a live cast, and the    *)
(* conditions they are under.  No property speaks of two of them: the run    *)
(* takes up one at the start and leaves the others as they are, which shows  *)
(* the same as a run of each.  The type invariant of a part stands with the  *)
(* first of its properties.                                                  *)
(*                                                                           *)
(* Accounts: pr1 is premium, or1 and or2 are not, gm is a gamemaster.        *)
(* Traders: their items are two containers and two stacks, alike but for     *)
(* their names, as are the persons of all parts but the waiting list.        *)
(*****************************************************************************)
EXTENDS Trade, KnownCreatures, Conditions, Chat, WaitingList, TLC

CONSTANTS pr1, or1, or2, gm

MCDelta == {-1, 1, 2}

VARIABLE part

Part == {"waiting list", "trading", "party", "private channels", "live cast",
         "conditions"}

MCInit ==
  /\ Init /\ WaitInit /\ ChatInit /\ KnownInit /\ ConditionsInit
  /\ part \in Part

MCNext ==
  \/ part = "waiting list" /\ WaitNext
     /\ UNCHANGED <<part, vars, partyChatVars, knownVars, conditionVars>>
  \/ part = "trading" /\ Next
     /\ UNCHANGED <<part, waitVars, partyChatVars, knownVars, conditionVars>>
  \/ part = "party" /\ PartyChatNext
     /\ UNCHANGED <<part, vars, waitVars, knownVars, conditionVars>>
  \/ part = "private channels" /\ PrivateChatNext
     /\ UNCHANGED <<part, vars, waitVars, knownVars, conditionVars>>
  \/ part = "live cast" /\ KnownNext
     /\ UNCHANGED <<part, vars, waitVars, partyChatVars, conditionVars>>
  \/ part = "conditions" /\ ConditionsNext
     /\ UNCHANGED <<part, vars, waitVars, partyChatVars, knownVars>>

mcVars == <<part, vars, waitVars, partyChatVars, knownVars, conditionVars>>

MCSpec == MCInit /\ [][MCNext]_mcVars

Symmetry ==
  Permutations(Player) \cup Permutations(Container) \cup Permutations(Stack)

=============================================================================
