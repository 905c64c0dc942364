-------------------------------- MODULE Walk ---------------------------------
(***************************************************************************)
(* How a player walks (onWalk, startAutoWalk, addEventWalk and             *)
(* stopEventWalk of newsrc/creature.cpp; playerMove, playerAutoWalk and    *)
(* checkCreatureWalk of newsrc/game.cpp; setNextWalkActionTask,            *)
(* onWalkComplete and onWalkAborted of newsrc/player.cpp): a list of       *)
(* steps, a delayed event for the next one, and an action that waits for   *)
(* the end of the walk.  To stop an event that the scheduler has handed to *)
(* the dispatcher has no effect: it runs beside the one that replaced it.  *)
(***************************************************************************)
EXTENDS Integers, FiniteSets

CONSTANTS
  Event,     \* bound: walk events under way
  MaxSteps,  \* bound: the length of a walk
  None

VARIABLES
  steps,     \* the length of Creature::listWalkDir
  eventWalk, \* Creature::eventWalk, None for 0
  waiting,   \* events the scheduler keeps
  due,       \* events handed to the dispatcher
  rested,    \* getWalkDelay() <= 0
  cancel,    \* Creature::cancelNextWalk
  action,    \* Player::walkTask and walkTaskEvent: "none", "held", "timed"
  orders,    \* lengths of the walks in tasks of the dispatcher
  moved,     \* history: a teleport since the walk was ordered
  quiet      \* the player orders nothing more

vars == <<steps, eventWalk, waiting, due, rested, cancel, action, orders,
          moved, quiet>>

World == [steps |-> steps, eventWalk |-> eventWalk, waiting |-> waiting,
          due |-> due, rested |-> rested, cancel |-> cancel,
          action |-> action, moved |-> moved]

Become(w) ==
  /\ steps' = w.steps /\ eventWalk' = w.eventWalk /\ waiting' = w.waiting
  /\ due' = w.due /\ rested' = w.rested /\ cancel' = w.cancel
  /\ action' = w.action /\ moved' = w.moved

Init ==
  /\ steps = 0 /\ eventWalk = None /\ waiting = {} /\ due = {}
  /\ rested = TRUE /\ cancel = FALSE /\ action = "none" /\ orders = {}
  /\ moved = FALSE /\ quiet = FALSE

-----------------------------------------------------------------------------
(* What the steps are built from.  A creature that cannot move at all      *)
(* (getStepSpeed() <= 0) is left out.                                      *)

stopEventWalk(w) ==
  [w EXCEPT !.waiting = @ \ {w.eventWalk}, !.eventWalk = None]

Fresh(w) == CHOOSE e \in Event : e \notin w.waiting \cup w.due

(* addEventWalk, but for a first step at once.                             *)
addEventWalk(w) ==
  IF w.eventWalk # None THEN [w EXCEPT !.cancel = FALSE]
  ELSE [w EXCEPT !.cancel = FALSE, !.eventWalk = Fresh(w),
                 !.waiting = @ \cup {Fresh(w)}]

(* internalMoveCreature: the step is taken, or is not possible, or leads   *)
(* into a teleport.                                                        *)
Step(w) ==
  LET went == [w EXCEPT !.steps = @ - 1, !.rested = FALSE]
  IN  {went, [w EXCEPT !.steps = @ - 1],
       [stopEventWalk(went) EXCEPT !.moved = TRUE]}

(* getNextStep: what may come of it.                                       *)
NextStep(w) ==
  IF ~ w.rested THEN {w}
  ELSE IF w.steps > 0 THEN Step(w)
  ELSE {stopEventWalk([w EXCEPT
          !.action = IF @ = "held" THEN "timed" ELSE @])}

(* onWalkAborted: setNextWalkActionTask(nullptr).                          *)
Cancelled(w) ==
  IF w.cancel THEN [w EXCEPT !.steps = 0, !.cancel = FALSE, !.action = "none"]
  ELSE w

(* Faulty variant: the event that runs is still taken for the next one.    *)
onWalkKeep(w) ==
  {LET v == Cancelled(n)
   IN  IF v.eventWalk = None THEN v ELSE addEventWalk(v)
   : n \in NextStep(w)}

onWalk(w) ==
  {LET v == Cancelled(n)
   IN  IF v.eventWalk = None THEN v
       ELSE addEventWalk([v EXCEPT !.eventWalk = None])
   : n \in NextStep(w)}

(* startAutoWalk with n steps: one alone is taken at once, and the event   *)
(* is set all the same.                                                    *)
startAutoWalk(w, n) ==
  LET told == [w EXCEPT !.steps = n, !.cancel = FALSE, !.moved = FALSE]
  IN  IF n = 1 /\ w.rested /\ w.eventWalk = None
      THEN {addEventWalk([v EXCEPT !.eventWalk = None]) : v \in onWalk(told)}
      ELSE {addEventWalk(told)}

-----------------------------------------------------------------------------
(* Actions *)

Room == Cardinality(waiting \cup due) < Cardinality(Event)   \* bound

playerMove ==
  /\ Room /\ ~ quiet
  /\ \E w \in startAutoWalk([World EXCEPT !.action = "none"], 1) : Become(w)
  /\ UNCHANGED <<orders, quiet>>

(* A thing out of reach is used: a path to it, and the action at its end.  *)
FarAction(n) ==
  /\ orders = {} /\ ~ quiet
  /\ action' = "held"
  /\ orders' = {n}
  /\ UNCHANGED <<steps, eventWalk, waiting, due, rested, cancel, moved, quiet>>

(* A click on the map.                                                     *)
MapClick(n) ==
  /\ orders = {} /\ ~ quiet
  /\ orders' = {n}
  /\ UNCHANGED <<steps, eventWalk, waiting, due, rested, cancel, action,
                  moved, quiet>>

playerAutoWalk(n) ==
  /\ n \in orders /\ Room
  /\ orders' = orders \ {n}
  /\ \E w \in startAutoWalk(World, n) : Become(w)
  /\ UNCHANGED quiet

stopWalk ==
  /\ ~ quiet
  /\ cancel' = TRUE
  /\ UNCHANGED <<steps, eventWalk, waiting, due, rested, action, orders,
                  moved, quiet>>

(* onCreatureMove of a teleport that is no step of the walk.               *)
Teleport ==
  /\ ~ quiet
  /\ Become([stopEventWalk(World) EXCEPT !.rested = FALSE, !.moved = TRUE])
  /\ UNCHANGED <<orders, quiet>>

Rest ==
  /\ ~ rested
  /\ rested' = TRUE
  /\ UNCHANGED <<steps, eventWalk, waiting, due, cancel, action, orders,
                  moved, quiet>>

(* The scheduler hands the event to the dispatcher.                        *)
Expire(e) ==
  /\ e \in waiting
  /\ waiting' = waiting \ {e}
  /\ due' = due \cup {e}
  /\ UNCHANGED <<steps, eventWalk, rested, cancel, action, orders, moved,
                  quiet>>

checkCreatureWalk(e) ==
  /\ e \in due /\ (Room \/ eventWalk \in {None, e})
  /\ \E w \in onWalk([World EXCEPT !.due = @ \ {e}]) : Become(w)
  /\ UNCHANGED <<orders, quiet>>

(* The action runs.                                                        *)
RunAction ==
  /\ action = "timed"
  /\ action' = "none"
  /\ UNCHANGED <<steps, eventWalk, waiting, due, rested, cancel, orders,
                  moved, quiet>>

(* From now on the player waits.                                           *)
Wait ==
  /\ quiet' = TRUE
  /\ UNCHANGED <<steps, eventWalk, waiting, due, rested, cancel, action,
                 orders, moved>>

Next ==
  \/ Wait
  \/ playerMove \/ stopWalk \/ Teleport \/ Rest \/ RunAction
  \/ \E n \in 1 .. MaxSteps : FarAction(n) \/ MapClick(n) \/ playerAutoWalk(n)
  \/ \E e \in Event : Expire(e) \/ checkCreatureWalk(e)

Fairness ==
  /\ WF_vars(Rest) /\ WF_vars(RunAction)
  /\ \A n \in 1 .. MaxSteps : WF_vars(playerAutoWalk(n))
  /\ \A e \in Event : WF_vars(Expire(e)) /\ WF_vars(checkCreatureWalk(e))

Spec == Init /\ [][Next]_vars /\ Fairness

-----------------------------------------------------------------------------
(* Properties *)

TypeOK ==
  /\ steps \in 0 .. MaxSteps
  /\ eventWalk \in Event \cup {None}
  /\ waiting \cup due \subseteq Event
  /\ {rested, cancel, moved, quiet} \subseteq BOOLEAN
  /\ action \in {"none", "held", "timed"}
  /\ orders \subseteq 1 .. MaxSteps

(* A player that waits comes to the end of the walk, and the action that   *)
(* was to follow runs, unless a teleport ended the walk (onWalk).          *)
WalkEnds == quiet ~> (moved \/ (steps = 0 /\ action = "none"))
=============================================================================
