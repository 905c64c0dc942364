------------------------------ MODULE MCTimers ------------------------------
(***************************************************************************)
(* The scheduler thread, and what lives on its delayed events: spawns and  *)
(* walking; and the search for a path to walk.  They share no state and no *)
(* property speaks of two of them, so that a behaviour of all together     *)
(* shows nothing more than each alone.  The run takes up one at the start  *)
(* and leaves the others in a state in which no action of theirs that must *)
(* be fair is enabled, but for the scheduler, whose fairness is assumed    *)
(* only where it runs.  There is no symmetry: several properties are about *)
(* liveness.                                                               *)
(***************************************************************************)
EXTENDS Scheduler, Spawn

CONSTANT WalkEvent

(* A path leads over a map with up to two walls, to a cell near one of two *)
(* targets, one of them behind what may be slow or hide it.                *)
Cells == (1 .. 4) \X (1 .. 3)
Queries ==
  {q \in [target : {<<3, 3>>, <<4, 1>>}, minTargetDist : {0, 1},
          maxTargetDist : {0, 1, 2}, fullPathSearch : BOOLEAN,
          maxSearchDist : {0, 3}] :
     /\ q.minTargetDist = (IF q.maxTargetDist = 2 THEN 1 ELSE 0)
     /\ q.maxSearchDist = (IF q.fullPathSearch THEN 3 ELSE 0)}
Layouts ==
  [walls : {{c, d} \ {<<1, 1>>} : c \in Cells, d \in Cells},
   slow : {{}, {<<2, 2>>}}, hidden : {{<<2, 3>>}}]

VARIABLES
  part,
  steps, eventWalk, waiting, expired, rested, cancel, action, orders, moved,
  quiet,
  fpp, map, nodes, closedNodes, bestMatch, found, result

W == INSTANCE Walk WITH
       Event <- WalkEvent, MaxSteps <- 2, None <- NoEvent, due <- expired
F == INSTANCE PathFinding WITH
       Width <- 4, Height <- 3, Start <- <<1, 1>>, Query <- Queries,
       Layout <- Layouts, ExtraCost <- 30, MaxNodes <- 11, MaxClosed <- 9

walking == <<steps, eventWalk, waiting, expired, rested, cancel, action,
             orders, moved, quiet>>
paths == <<fpp, map, nodes, closedNodes, bestMatch, found, result>>

Part == {"scheduler", "spawn", "walk", "paths"}

MCInit ==
  /\ part \in Part
  /\ IF part = "paths" THEN F!Init
     ELSE F!Begin(CHOOSE q \in Queries : TRUE, CHOOSE l \in Layouts : TRUE)
  /\ Init /\ SpawnInit /\ W!Init
  /\ part = "spawn" \/ lost = Cardinality(Block)  \* the rest need one state

MCNext ==
  \/ part = "scheduler" /\ Next
     /\ UNCHANGED <<part, spawnVars, walking, paths>>
  \/ part = "spawn" /\ SpawnNext
     /\ UNCHANGED <<part, vars, walking, paths>>
  \/ part = "walk" /\ W!Next
     /\ UNCHANGED <<part, vars, spawnVars, paths>>
  \/ part = "paths" /\ F!Next
     /\ UNCHANGED <<part, vars, spawnVars, walking>>

MCFairness ==
  /\ part = "scheduler" => Fairness
  /\ SpawnFairness
  /\ W!Fairness

mcVars == <<part, vars, spawnVars, walking, paths>>

MCSpec == MCInit /\ [][MCNext]_mcVars /\ MCFairness

-----------------------------------------------------------------------------
(* Properties: those of Scheduler and Spawn, of the others by their names,  *)
(* the type invariant of each with its first property.                     *)

(* The search finds a cheapest path to what is wanted most, if there is    *)
(* one and the search is not cut short (getPathMatching).                  *)
PathIsBest ==
  /\ part = "paths" => F!TypeOK
  /\ part = "paths" => F!PathIsBest

(* Chains of events go on: an event that nobody stops is dispatched, an    *)
(* empty block is filled again, and a player that waits comes to the end   *)
(* of its walk (threadMain, checkSpawn, onWalk).                           *)
ChainsGoOn ==
  /\ []W!TypeOK
  /\ EventuallyDispatched
  /\ EmptyIsRefilled
  /\ W!WalkEnds
=============================================================================
