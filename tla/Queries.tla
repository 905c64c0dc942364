------------------------------- MODULE Queries -------------------------------
(***************************************************************************)
(* The database thread under names of its own, so that it can stand beside *)
(* other threads (module DatabaseTasks, newsrc/databasetasks.cpp).         *)
(***************************************************************************)
EXTENDS Naturals, Sequences, FiniteSets

CONSTANTS
  QueryCaller,   \* threads that add queries
  Query,         \* the queries
  WithCallback,  \* those that were given a callback
  NoQuery        \* no query is held by the thread

VARIABLES
  bState, bTasks, bPc, bTask, bLockHeld, bClosing, bNotifying,
  bSubmitted, bAccepted, bExecuted, bCalledBack

B == INSTANCE DatabaseTasks WITH
       Caller <- QueryCaller,
       threadState <- bState, tasks <- bTasks, dbpc <- bPc, task <- bTask,
       lockHeld <- bLockHeld, closing <- bClosing, notifying <- bNotifying,
       submitted <- bSubmitted, accepted <- bAccepted,
       executed <- bExecuted, calledBack <- bCalledBack

bVars == <<bState, bTasks, bPc, bTask, bLockHeld, bClosing, bNotifying,
           bSubmitted, bAccepted, bExecuted, bCalledBack>>

QueriesSpec == B!SafeSpec

(* Every accepted query is executed exactly once, in order but for the one *)
(* in flight at shutdown (threadMain, flush).                              *)
QueriesRunOnce ==
  /\ B!TypeOK
  /\ B!ExecutedExactlyOnce
  /\ B!InOrderButInFlight
=============================================================================
