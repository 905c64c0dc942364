---------------------------- MODULE DatabaseTasks ----------------------------
(***************************************************************************)
(* The database thread (newsrc/databasetasks.cpp, newsrc/databasetasks.h): *)
(* queries queued by the dispatcher and network threads, executed one by   *)
(* one, with an optional callback handed back to the dispatcher; and the   *)
(* shutdown, whose caller executes what is left itself.                    *)
(*                                                                         *)
(* A critical section under taskLock is one action, except that flush      *)
(* holds the lock over several queries: lockHeld says so.                  *)
(***************************************************************************)
EXTENDS Naturals, Sequences, FiniteSets

CONSTANTS
  Caller,       \* threads that add queries
  Query,        \* the queries; each is added at most once
  WithCallback, \* those that were given a callback
  NoQuery       \* no query is held by threadMain

VARIABLES
  threadState,  \* ThreadHolder::threadState
  tasks,        \* DatabaseTasks::tasks
  dbpc,         \* where the database thread is in threadMain
  task,         \* the query threadMain has popped, or NoQuery
  lockHeld,     \* shutdown holds taskLock while it flushes
  closing,      \* how far DatabaseTasks::shutdown has got
  notifying,    \* callers that released taskLock and have yet to notify_one
  submitted,    \* queries passed to addTask
  accepted,     \* those it queued, in the order it queued them
  executed,     \* queries the database has executed, in that order
  calledBack    \* queries whose callback was handed to the dispatcher

vars == <<threadState, tasks, dbpc, task, lockHeld, closing, notifying,
          submitted, accepted, executed, calledBack>>

history == <<submitted, accepted, executed, calledBack>>

ElementsOf(s) == {s[i] : i \in DOMAIN s}

(* threadMain: reading the loop condition, about to lock, asleep, woken,   *)
(* executing the popped query, about to post its callback, returned.       *)
DatabasePc == {"check", "lock", "wait", "woken", "run", "callback", "exit"}

Init ==
  /\ threadState = "RUNNING"
  /\ tasks = <<>>
  /\ dbpc = "check"
  /\ task = NoQuery
  /\ lockHeld = FALSE
  /\ closing = "no"
  /\ notifying = {}
  /\ submitted = {}
  /\ accepted = <<>>
  /\ executed = <<>>
  /\ calledBack = {}

-----------------------------------------------------------------------------
(* The database thread *)

CheckState ==
  /\ dbpc = "check"
  /\ dbpc' = IF threadState = "TERMINATED" THEN "exit" ELSE "lock"
  /\ UNCHANGED <<threadState, tasks, task, lockHeld, closing, notifying,
                 history>>

(* Faulty variant: the query is looked at but never taken off the list.    *)
TakeFirstKeeps ==
  /\ tasks # <<>>
  /\ task' = Head(tasks)
  /\ dbpc' = "run"
  /\ UNCHANGED <<threadState, tasks, lockHeld, closing, notifying, history>>

TakeFirst ==
  /\ tasks # <<>>
  /\ task' = Head(tasks)
  /\ tasks' = Tail(tasks)
  /\ dbpc' = "run"
  /\ UNCHANGED <<threadState, lockHeld, closing, notifying, history>>

LockAndLook ==
  /\ dbpc = "lock"
  /\ ~lockHeld
  /\ \/ TakeFirst
     \/ /\ tasks = <<>>
        /\ dbpc' = "wait"
        /\ UNCHANGED <<threadState, tasks, task, lockHeld, closing,
                       notifying, history>>

(* Faulty variant: the second look takes the wakeup for a query's arrival, *)
(* and front() of an empty list is undefined.                              *)
LookAgainUnchecked ==
  /\ dbpc = "woken"
  /\ ~lockHeld
  /\ \/ TakeFirst
     \/ /\ tasks = <<>>
        /\ dbpc' = "undefined"
        /\ UNCHANGED <<threadState, tasks, task, lockHeld, closing,
                       notifying, history>>

LookAgain ==
  /\ dbpc = "woken"
  /\ ~lockHeld
  /\ \/ TakeFirst
     \/ /\ tasks = <<>>
        /\ dbpc' = "check"
        /\ UNCHANGED <<threadState, tasks, task, lockHeld, closing,
                       notifying, history>>

SpuriousWakeup ==
  /\ dbpc = "wait"
  /\ dbpc' = "woken"
  /\ UNCHANGED <<threadState, tasks, task, lockHeld, closing, notifying,
                 history>>

(* runTask, first half: the query is executed outside taskLock.            *)
RunQuery ==
  /\ dbpc = "run"
  /\ executed' = Append(executed, task)
  /\ IF task \in WithCallback
     THEN dbpc' = "callback" /\ UNCHANGED task
     ELSE dbpc' = "check" /\ task' = NoQuery
  /\ UNCHANGED <<threadState, tasks, lockHeld, closing, notifying, submitted,
                 accepted, calledBack>>

(* runTask, second half: the callback becomes a task of the dispatcher.    *)
PostCallback ==
  /\ dbpc = "callback"
  /\ calledBack' = calledBack \cup {task}
  /\ task' = NoQuery
  /\ dbpc' = "check"
  /\ UNCHANGED <<threadState, tasks, lockHeld, closing, notifying, submitted,
                 accepted, executed>>

-----------------------------------------------------------------------------
(* The callers *)

(* Faulty variant: no signal is sent at all.                               *)
AddTaskSilent(c, q) ==
  /\ c \notin notifying
  /\ ~lockHeld
  /\ q \notin submitted
  /\ submitted' = submitted \cup {q}
  /\ IF threadState = "RUNNING"
     THEN /\ tasks' = Append(tasks, q)
          /\ accepted' = Append(accepted, q)
     ELSE UNCHANGED <<tasks, accepted>>
  /\ UNCHANGED <<threadState, dbpc, task, lockHeld, closing, notifying,
                 executed, calledBack>>

(* Faulty variant: the newest query goes first.                            *)
AddTaskFront(c, q) ==
  /\ c \notin notifying
  /\ ~lockHeld
  /\ q \notin submitted
  /\ submitted' = submitted \cup {q}
  /\ IF threadState = "RUNNING"
     THEN /\ tasks' = <<q>> \o tasks
          /\ accepted' = Append(accepted, q)
          /\ notifying' = IF tasks = <<>> THEN notifying \cup {c}
                                          ELSE notifying
     ELSE UNCHANGED <<tasks, accepted, notifying>>
  /\ UNCHANGED <<threadState, dbpc, task, lockHeld, closing, executed,
                 calledBack>>

(* addTask: a running thread's list takes the query, and the caller        *)
(* remembers to signal if the list was empty; otherwise the query is       *)
(* dropped without a word.                                                 *)
AddTask(c, q) ==
  /\ c \notin notifying
  /\ ~lockHeld
  /\ q \notin submitted
  /\ submitted' = submitted \cup {q}
  /\ IF threadState = "RUNNING"
     THEN /\ tasks' = Append(tasks, q)
          /\ accepted' = Append(accepted, q)
          /\ notifying' = IF tasks = <<>> THEN notifying \cup {c}
                                          ELSE notifying
     ELSE UNCHANGED <<tasks, accepted, notifying>>
  /\ UNCHANGED <<threadState, dbpc, task, lockHeld, closing, executed,
                 calledBack>>

NotifyOne(c) ==
  /\ c \in notifying
  /\ notifying' = notifying \ {c}
  /\ dbpc' = IF dbpc = "wait" THEN "woken" ELSE dbpc
  /\ UNCHANGED <<threadState, tasks, task, lockHeld, closing, history>>

(* ThreadHolder::stop, from Game::setGameState.                            *)
Stop ==
  /\ threadState = "RUNNING"
  /\ threadState' = "CLOSING"
  /\ UNCHANGED <<tasks, dbpc, task, lockHeld, closing, notifying, history>>

(* shutdown takes taskLock and sets the state under it.                    *)
ShutdownBegin ==
  /\ closing = "no"
  /\ closing' = "flushing"
  /\ lockHeld' = TRUE
  /\ threadState' = "TERMINATED"
  /\ UNCHANGED <<tasks, dbpc, task, notifying, history>>

(* Faulty variant: flush throws the remaining queries away.                *)
FlushDrops ==
  /\ closing = "flushing"
  /\ tasks # <<>>
  /\ tasks' = Tail(tasks)
  /\ UNCHANGED <<threadState, dbpc, task, lockHeld, closing, notifying,
                 history>>

(* Faulty variant: flush starts with the newest query.                     *)
FlushNewestFirst ==
  /\ closing = "flushing"
  /\ tasks # <<>>
  /\ LET newest == tasks[Len(tasks)]
     IN  /\ executed' = Append(executed, newest)
         /\ calledBack' = calledBack \cup ({newest} \cap WithCallback)
  /\ tasks' = SubSeq(tasks, 1, Len(tasks) - 1)
  /\ UNCHANGED <<threadState, dbpc, task, lockHeld, closing, notifying,
                 submitted, accepted>>

(* flush runs a query and hands over its callback on the calling thread,   *)
(* with taskLock held.                                                     *)
Flush ==
  /\ closing = "flushing"
  /\ tasks # <<>>
  /\ executed' = Append(executed, Head(tasks))
  /\ calledBack' = calledBack \cup ({Head(tasks)} \cap WithCallback)
  /\ tasks' = Tail(tasks)
  /\ UNCHANGED <<threadState, dbpc, task, lockHeld, closing, notifying,
                 submitted, accepted>>

ShutdownUnlock(c) ==
  /\ closing = "flushing"
  /\ tasks = <<>>
  /\ c \notin notifying
  /\ closing' = "flushed"
  /\ lockHeld' = FALSE
  /\ notifying' = notifying \cup {c}
  /\ UNCHANGED <<threadState, tasks, dbpc, task, history>>

DatabaseThread ==
  \/ CheckState
  \/ LockAndLook
  \/ LookAgain
  \/ RunQuery
  \/ PostCallback

ShutdownSteps == Flush \/ \E c \in Caller : ShutdownUnlock(c)

Next ==
  \/ DatabaseThread
  \/ SpuriousWakeup
  \/ Stop
  \/ ShutdownBegin
  \/ ShutdownSteps
  \/ \E c \in Caller : NotifyOne(c) \/ \E q \in Query : AddTask(c, q)

(* Threads that can run do run, and the database answers every query.      *)
Fairness ==
  /\ WF_vars(DatabaseThread)
  /\ WF_vars(ShutdownSteps)
  /\ \A c \in Caller : WF_vars(NotifyOne(c))

SafeSpec == Init /\ [][Next]_vars
Spec == SafeSpec /\ Fairness

-----------------------------------------------------------------------------
(* Properties *)

TypeOK ==
  /\ threadState \in {"TERMINATED", "RUNNING", "CLOSING"}
  /\ tasks \in Seq(Query)
  /\ dbpc \in DatabasePc
  /\ task \in Query \cup {NoQuery}
  /\ lockHeld \in BOOLEAN
  /\ closing \in {"no", "flushing", "flushed"}
  /\ notifying \subseteq Caller
  /\ submitted \subseteq Query
  /\ accepted \in Seq(Query)
  /\ executed \in Seq(Query)
  /\ calledBack \subseteq Query

(* Every accepted query is executed exactly once, whether by the thread or *)
(* by the flush of shutdown, which run side by side: the executed queries, *)
(* the one in flight and the queued ones partition the accepted ones.      *)
InFlight == IF dbpc = "run" THEN {task} ELSE {}

ExecutedExactlyOnce ==
  /\ Len(executed) + Cardinality(InFlight) + Len(tasks) = Len(accepted)
  /\ ElementsOf(executed) \cup InFlight \cup ElementsOf(tasks)
       = ElementsOf(accepted)

(* One query comes before another in a list.                               *)
Precedes(s, p, q) ==
  \E i, j \in DOMAIN s : i < j /\ s[i] = p /\ s[j] = q

InOrder(strays) ==
  \A p, q \in Query \ strays :
    Precedes(accepted, p, q) /\ q \in ElementsOf(executed)
      => Precedes(executed, p, q)

(* The database sees the queries in the order they were queued: a DELETE   *)
(* never overtakes the INSERT it follows (protocolgame.cpp,                *)
(* registerLiveCast and unregisterLiveCast).  With shutdown the order can  *)
(* break by the one query in flight, and by no other.                      *)
InOrderButInFlight ==
  \/ InOrder({})
  \/ closing # "no" /\ \E q \in Query : InOrder({q})

(* A queued query is executed: the signal that announces it is not lost    *)
(* (addTask against threadMain), and a shutdown executes what it finds.    *)
AcceptedIsExecuted ==
  \A q \in Query :
    q \in ElementsOf(accepted) ~> q \in ElementsOf(executed)
=============================================================================
