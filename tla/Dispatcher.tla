----------------------------- MODULE Dispatcher -----------------------------
(***************************************************************************)
(* The game's dispatcher thread (newsrc/tasks.cpp, newsrc/tasks.h) and the *)
(* threads that hand it tasks: the network thread, the scheduler, the      *)
(* database thread and the dispatcher itself, whose tasks add tasks.       *)
(*                                                                         *)
(* A critical section under taskLock is one action.  What happens outside  *)
(* the lock is a step of its own: reading the thread state in the loop     *)
(* condition, sleeping on taskSignal, calling notify_one after the unlock, *)
(* and executing a task.                                                   *)
(***************************************************************************)
EXTENDS Naturals, Sequences

CONSTANTS
  Caller,     \* the threads that call addTask and shutdown
  Self,       \* the dispatcher thread, which is one of them
  Task,       \* the Task objects in circulation
  Expiring,   \* those created with an expiration (DISPATCHER_TASK_EXPIRATION)
  StopTask,   \* the closure that Dispatcher::shutdown enqueues
  NoTask      \* no task is held by threadMain

ASSUME DispatcherAssumption ==
  /\ Self \in Caller
  /\ Expiring \subseteq Task
  /\ StopTask \notin Task
  /\ NoTask \notin Task \cup {StopTask}

VARIABLES
  threadState,  \* ThreadHolder::threadState
  taskList,     \* Dispatcher::taskList
  dpc,          \* where the dispatcher thread is in threadMain
  task,         \* the task threadMain has popped, or NoTask
  notifying     \* callers that released taskLock and have yet to notify_one

vars == <<threadState, taskList, dpc, task, notifying>>

ThreadState == {"TERMINATED", "RUNNING", "CLOSING"}

(* threadMain: reading the loop condition, about to lock, asleep on        *)
(* taskSignal, awake and holding the lock again, holding a popped task,    *)
(* executing it, returned.                                                 *)
DispatcherPc == {"check", "lock", "waiting", "woken", "taken", "run", "exit"}

Held == {task} \ {NoTask}
Queued == {taskList[i] : i \in DOMAIN taskList}

(* ThreadHolder::start, called by main before any other thread exists.     *)
Init ==
  /\ threadState = "RUNNING"
  /\ taskList = <<>>
  /\ dpc = "check"
  /\ task = NoTask
  /\ notifying = {}

-----------------------------------------------------------------------------
(* The dispatcher thread *)

CheckState ==
  /\ dpc = "check"
  /\ dpc' = IF threadState = "TERMINATED" THEN "exit" ELSE "lock"
  /\ UNCHANGED <<threadState, taskList, task, notifying>>

TakeFirst ==
  /\ taskList # <<>>
  /\ task' = Head(taskList)
  /\ taskList' = Tail(taskList)
  /\ dpc' = "taken"
  /\ UNCHANGED <<threadState, notifying>>

(* The first critical section: pop a task, or give up the lock and sleep.  *)
LockAndLook ==
  /\ dpc = "lock"
  /\ \/ TakeFirst
     \/ /\ taskList = <<>>
        /\ dpc' = "waiting"
        /\ UNCHANGED <<threadState, taskList, task, notifying>>

(* Faulty variant: the second look takes the wakeup for a task's arrival,  *)
(* and front() of an empty list is undefined.                              *)
LookAgainUnchecked ==
  /\ dpc = "woken"
  /\ \/ TakeFirst
     \/ /\ taskList = <<>>
        /\ dpc' = "undefined"
        /\ UNCHANGED <<threadState, taskList, task, notifying>>

(* The second look, after wait returned: the code tests emptiness once more *)
(* and goes back to the loop condition when there is still nothing.         *)
LookAgain ==
  /\ dpc = "woken"
  /\ \/ TakeFirst
     \/ /\ taskList = <<>>
        /\ dpc' = "check"
        /\ UNCHANGED <<threadState, taskList, task, notifying>>

(* std::condition_variable may return from wait without a notification.    *)
SpuriousWakeup ==
  /\ dpc = "waiting"
  /\ dpc' = "woken"
  /\ UNCHANGED <<threadState, taskList, task, notifying>>

(* hasExpired is false: the task is run.  It may be false for any task,    *)
(* and is always false for one that has no expiration.                     *)
BeginTask ==
  /\ dpc = "taken"
  /\ dpc' = "run"
  /\ UNCHANGED <<threadState, taskList, task, notifying>>

(* hasExpired is true: the task is deleted without having run.             *)
DiscardExpired ==
  /\ dpc = "taken"
  /\ task \in Expiring
  /\ dpc' = "check"
  /\ task' = NoTask
  /\ UNCHANGED <<threadState, taskList, notifying>>

(* Faulty variant: the closure of shutdown leaves the state at CLOSING.    *)
EndTaskKeepsState ==
  /\ dpc = "run"
  /\ Self \notin notifying
  /\ dpc' = "check"
  /\ task' = NoTask
  /\ UNCHANGED <<threadState, taskList, notifying>>

(* The task returns; the closure of shutdown has set the thread state by   *)
(* then.  Its notify_one finds nobody asleep: the only thread that waits   *)
(* on taskSignal is the one running it.                                    *)
EndTask ==
  /\ dpc = "run"
  /\ Self \notin notifying
  /\ dpc' = "check"
  /\ task' = NoTask
  /\ threadState' = IF task = StopTask THEN "TERMINATED" ELSE threadState
  /\ UNCHANGED <<taskList, notifying>>

(* ThreadHolder::stop: Game::setGameState calls it from a task and does    *)
(* not take taskLock.                                                      *)
Stop ==
  /\ dpc = "run"
  /\ task # StopTask
  /\ threadState' = "CLOSING"
  /\ UNCHANGED <<taskList, dpc, task, notifying>>

-----------------------------------------------------------------------------
(* The callers *)

(* A thread is in one call at a time, and the dispatcher thread only calls *)
(* from inside a task.                                                     *)
MayCall(c) ==
  /\ c \notin notifying
  /\ c = Self => dpc = "run" /\ task # StopTask

(* Faulty variant: the emptiness test is made after the push, so the call  *)
(* never signals.                                                          *)
AddTaskTestsAfterPush(c, t, pushFront) ==
  /\ MayCall(c)
  /\ t \notin Queued \cup Held
  /\ IF threadState = "RUNNING"
     THEN taskList' = IF pushFront THEN <<t>> \o taskList
                                   ELSE Append(taskList, t)
     ELSE UNCHANGED taskList
  /\ UNCHANGED <<threadState, dpc, task, notifying>>

(* addTask: under taskLock, a running dispatcher takes the task (and the   *)
(* caller remembers to signal if the list was empty); any other deletes it.*)
AddTask(c, t, pushFront) ==
  /\ MayCall(c)
  /\ t \notin Queued \cup Held
  /\ IF threadState = "RUNNING"
     THEN /\ taskList' = IF pushFront THEN <<t>> \o taskList
                                      ELSE Append(taskList, t)
          /\ notifying' = IF taskList = <<>> THEN notifying \cup {c}
                                             ELSE notifying
     ELSE UNCHANGED <<taskList, notifying>>
  /\ UNCHANGED <<threadState, dpc, task>>

(* taskSignal.notify_one: the dispatcher thread is the only waiter.        *)
NotifyOne(c) ==
  /\ c \in notifying
  /\ notifying' = notifying \ {c}
  /\ dpc' = IF dpc = "waiting" THEN "woken" ELSE dpc
  /\ UNCHANGED <<threadState, taskList, task>>

(* Faulty variant: the stop task overtakes the tasks accepted before it.   *)
ShutdownAtOnce(c) ==
  /\ MayCall(c)
  /\ threadState # "TERMINATED"
  /\ StopTask \notin Queued \cup Held
  /\ taskList' = <<StopTask>> \o taskList
  /\ dpc' = IF dpc = "waiting" THEN "woken" ELSE dpc
  /\ UNCHANGED <<threadState, task, notifying>>

(* Dispatcher::shutdown: the stop task goes to the back whatever the state *)
(* is, and the notification is sent with the lock still held, so that a    *)
(* sleeping dispatcher is woken in the same step.                          *)
Shutdown(c) ==
  /\ MayCall(c)
  /\ threadState # "TERMINATED"
  /\ StopTask \notin Queued \cup Held
  /\ taskList' = Append(taskList, StopTask)
  /\ dpc' = IF dpc = "waiting" THEN "woken" ELSE dpc
  /\ UNCHANGED <<threadState, task, notifying>>

DispatcherThread ==
  \/ CheckState
  \/ LockAndLook
  \/ LookAgain
  \/ BeginTask
  \/ DiscardExpired
  \/ EndTask

Next ==
  \/ DispatcherThread
  \/ SpuriousWakeup
  \/ Stop
  \/ \E c \in Caller :
       \/ NotifyOne(c)
       \/ Shutdown(c)
       \/ \E t \in Task, pushFront \in BOOLEAN : AddTask(c, t, pushFront)

(* The operating system runs every thread that can run: the dispatcher     *)
(* thread keeps going, every task handler returns, and a caller that left  *)
(* the lock reaches its notify_one.  Nobody is obliged to add a task, to   *)
(* stop the server or to wake up spuriously.                               *)
Fairness ==
  /\ WF_vars(DispatcherThread)
  /\ \A c \in Caller : WF_vars(NotifyOne(c))

SafeSpec == Init /\ [][Next]_vars
Spec == SafeSpec /\ Fairness

-----------------------------------------------------------------------------
(* Properties *)

TypeOK ==
  /\ threadState \in ThreadState
  /\ taskList \in Seq(Task \cup {StopTask})
  /\ dpc \in DispatcherPc
  /\ task \in Task \cup {StopTask, NoTask}
  /\ notifying \subseteq Caller

(* No wakeup is lost.  addTask signals after the unlock and only when it   *)
(* found the list empty, so a dispatcher asleep over a non-empty list must *)
(* have a caller on its way to notify_one (tasks.cpp, addTask against      *)
(* threadMain).                                                            *)
NoLostWakeup ==
  dpc = "waiting" /\ taskList # <<>> => notifying # {}

(* The dispatcher implements the executor: tasks are started one at a time *)
(* from the head of the deque, and a pending task is started even though   *)
(* the signal that announces it travels separately from it.                *)
Exec == INSTANCE TaskExecutor WITH
          pending <- taskList,
          running <- task,
          stopped <- threadState = "TERMINATED"

ImplementsExecutor == Exec!Spec

(* Once the dispatcher refuses new tasks, a queued stop task is reached and *)
(* threadMain returns: the tasks in front of it are finitely many.          *)
ShutdownCompletes ==
  threadState = "CLOSING" /\ StopTask \in Queued ~> dpc = "exit"
=============================================================================
