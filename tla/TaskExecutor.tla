---------------------------- MODULE TaskExecutor ----------------------------
(***************************************************************************)
(* What the rest of the server expects of an executor thread, without its  *)
(* lock, its condition variable and its polling loop: an accepted task     *)
(* waits in a deque, the executor takes the first one whenever it is free, *)
(* and it stops for good once it has run the task that tells it to stop.   *)
(* Dispatcher.tla is shown to implement this module.                       *)
(***************************************************************************)
EXTENDS Sequences

CONSTANTS
  Task,       \* the tasks callers may hand in
  StopTask,   \* the task whose execution stops the executor
  NoTask      \* "the executor is free"

VARIABLES
  pending,    \* accepted tasks, first to run first
  running,    \* the task being executed, or NoTask
  stopped     \* the stop task has been executed

vars == <<pending, running, stopped>>

Init ==
  /\ pending = <<>>
  /\ running = NoTask
  /\ stopped = FALSE

(* A task is in one place at a time, as a heap allocated Task object is.   *)
Absent(t) ==
  /\ t # running
  /\ \A i \in DOMAIN pending : pending[i] # t

SubmitBack(t) ==
  /\ Absent(t)
  /\ pending' = Append(pending, t)
  /\ UNCHANGED <<running, stopped>>

SubmitFront(t) ==
  /\ Absent(t)
  /\ pending' = <<t>> \o pending
  /\ UNCHANGED <<running, stopped>>

(* The free executor takes the oldest pending task, and no other.          *)
Start ==
  /\ ~stopped
  /\ running = NoTask
  /\ pending # <<>>
  /\ running' = Head(pending)
  /\ pending' = Tail(pending)
  /\ UNCHANGED stopped

Finish ==
  /\ running # NoTask
  /\ running' = NoTask
  /\ stopped' = (stopped \/ running = StopTask)
  /\ UNCHANGED pending

Next ==
  \/ \E t \in Task : SubmitBack(t) \/ SubmitFront(t)
  \/ SubmitBack(StopTask)
  \/ Start
  \/ Finish

(* Safety alone: the part of the promise that is proved for all constants. *)
SafeSpec == Init /\ [][Next]_vars

(* A pending task is started as soon as the executor is free: no wakeup is *)
(* lost and the executor never sleeps on a non-empty deque.                *)
Spec == SafeSpec /\ WF_vars(Start) /\ WF_vars(Finish)
=============================================================================
