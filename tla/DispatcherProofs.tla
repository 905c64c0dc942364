-------------------------- MODULE DispatcherProofs --------------------------
(***************************************************************************)
(* Theorems about Dispatcher, for every set of callers and of tasks.       *)
(***************************************************************************)
EXTENDS Dispatcher, TLAPS

(* The inductive invariant: besides the types, a task is held exactly in   *)
(* the two places where threadMain has one, and a terminated dispatcher is *)
(* at its loop condition or past it.  The second and third conjuncts are   *)
(* what maps the program counter to the executor's "running" and "stopped".*)
HeldExactlyWhenTaken == (task # NoTask) <=> dpc \in {"taken", "run"}
TerminatedIsLast == threadState = "TERMINATED" => dpc \in {"check", "exit"}

IInv ==
  /\ TypeOK
  /\ NoLostWakeup
  /\ HeldExactlyWhenTaken
  /\ TerminatedIsLast

LEMMA InitIInv == Init => IInv
BY DispatcherAssumption
   DEF Init, IInv, TypeOK, NoLostWakeup, HeldExactlyWhenTaken,
       TerminatedIsLast, ThreadState, DispatcherPc

(* Taking the first task keeps the invariant wherever the code does it.    *)
LEMMA TakeFirstIInv ==
  ASSUME IInv, dpc \in {"lock", "woken"}, TakeFirst
  PROVE  IInv'
<1>1. /\ taskList \in Seq(Task \cup {StopTask})
      /\ taskList # <<>>
  BY DEF IInv, TypeOK, TakeFirst
<1>2. /\ Head(taskList) \in Task \cup {StopTask}
      /\ Tail(taskList) \in Seq(Task \cup {StopTask})
  BY <1>1
<1>3. TypeOK'
  BY <1>2 DEF IInv, TypeOK, TakeFirst, DispatcherPc
<1>4. NoLostWakeup' /\ HeldExactlyWhenTaken'
  BY <1>2, DispatcherAssumption
     DEF NoLostWakeup, HeldExactlyWhenTaken, TakeFirst
<1>5. TerminatedIsLast'
  BY DEF IInv, TerminatedIsLast, TakeFirst
<1> QED
  BY <1>3, <1>4, <1>5 DEF IInv

LEMMA NextIInv == IInv /\ [Next]_vars => IInv'
<1> SUFFICES ASSUME IInv, [Next]_vars
             PROVE  IInv'
  OBVIOUS
<1> USE DEF IInv, TypeOK, NoLostWakeup, HeldExactlyWhenTaken,
            TerminatedIsLast, ThreadState, DispatcherPc
<1>1. CASE CheckState
  BY <1>1 DEF CheckState
<1>2. CASE LockAndLook
  <2>1. CASE TakeFirst
    BY <1>2, <2>1, TakeFirstIInv DEF LockAndLook
  <2>2. CASE taskList = <<>> /\ dpc' = "waiting"
             /\ UNCHANGED <<threadState, taskList, task, notifying>>
    BY <1>2, <2>2 DEF LockAndLook
  <2> QED
    BY <1>2, <2>1, <2>2 DEF LockAndLook
<1>3. CASE LookAgain
  <2>1. CASE TakeFirst
    BY <1>3, <2>1, TakeFirstIInv DEF LookAgain
  <2>2. CASE taskList = <<>> /\ dpc' = "check"
             /\ UNCHANGED <<threadState, taskList, task, notifying>>
    BY <1>3, <2>2 DEF LookAgain
  <2> QED
    BY <1>3, <2>1, <2>2 DEF LookAgain
<1>4. CASE BeginTask
  BY <1>4 DEF BeginTask
<1>5. CASE DiscardExpired
  BY <1>5 DEF DiscardExpired
<1>6. CASE EndTask
  BY <1>6 DEF EndTask
<1>7. CASE SpuriousWakeup
  BY <1>7 DEF SpuriousWakeup
<1>8. CASE Stop
  BY <1>8 DEF Stop
<1>9. ASSUME NEW c \in Caller, NotifyOne(c)
      PROVE  IInv'
  BY <1>9 DEF NotifyOne
<1>10. ASSUME NEW c \in Caller, Shutdown(c)
       PROVE  IInv'
  <2>1. taskList' \in Seq(Task \cup {StopTask})
    BY <1>10 DEF Shutdown
  <2> QED
    BY <1>10, <2>1 DEF Shutdown
<1>11. ASSUME NEW c \in Caller, NEW t \in Task, NEW pushFront \in BOOLEAN,
              AddTask(c, t, pushFront)
       PROVE  IInv'
  <2>1. /\ <<t>> \o taskList \in Seq(Task \cup {StopTask})
        /\ Append(taskList, t) \in Seq(Task \cup {StopTask})
    OBVIOUS
  <2>2. TypeOK'
    BY <1>11, <2>1 DEF AddTask
  <2>3. NoLostWakeup'
    BY <1>11 DEF AddTask
  <2>4. HeldExactlyWhenTaken' /\ TerminatedIsLast'
    BY <1>11 DEF AddTask
  <2> QED
    BY <2>2, <2>3, <2>4
<1>12. CASE UNCHANGED vars
  BY <1>12 DEF vars
<1> QED
  BY <1>1, <1>2, <1>3, <1>4, <1>5, <1>6, <1>7, <1>8, <1>9, <1>10, <1>11,
     <1>12 DEF Next, DispatcherThread

THEOREM IInvHolds == SafeSpec => []IInv
BY InitIInv, NextIInv, PTL DEF SafeSpec

(* Every reachable state of the dispatcher is well typed.                  *)
THEOREM TypeCorrect == SafeSpec => []TypeOK
<1>1. IInv => TypeOK
  BY DEF IInv
<1> QED
  BY <1>1, IInvHolds, PTL

(* However many threads add tasks, a dispatcher asleep over a non-empty    *)
(* list always has a notification on its way (tasks.cpp, addTask).         *)
THEOREM NoLostWakeupHolds == SafeSpec => []NoLostWakeup
<1>1. IInv => NoLostWakeup
  BY DEF IInv
<1> QED
  BY <1>1, IInvHolds, PTL

-----------------------------------------------------------------------------
(* Refinement *)

LEMMA AbsentOutside ==
  ASSUME NEW t, t \notin Queued \cup Held, t # NoTask
  PROVE  Exec!Absent(t)
BY DEF Exec!Absent, Queued, Held

LEMMA InitRefines == Init => Exec!Init
BY DEF Init, Exec!Init

LEMMA StepRefines ==
  ASSUME IInv, [Next]_vars
  PROVE  [Exec!Next]_(Exec!vars)
<1> USE DEF IInv, HeldExactlyWhenTaken, TerminatedIsLast
<1>1. CASE CheckState
  BY <1>1 DEF CheckState, Exec!vars
<1>2. ASSUME dpc \in {"lock", "woken"}, TakeFirst
      PROVE  Exec!Start
  BY <1>2 DEF TakeFirst, Exec!Start
<1>3. CASE LockAndLook
  BY <1>2, <1>3 DEF LockAndLook, Exec!Next, Exec!vars
<1>4. CASE LookAgain
  BY <1>2, <1>4 DEF LookAgain, Exec!Next, Exec!vars
<1>5. CASE BeginTask
  BY <1>5 DEF BeginTask, Exec!vars
<1>6. CASE DiscardExpired
  BY <1>6, DispatcherAssumption DEF DiscardExpired, Exec!Finish, Exec!Next
<1>7. CASE EndTask
  BY <1>7 DEF EndTask, Exec!Finish, Exec!Next
<1>8. CASE SpuriousWakeup
  BY <1>8 DEF SpuriousWakeup, Exec!vars
<1>9. CASE Stop
  BY <1>9 DEF Stop, Exec!vars
<1>10. ASSUME NEW c \in Caller, NotifyOne(c)
       PROVE  UNCHANGED Exec!vars
  BY <1>10 DEF NotifyOne, Exec!vars
<1>11. ASSUME NEW c \in Caller, Shutdown(c)
       PROVE  Exec!SubmitBack(StopTask)
  BY <1>11, AbsentOutside, DispatcherAssumption
     DEF Shutdown, Exec!SubmitBack
<1>12. ASSUME NEW c \in Caller, NEW t \in Task, NEW pushFront \in BOOLEAN,
              AddTask(c, t, pushFront)
       PROVE  Exec!SubmitBack(t) \/ Exec!SubmitFront(t) \/ UNCHANGED Exec!vars
  <2>1. Exec!Absent(t)
    BY <1>12, AbsentOutside, DispatcherAssumption DEF AddTask
  <2> QED
    BY <1>12, <2>1 DEF AddTask, Exec!SubmitBack, Exec!SubmitFront, Exec!vars
<1>13. CASE UNCHANGED vars
  BY <1>13 DEF vars, Exec!vars
<1> QED
  BY <1>1, <1>3, <1>4, <1>5, <1>6, <1>7, <1>8, <1>9, <1>10, <1>11, <1>12,
     <1>13 DEF Next, DispatcherThread, Exec!Next

(* The dispatcher's steps are steps of the executor or leave it unchanged. *)
THEOREM ImplementsExecutorSafety == SafeSpec => Exec!SafeSpec
<1>1. IInv /\ [Next]_vars => [Exec!Next]_(Exec!vars)
  BY StepRefines
<1> QED
  BY <1>1, InitRefines, IInvHolds, PTL DEF SafeSpec, Exec!SafeSpec
=============================================================================
