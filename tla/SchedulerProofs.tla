--------------------------- MODULE SchedulerProofs ---------------------------
(***************************************************************************)
(* Theorems about Scheduler, for every set of callers and events, every    *)
(* delay and every width of the event ids.                                 *)
(***************************************************************************)
EXTENDS Scheduler, FiniteSetTheorems, TLAPS

Listed == \A e \in eventList : eventId[e] # 0

ClearedIsEmpty ==
  /\ closing # "no" => threadState = "TERMINATED"
  /\ closing = "cleared" => eventList = {}

(* The deadline that wait_until was given stays due for some event: the    *)
(* events in the queue only leave it by PopTop, which this thread executes *)
(* itself, and by shutdown.                                                *)
DeadlineCovered ==
  /\ spc = "wait" => deadline = NoDeadline
  /\ spc = "waitUntil" => deadline # NoDeadline
  /\ spc \in {"waitUntil", "awake"} /\ deadline # NoDeadline =>
       closing = "cleared" \/ \E e \in eventList : cycle[e] <= deadline

(* What was popped or dispatched has been added, so its cycle is fixed.    *)
HandedOver == dispatched \cup ({popped} \ {NoEvent})

HandedOverIsDue == \A e \in HandedOver : eventId[e] # 0 /\ cycle[e] <= now

PoppedInDispatch == spc = "dispatch" => popped \in Event

(* The inductive invariant.  NeverEarly is a part of HandedOverIsDue: the  *)
(* event at the top when the deadline passes is due because some event     *)
(* with a cycle up to the deadline is still in the queue.                  *)
IInv ==
  /\ TypeOK
  /\ SleepsNoLongerThanTop
  /\ Listed
  /\ ClearedIsEmpty
  /\ DeadlineCovered
  /\ HandedOverIsDue
  /\ PoppedInDispatch

LEMMA NextEventIdType ==
  ASSUME lastEventId \in 0 .. MaxId
  PROVE  NextEventId \in 1 .. MaxId
BY SchedulerAssumption DEF NextEventId

LEMMA InitIInv == Init => IInv
BY SchedulerAssumption
   DEF Init, IInv, TypeOK, SleepsNoLongerThanTop, Listed, ClearedIsEmpty,
       DeadlineCovered, HandedOverIsDue, HandedOver, PoppedInDispatch,
       SchedulerPc

LEMMA AddEventIInv ==
  ASSUME IInv, NEW c \in Caller, NEW e \in Event,
         NEW due \in now .. now + MaxDelay, AddEvent(c, e, due)
  PROVE  IInv'
<1> USE SchedulerAssumption
<1>1. NextEventId \in 1 .. MaxId
  BY NextEventIdType DEF IInv, TypeOK
<1>2. due \in Nat
  BY DEF IInv, TypeOK
<1>3. e \notin eventList /\ e \notin HandedOver
  BY DEF IInv, Listed, HandedOverIsDue, AddEvent
<1>4. \A f \in Event :
        f # e => cycle'[f] = cycle[f] /\ eventId'[f] = eventId[f]
  BY DEF IInv, TypeOK, AddEvent
<1>5. cycle'[e] = due /\ eventId'[e] = NextEventId
  BY DEF IInv, TypeOK, AddEvent
<1>6. TypeOK'
  BY <1>1, <1>2 DEF IInv, TypeOK, AddEvent, thread
<1>7. SleepsNoLongerThanTop'
  <2>1. CASE spc = "wait"
    BY <2>1 DEF IInv, SleepsNoLongerThanTop, AddEvent, thread
  <2>2. CASE spc = "waitUntil" /\ notifying = {} /\ notifying' = {}
    <3>1. PICK f \in eventList : cycle[f] <= due
      BY <2>2, <1>2 DEF IInv, TypeOK, AddEvent
    <3>2. \A g \in eventList : deadline <= cycle[g]
      BY <2>2 DEF IInv, SleepsNoLongerThanTop
    <3>3. deadline \in Nat
      BY <2>2 DEF IInv, TypeOK, DeadlineCovered
    <3>4. deadline <= due
      BY <3>1, <3>2, <3>3, <1>2 DEF IInv, TypeOK
    <3> QED
      BY <2>2, <3>2, <3>4, <1>3, <1>4, <1>5
         DEF IInv, TypeOK, SleepsNoLongerThanTop, AddEvent, thread
  <2>3. CASE spc = "waitUntil" /\ notifying' # {}
    BY <2>3 DEF SleepsNoLongerThanTop, AddEvent, thread
  <2> QED
    BY <2>1, <2>2, <2>3
       DEF IInv, TypeOK, SleepsNoLongerThanTop, AddEvent, thread
<1>8. Listed'
  BY <1>1, <1>4, <1>5 DEF IInv, TypeOK, Listed, AddEvent
<1>9. ClearedIsEmpty'
  BY DEF IInv, ClearedIsEmpty, AddEvent
<1>10. DeadlineCovered'
  BY <1>3, <1>4 DEF IInv, TypeOK, DeadlineCovered, AddEvent, thread
<1>11. HandedOverIsDue' /\ PoppedInDispatch'
  BY <1>3, <1>4
     DEF IInv, TypeOK, HandedOverIsDue, HandedOver, PoppedInDispatch,
         AddEvent, thread
<1> QED
  BY <1>6, <1>7, <1>8, <1>9, <1>10, <1>11 DEF IInv

LEMMA PopTopIInv == ASSUME IInv, PopTop PROVE IInv'
<1> USE SchedulerAssumption
<1>1. PICK e \in eventList :
        /\ IsTop(e)
        /\ eventList' = eventList \ {e}
        /\ IF eventId[e] \in eventIds
           THEN /\ eventIds' = eventIds \ {eventId[e]}
                /\ spc' = "dispatch"
                /\ popped' = e
           ELSE /\ spc' = "check"
                /\ UNCHANGED <<eventIds, popped>>
  BY DEF PopTop, IsTop
<1>2. cycle[e] <= now
  <2>1. PICK f \in eventList : cycle[f] <= deadline
    BY <1>1 DEF IInv, DeadlineCovered, ClearedIsEmpty, PopTop, TimedOut
  <2> QED
    BY <1>1, <2>1 DEF IInv, TypeOK, IsTop, PopTop, TimedOut
<1>3. eventId[e] # 0
  BY <1>1 DEF IInv, Listed
<1>4. TypeOK'
  BY <1>1 DEF IInv, TypeOK, PopTop, naming, SchedulerPc
<1>5. HandedOverIsDue' /\ PoppedInDispatch'
  BY <1>1, <1>2, <1>3
     DEF IInv, TypeOK, HandedOverIsDue, HandedOver, PoppedInDispatch, PopTop,
         naming
<1>6. SleepsNoLongerThanTop' /\ Listed' /\ ClearedIsEmpty' /\ DeadlineCovered'
  BY <1>1 DEF IInv, SleepsNoLongerThanTop, Listed, ClearedIsEmpty,
              DeadlineCovered, PopTop, naming
<1> QED
  BY <1>4, <1>5, <1>6 DEF IInv

LEMMA NextIInv == IInv /\ [Next]_vars => IInv'
<1> SUFFICES ASSUME IInv, [Next]_vars
             PROVE  IInv'
  OBVIOUS
<1> USE SchedulerAssumption
    DEF IInv, TypeOK, SleepsNoLongerThanTop, Listed, ClearedIsEmpty,
        DeadlineCovered, HandedOverIsDue, HandedOver, PoppedInDispatch,
        SchedulerPc, lists, naming, thread
<1>1. CASE CheckState
  BY <1>1 DEF CheckState
<1>2. CASE LockAndSleep
  BY <1>2 DEF LockAndSleep, IsTop
<1>3. CASE Wake
  BY <1>3 DEF Wake
<1>4. CASE NoTimeout
  BY <1>4 DEF NoTimeout
<1>5. CASE PopTop
  BY <1>5, PopTopIInv
<1>6. CASE PopEmpty
  BY <1>6 DEF PopEmpty
<1>7. CASE Dispatch
  BY <1>7 DEF Dispatch
<1>8. CASE Tick
  BY <1>8 DEF Tick
<1>9. CASE Stop
  BY <1>9 DEF Stop
<1>10. CASE ShutdownTerminate
  BY <1>10 DEF ShutdownTerminate
<1>11. ASSUME NEW c \in Caller, NotifyOne(c)
       PROVE  IInv'
  BY <1>11 DEF NotifyOne
<1>12. ASSUME NEW c \in Caller, ShutdownClear(c)
       PROVE  IInv'
  BY <1>12 DEF ShutdownClear
<1>13. ASSUME NEW c \in Caller, NEW e \in Event, StopEvent(c, e)
       PROVE  IInv'
  BY <1>13 DEF StopEvent
<1>14. ASSUME NEW c \in Caller, NEW e \in Event,
              NEW due \in now .. now + MaxDelay, AddEvent(c, e, due)
       PROVE  IInv'
  BY <1>14, AddEventIInv
<1>15. CASE UNCHANGED vars
  BY <1>15 DEF vars
<1> QED
  BY <1>1, <1>2, <1>3, <1>4, <1>5, <1>6, <1>7, <1>8, <1>9, <1>10, <1>11,
     <1>12, <1>13, <1>14, <1>15
     DEF Next, SchedulerThread, SpuriousWakeup, TimerExpires

LEMMA IInvHolds == SafeSpec => []IInv
<1> QED
  BY InitIInv, NextIInv, PTL DEF SafeSpec

(* Every variable has its type in every reachable state of the scheduler.  *)
THEOREM TypeCorrect == SafeSpec => []TypeOK
<1>1. IInv => TypeOK
  BY DEF IInv
<1> QED
  BY <1>1, IInvHolds, PTL

(* The scheduler thread never oversleeps for want of a signal: addEvent    *)
(* signals exactly when the new event became the top of the queue.         *)
THEOREM SleepsNoLongerThanTopHolds == SafeSpec => []SleepsNoLongerThanTop
<1>1. IInv => SleepsNoLongerThanTop
  BY DEF IInv
<1> QED
  BY <1>1, IInvHolds, PTL

(* threadMain never hands over an event before its cycle, although the     *)
(* event it pops need not be the one it went to sleep for.                 *)
THEOREM NeverEarlyHolds == SafeSpec => []NeverEarly
<1>1. IInv => NeverEarly
  BY DEF IInv, HandedOverIsDue, HandedOver, NeverEarly
<1> QED
  BY <1>1, IInvHolds, PTL

(* Until shutdown empties the queue, threadMain finds an event when the    *)
(* wait timed out: the one it waited for is still there, stopped or not,   *)
(* or an earlier one is.                                                   *)
THEOREM TimeoutHasEventHolds == SafeSpec => []TimeoutHasEvent
<1>1. IInv => TimeoutHasEvent
  BY DEF IInv, DeadlineCovered, TimeoutHasEvent, TimedOut
<1> QED
  BY <1>1, IInvHolds, PTL

-----------------------------------------------------------------------------
(* Cancellation *)

(* A stopped event and one that was handed over have both lost their id.   *)
StoppedInv ==
  /\ \A e \in stopped : eventId[e] # 0 /\ eventId[e] \notin eventIds
  /\ \A e \in HandedOver : eventId[e] \notin eventIds
  /\ stopped \cap HandedOver = {}

LEMMA InitStopped == Init => StoppedInv
BY DEF Init, StoppedInv, HandedOver

LEMMA NextStopped ==
  IInv /\ IInv' /\ DistinctIds /\ DistinctIds' /\ StoppedInv /\ [Next]_vars
    => StoppedInv'
<1> SUFFICES ASSUME IInv, IInv', DistinctIds, DistinctIds', StoppedInv,
                    [Next]_vars
             PROVE  StoppedInv'
  OBVIOUS
<1> USE DEF StoppedInv, HandedOver, lists, naming, thread
<1>1. CASE PopTop
  <2>1. PICK e \in eventList :
          IF eventId[e] \in eventIds
          THEN /\ eventIds' = eventIds \ {eventId[e]}
               /\ popped' = e
          ELSE UNCHANGED <<eventIds, popped>>
    BY <1>1 DEF PopTop, IsTop
  <2> QED
    BY <1>1, <2>1 DEF PopTop
<1>2. CASE Dispatch
  BY <1>2, SchedulerAssumption DEF Dispatch, IInv, PoppedInDispatch
<1>3. ASSUME NEW c \in Caller, NEW e \in Event, StopEvent(c, e)
      PROVE  StoppedInv'
  BY <1>3 DEF StopEvent
<1>4. ASSUME NEW c \in Caller, NEW e \in Event,
             NEW due \in now .. now + MaxDelay, AddEvent(c, e, due)
      PROVE  StoppedInv'
  <2>1. /\ \A f \in Event : f # e => eventId'[f] = eventId[f]
        /\ eventId'[e] = NextEventId
        /\ NextEventId # 0
    BY <1>4, NextEventIdType DEF AddEvent, IInv, TypeOK
  <2>2. e \notin stopped \cup HandedOver
    BY <1>4 DEF AddEvent, IInv, HandedOverIsDue
  <2>3. stopped \cup HandedOver \subseteq Event
    BY DEF IInv, TypeOK
  <2>4. \A f \in stopped \cup HandedOver : eventId[f] # NextEventId
    BY <2>1, <2>2, <2>3 DEF DistinctIds
  <2> QED
    BY <1>4, <2>1, <2>2, <2>3, <2>4 DEF AddEvent
<1>5. ASSUME NEW c \in Caller, ShutdownClear(c)
      PROVE  StoppedInv'
  BY <1>5 DEF ShutdownClear
<1>6. CASE UNCHANGED <<lists, naming, popped, dispatched, stopped>>
  BY <1>6
<1> QED
  BY <1>1, <1>2, <1>3, <1>4, <1>5, <1>6
     DEF Next, SchedulerThread, CheckState, LockAndSleep, TimerExpires, Wake,
         SpuriousWakeup, NoTimeout, PopEmpty, Tick, Stop, ShutdownTerminate,
         NotifyOne, vars

(* As long as the id counter has not gone round, an event that stopEvent   *)
(* reported as stopped is never handed to the dispatcher.                  *)
THEOREM StoppedNeverDispatchedHolds ==
  SafeSpec /\ []DistinctIds => []StoppedNeverDispatched
<1>1. StoppedInv => StoppedNeverDispatched
  BY DEF StoppedInv, StoppedNeverDispatched, HandedOver
<1>2. SafeSpec /\ []DistinctIds => []StoppedInv
  BY IInvHolds, InitStopped, NextStopped, PTL DEF SafeSpec
<1> QED
  BY <1>1, <1>2, PTL

-----------------------------------------------------------------------------
(* The id counter *)

Numbered == {e \in Event : eventId[e] # 0}

(* While the counter has not gone round, it is the number of events added, *)
(* and no id is above it.                                                  *)
IdsInOrder ==
  /\ lastEventId = Cardinality(Numbered)
  /\ \A e \in Numbered : eventId[e] <= lastEventId
  /\ DistinctIds

LEMMA InitIds == Init => IdsInOrder
<1>1. Init => Numbered = {}
  BY DEF Init, Numbered
<1> QED
  BY <1>1, FS_EmptySet DEF Init, IdsInOrder, DistinctIds

LEMMA NextIds ==
  ASSUME IsFiniteSet(Event), Cardinality(Event) <= MaxId,
         IInv, IdsInOrder, [Next]_vars
  PROVE  IdsInOrder'
<1> USE SchedulerAssumption
<1>1. ASSUME NEW c \in Caller, NEW e \in Event,
             NEW due \in now .. now + MaxDelay, AddEvent(c, e, due)
      PROVE  IdsInOrder'
  <2>1. IsFiniteSet(Numbered)
    BY FS_Subset DEF Numbered
  <2>2. e \notin Numbered /\ eventId \in [Event -> 0 .. MaxId]
    BY <1>1 DEF Numbered, AddEvent, IInv, TypeOK
  <2>3. Numbered \cup {e} \in SUBSET Event
    BY DEF Numbered
  <2>4. /\ Cardinality(Numbered \cup {e}) = Cardinality(Numbered) + 1
        /\ Cardinality(Numbered \cup {e}) <= Cardinality(Event)
        /\ Cardinality(Numbered) \in Nat /\ Cardinality(Event) \in Nat
    BY <2>1, <2>2, <2>3, FS_AddElement, FS_Subset, FS_CardinalityType
  <2>5. NextEventId = lastEventId + 1 /\ lastEventId \in Nat
    BY <2>4 DEF IdsInOrder, NextEventId
  <2>6. eventId' = [eventId EXCEPT ![e] = lastEventId + 1]
    BY <1>1, <2>5 DEF AddEvent
  <2>7. Numbered' = Numbered \cup {e}
    BY <2>2, <2>5, <2>6 DEF Numbered
  <2>8. \A f \in Numbered : eventId'[f] = eventId[f] /\ f # e
    BY <2>2, <2>6 DEF Numbered
  <2>9. lastEventId' = lastEventId + 1 /\ eventId'[e] = lastEventId + 1
    BY <1>1, <2>2, <2>5, <2>6 DEF AddEvent
  <2>10. lastEventId' = Cardinality(Numbered')
    BY <2>4, <2>7, <2>9 DEF IdsInOrder
  <2>11. \A f \in Numbered : eventId[f] \in Nat /\ eventId[f] <= lastEventId
    BY <2>2 DEF IdsInOrder, Numbered
  <2>12. \A f \in Numbered' : eventId'[f] <= lastEventId'
    BY <2>5, <2>7, <2>8, <2>9, <2>11
  <2>13. \A f, g \in Numbered' : eventId'[f] = eventId'[g] => f = g
    <3>1. \A f, g \in Numbered : eventId[f] = eventId[g] => f = g
      BY DEF IdsInOrder, DistinctIds, Numbered
    <3>2. \A f \in Numbered : eventId'[f] # eventId'[e]
      BY <2>5, <2>8, <2>9, <2>11
    <3> QED
      BY <3>1, <3>2, <2>7, <2>8
  <2>14. DistinctIds'
    BY <2>13 DEF DistinctIds, Numbered
  <2> QED
    BY <2>10, <2>12, <2>14 DEF IdsInOrder
<1>2. CASE UNCHANGED <<lastEventId, eventId>>
  BY <1>2 DEF IdsInOrder, Numbered, DistinctIds
<1> QED
  BY <1>1, <1>2
     DEF Next, SchedulerThread, CheckState, LockAndSleep, TimerExpires, Wake,
         SpuriousWakeup, NoTimeout, PopTop, PopEmpty, Dispatch, Tick, Stop,
         ShutdownTerminate, ShutdownClear, StopEvent, NotifyOne, vars, naming

(* As long as no more events are added than there are ids, each has one of *)
(* its own: the counter, which never asks whether an id is in use, has not *)
(* gone round.                                                             *)
THEOREM DistinctIdsHolds ==
  ASSUME IsFiniteSet(Event), Cardinality(Event) <= MaxId
  PROVE  SafeSpec => []DistinctIds
<1>1. IInv /\ IdsInOrder /\ [Next]_vars => IdsInOrder'
  BY NextIds
<1>2. IdsInOrder => DistinctIds
  BY DEF IdsInOrder
<1> QED
  BY <1>1, <1>2, InitIds, IInvHolds, PTL DEF SafeSpec

(* Of at most as many events as there are ids, none that stopEvent         *)
(* reported as stopped is handed to the dispatcher.                        *)
THEOREM StoppedOfFewHolds ==
  ASSUME IsFiniteSet(Event), Cardinality(Event) <= MaxId
  PROVE  SafeSpec => []StoppedNeverDispatched
BY DistinctIdsHolds, StoppedNeverDispatchedHolds, PTL
=============================================================================
