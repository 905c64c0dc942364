------------------------------ MODULE Scheduler ------------------------------
(***************************************************************************)
(* The scheduler thread (newsrc/scheduler.cpp, newsrc/scheduler.h): delayed *)
(* events, their cancellation by id, and the shutdown that takes the event *)
(* list away from under a thread that may be asleep on it.                 *)
(*                                                                         *)
(* A critical section under eventLock is one action.  The clock is the     *)
(* system clock, which is taken not to go backwards.                       *)
(***************************************************************************)
EXTENDS Naturals, FiniteSets

CONSTANTS
  Caller,      \* threads that add and stop events
  Event,       \* SchedulerTask objects; each is added at most once
  MaxDelay,    \* bound: the longest delay asked for
  MaxTime,     \* bound: the clock stops here
  MaxId,       \* the largest event id (2^32 - 1 in the code)
  NoEvent,     \* no event has been popped
  NoDeadline   \* the thread sleeps without a deadline

ASSUME SchedulerAssumption ==
  /\ MaxDelay \in Nat
  /\ MaxTime \in Nat
  /\ MaxId \in Nat \ {0}
  /\ NoEvent \notin Event
  /\ NoDeadline \notin Nat

VARIABLES
  threadState,  \* ThreadHolder::threadState
  eventList,    \* Scheduler::eventList, the events in the priority queue
  eventIds,     \* Scheduler::eventIds, the ids that have not been stopped
  lastEventId,  \* Scheduler::lastEventId
  eventId,      \* SchedulerTask::eventId of each event, 0 before addEvent
  cycle,        \* SchedulerTask::getCycle of each event, once added
  now,          \* the system clock
  spc,          \* where the scheduler thread is in threadMain
  deadline,     \* the time wait_until was given, or NoDeadline
  popped,       \* the event threadMain holds, or NoEvent
  closing,      \* how far Scheduler::shutdown has got
  notifying,    \* callers that released eventLock and have yet to notify_one
  dispatched,   \* events handed to the dispatcher
  stopped       \* events whose stopEvent returned true

vars == <<threadState, eventList, eventIds, lastEventId, eventId, cycle, now,
          spc, deadline, popped, closing, notifying, dispatched, stopped>>

lists == <<eventList, eventIds>>
naming == <<lastEventId, eventId, cycle>>
thread == <<spc, deadline, popped>>

(* threadMain: reading the loop condition, about to lock, asleep without   *)
(* and with a deadline, back from the wait, handing an event over,         *)
(* returned; "undefined" once it has called top() on an empty queue.       *)
SchedulerPc ==
  {"check", "lock", "wait", "waitUntil", "awake", "dispatch", "exit",
   "undefined"}

Live == eventList \cup ({popped} \ {NoEvent})

(* TaskComparator: the top of the queue is an event with the least cycle.  *)
IsTop(e) == e \in eventList /\ \A f \in eventList : cycle[e] <= cycle[f]

Init ==
  /\ threadState = "RUNNING"
  /\ eventList = {}
  /\ eventIds = {}
  /\ lastEventId = 0
  /\ eventId = [e \in Event |-> 0]
  /\ cycle = [e \in Event |-> 0]
  /\ now = 0
  /\ spc = "check"
  /\ deadline = NoDeadline
  /\ popped = NoEvent
  /\ closing = "no"
  /\ notifying = {}
  /\ dispatched = {}
  /\ stopped = {}

-----------------------------------------------------------------------------
(* The scheduler thread *)

CheckState ==
  /\ spc = "check"
  /\ spc' = IF threadState = "TERMINATED" THEN "exit" ELSE "lock"
  /\ UNCHANGED <<threadState, lists, naming, now, deadline, popped, closing,
                 notifying, dispatched, stopped>>

(* eventSignal.wait on an empty queue, wait_until(top) on any other.       *)
LockAndSleep ==
  /\ spc = "lock"
  /\ \/ /\ eventList = {}
        /\ spc' = "wait"
        /\ deadline' = NoDeadline
     \/ \E e \in eventList :
          /\ IsTop(e)
          /\ spc' = "waitUntil"
          /\ deadline' = cycle[e]
  /\ UNCHANGED <<threadState, lists, naming, now, popped, closing, notifying,
                 dispatched, stopped>>

Wake ==
  /\ spc \in {"wait", "waitUntil"}
  /\ spc' = "awake"
  /\ UNCHANGED <<threadState, lists, naming, now, deadline, popped, closing,
                 notifying, dispatched, stopped>>

TimerExpires == spc = "waitUntil" /\ now >= deadline /\ Wake

SpuriousWakeup == Wake

(* Faulty variant: every return of wait_until is taken for a timeout.      *)
TimedOutAnyhow == deadline # NoDeadline

(* What wait_until returns is decided with the mutex held again: timeout   *)
(* exactly when the clock has reached the deadline, whoever woke it.       *)
TimedOut == deadline # NoDeadline /\ now >= deadline

NoTimeout ==
  /\ spc = "awake"
  /\ ~TimedOut
  /\ spc' = "check"
  /\ UNCHANGED <<threadState, lists, naming, now, deadline, popped, closing,
                 notifying, dispatched, stopped>>

(* Faulty variant: the popped event is dispatched without asking whether   *)
(* its id is still in eventIds.                                            *)
PopTopUnchecked ==
  /\ spc = "awake"
  /\ TimedOut
  /\ \E e \in eventList :
       /\ IsTop(e)
       /\ eventList' = eventList \ {e}
       /\ spc' = "dispatch"
       /\ popped' = e
       /\ eventIds' = eventIds \ {eventId[e]}
  /\ UNCHANGED <<threadState, naming, now, deadline, closing, notifying,
                 dispatched, stopped>>

(* After a timeout: pop the top; a stopped one (its id is gone) is deleted *)
(* and the others leave eventIds and go to the dispatcher.                 *)
PopTop ==
  /\ spc = "awake"
  /\ TimedOut
  /\ \E e \in eventList :
       /\ IsTop(e)
       /\ eventList' = eventList \ {e}
       /\ IF eventId[e] \in eventIds
          THEN /\ eventIds' = eventIds \ {eventId[e]}
               /\ spc' = "dispatch"
               /\ popped' = e
          ELSE /\ spc' = "check"
               /\ UNCHANGED <<eventIds, popped>>
  /\ UNCHANGED <<threadState, naming, now, deadline, closing, notifying,
                 dispatched, stopped>>

(* The same code on an empty queue: eventList.top() is undefined.          *)
PopEmpty ==
  /\ spc = "awake"
  /\ TimedOut
  /\ eventList = {}
  /\ spc' = "undefined"
  /\ UNCHANGED <<threadState, lists, naming, now, deadline, popped, closing,
                 notifying, dispatched, stopped>>

(* g_dispatcher.addTask(task, true), outside eventLock.                    *)
Dispatch ==
  /\ spc = "dispatch"
  /\ dispatched' = dispatched \cup {popped}
  /\ popped' = NoEvent
  /\ spc' = "check"
  /\ UNCHANGED <<threadState, lists, naming, now, deadline, closing,
                 notifying, stopped>>

-----------------------------------------------------------------------------
(* The callers *)

(* ++lastEventId == 0 restarts the ids at 1.                               *)
NextEventId == IF lastEventId = MaxId THEN 1 ELSE lastEventId + 1

(* Faulty variant: the signal is sent only when the queue was empty, as    *)
(* addTask of the dispatcher does, not when the event became the top.      *)
AddEventSignalsWhenEmpty(c, e, due) ==
  /\ c \notin notifying
  /\ eventId[e] = 0
  /\ threadState = "RUNNING"
  /\ lastEventId' = NextEventId
  /\ eventId' = [eventId EXCEPT ![e] = NextEventId]
  /\ cycle' = [cycle EXCEPT ![e] = due]
  /\ eventIds' = eventIds \cup {NextEventId}
  /\ eventList' = eventList \cup {e}
  /\ notifying' = IF eventList = {} THEN notifying \cup {c} ELSE notifying
  /\ UNCHANGED <<threadState, now, thread, closing, dispatched, stopped>>

(* Faulty variant: an event without an id is not given one.                *)
AddEventWithoutId(c, e, due) ==
  /\ c \notin notifying
  /\ eventId[e] = 0
  /\ threadState = "RUNNING"
  /\ cycle' = [cycle EXCEPT ![e] = due]
  /\ eventIds' = eventIds \cup {eventId[e]}
  /\ eventList' = eventList \cup {e}
  /\ notifying' = IF \A f \in eventList : due < cycle[f]
                  THEN notifying \cup {c} ELSE notifying
  /\ UNCHANGED <<threadState, lastEventId, eventId, now, thread, closing,
                 dispatched, stopped>>

(* Faulty variant: the first event of an empty queue is not announced.     *)
AddEventSilentWhenEmpty(c, e, due) ==
  /\ c \notin notifying
  /\ eventId[e] = 0
  /\ threadState = "RUNNING"
  /\ lastEventId' = NextEventId
  /\ eventId' = [eventId EXCEPT ![e] = NextEventId]
  /\ cycle' = [cycle EXCEPT ![e] = due]
  /\ eventIds' = eventIds \cup {NextEventId}
  /\ eventList' = eventList \cup {e}
  /\ notifying' = IF \E f \in eventList : due < cycle[f]
                  THEN notifying \cup {c} ELSE notifying
  /\ UNCHANGED <<threadState, now, thread, closing, dispatched, stopped>>

(* addEvent on a running scheduler: a fresh id, the event into the queue,  *)
(* and a signal if the event became the top (push_heap leaves the old top  *)
(* in place on a tie).  The cycle is the clock at construction plus the    *)
(* delay; the caller may be held up between construction and addEvent, so  *)
(* any cycle from now on is possible.  On a scheduler that is not running  *)
(* addEvent deletes the task and returns 0, which changes nothing here.    *)
AddEvent(c, e, due) ==
  /\ c \notin notifying
  /\ eventId[e] = 0
  /\ threadState = "RUNNING"
  /\ lastEventId' = NextEventId
  /\ eventId' = [eventId EXCEPT ![e] = NextEventId]
  /\ cycle' = [cycle EXCEPT ![e] = due]
  /\ eventIds' = eventIds \cup {NextEventId}
  /\ eventList' = eventList \cup {e}
  /\ notifying' = IF \A f \in eventList : due < cycle[f]
                  THEN notifying \cup {c} ELSE notifying
  /\ UNCHANGED <<threadState, now, thread, closing, dispatched, stopped>>

(* Faulty variant: the stopped event is taken out of the queue at once.    *)
StopEventRemoves(c, e) ==
  /\ c \notin notifying
  /\ eventId[e] # 0
  /\ eventId[e] \in eventIds
  /\ eventIds' = eventIds \ {eventId[e]}
  /\ eventList' = eventList \ {e}
  /\ stopped' = stopped \cup {e}
  /\ UNCHANGED <<threadState, naming, now, thread, closing, notifying,
                 dispatched>>

(* stopEvent with the id that addEvent returned for e, when it finds it.   *)
(* The event stays in the queue until its time comes.                      *)
StopEvent(c, e) ==
  /\ c \notin notifying
  /\ eventId[e] # 0
  /\ eventId[e] \in eventIds
  /\ eventIds' = eventIds \ {eventId[e]}
  /\ stopped' = stopped \cup {e}
  /\ UNCHANGED <<threadState, eventList, naming, now, thread, closing,
                 notifying, dispatched>>

(* eventSignal.notify_one: the scheduler thread is the only waiter.        *)
NotifyOne(c) ==
  /\ c \in notifying
  /\ notifying' = notifying \ {c}
  /\ spc' = IF spc \in {"wait", "waitUntil"} THEN "awake" ELSE spc
  /\ UNCHANGED <<threadState, lists, naming, now, deadline, popped, closing,
                 dispatched, stopped>>

(* ThreadHolder::stop, from Game::setGameState.                            *)
Stop ==
  /\ threadState = "RUNNING"
  /\ threadState' = "CLOSING"
  /\ UNCHANGED <<lists, naming, now, thread, closing, notifying, dispatched,
                 stopped>>

(* Scheduler::shutdown in its three steps: the state changes before the    *)
(* lock is taken, the lists are emptied under it, and the signal follows   *)
(* the unlock.                                                             *)
ShutdownTerminate ==
  /\ closing = "no"
  /\ closing' = "terminated"
  /\ threadState' = "TERMINATED"
  /\ UNCHANGED <<lists, naming, now, thread, notifying, dispatched, stopped>>

ShutdownClear(c) ==
  /\ closing = "terminated"
  /\ c \notin notifying
  /\ closing' = "cleared"
  /\ eventList' = {}
  /\ eventIds' = {}
  /\ notifying' = notifying \cup {c}
  /\ UNCHANGED <<threadState, naming, now, thread, dispatched, stopped>>

(* Time passes.  Bounded by MaxTime for TLC.                               *)
Tick ==
  /\ now < MaxTime
  /\ now' = now + 1
  /\ UNCHANGED <<threadState, lists, naming, thread, closing, notifying,
                 dispatched, stopped>>

SchedulerThread ==
  \/ CheckState
  \/ LockAndSleep
  \/ TimerExpires
  \/ NoTimeout
  \/ PopTop
  \/ PopEmpty
  \/ Dispatch

Next ==
  \/ SchedulerThread
  \/ SpuriousWakeup
  \/ Tick
  \/ Stop
  \/ ShutdownTerminate
  \/ \E c \in Caller :
       \/ NotifyOne(c)
       \/ ShutdownClear(c)
       \/ \E e \in Event :
            \/ StopEvent(c, e)
            \/ \E due \in now .. now + MaxDelay :
                 due <= MaxTime /\ AddEvent(c, e, due)

(* Threads that can run do run, time passes, and a shutdown that has begun *)
(* reaches its end.                                                        *)
Fairness ==
  /\ WF_vars(SchedulerThread)
  /\ WF_vars(Tick)
  /\ \A c \in Caller : WF_vars(NotifyOne(c))
  /\ WF_vars(\E c \in Caller : ShutdownClear(c))

SafeSpec == Init /\ [][Next]_vars
Spec == SafeSpec /\ Fairness

-----------------------------------------------------------------------------
(* Properties *)

TypeOK ==
  /\ threadState \in {"TERMINATED", "RUNNING", "CLOSING"}
  /\ eventList \subseteq Event
  /\ eventIds \subseteq 1 .. MaxId
  /\ lastEventId \in 0 .. MaxId
  /\ eventId \in [Event -> 0 .. MaxId]
  /\ cycle \in [Event -> Nat]
  /\ now \in Nat
  /\ spc \in SchedulerPc
  /\ deadline \in Nat \cup {NoDeadline}
  /\ popped \in Event \cup {NoEvent}
  /\ closing \in {"no", "terminated", "cleared"}
  /\ notifying \subseteq Caller
  /\ dispatched \subseteq Event
  /\ stopped \subseteq Event

(* No event is late for want of a signal: a thread asleep without a        *)
(* deadline has an empty queue, one asleep until a deadline has nothing    *)
(* due before it, or a caller is about to notify it (addEvent, do_signal). *)
SleepsNoLongerThanTop ==
  /\ spc = "wait" /\ eventList # {} => notifying # {}
  /\ spc = "waitUntil" =>
       notifying # {} \/ \A e \in eventList : deadline <= cycle[e]

(* No event is handed to the dispatcher before its time, whichever event   *)
(* wait_until was waiting for when the queue's top changed.                *)
NeverEarly == \A e \in dispatched : cycle[e] <= now

(* An event whose stopEvent returned true does not run (scheduler.cpp,     *)
(* threadMain: "check if the event was stopped").  It depends on events    *)
(* having distinct ids.                                                    *)
StoppedNeverDispatched == stopped \cap dispatched = {}

(* No two events were given the same id: so it is until the counter has    *)
(* gone round.                                                             *)
DistinctIds ==
  \A e, f \in Event : eventId[e] = eventId[f] /\ eventId[e] # 0 => e = f

(* Until shutdown empties the queue, a timeout is about an event in it     *)
(* (scheduler.cpp, threadMain: "ok we had a timeout, so there has to be an *)
(* event we have to execute..."): the code calls top() without a look, and *)
(* it is stopEvent leaving stopped events in the queue that makes it safe. *)
TimeoutHasEvent ==
  spc = "awake" /\ TimedOut /\ closing # "cleared" => eventList # {}

(* While the scheduler is running, an event that nobody stops reaches the  *)
(* dispatcher.                                                             *)
EventuallyDispatched ==
  \A e \in Event :
    e \in eventList ~> (e \in dispatched \cup stopped
                          \/ threadState = "TERMINATED")

(* The thread that Game::shutdown terminates returns, so that main's join  *)
(* does (README.md: "Shutdown: Use Ctrl+C or send SIGTERM").               *)
ShutdownEndsThread == threadState = "TERMINATED" ~> spc = "exit"
=============================================================================
