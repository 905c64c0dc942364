---------------------------- MODULE ServerThreads ----------------------------
(***************************************************************************)
(* The server's threads together: main (which becomes the network thread), *)
(* the dispatcher, the scheduler and the database thread, from a running   *)
(* server to the end of main (newsrc/otserv.cpp, newsrc/signals.cpp, and   *)
(* setGameState and shutdown of newsrc/game.cpp).                          *)
(*                                                                         *)
(* The three executors are the modules Dispatcher, Scheduler and           *)
(* DatabaseTasks; this module says who calls what, in which order.         *)
(***************************************************************************)
EXTENDS Queries

CONSTANTS
  Packet,      \* tasks the network thread queues for received packets
  Event,       \* delayed events
  MaxDelay,    \* bound: the longest delay of an event
  MaxTime,     \* bound: the clock stops here
  CallbackOf,  \* the dispatcher task that a query's callback becomes, where
               \* it has one
  SigtermTask, \* Signals::sigtermHandler as a dispatcher task
  GameShutdownTask, \* Game::shutdown as a dispatcher task
  StopTask,    \* the closure that ends the dispatcher thread
  None         \* the "nothing" of every module

(* The tasks of the dispatcher: packets, delayed events, callbacks of      *)
(* queries, the signal handler and Game::shutdown.                         *)
DispatcherTask ==
  Packet \cup Event \cup {CallbackOf[q] : q \in Query}
    \cup {SigtermTask, GameShutdownTask}

(* These are objects of their own, and queries come from the dispatcher.   *)
ASSUME ServerThreadsAssumption ==
  /\ QueryCaller = {"dispatcher"}
  /\ {SigtermTask, GameShutdownTask}
       \cap (Packet \cup Event \cup {CallbackOf[q] : q \in Query}) = {}
  /\ SigtermTask # GameShutdownTask
  /\ StopTask \notin DispatcherTask
  /\ None \notin DispatcherTask \cup {StopTask}

Thread == {"main", "dispatcher", "scheduler", "database"}

VARIABLES
  dState, dList, dPc, dTask, dNotifying,              \* Dispatcher
  sState, sList, sIds, sLastId, sEventId, sCycle,     \* Scheduler
  now, sPc, sDeadline, sPopped, sClosing, sNotifying, sDispatched, sStopped,
  gameState,   \* Game::gameState: "NORMAL" or "SHUTDOWN"
  step,        \* where the dispatcher thread is: "idle" between tasks, "free"
               \* in an ordinary one, before a call of setGameState or of
               \* Game::shutdown, or "returning"
  mpc          \* main: "serving" and "stopping" inside io_service::run,
               \* "joinScheduler", "joinDatabase", "joinDispatcher",
               \* "returned"

D == INSTANCE Dispatcher WITH
       Caller <- Thread, Self <- "dispatcher", Task <- DispatcherTask,
       Expiring <- Packet, NoTask <- None,
       threadState <- dState, taskList <- dList, dpc <- dPc, task <- dTask,
       notifying <- dNotifying

S == INSTANCE Scheduler WITH
       Caller <- {"dispatcher"}, MaxId <- Cardinality(Event),
       NoEvent <- None, NoDeadline <- None,
       threadState <- sState, eventList <- sList, eventIds <- sIds,
       lastEventId <- sLastId, eventId <- sEventId, cycle <- sCycle,
       spc <- sPc, deadline <- sDeadline, popped <- sPopped,
       closing <- sClosing, notifying <- sNotifying,
       dispatched <- sDispatched, stopped <- sStopped

dVars == <<dState, dList, dPc, dTask, dNotifying>>
sVars == <<sState, sList, sIds, sLastId, sEventId, sCycle, now, sPc,
           sDeadline, sPopped, sClosing, sNotifying, sDispatched, sStopped>>
vars == <<dVars, sVars, bVars, gameState, step, mpc>>

(* mainLoader has returned and main is in ServiceManager::run.             *)
Init ==
  /\ D!Init
  /\ S!Init
  /\ B!Init
  /\ gameState = "NORMAL"
  /\ step = "idle"
  /\ mpc = "serving"

-----------------------------------------------------------------------------
(* Steps of one executor that touch no other thread *)

DispatcherInternal ==
  /\ \/ D!CheckState
     \/ D!LockAndLook
     \/ D!LookAgain
     \/ D!DiscardExpired
  /\ UNCHANGED <<sVars, bVars, gameState, step, mpc>>

SchedulerInternal ==
  /\ \/ S!CheckState
     \/ S!LockAndSleep
     \/ S!TimerExpires
     \/ S!NoTimeout
     \/ S!PopTop
     \/ S!PopEmpty
  /\ UNCHANGED <<dVars, bVars, gameState, step, mpc>>

Tick == S!Tick /\ UNCHANGED <<dVars, bVars, gameState, step, mpc>>

DatabaseInternal ==
  /\ B!CheckState \/ B!LockAndLook \/ B!LookAgain \/ B!RunQuery
  /\ UNCHANGED <<dVars, sVars, gameState, step, mpc>>

(* A wait that returns for no reason.                                      *)
SpuriousWakeup ==
  \/ D!SpuriousWakeup /\ UNCHANGED <<sVars, bVars, gameState, step, mpc>>
  \/ S!SpuriousWakeup /\ UNCHANGED <<dVars, bVars, gameState, step, mpc>>
  \/ B!SpuriousWakeup /\ UNCHANGED <<dVars, sVars, gameState, step, mpc>>

(* A call to notify_one on the dispatcher's condition, by its own thread   *)
(* inside a task or by another one.                                        *)
NotifyDispatcher ==
  /\ \E c \in Thread : D!NotifyOne(c)
  /\ UNCHANGED <<sVars, bVars, gameState, step, mpc>>

(* Calls the dispatcher thread makes to the other two.                     *)
NotifyScheduler ==
  /\ S!NotifyOne("dispatcher")
  /\ UNCHANGED <<dVars, bVars, gameState, step, mpc>>

NotifyDatabase ==
  /\ B!NotifyOne("dispatcher")
  /\ UNCHANGED <<dVars, sVars, gameState, step, mpc>>

-----------------------------------------------------------------------------
(* Executors handing work to the dispatcher *)

(* The scheduler pushes a due event to the front.                          *)
DispatchEvent ==
  /\ S!Dispatch
  /\ D!AddTask("scheduler", sPopped, TRUE)
  /\ UNCHANGED <<bVars, gameState, step, mpc>>

(* The database thread pushes the callback of its query to the back.       *)
PostCallback ==
  /\ B!PostCallback
  /\ D!AddTask("database", CallbackOf[bTask], FALSE)
  /\ UNCHANGED <<sVars, gameState, step, mpc>>

-----------------------------------------------------------------------------
(* The network thread, while io_service runs *)

Serving == mpc = "serving"

(* A packet whose handler is dispatched with an expiration.                *)
ReceivePacket(p) ==
  /\ Serving
  /\ D!AddTask("main", p, FALSE)
  /\ UNCHANGED <<sVars, bVars, gameState, step, mpc>>

(* Signals::dispatchSignalHandler.  One signal is enough: a second handler *)
(* finds gameState already SHUTDOWN and returns.                           *)
ReceiveSigterm ==
  /\ Serving
  /\ gameState = "NORMAL"
  /\ D!AddTask("main", SigtermTask, FALSE)
  /\ UNCHANGED <<sVars, bVars, gameState, step, mpc>>

-----------------------------------------------------------------------------
(* The dispatcher thread inside a task *)

Quiet == "dispatcher" \notin dNotifying \cup sNotifying \cup bNotifying

BeginTask ==
  /\ D!BeginTask
  /\ step' = IF dTask = SigtermTask THEN "setGameState"
             ELSE IF dTask = GameShutdownTask THEN "terminateScheduler"
             ELSE IF dTask = StopTask THEN "returning"
             ELSE "free"
  /\ UNCHANGED <<sVars, bVars, gameState, mpc>>

(* An ordinary handler may add events and queries before it returns.       *)
TaskAddsEvent ==
  /\ dPc = "run" /\ step = "free" /\ Quiet
  /\ \E e \in Event : \E due \in now .. now + MaxDelay :
       due <= MaxTime /\ S!AddEvent("dispatcher", e, due)
  /\ UNCHANGED <<dVars, bVars, gameState, step, mpc>>

TaskAddsQuery ==
  /\ dPc = "run" /\ step = "free" /\ Quiet
  /\ \E q \in Query : B!AddTask("dispatcher", q)
  /\ UNCHANGED <<dVars, sVars, gameState, step, mpc>>

EndTask ==
  /\ step \in {"free", "returning"} /\ Quiet
  /\ D!EndTask
  /\ step' = "idle"
  /\ UNCHANGED <<sVars, bVars, gameState, mpc>>

(* Faulty variant: the dispatcher is stopped before Game::shutdown is      *)
(* queued, so that addTask deletes it.                                     *)
SaveKickAndStop ==
  /\ step = "setGameState"
  /\ D!Stop
  /\ gameState' = "SHUTDOWN"
  /\ step' = "queueShutdown"
  /\ UNCHANGED <<sVars, bVars, mpc>>

(* Game::setGameState(GAME_STATE_SHUTDOWN): kick and save everybody, queue *)
(* Game::shutdown, and only then stop the three executors.                 *)
SaveAndKick ==
  /\ step = "setGameState"
  /\ gameState' = "SHUTDOWN"
  /\ step' = "queueShutdown"
  /\ UNCHANGED <<dVars, sVars, bVars, mpc>>

QueueGameShutdown ==
  /\ step = "queueShutdown"
  /\ D!AddTask("dispatcher", GameShutdownTask, FALSE)
  /\ step' = "stopScheduler"
  /\ UNCHANGED <<sVars, bVars, gameState, mpc>>

StopScheduler ==
  /\ step = "stopScheduler" /\ Quiet
  /\ S!Stop
  /\ step' = "stopDatabase"
  /\ UNCHANGED <<dVars, bVars, gameState, mpc>>

StopDatabase ==
  /\ step = "stopDatabase"
  /\ B!Stop
  /\ step' = "stopDispatcher"
  /\ UNCHANGED <<dVars, sVars, gameState, mpc>>

(* Faulty variant: the dispatcher is never told to refuse new tasks.       *)
SkipStopDispatcher ==
  /\ step = "stopDispatcher"
  /\ step' = "returning"
  /\ UNCHANGED <<dVars, sVars, bVars, gameState, mpc>>

StopDispatcher ==
  /\ step = "stopDispatcher"
  /\ D!Stop
  /\ step' = "returning"
  /\ UNCHANGED <<sVars, bVars, gameState, mpc>>

(* Game::shutdown: the scheduler, the database thread, the dispatcher, and *)
(* then the services.                                                      *)
TerminateScheduler ==
  /\ step = "terminateScheduler"
  /\ S!ShutdownTerminate
  /\ step' = "clearScheduler"
  /\ UNCHANGED <<dVars, bVars, gameState, mpc>>

(* Faulty variant: the database thread is not shut down.                   *)
ClearSchedulerForgetsDatabase ==
  /\ step = "clearScheduler"
  /\ S!ShutdownClear("dispatcher")
  /\ step' = "terminateDispatcher"
  /\ UNCHANGED <<dVars, bVars, gameState, mpc>>

ClearScheduler ==
  /\ step = "clearScheduler"
  /\ S!ShutdownClear("dispatcher")
  /\ step' = "terminateDatabase"
  /\ UNCHANGED <<dVars, bVars, gameState, mpc>>

TerminateDatabase ==
  /\ step = "terminateDatabase" /\ Quiet
  /\ B!ShutdownBegin
  /\ step' = "flushDatabase"
  /\ UNCHANGED <<dVars, sVars, gameState, mpc>>

(* A flushed query hands its callback to a dispatcher that deletes it.     *)
FlushDatabase ==
  /\ step = "flushDatabase" /\ Quiet
  /\ B!Flush
  /\ IF Head(bTasks) \in WithCallback
     THEN D!AddTask("dispatcher", CallbackOf[Head(bTasks)], FALSE)
     ELSE UNCHANGED dVars
  /\ UNCHANGED <<sVars, gameState, step, mpc>>

UnlockDatabase ==
  /\ step = "flushDatabase"
  /\ B!ShutdownUnlock("dispatcher")
  /\ step' = "terminateDispatcher"
  /\ UNCHANGED <<dVars, sVars, gameState, mpc>>

TerminateDispatcher ==
  /\ step = "terminateDispatcher" /\ Quiet
  /\ D!Shutdown("dispatcher")
  /\ step' = "stopServices"
  /\ UNCHANGED <<sVars, bVars, gameState, mpc>>

(* ServiceManager::stop; three seconds later the death timer stops the     *)
(* io_service and main leaves run.                                         *)
StopServices ==
  /\ step = "stopServices"
  /\ step' = "returning"
  /\ mpc' = "stopping"
  /\ UNCHANGED <<dVars, sVars, bVars, gameState>>

GameTask ==
  \/ BeginTask
  \/ SaveAndKick \/ QueueGameShutdown
  \/ StopScheduler \/ StopDatabase \/ StopDispatcher
  \/ TerminateScheduler \/ ClearScheduler
  \/ TerminateDatabase \/ FlushDatabase \/ UnlockDatabase
  \/ TerminateDispatcher \/ StopServices
  \/ EndTask

-----------------------------------------------------------------------------
(* main, after io_service.run *)

Join(from, thread, to) ==
  /\ mpc = from
  /\ thread = "exit"
  /\ mpc' = to
  /\ UNCHANGED <<dVars, sVars, bVars, gameState, step>>

DeathTimer ==
  /\ mpc = "stopping"
  /\ mpc' = "joinScheduler"
  /\ UNCHANGED <<dVars, sVars, bVars, gameState, step>>

MainJoins ==
  \/ Join("joinScheduler", sPc, "joinDatabase")
  \/ Join("joinDatabase", bPc, "joinDispatcher")
  \/ Join("joinDispatcher", dPc, "returned")

Next ==
  \/ DispatcherInternal \/ SchedulerInternal \/ DatabaseInternal \/ Tick
  \/ SpuriousWakeup
  \/ NotifyDispatcher \/ NotifyScheduler \/ NotifyDatabase
  \/ DispatchEvent \/ PostCallback
  \/ \E p \in Packet : ReceivePacket(p)
  \/ ReceiveSigterm
  \/ GameTask \/ TaskAddsEvent \/ TaskAddsQuery
  \/ DeathTimer \/ MainJoins

(* Every thread that can run runs and every handler returns; packets and   *)
(* the signal come or do not come as they please.                          *)
Fairness ==
  /\ WF_vars(DispatcherInternal)
  /\ WF_vars(SchedulerInternal \/ DispatchEvent)
  /\ WF_vars(DatabaseInternal \/ PostCallback)
  /\ WF_vars(NotifyDispatcher)
  /\ WF_vars(NotifyScheduler)
  /\ WF_vars(NotifyDatabase)
  /\ WF_vars(GameTask)
  /\ WF_vars(DeathTimer \/ MainJoins)

SafeSpec == Init /\ [][Next]_vars
Spec == SafeSpec /\ Fairness

-----------------------------------------------------------------------------
(* Properties *)

(* Nothing the dispatcher accepted is left behind when its thread returns: *)
(* the stop task is last because setGameState makes addTask refuse new     *)
(* tasks before Game::shutdown enqueues it (game.cpp, setGameState).       *)
DispatcherDrained == dPc = "exit" => dList = <<>>

(* When main returns, every query that was accepted has been executed.     *)
QueriesDrained ==
  mpc = "returned" => B!ElementsOf(bExecuted) = B!ElementsOf(bAccepted)

(* No accepted task is left when the dispatcher's thread returns, and no   *)
(* accepted query when main does (addTask, Game::shutdown, flush).         *)
QueuesDrained == DispatcherDrained /\ QueriesDrained

(* main leaves io_service::run, after which it joins the threads, only     *)
(* when all three have been told to stop: a thread told nothing would make *)
(* its join wait for ever (game.cpp, shutdown: the services come last).    *)
ServicesStopLast ==
  mpc # "serving" =>
    /\ sState = "TERMINATED"
    /\ bState = "TERMINATED"
    /\ dState \in {"CLOSING", "TERMINATED"}

(* A sigterm ends in main returning, unless one of the two threads whose   *)
(* shutdown signal can be missed sleeps for ever, or the scheduler has     *)
(* popped from an empty queue.                                             *)
Stranded ==
  \/ sState = "TERMINATED" /\ sPc \in {"wait", "undefined"}
  \/ bState = "TERMINATED" /\ bPc = "wait"

ShutdownUnlessStranded ==
  gameState = "SHUTDOWN" ~> mpc = "returned" \/ Stranded
=============================================================================
