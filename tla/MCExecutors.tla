----------------------------- MODULE MCExecutors -----------------------------
(***************************************************************************)
(* What runs by itself and must go on.  The dispatcher thread and the      *)
(* database thread, each alone; the start of the server, in which main     *)
(* waits for the dispatcher's first task; the raids, a chain of delayed    *)
(* tasks that one task may break off; and the network: one connection with *)
(* a peer, one service port with the throttle of its connections, the      *)
(* locks that threads take for connections and live casts, and the         *)
(* autosend of what is buffered for the clients.                           *)
(*                                                                         *)
(* They share no state and no property speaks of two of them: the run      *)
(* takes up one at the start and leaves the others as they are, and the    *)
(* fairness is that of the one that runs.  ServerThreads composes the      *)
(* threads with the rest.                                                  *)
(***************************************************************************)
EXTENDS
  Dispatcher, Queries, ServicePort, Connection, CastLocks, Raids, TLC

CONSTANTS self, net, t1, t2, t3, stop, none, c1, c2

MCCaller == {self, net}
MCExpiring == {t1}

VARIABLES
  part,
  mpc, stage, loader, services, scheduler, database, dispatcher, missed,
  session, bufferedProtocols, outputBuffer, chains

U == INSTANCE StartUp
A == INSTANCE Autosend WITH
       Protocol <- {c1, c2, self}, Capacity <- 2, MaxChains <- 3

starting ==
  <<mpc, stage, loader, services, scheduler, database, dispatcher, missed>>
sending == <<session, bufferedProtocols, outputBuffer, chains>>

Part == {"dispatcher", "database", "start", "raids", "connection", "port",
         "locks", "autosend"}

MCInit ==
  /\ Init /\ B!Init /\ U!Init /\ RaidsInit
  /\ ConnectionInit /\ PortInit /\ LocksInit /\ A!Init
  /\ part \in Part

MCNext ==
  \/ part = "dispatcher" /\ Next
     /\ UNCHANGED <<part, bVars, starting, raidVars, connectionVars,
                    serviceVars, lockVars, sending>>
  \/ part = "database" /\ B!Next
     /\ UNCHANGED <<part, vars, starting, raidVars, connectionVars,
                    serviceVars, lockVars, sending>>
  \/ part = "start" /\ U!Next
     /\ UNCHANGED <<part, vars, bVars, raidVars, connectionVars, serviceVars,
                    lockVars, sending>>
  \/ part = "raids" /\ RaidsNext
     /\ UNCHANGED <<part, vars, bVars, starting, connectionVars, serviceVars,
                    lockVars, sending>>
  \/ part = "connection" /\ ConnectionNext
     /\ UNCHANGED <<part, vars, bVars, starting, raidVars, serviceVars,
                    lockVars, sending>>
  \/ part = "port" /\ PortNext
     /\ UNCHANGED <<part, vars, bVars, starting, raidVars, connectionVars,
                    lockVars, sending>>
  \/ part = "locks" /\ LocksNext
     /\ UNCHANGED <<part, vars, bVars, starting, raidVars, connectionVars,
                    serviceVars, sending>>
  \/ part = "autosend" /\ A!Next
     /\ UNCHANGED <<part, vars, bVars, starting, raidVars, connectionVars,
                    serviceVars, lockVars>>

(* What must be fair is fair in the part that runs: the threads, the       *)
(* scheduler's events, the network with a peer that reads or resets.       *)
MCFairness ==
  /\ WF_vars(part = "dispatcher" /\ DispatcherThread)
  /\ \A c \in Caller : WF_vars(part = "dispatcher" /\ NotifyOne(c))
  /\ WF_bVars(part = "database" /\ B!DatabaseThread)
  /\ WF_bVars(part = "database" /\ B!ShutdownSteps)
  /\ \A c \in QueryCaller :
       WF_bVars(part = "database" /\ B!NotifyOne(c))
  /\ WF_starting(part = "start" /\ U!LoaderNext)
  /\ WF_starting(part = "start" /\ U!MainNext)
  /\ WF_starting(part = "start" /\ U!DispatcherEnds)
  /\ WF_connectionVars(part = "connection" /\ TimerExpires)
  /\ SF_serviceVars(part = "port" /\ OpenSucceeds)
  /\ EventsRun /\ HandlersRun /\ PeerReads /\ A!Fairness

mcVars ==
  <<part, vars, bVars, starting, raidVars, connectionVars, serviceVars,
    lockVars, sending>>

MCSpec == MCInit /\ [][MCNext]_mcVars /\ MCFairness

-----------------------------------------------------------------------------
(* The properties of the other parts, the type invariant of each with its  *)
(* first property.                                                         *)

(* A queued query is executed, main learns how the start has ended, and a  *)
(* raid comes to its end (addTask against threadMain, mainLoader against   *)
(* main, executeRaidEvent).                                                *)
AnswersCome ==
  /\ []U!TypeOK
  /\ []RaidsTypeOK
  /\ B!AcceptedIsExecuted
  /\ U!StartIsAnswered
  /\ RaidEnds

(* A closed connection gives up its socket, a port that is lost is opened  *)
(* again, and what was written for a client is sent (onWriteOperation,     *)
(* ServicePort::open, sendAll).                                            *)
NetworkGoesOn ==
  /\ []PortTypeOK
  /\ []A!TypeOK
  /\ []LocksTypeOK
  /\ ClosedGivesUpSocket
  /\ part = "port" => PortComesBack
  /\ A!BufferIsSent
=============================================================================
