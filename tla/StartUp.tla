------------------------------- MODULE StartUp -------------------------------
(***************************************************************************)
(* From the start of main to the end of mainLoader (newsrc/otserv.cpp).    *)
(* main starts the dispatcher and the scheduler, queues mainLoader as the  *)
(* dispatcher's first task and waits for g_loaderSignal; the loader stops  *)
(* at the first thing it cannot load, and signals either way.  How the     *)
(* three executors end once they are told is ServerThreads' matter.        *)
(***************************************************************************)
EXTENDS Naturals, Sequences

(* What mainLoader does in this order; all but the last may fail.          *)
Stages == <<"config", "database", "startDatabaseThread", "data",
            "addServices", "address", "start">>

VARIABLES
  mpc,         \* main: "starting", "waiting", "looking", "serving",
               \* "endScheduler", "endDatabase", "endDispatcher", "joining"
               \* or "returned"
  stage,       \* how many stages of the loader are done
  loader,      \* "queued", "running", "failed" or "loaded"
  services,    \* ServiceManager::is_running
  scheduler,   \* the threads: "none" before start, "running", "ended"
  database,    \* likewise
  dispatcher,  \* "none", "running", "stopping" or "ended"
  missed       \* main was woken by no signal, or not by the one there was

vars ==
  <<mpc, stage, loader, services, scheduler, database, dispatcher, missed>>
threads == <<scheduler, database, dispatcher>>

Init ==
  /\ mpc = "starting"
  /\ stage = 0
  /\ loader = "queued"
  /\ services = FALSE
  /\ scheduler = "none" /\ database = "none" /\ dispatcher = "none"
  /\ missed = FALSE

-----------------------------------------------------------------------------
(* mainLoader, on the dispatcher thread *)

Loads(name) ==
  /\ loader = "running" /\ stage < Len(Stages)
  /\ Stages[stage + 1] = name
  /\ stage' = stage + 1

BeginLoading ==
  /\ dispatcher # "none" /\ loader = "queued"
  /\ loader' = "running"
  /\ UNCHANGED <<mpc, stage, services, threads, missed>>

Load ==
  /\ Loads("config") \/ Loads("database") \/ Loads("data")
  /\ UNCHANGED <<mpc, loader, services, threads, missed>>

(* g_databaseTasks.start.                                                  *)
StartDatabaseThread ==
  /\ Loads("startDatabaseThread")
  /\ database' = "running"
  /\ UNCHANGED <<mpc, loader, services, scheduler, dispatcher, missed>>

(* The services listen before the loader has come to its end.              *)
AddServices ==
  /\ Loads("addServices")
  /\ services' = TRUE
  /\ UNCHANGED <<mpc, loader, threads, missed>>

(* notify_all: whoever waits is woken, and nobody else.                    *)
Notify ==
  IF mpc = "waiting" THEN mpc' = "looking" /\ UNCHANGED missed
  ELSE missed' = TRUE /\ UNCHANGED mpc

(* An address that cannot be resolved is reported as a failure of the      *)
(* start, which goes on all the same.                                      *)
ResolveAddress ==
  /\ Loads("address")
  /\ Notify \/ UNCHANGED <<mpc, missed>>
  /\ UNCHANGED <<loader, services, threads>>

StartGame ==
  /\ Loads("start")
  /\ loader' = "loaded"
  /\ Notify
  /\ UNCHANGED <<services, threads>>

(* Faulty variant: the loader returns without telling main.                *)
FailSilently ==
  /\ loader = "running"
  /\ Stages[stage + 1] \in {"config", "database", "data"}
  /\ loader' = "failed"
  /\ UNCHANGED <<mpc, stage, services, threads, missed>>

(* startupErrorMessage, and a return.                                      *)
Fail ==
  /\ loader = "running"
  /\ Stages[stage + 1] \in {"config", "database", "data"}
  /\ loader' = "failed"
  /\ Notify
  /\ UNCHANGED <<stage, services, threads>>

-----------------------------------------------------------------------------
(* main *)

StartThreads ==
  /\ mpc = "starting" /\ dispatcher = "none"
  /\ dispatcher' = "running"
  /\ scheduler' = "running"
  /\ UNCHANGED <<mpc, stage, loader, services, database, missed>>

Wait ==
  /\ mpc = "starting" /\ dispatcher = "running"
  /\ mpc' = "waiting"
  /\ UNCHANGED <<stage, loader, services, threads, missed>>

(* The wait has no predicate.                                              *)
SpuriousWakeup ==
  /\ mpc = "waiting"
  /\ mpc' = "looking"
  /\ missed' = TRUE
  /\ UNCHANGED <<stage, loader, services, threads>>

Look ==
  /\ mpc = "looking"
  /\ mpc' = IF services THEN "serving" ELSE "endScheduler"
  /\ UNCHANGED <<stage, loader, services, threads, missed>>

EndScheduler ==
  /\ mpc = "endScheduler"
  /\ mpc' = "endDatabase"
  /\ scheduler' = "ended"
  /\ UNCHANGED <<stage, loader, services, database, dispatcher, missed>>

(* A thread that was never started has nothing to end; one that the loader *)
(* starts afterwards will not have heard of it.                            *)
EndDatabase ==
  /\ mpc = "endDatabase"
  /\ mpc' = "endDispatcher"
  /\ database' = IF database = "running" THEN "ended" ELSE database
  /\ UNCHANGED <<stage, loader, services, scheduler, dispatcher, missed>>

EndDispatcher ==
  /\ mpc = "endDispatcher"
  /\ mpc' = "joining"
  /\ dispatcher' = "stopping"
  /\ UNCHANGED <<stage, loader, services, scheduler, database, missed>>

(* The stop task lies behind mainLoader.                                   *)
DispatcherEnds ==
  /\ dispatcher = "stopping" /\ loader \in {"failed", "loaded"}
  /\ dispatcher' = "ended"
  /\ UNCHANGED <<mpc, stage, loader, services, scheduler, database, missed>>

Join ==
  /\ mpc = "joining"
  /\ scheduler = "ended" /\ database # "running" /\ dispatcher = "ended"
  /\ mpc' = "returned"
  /\ UNCHANGED <<stage, loader, services, threads, missed>>

LoaderNext ==
  \/ BeginLoading \/ Load \/ StartDatabaseThread \/ AddServices
  \/ ResolveAddress \/ StartGame \/ Fail

MainNext ==
  \/ StartThreads \/ Wait \/ Look
  \/ EndScheduler \/ EndDatabase \/ EndDispatcher \/ Join

Next == LoaderNext \/ MainNext \/ SpuriousWakeup \/ DispatcherEnds

(* The threads run.                                                        *)
Fairness == WF_vars(LoaderNext) /\ WF_vars(MainNext) /\ WF_vars(DispatcherEnds)

Spec == Init /\ [][Next]_vars /\ Fairness

-----------------------------------------------------------------------------
(* Properties *)

TypeOK ==
  /\ stage \in 0 .. Len(Stages)
  /\ loader \in {"queued", "running", "failed", "loaded"}
  /\ services \in BOOLEAN /\ missed \in BOOLEAN
  /\ scheduler \in {"none", "running", "ended"}
  /\ database \in {"none", "running", "ended"}
  /\ dispatcher \in {"none", "running", "stopping", "ended"}

(* Unless a signal is lost or comes from nowhere, a start that fails ends  *)
(* the process, and one that does not is followed by main serving          *)
(* (startupErrorMessage, main).                                            *)
StartIsAnswered ==
  /\ loader = "failed" ~> mpc = "returned" \/ missed
  /\ loader = "loaded" ~> mpc = "serving" \/ missed
=============================================================================
