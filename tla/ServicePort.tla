----------------------------- MODULE ServicePort ------------------------------
(***************************************************************************)
(* One listening port (ServicePort of newsrc/server.cpp) and the throttle  *)
(* it asks about those who connect.  A port has at most one accept under   *)
(* way, whose completion runs on the network thread; after an error it     *)
(* closes and is opened again by an event of the scheduler.                *)
(***************************************************************************)
EXTENDS ConnectThrottle

VARIABLES
  acceptorOpen,  \* acceptor && acceptor->is_open()
  accepting,     \* an async_accept of this acceptor has not completed
  aborted,       \* accepts whose acceptor was closed, and who will be told
  pendingStart,
  retries,       \* calls of open that have yet to run
  managed        \* the acceptors of the ServiceManager hold the port; stop
                 \* has posted onStopServer otherwise

portVars ==
  <<acceptorOpen, accepting, aborted, pendingStart, retries, managed>>
serviceVars == <<throttleVars, portVars>>

(* ServiceManager::add opens the port.                                     *)
PortInit ==
  /\ ThrottleInit
  /\ acceptorOpen = FALSE
  /\ accepting = FALSE
  /\ aborted = 0
  /\ pendingStart = FALSE
  /\ retries = 1
  /\ managed = TRUE

(* The accept that waits on an acceptor ends with it.                      *)
Abort == aborted' = aborted + (IF accepting THEN 1 ELSE 0)

CloseAcceptor ==
  /\ acceptorOpen' = FALSE
  /\ accepting' = FALSE
  /\ Abort

(* onAccept without an error: the connection is taken or closed, and the   *)
(* next accept is started.                                                 *)
Accepted(ip) ==
  /\ accepting
  /\ AcceptAttempt(ip) \/ RefuseAttempt(ip)
  /\ UNCHANGED portVars

(* Faulty variant: the port is closed, and nothing opens it again.         *)
AcceptFailedCloses ==
  /\ accepting
  /\ accepting' = FALSE
  /\ acceptorOpen' = FALSE
  /\ pendingStart' = TRUE
  /\ UNCHANGED <<throttleVars, aborted, retries, managed>>

(* onAccept with an error of its own.                                      *)
AcceptFailed ==
  /\ accepting
  /\ accepting' = FALSE
  /\ IF pendingStart THEN UNCHANGED <<acceptorOpen, pendingStart, retries>>
     ELSE /\ acceptorOpen' = FALSE
          /\ pendingStart' = TRUE
          /\ retries' = retries + 1
  /\ UNCHANGED <<throttleVars, aborted, managed>>

(* onAccept with operation_aborted.                                        *)
AcceptAborted ==
  /\ aborted > 0
  /\ aborted' = aborted - 1
  /\ UNCHANGED <<throttleVars, acceptorOpen, accepting, pendingStart,
                 retries, managed>>

(* open, of a port that is still there: it closes what is open, and        *)
(* succeeds or fails and is tried again.                                   *)
OpenSucceeds ==
  /\ retries > 0 /\ managed
  /\ retries' = retries - 1
  /\ acceptorOpen' = TRUE
  /\ accepting' = TRUE
  /\ Abort
  /\ pendingStart' = FALSE
  /\ UNCHANGED <<throttleVars, managed>>

OpenFails ==
  /\ retries > 0 /\ managed
  /\ CloseAcceptor
  /\ pendingStart' = TRUE
  /\ UNCHANGED <<throttleVars, retries, managed>>

(* openAcceptor for a port that is gone.                                   *)
OpenNothing ==
  /\ retries > 0 /\ ~managed
  /\ retries' = retries - 1
  /\ UNCHANGED <<throttleVars, acceptorOpen, accepting, aborted,
                 pendingStart, managed>>

(* ServiceManager::stop and the onStopServer that it posts.                *)
StopServer ==
  /\ managed
  /\ managed' = FALSE
  /\ CloseAcceptor
  /\ UNCHANGED <<throttleVars, pendingStart, retries>>

PortNext ==
  \/ \E ip \in Ip : Accepted(ip)
  \/ AcceptFailed \/ AcceptAborted
  \/ OpenSucceeds \/ OpenFails \/ OpenNothing \/ StopServer
  \/ Tick /\ UNCHANGED portVars

(* Events run, and opening does not fail every time.                       *)
PortFairness == SF_serviceVars(OpenSucceeds)

PortSpec == PortInit /\ [][PortNext]_serviceVars /\ PortFairness

-----------------------------------------------------------------------------
(* Properties *)

PortTypeOK ==
  /\ ThrottleTypeOK
  /\ acceptorOpen \in BOOLEAN
  /\ accepting \in BOOLEAN
  /\ aborted \in Nat
  /\ pendingStart \in BOOLEAN
  /\ retries \in Nat
  /\ managed \in BOOLEAN

(* Until it is stopped a port that does not listen comes back, however     *)
(* often accepting and opening fail (onAccept, open).                      *)
PortComesBack == []<>(accepting \/ ~managed)
=============================================================================
