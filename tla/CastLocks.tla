------------------------------ MODULE CastLocks ------------------------------
(***************************************************************************)
(* The locks that a live cast ties together.  A caster's messages are sent *)
(* on to its spectators by Connection::broadcastMessage, on the network    *)
(* thread, while the dispatcher thread starts, stops and changes casts,    *)
(* sends to either and closes connections, and other threads hand work to  *)
(* the dispatcher.                                                         *)
(*                                                                         *)
(* A call is the list of locks it takes, each while it holds those before. *)
(* Locks that it has given back when it takes the next do not matter for   *)
(* who waits for whom: such calls are listed once for every stretch.       *)
(***************************************************************************)
EXTENDS Naturals, Sequences, FiniteSets, SequencesExt

CONSTANTS
  Caster,     \* connections whose players cast
  Spectator   \* connections of spectators

Thread == {"dispatcher", "network", "scheduler", "database"}

Client == Caster \cup Spectator

ConnectionLock(c) == <<"connection", c>>
LiveCastLock(c) == <<"liveCast", c>>
ManagerLock == <<"connectionManager">>
DispatcherLock == <<"dispatcher">>
SchedulerLock == <<"scheduler">>
DatabaseLock == <<"databaseTasks">>

Recursive(lock) == Head(lock) = "connection" \* std::recursive_mutex

VARIABLES
  held,     \* the locks each thread has, in the order it took them
  pending   \* those its call has yet to take

lockVars == <<held, pending>>

LocksInit ==
  /\ held = [t \in Thread |-> <<>>]
  /\ pending = [t \in Thread |-> <<>>]

-----------------------------------------------------------------------------
(* The calls *)

(* Connection::send and internalSend; one that fails closes the            *)
(* connection, and close makes a task of release.                          *)
SendCalls(c) == {<<ConnectionLock(c)>>,
            <<ConnectionLock(c), ManagerLock>>,
            <<ConnectionLock(c), ConnectionLock(c), DispatcherLock>>}

(* Connection::close, from any thread.                                     *)
CloseCalls(c) == {<<ManagerLock>>, <<ConnectionLock(c), DispatcherLock>>}

(* Connection::broadcastMessage: send, to one spectator after the other.   *)
BroadcastCalls(c) ==
  {<<ConnectionLock(c), LiveCastLock(c)>> \o call :
     call \in UNION {SendCalls(s) : s \in Spectator}}

(* parseHeader, parsePacket and onWriteOperation: their handlers work with *)
(* the lock of their connection, and hand tasks to the dispatcher; a first *)
(* message broadcast from there is dispatched in place.                    *)
HandlerCalls(c) ==
  {<<ConnectionLock(c), DispatcherLock>>}
    \cup {<<ConnectionLock(c)>> \o call : call \in SendCalls(c)}
    \cup IF c \in Caster
         THEN {<<ConnectionLock(c)>> \o call : call \in BroadcastCalls(c)}
         ELSE {}

(* startLiveCast, stopLiveCast and luaPlayerGetSpectators.                 *)
ChangeCastCalls(c) == {<<LiveCastLock(c)>>}

(* Faulty variant: the caster is told at once.                             *)
TellCaster(c) ==
  {<<LiveCastLock(c), DatabaseLock>>, <<LiveCastLock(c), ConnectionLock(c)>>}

(* addSpectator and removeSpectator write the cast to the database; what   *)
(* they tell the caster goes into its buffer, not to its connection.       *)
ChangeSpectatorsCalls(c) == {<<LiveCastLock(c), DatabaseLock>>}

DispatcherCalls ==
  (UNION {SendCalls(c) \cup CloseCalls(c) : c \in Client})
    \cup (UNION {ChangeCastCalls(c) \cup ChangeSpectatorsCalls(c) :
                   c \in Caster})
    \cup {<<DispatcherLock>>, <<SchedulerLock>>, <<DatabaseLock>>}

NetworkCalls ==
  (UNION {HandlerCalls(c) \cup CloseCalls(c) : c \in Client})
    \cup (UNION {BroadcastCalls(c) : c \in Caster})
    \cup {<<SchedulerLock>>, <<ManagerLock>>}

Calls(t) ==
  CASE t = "dispatcher" -> DispatcherCalls
    [] t = "network" -> NetworkCalls
    [] t = "scheduler" -> {<<SchedulerLock>>, <<DispatcherLock>>}
    [] t = "database" -> {<<DatabaseLock>>, <<DispatcherLock>>}

-----------------------------------------------------------------------------

Has(t, lock) == Contains(held[t], lock)

Free(t, lock) == \A u \in Thread : Has(u, lock) => u = t /\ Recursive(lock)

Begin(t) ==
  /\ held[t] = <<>> /\ pending[t] = <<>>
  /\ \E call \in Calls(t) : pending' = [pending EXCEPT ![t] = call]
  /\ UNCHANGED held

Take(t) ==
  /\ pending[t] # <<>>
  /\ Free(t, Head(pending[t]))
  /\ held' = [held EXCEPT ![t] = Append(@, Head(pending[t]))]
  /\ pending' = [pending EXCEPT ![t] = Tail(@)]

Return(t) ==
  /\ pending[t] = <<>> /\ held[t] # <<>>
  /\ held' = [held EXCEPT ![t] = <<>>]
  /\ UNCHANGED pending

LocksNext == \E t \in Thread : Begin(t) \/ Take(t) \/ Return(t)

LocksSpec == LocksInit /\ [][LocksNext]_lockVars

-----------------------------------------------------------------------------
(* Properties *)

LocksTypeOK ==
  /\ DOMAIN held = Thread
  /\ DOMAIN pending = Thread

Waits(t) == pending[t] # <<>> /\ ~Free(t, Head(pending[t]))

(* Threads do not wait for each other in a circle, nor one for itself      *)
(* ("DO NOT do any send operations here": protocolgame.cpp).               *)
NoCircularWait ==
  ~\E circle \in (SUBSET Thread) \ {{}} :
     \A t \in circle :
       /\ Waits(t)
       /\ \E u \in circle : Has(u, Head(pending[t]))
=============================================================================
