----------------------------- MODULE Connection -----------------------------
(***************************************************************************)
(* One client connection (newsrc/connection.cpp): the read chain, the      *)
(* write queue, the two timers, and the close that any thread may call.    *)
(*                                                                         *)
(* Handlers run on the network thread with connectionLock held; send and   *)
(* close are also called by the dispatcher thread.  A timer that has       *)
(* expired has queued its handler, and cancelling the timer does not take  *)
(* that back.  An operation on a closed socket, or on one the peer has     *)
(* reset, ends with an error; on any other it ends when the peer sends,    *)
(* reads or hangs up, or never.                                            *)
(***************************************************************************)
EXTENDS Integers

CONSTANTS
  ServerSendsFirst, \* the protocol is made on accept, not by the first packet
  MaxQueue,         \* bound: messages in messageQueue
  MaxLate           \* bound: timeout handlers queued at the same time

ASSUME ConnectionAssumption == ServerSendsFirst \in BOOLEAN

VARIABLES
  connectionState, \* "OPEN" or "CLOSED"
  socketOpen,      \* socket.is_open()
  reset,           \* the peer has reset the connection
  registered,      \* the connection is in ConnectionManager::connections
  protocol,        \* the connection has a protocol
  reading,         \* the pending read: "none", "header" or "body"
  messageQueue,    \* the length of messageQueue
  writing,         \* an async_write is pending
  readTimer,       \* "off" or "armed"
  writeTimer,
  late,            \* expired timers whose handleTimeout has yet to run
  releases,        \* Protocol::release tasks queued for this protocol
  destroyed        \* ~Connection has run

connectionVars ==
  <<connectionState, socketOpen, reset, registered, protocol, reading,
    messageQueue, writing, readTimer, writeTimer, late, releases, destroyed>>

(* ServicePort::onAccept, having created the connection, calls accept.     *)
ConnectionInit ==
  /\ connectionState = "OPEN"
  /\ socketOpen = TRUE
  /\ reset = FALSE
  /\ registered = TRUE
  /\ protocol = ServerSendsFirst
  /\ reading = "header"
  /\ messageQueue = 0
  /\ writing = FALSE
  /\ readTimer = "armed"
  /\ writeTimer = "off"
  /\ late = 0
  /\ releases = 0
  /\ destroyed = FALSE

(* Every operation on such a socket ends with an error.                    *)
Failing == ~socketOpen \/ reset

-----------------------------------------------------------------------------
(* close *)

(* closeSocket cancels the timers of a socket that is open.                *)
CloseSocket(rt, wt) ==
  /\ socketOpen' = FALSE
  /\ readTimer' = IF socketOpen THEN "off" ELSE rt
  /\ writeTimer' = IF socketOpen THEN "off" ELSE wt

KeepSocket(rt, wt) ==
  /\ UNCHANGED socketOpen
  /\ readTimer' = rt
  /\ writeTimer' = wt

(* Faulty variant: close queues a release every time it is called.         *)
CloseAgain(force, queued, rt, wt) ==
  /\ registered' = FALSE
  /\ connectionState' = "CLOSED"
  /\ releases' = releases + (IF protocol THEN 1 ELSE 0)
  /\ IF connectionState = "OPEN" /\ (queued = 0 \/ force)
     THEN CloseSocket(rt, wt) ELSE KeepSocket(rt, wt)

(* Connection::close with queued messages waiting; rt and wt are what the  *)
(* caller has made of the timers.  Only the first call has an effect: it   *)
(* queues the release of the protocol, and closes the socket unless        *)
(* messages are waiting and the call is not forced.                        *)
Close(force, queued, rt, wt) ==
  /\ registered' = FALSE
  /\ connectionState' = "CLOSED"
  /\ IF connectionState = "OPEN"
     THEN /\ releases' = releases + (IF protocol THEN 1 ELSE 0)
          /\ IF queued = 0 \/ force THEN CloseSocket(rt, wt)
                                    ELSE KeepSocket(rt, wt)
     ELSE /\ UNCHANGED releases
          /\ KeepSocket(rt, wt)

(* A protocol's disconnect, from the dispatcher thread or a handler.       *)
Disconnect ==
  /\ ~destroyed /\ protocol
  /\ Close(FALSE, messageQueue, readTimer, writeTimer)
  /\ UNCHANGED <<reset, protocol, reading, messageQueue, writing, late,
                 destroyed>>

(* ConnectionManager::closeAll closes the socket behind the connection's   *)
(* back: the state stays OPEN and the timers keep running.                 *)
CloseAll ==
  /\ registered
  /\ registered' = FALSE
  /\ socketOpen' = FALSE
  /\ UNCHANGED <<connectionState, reset, protocol, reading, messageQueue,
                 writing, readTimer, writeTimer, late, releases, destroyed>>

-----------------------------------------------------------------------------
(* Reading *)

(* parseHeader and parsePacket end with the next read and its timer.       *)
ReadNext(what) ==
  /\ reading' = what
  /\ readTimer' = "armed"
  /\ UNCHANGED <<connectionState, socketOpen, registered, writeTimer,
                 releases>>

StopReading ==
  /\ reading' = "none"
  /\ readTimer' = "off"
  /\ UNCHANGED <<connectionState, socketOpen, registered, writeTimer,
                 releases>>

(* Faulty variant: the timer is not started again for the packet's body.   *)
ParseHeaderUntimed ==
  /\ reading = "header"
  /\ \/ /\ reading' = "none"
        /\ Close(TRUE, messageQueue, "off", writeTimer)
     \/ /\ connectionState = "CLOSED"
        /\ StopReading
     \/ /\ socketOpen /\ connectionState = "OPEN"
        /\ reading' = "body"
        /\ readTimer' = "off"
        /\ UNCHANGED <<connectionState, socketOpen, registered, writeTimer,
                       releases>>
  /\ UNCHANGED <<reset, protocol, messageQueue, writing, late, destroyed>>

(* parseHeader cancels the read timer; an error, a bad size or too many    *)
(* packets close the connection, a closed one reads no further, and any    *)
(* other reads the body.                                                   *)
ParseHeader ==
  /\ reading = "header"
  /\ \/ /\ reading' = "none"                       \* error or bad size
        /\ Close(TRUE, messageQueue, "off", writeTimer)
     \/ /\ socketOpen /\ connectionState = "OPEN"  \* packet rate exceeded
        /\ protocol
        /\ reading' = "none"
        /\ Close(FALSE, messageQueue, "off", writeTimer)
     \/ /\ connectionState = "CLOSED"
        /\ StopReading
     \/ /\ socketOpen /\ connectionState = "OPEN"
        /\ ReadNext("body")
  /\ UNCHANGED <<reset, protocol, messageQueue, writing, late, destroyed>>

(* parsePacket: the first packet may make the protocol, and closes the     *)
(* connection if there is none for it.  The protocol handles the packet,   *)
(* and may send or disconnect from within; whatever it does, the next read *)
(* is started.                                                             *)
ParsePacket ==
  /\ reading = "body"
  /\ \/ /\ reading' = "none"                       \* error
        /\ Close(TRUE, messageQueue, "off", writeTimer)
        /\ UNCHANGED protocol
     \/ /\ connectionState = "CLOSED"
        /\ StopReading
        /\ UNCHANGED protocol
     \/ /\ connectionState = "OPEN"                \* no protocol for it
        /\ socketOpen /\ ~protocol
        /\ reading' = "none"
        /\ Close(TRUE, messageQueue, "off", writeTimer)
        /\ UNCHANGED protocol
     \/ /\ connectionState = "OPEN" /\ socketOpen
        /\ protocol' = TRUE
        /\ ReadNext("header")
     \/ /\ connectionState = "OPEN" /\ socketOpen  \* the handler disconnects
        /\ protocol' = TRUE
        /\ reading' = "header"
        /\ registered' = FALSE
        /\ connectionState' = "CLOSED"
        /\ releases' = releases + 1
        /\ readTimer' = "armed"
        /\ IF messageQueue = 0
           THEN socketOpen' = FALSE /\ writeTimer' = "off"
           ELSE UNCHANGED <<socketOpen, writeTimer>>
  /\ UNCHANGED <<reset, messageQueue, writing, late, destroyed>>

-----------------------------------------------------------------------------
(* Writing *)

(* send queues a message on an open connection, and starts the write when  *)
(* none is pending.                                                        *)
Send ==
  /\ ~destroyed /\ protocol
  /\ connectionState = "OPEN"
  /\ messageQueue < MaxQueue
  /\ messageQueue' = messageQueue + 1
  /\ IF messageQueue = 0
     THEN writing' = TRUE /\ writeTimer' = "armed"
     ELSE UNCHANGED <<writing, writeTimer>>
  /\ UNCHANGED <<connectionState, socketOpen, reset, registered, protocol,
                 reading, readTimer, late, releases, destroyed>>

(* Faulty variant: the last write of a closed connection leaves it open.   *)
OnWriteOperationKeepsSocket ==
  /\ writing
  /\ \/ /\ Failing
        /\ messageQueue' = 0
        /\ writing' = FALSE
        /\ Close(TRUE, 0, readTimer, "off")
     \/ /\ socketOpen /\ ~reset
        /\ messageQueue' = messageQueue - 1
        /\ IF messageQueue > 1
           THEN writing' = TRUE /\ writeTimer' = "armed"
           ELSE writing' = FALSE /\ writeTimer' = "off"
        /\ UNCHANGED <<connectionState, socketOpen, registered, readTimer,
                       releases>>
  /\ UNCHANGED <<reset, protocol, reading, late, destroyed>>

(* Faulty variant: the messages that are left wait for the next send.      *)
OnWriteOperationStops ==
  /\ writing
  /\ writing' = FALSE
  /\ \/ /\ Failing
        /\ messageQueue' = 0
        /\ Close(TRUE, 0, readTimer, "off")
     \/ /\ socketOpen /\ ~reset
        /\ messageQueue' = messageQueue - 1
        /\ IF connectionState = "CLOSED" THEN CloseSocket(readTimer, "off")
                                         ELSE KeepSocket(readTimer, "off")
        /\ UNCHANGED <<connectionState, registered, releases>>
  /\ UNCHANGED <<reset, protocol, reading, late, destroyed>>

(* Faulty variant: after an error the next message is taken off as well,   *)
(* whether or not there is one.                                            *)
OnWriteOperationPopsTwice ==
  /\ writing
  /\ \/ /\ Failing
        /\ messageQueue' = messageQueue - 2
        /\ writing' = FALSE
        /\ Close(TRUE, 0, readTimer, "off")
     \/ /\ socketOpen /\ ~reset
        /\ messageQueue' = messageQueue - 1
        /\ IF messageQueue > 1
           THEN /\ writing' = TRUE
                /\ KeepSocket(readTimer, "armed")
           ELSE /\ writing' = FALSE
                /\ IF connectionState = "CLOSED"
                   THEN CloseSocket(readTimer, "off")
                   ELSE KeepSocket(readTimer, "off")
        /\ UNCHANGED <<connectionState, registered, releases>>
  /\ UNCHANGED <<reset, protocol, reading, late, destroyed>>

(* onWriteOperation cancels the write timer and takes the message off the  *)
(* queue.  An error drops the rest and closes; otherwise the next message  *)
(* is written, or a connection that was closed meanwhile gives up its      *)
(* socket.                                                                 *)
OnWriteOperation ==
  /\ writing
  /\ \/ /\ Failing                    \* error
        /\ messageQueue' = 0
        /\ writing' = FALSE
        /\ Close(TRUE, 0, readTimer, "off")
     \/ /\ socketOpen /\ ~reset
        /\ messageQueue' = messageQueue - 1
        /\ IF messageQueue > 1
           THEN /\ writing' = TRUE
                /\ KeepSocket(readTimer, "armed")
           ELSE /\ writing' = FALSE
                /\ IF connectionState = "CLOSED"
                   THEN CloseSocket(readTimer, "off")
                   ELSE KeepSocket(readTimer, "off")
        /\ UNCHANGED <<connectionState, registered, releases>>
  /\ UNCHANGED <<reset, protocol, reading, late, destroyed>>

-----------------------------------------------------------------------------
(* Timers and destruction *)

TimerExpires ==
  /\ late < MaxLate
  /\ late' = late + 1
  /\ \/ readTimer = "armed" /\ readTimer' = "off" /\ UNCHANGED writeTimer
     \/ writeTimer = "armed" /\ writeTimer' = "off" /\ UNCHANGED readTimer
  /\ UNCHANGED <<connectionState, socketOpen, reset, registered, protocol,
                 reading, messageQueue, writing, releases, destroyed>>

(* handleTimeout holds a weak pointer: it does nothing after destruction.  *)
HandleTimeout ==
  /\ late > 0
  /\ late' = late - 1
  /\ IF destroyed
     THEN UNCHANGED <<connectionState, socketOpen, registered, readTimer,
                      writeTimer, releases>>
     ELSE Close(TRUE, messageQueue, readTimer, writeTimer)
  /\ UNCHANGED <<reset, protocol, reading, messageQueue, writing, destroyed>>

PeerResets ==
  /\ socketOpen /\ ~reset
  /\ reset' = TRUE
  /\ UNCHANGED <<connectionState, socketOpen, registered, protocol, reading,
                 messageQueue, writing, readTimer, writeTimer, late, releases,
                 destroyed>>

(* The last shared pointer is gone: no handler of a pending operation and  *)
(* no entry in the manager.  The destructor closes the socket, and a timer *)
(* that is destroyed is cancelled.                                         *)
Destroy ==
  /\ ~destroyed
  /\ ~registered /\ reading = "none" /\ ~writing
  /\ destroyed' = TRUE
  /\ socketOpen' = FALSE
  /\ readTimer' = "off"
  /\ writeTimer' = "off"
  /\ UNCHANGED <<connectionState, reset, registered, protocol, reading,
                 messageQueue, writing, late, releases>>

ConnectionNext ==
  \/ Disconnect \/ CloseAll
  \/ ParseHeader \/ ParsePacket
  \/ Send \/ OnWriteOperation
  \/ TimerExpires \/ HandleTimeout \/ PeerResets \/ Destroy

(* What the machine does by itself: operations on a closed or reset socket *)
(* fail, timers expire, queued handlers run, unowned objects are destroyed *)
(* and no peer is waited for.                                              *)
HandlersRun ==
  /\ WF_connectionVars(Failing /\ ParseHeader)
  /\ WF_connectionVars(Failing /\ ParsePacket)
  /\ WF_connectionVars(Failing /\ OnWriteOperation)
  /\ WF_connectionVars(HandleTimeout)
  /\ WF_connectionVars(Destroy)

ConnectionFairness == HandlersRun /\ WF_connectionVars(TimerExpires)

ConnectionSafeSpec == ConnectionInit /\ [][ConnectionNext]_connectionVars
ConnectionSpec == ConnectionSafeSpec /\ ConnectionFairness

(* The peer reads what it is sent, or resets the connection.               *)
PeerReads == WF_connectionVars(OnWriteOperation)

-----------------------------------------------------------------------------
(* Properties *)

ConnectionTypeOK ==
  /\ connectionState \in {"OPEN", "CLOSED"}
  /\ socketOpen \in BOOLEAN
  /\ reset \in BOOLEAN
  /\ registered \in BOOLEAN
  /\ protocol \in BOOLEAN
  /\ reading \in {"none", "header", "body"}
  /\ messageQueue \in Nat
  /\ writing \in BOOLEAN
  /\ readTimer \in {"off", "armed"}
  /\ writeTimer \in {"off", "armed"}
  /\ late \in Nat
  /\ releases \in Nat
  /\ destroyed \in BOOLEAN

(* The protocol of a closed connection is released once, however many of   *)
(* close's callers race: peer, timers, dispatcher (connection.cpp, close). *)
ReleasedOnce ==
  releases = IF connectionState = "CLOSED" /\ protocol THEN 1 ELSE 0

(* A pending write has its message at the front of the queue, which        *)
(* onWriteOperation pops without a look, and an open connection with       *)
(* messages is writing: send would never start a stalled queue again.      *)
WritesTheQueue ==
  /\ writing => messageQueue > 0
  /\ connectionState = "OPEN" /\ messageQueue > 0 => writing

(* A connection that is open waits for its peer under a timer, or a        *)
(* timeout has been queued: a silent peer cannot keep it for ever.         *)
OpenIsTimed ==
  connectionState = "OPEN" /\ socketOpen =>
    reading # "none" /\ (readTimer = "armed" \/ late > 0)

(* Whatever the peer, the timers and the callers of send and close do: the *)
(* protocol is released once, the queue is written, no peer is waited for  *)
(* without a timer.                                                        *)
ConnectionIsSound ==
  ConnectionTypeOK /\ ReleasedOnce /\ WritesTheQueue /\ OpenIsTimed

(* A closed connection gives up its socket (connection.cpp, close: "will   *)
(* be closed by the destructor or onWriteOperation").                      *)
ClosedGivesUpSocket == connectionState = "CLOSED" ~> ~socketOpen
=============================================================================
