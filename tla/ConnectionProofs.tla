--------------------------- MODULE ConnectionProofs ---------------------------
(***************************************************************************)
(* Theorems about Connection, CastLocks and ConnectThrottle: for both      *)
(* kinds of protocol and every bound of the queue and of the late          *)
(* handlers; for every set of casters and spectators; for every set of     *)
(* addresses and every limit.                                              *)
(***************************************************************************)
EXTENDS Connection, CastLocks, ConnectThrottle, TLAPS

(* A timeout that runs late finds its connection closed or closes it, but  *)
(* for one that is destroyed; what is destroyed has no socket.             *)
DestroyedIsShut == destroyed => ~socketOpen

IInv == ConnectionIsSound /\ DestroyedIsShut

(* close releases the protocol of a connection that was open, and closes   *)
(* its socket or leaves the pending write to do it.                        *)
LEMMA CloseKeeps ==
  ASSUME ConnectionTypeOK, ReleasedOnce, UNCHANGED protocol,
         NEW force \in BOOLEAN, NEW queued \in Nat,
         NEW rt \in {"off", "armed"}, NEW wt \in {"off", "armed"},
         Close(force, queued, rt, wt)
  PROVE  /\ connectionState' = "CLOSED" /\ registered' \in BOOLEAN
         /\ releases' \in Nat /\ ReleasedOnce'
         /\ socketOpen' \in BOOLEAN /\ (socketOpen' => socketOpen)
         /\ readTimer' \in {"off", "armed"}
         /\ writeTimer' \in {"off", "armed"}
<1>1. connectionState' = "CLOSED" /\ registered' \in BOOLEAN BY DEF Close
<1>2. releases' = releases + (IF connectionState = "OPEN" /\ protocol
                              THEN 1 ELSE 0)
  BY DEF Close, ConnectionTypeOK
<1>3. releases' \in Nat /\ ReleasedOnce'
  BY <1>1, <1>2 DEF ConnectionTypeOK, ReleasedOnce
<1>4. /\ socketOpen' \in BOOLEAN /\ (socketOpen' => socketOpen)
      /\ readTimer' \in {"off", "armed"} /\ writeTimer' \in {"off", "armed"}
  BY DEF Close, CloseSocket, KeepSocket, ConnectionTypeOK
<1> QED BY <1>1, <1>3, <1>4

LEMMA InitIInv == ConnectionInit => IInv
<1> SUFFICES ASSUME ConnectionInit PROVE IInv OBVIOUS
<1>1. ServerSendsFirst \in BOOLEAN BY ConnectionAssumption
<1>2. ConnectionTypeOK BY <1>1 DEF ConnectionInit, ConnectionTypeOK
<1>3. ReleasedOnce /\ DestroyedIsShut
  BY DEF ConnectionInit, ReleasedOnce, DestroyedIsShut
<1>4. WritesTheQueue /\ OpenIsTimed
  BY DEF ConnectionInit, WritesTheQueue, OpenIsTimed
<1> QED BY <1>2, <1>3, <1>4 DEF IInv, ConnectionIsSound

LEMMA NextIInv == IInv /\ [ConnectionNext]_connectionVars => IInv'
<1> SUFFICES ASSUME IInv, [ConnectionNext]_connectionVars PROVE IInv'
  OBVIOUS
<1> USE DEF IInv, ConnectionIsSound, WritesTheQueue, OpenIsTimed,
            DestroyedIsShut
<1>1. CASE Disconnect
  <2>1. Close(FALSE, messageQueue, readTimer, writeTimer)
    BY <1>1 DEF Disconnect
  <2>2. UNCHANGED protocol BY <1>1 DEF Disconnect
  <2> QED BY <1>1, <2>1, <2>2, CloseKeeps DEF Disconnect, ConnectionTypeOK
<1>2. CASE CloseAll
  BY <1>2 DEF CloseAll, ConnectionTypeOK, ReleasedOnce
<1>3. CASE ParseHeader
  <2>1. CASE \E force \in BOOLEAN :
               /\ reading' = "none"
               /\ Close(force, messageQueue, "off", writeTimer)
    <3>1. UNCHANGED protocol BY <1>3 DEF ParseHeader
    <3> QED BY <1>3, <2>1, <3>1, CloseKeeps DEF ParseHeader, ConnectionTypeOK
  <2>2. CASE connectionState = "CLOSED" /\ StopReading
    BY <1>3, <2>2
    DEF ParseHeader, StopReading, ConnectionTypeOK, ReleasedOnce
  <2>3. CASE ReadNext("body")
    BY <1>3, <2>3 DEF ParseHeader, ReadNext, ConnectionTypeOK, ReleasedOnce
  <2> QED BY <1>3, <2>1, <2>2, <2>3 DEF ParseHeader
<1>4. CASE ParsePacket
  <2>1. CASE /\ reading' = "none" /\ UNCHANGED protocol
             /\ Close(TRUE, messageQueue, "off", writeTimer)
    BY <1>4, <2>1, CloseKeeps DEF ParsePacket, ConnectionTypeOK
  <2>2. CASE connectionState = "CLOSED" /\ StopReading /\ UNCHANGED protocol
    BY <1>4, <2>2
    DEF ParsePacket, StopReading, ConnectionTypeOK, ReleasedOnce
  <2>3. CASE connectionState = "OPEN" /\ protocol' = TRUE
             /\ ReadNext("header")
    BY <1>4, <2>3 DEF ParsePacket, ReadNext, ConnectionTypeOK, ReleasedOnce
  <2>4. CASE /\ connectionState = "OPEN" /\ protocol' = TRUE
             /\ reading' = "header" /\ registered' = FALSE
             /\ connectionState' = "CLOSED" /\ releases' = releases + 1
             /\ readTimer' = "armed"
             /\ IF messageQueue = 0
                THEN socketOpen' = FALSE /\ writeTimer' = "off"
                ELSE UNCHANGED <<socketOpen, writeTimer>>
    <3>1. UNCHANGED <<reset, messageQueue, writing, late, destroyed>>
      BY <1>4 DEF ParsePacket
    <3>2. releases = 0 /\ releases' = 1
      BY <2>4 DEF ConnectionTypeOK, ReleasedOnce
    <3>3. ReleasedOnce' BY <2>4, <3>2 DEF ReleasedOnce
    <3>4. ConnectionTypeOK'
      <4>1. socketOpen' \in BOOLEAN /\ writeTimer' \in {"off", "armed"}
        BY <2>4 DEF ConnectionTypeOK
      <4>2. messageQueue' \in Nat /\ late' \in Nat /\ releases' \in Nat
        BY <3>1, <3>2 DEF ConnectionTypeOK
      <4>3. /\ connectionState' \in {"OPEN", "CLOSED"} /\ reset' \in BOOLEAN
            /\ registered' \in BOOLEAN /\ protocol' \in BOOLEAN
            /\ reading' \in {"none", "header", "body"}
            /\ writing' \in BOOLEAN /\ destroyed' \in BOOLEAN
            /\ readTimer' \in {"off", "armed"}
        BY <2>4, <3>1 DEF ConnectionTypeOK
      <4> QED BY <4>1, <4>2, <4>3 DEF ConnectionTypeOK
    <3>5. WritesTheQueue' /\ OpenIsTimed' BY <2>4, <3>1
    <3>6. DestroyedIsShut' BY <2>4, <3>1
    <3> QED BY <3>3, <3>4, <3>5, <3>6
  <2> QED BY <1>4, <2>1, <2>2, <2>3, <2>4 DEF ParsePacket
<1>5. CASE Send
  <2>1. messageQueue' \in Nat /\ messageQueue' > 0
    BY <1>5 DEF Send, ConnectionTypeOK
  <2>2. writing' = TRUE
    <3>1. CASE messageQueue = 0 BY <1>5, <3>1 DEF Send
    <3>2. CASE messageQueue # 0
      <4>1. writing BY <1>5, <3>2 DEF Send, ConnectionTypeOK
      <4> QED BY <1>5, <3>2, <4>1 DEF Send, ConnectionTypeOK
    <3> QED BY <3>1, <3>2
  <2>3. WritesTheQueue' BY <2>1, <2>2
  <2>4. ConnectionTypeOK' BY <1>5, <2>1, <2>2 DEF Send, ConnectionTypeOK
  <2>5. ReleasedOnce' /\ OpenIsTimed' /\ DestroyedIsShut'
    BY <1>5 DEF Send, ReleasedOnce
  <2> QED BY <2>3, <2>4, <2>5
<1>6. CASE OnWriteOperation
  <2>1. UNCHANGED protocol BY <1>6 DEF OnWriteOperation
  <2>2. CASE /\ messageQueue' = 0 /\ writing' = FALSE
             /\ Close(TRUE, 0, readTimer, "off")
    BY <1>6, <2>1, <2>2, CloseKeeps DEF OnWriteOperation, ConnectionTypeOK
  <2>3. CASE /\ messageQueue' = messageQueue - 1
             /\ IF messageQueue > 1
                THEN /\ writing' = TRUE
                     /\ KeepSocket(readTimer, "armed")
                ELSE /\ writing' = FALSE
                     /\ IF connectionState = "CLOSED"
                        THEN CloseSocket(readTimer, "off")
                        ELSE KeepSocket(readTimer, "off")
             /\ UNCHANGED <<connectionState, registered, releases>>
    <3>1. writing /\ UNCHANGED <<reset, protocol, reading, late, destroyed>>
      BY <1>6 DEF OnWriteOperation
    <3>2. messageQueue' \in Nat /\ (messageQueue > 1 <=> messageQueue' > 0)
      BY <2>3, <3>1 DEF ConnectionTypeOK
    <3>3. WritesTheQueue' BY <2>3, <3>2
    <3>4. /\ socketOpen' \in BOOLEAN /\ (socketOpen' => socketOpen)
          /\ connectionState = "OPEN" => readTimer' = readTimer
          /\ readTimer' \in {"off", "armed"}
          /\ writeTimer' \in {"off", "armed"} /\ writing' \in BOOLEAN
      BY <2>3 DEF KeepSocket, CloseSocket, ConnectionTypeOK
    <3>5. ConnectionTypeOK' BY <2>3, <3>1, <3>2, <3>4 DEF ConnectionTypeOK
    <3>6. ReleasedOnce' BY <2>3, <3>1 DEF ReleasedOnce
    <3>7. OpenIsTimed' /\ DestroyedIsShut' BY <2>3, <3>1, <3>4
    <3> QED BY <3>3, <3>5, <3>6, <3>7
  <2> QED BY <1>6, <2>2, <2>3 DEF OnWriteOperation
<1>7. CASE TimerExpires
  BY <1>7 DEF TimerExpires, ConnectionTypeOK, ReleasedOnce
<1>8. CASE HandleTimeout
  <2>1. CASE destroyed
    BY <1>8, <2>1 DEF HandleTimeout, ConnectionTypeOK, ReleasedOnce
  <2>2. CASE ~destroyed
    <3>1. /\ Close(TRUE, messageQueue, readTimer, writeTimer)
          /\ UNCHANGED protocol
      BY <1>8, <2>2 DEF HandleTimeout
    <3>2. late' \in Nat
      BY <1>8 DEF HandleTimeout, ConnectionTypeOK
    <3>3. UNCHANGED <<reset, reading, messageQueue, writing, destroyed>>
      BY <1>8 DEF HandleTimeout
    <3>4. ConnectionTypeOK' /\ connectionState' = "CLOSED" /\ ReleasedOnce'
      BY <3>1, <3>2, <3>3, CloseKeeps DEF ConnectionTypeOK
    <3>5. socketOpen' => socketOpen
      BY <3>1, CloseKeeps DEF ConnectionTypeOK
    <3> QED BY <3>3, <3>4, <3>5
  <2> QED BY <2>1, <2>2
<1>9. CASE PeerResets
  BY <1>9 DEF PeerResets, ConnectionTypeOK, ReleasedOnce
<1>10. CASE Destroy
  BY <1>10 DEF Destroy, ConnectionTypeOK, ReleasedOnce
<1>11. CASE UNCHANGED connectionVars
  BY <1>11 DEF connectionVars, ConnectionTypeOK, ReleasedOnce
<1> QED
  BY <1>1, <1>2, <1>3, <1>4, <1>5, <1>6, <1>7, <1>8, <1>9, <1>10, <1>11
  DEF ConnectionNext

(* Connection::close releases the protocol of a closed connection once,    *)
(* send and onWriteOperation never stall a queue nor pop an empty one, and *)
(* parseHeader and parsePacket never wait for the peer without a timer.    *)
THEOREM ConnectionIsSoundHolds == ConnectionSafeSpec => []ConnectionIsSound
<1>1. IInv => ConnectionIsSound BY DEF IInv
<1> QED BY <1>1, InitIInv, NextIInv, PTL DEF ConnectionSafeSpec

-----------------------------------------------------------------------------
(* The locks of a cast *)

Lock ==
  {ConnectionLock(c) : c \in Client} \cup {LiveCastLock(c) : c \in Caster}
    \cup {ManagerLock, DispatcherLock, SchedulerLock, DatabaseLock}

(* Whoever has such a lock takes no other.                                 *)
IsLeaf(lock) == Head(lock) \notin {"connection", "liveCast"}

(* What the calls of t have in common: only the last lock of a call is a   *)
(* leaf, none but a connection's is taken twice, the dispatcher goes from  *)
(* a lock to a leaf or to the same again, the others take leaves only.     *)
WellOrdered(t, call) ==
  /\ call \in Seq(Lock)
  /\ \A i \in 1 .. Len(call) - 1 : ~IsLeaf(call[i])
  /\ \A i, j \in 1 .. Len(call) :
       call[i] = call[j] /\ ~Recursive(call[i]) => i = j
  /\ t = "dispatcher" =>
       \A i \in 2 .. Len(call) :
         IsLeaf(call[i]) \/ (Recursive(call[i]) /\ call[i] = call[i - 1])
  /\ t \in {"scheduler", "database"} =>
       \A i \in 1 .. Len(call) : IsLeaf(call[i])

LEMMA LockKinds ==
  /\ \A c \in Client :
       /\ ConnectionLock(c) \in Lock
       /\ Recursive(ConnectionLock(c)) /\ ~IsLeaf(ConnectionLock(c))
  /\ \A c \in Caster :
       /\ LiveCastLock(c) \in Lock
       /\ ~Recursive(LiveCastLock(c)) /\ ~IsLeaf(LiveCastLock(c))
  /\ \A lock \in {ManagerLock, DispatcherLock, SchedulerLock, DatabaseLock} :
       lock \in Lock /\ ~Recursive(lock) /\ IsLeaf(lock)
<1>1. \A c : Head(ConnectionLock(c)) = "connection"
  BY DEF ConnectionLock
<1>2. \A c : Head(LiveCastLock(c)) = "liveCast" BY DEF LiveCastLock
<1>3. /\ Head(ManagerLock) = "connectionManager"
      /\ Head(DispatcherLock) = "dispatcher"
      /\ Head(SchedulerLock) = "scheduler"
      /\ Head(DatabaseLock) = "databaseTasks"
  BY DEF ManagerLock, DispatcherLock, SchedulerLock, DatabaseLock
<1> QED BY <1>1, <1>2, <1>3 DEF Lock, Recursive, IsLeaf

(* Calls of one lock, and of a connection's lock, once or twice, or of a   *)
(* cast's lock and a leaf.                                                 *)
LEMMA ShortCalls ==
  ASSUME NEW t \in Thread, NEW a \in Lock, NEW b \in Lock, ~IsLeaf(a),
         IsLeaf(b)
  PROVE  /\ t \in {"dispatcher", "network"} => WellOrdered(t, <<a>>)
         /\ WellOrdered(t, <<b>>)
         /\ t \in {"dispatcher", "network"} => WellOrdered(t, <<a, b>>)
         /\ t \in {"dispatcher", "network"} /\ Recursive(a) =>
              WellOrdered(t, <<a, a, b>>)
<1> USE DEF WellOrdered, Recursive, IsLeaf
<1>1. t \in {"dispatcher", "network"} => WellOrdered(t, <<a>>) OBVIOUS
<1>2. WellOrdered(t, <<b>>) OBVIOUS
<1>3. t \in {"dispatcher", "network"} => WellOrdered(t, <<a, b>>) OBVIOUS
<1>4. t \in {"dispatcher", "network"} /\ Recursive(a) =>
        WellOrdered(t, <<a, a, b>>)
  OBVIOUS
<1> QED BY <1>1, <1>2, <1>3, <1>4

(* A call within another lock.                                             *)
LEMMA NestedCalls ==
  ASSUME NEW a \in Lock, NEW call, call # <<>>,
         WellOrdered("network", call), ~IsLeaf(a),
         Recursive(a) \/ \A i \in 1 .. Len(call) : call[i] # a
  PROVE  /\ WellOrdered("network", <<a>> \o call)
         /\ <<a>> \o call # <<>>
<1> DEFINE whole == <<a>> \o call
<1>1. call \in Seq(Lock) BY DEF WellOrdered
<1>2. /\ whole \in Seq(Lock) /\ Len(whole) = Len(call) + 1
      /\ Len(call) \in Nat /\ Len(call) > 0
      /\ whole[1] = a
      /\ \A i \in 2 .. Len(whole) : whole[i] = call[i - 1]
  BY <1>1
<1> HIDE DEF whole
<1>3. \A i \in 1 .. Len(whole) - 1 : ~IsLeaf(whole[i])
  <2> TAKE i \in 1 .. Len(whole) - 1
  <2>1. CASE i = 1 BY <1>2, <2>1
  <2>2. CASE i > 1
    <3>1. whole[i] = call[i - 1] /\ i - 1 \in 1 .. Len(call) - 1
      BY <1>2, <2>2
    <3> QED BY <3>1 DEF WellOrdered
  <2> QED BY <1>2, <2>1, <2>2
<1>4. ASSUME NEW i \in 1 .. Len(whole), NEW j \in 1 .. Len(whole),
             whole[i] = whole[j], ~Recursive(whole[i])
      PROVE  i = j
  <2>1. CASE i = 1 \/ j = 1
    <3>1. ~Recursive(a) BY <1>2, <1>4, <2>1
    <3>2. \A k \in 2 .. Len(whole) : whole[k] # a
      <4> TAKE k \in 2 .. Len(whole)
      <4>1. k - 1 \in 1 .. Len(call) BY <1>2
      <4> QED BY <1>2, <3>1, <4>1
    <3> QED BY <1>2, <1>4, <2>1, <3>2
  <2>2. CASE i > 1 /\ j > 1
    <3>1. /\ i - 1 \in 1 .. Len(call) /\ j - 1 \in 1 .. Len(call)
          /\ whole[i] = call[i - 1] /\ whole[j] = call[j - 1]
      BY <1>2, <2>2
    <3>2. i - 1 = j - 1 BY <1>4, <3>1 DEF WellOrdered
    <3> QED BY <3>2
  <2> QED BY <1>2, <2>1, <2>2
<1>5. WellOrdered("network", whole) BY <1>2, <1>3, <1>4 DEF WellOrdered
<1>6. whole # <<>> BY <1>2
<1> QED BY <1>5, <1>6 DEF whole

(* Connection::send, on either thread, and close.                          *)
LEMMA SendsAreWellOrdered ==
  ASSUME NEW t \in {"dispatcher", "network"}, NEW c \in Client,
         NEW call \in SendCalls(c) \cup CloseCalls(c)
  PROVE  WellOrdered(t, call) /\ call # <<>>
<1>1. t \in Thread BY DEF Thread
<1>2. /\ ConnectionLock(c) \in Lock /\ ~IsLeaf(ConnectionLock(c))
      /\ Recursive(ConnectionLock(c))
      /\ \A lock \in {ManagerLock, DispatcherLock} :
           lock \in Lock /\ IsLeaf(lock)
  BY LockKinds
<1>3. \/ call = <<ConnectionLock(c)>>
      \/ call = <<ConnectionLock(c), ManagerLock>>
      \/ call = <<ConnectionLock(c), ConnectionLock(c), DispatcherLock>>
      \/ call = <<ManagerLock>>
      \/ call = <<ConnectionLock(c), DispatcherLock>>
  BY DEF SendCalls, CloseCalls
<1>4. call # <<>> BY <1>3
<1>5. WellOrdered(t, call)
  <2>1. /\ WellOrdered(t, <<ConnectionLock(c)>>)
        /\ WellOrdered(t, <<ManagerLock>>)
        /\ WellOrdered(t, <<ConnectionLock(c), ManagerLock>>)
        /\ WellOrdered(t, <<ConnectionLock(c), DispatcherLock>>)
        /\ WellOrdered(t, <<ConnectionLock(c), ConnectionLock(c),
                            DispatcherLock>>)
    BY <1>1, <1>2, ShortCalls
  <2> QED BY <1>3, <2>1
<1> QED BY <1>4, <1>5

(* Connection::broadcastMessage: a spectator is no caster, and the cast's  *)
(* lock is not taken again.                                                *)
LEMMA BroadcastsAreWellOrdered ==
  ASSUME NEW c \in Caster, NEW call \in BroadcastCalls(c)
  PROVE  WellOrdered("network", call) /\ call # <<>>
<1>1. PICK s \in Spectator :
        \E sent \in SendCalls(s) :
          call = <<ConnectionLock(c), LiveCastLock(c)>> \o sent
  BY DEF BroadcastCalls
<1>2. PICK sent \in SendCalls(s) :
        call = <<ConnectionLock(c), LiveCastLock(c)>> \o sent
  BY <1>1
<1>3. c \in Client /\ s \in Client BY DEF Client
<1>4. WellOrdered("network", sent) /\ sent # <<>>
  BY <1>3, SendsAreWellOrdered
<1>5. \A i \in 1 .. Len(sent) : sent[i] # LiveCastLock(c)
  BY DEF SendCalls, ConnectionLock, LiveCastLock, ManagerLock, DispatcherLock
<1>6. /\ LiveCastLock(c) \in Lock /\ ~IsLeaf(LiveCastLock(c))
      /\ ConnectionLock(c) \in Lock /\ ~IsLeaf(ConnectionLock(c))
      /\ Recursive(ConnectionLock(c))
  BY <1>3, LockKinds
<1>7. /\ WellOrdered("network", <<LiveCastLock(c)>> \o sent)
      /\ <<LiveCastLock(c)>> \o sent # <<>>
  BY <1>4, <1>5, <1>6, NestedCalls
<1>8. /\ WellOrdered("network",
                     <<ConnectionLock(c)>> \o (<<LiveCastLock(c)>> \o sent))
      /\ <<ConnectionLock(c)>> \o (<<LiveCastLock(c)>> \o sent) # <<>>
  BY <1>6, <1>7, NestedCalls
<1>9. call = <<ConnectionLock(c)>> \o (<<LiveCastLock(c)>> \o sent)
  <2>1. /\ sent \in Seq(Lock) /\ ConnectionLock(c) \in Lock
        /\ LiveCastLock(c) \in Lock
    BY <1>4, <1>6 DEF WellOrdered
  <2> QED BY <1>2, <2>1
<1> QED BY <1>8, <1>9

(* parseHeader, parsePacket and onWriteOperation.                          *)
LEMMA HandlersAreWellOrdered ==
  ASSUME NEW c \in Client, NEW call \in HandlerCalls(c)
  PROVE  WellOrdered("network", call) /\ call # <<>>
<1>1. /\ ConnectionLock(c) \in Lock /\ ~IsLeaf(ConnectionLock(c))
      /\ Recursive(ConnectionLock(c))
      /\ DispatcherLock \in Lock /\ IsLeaf(DispatcherLock)
  BY LockKinds
<1>2. CASE call = <<ConnectionLock(c), DispatcherLock>>
  <2>1. "network" \in Thread BY DEF Thread
  <2> QED BY <1>1, <1>2, <2>1, ShortCalls
<1>3. ASSUME NEW sent \in SendCalls(c), call = <<ConnectionLock(c)>> \o sent
      PROVE  WellOrdered("network", call) /\ call # <<>>
  <2>1. WellOrdered("network", sent) /\ sent # <<>> BY SendsAreWellOrdered
  <2> QED BY <1>1, <1>3, <2>1, NestedCalls
<1>4. ASSUME c \in Caster, NEW sent \in BroadcastCalls(c),
             call = <<ConnectionLock(c)>> \o sent
      PROVE  WellOrdered("network", call) /\ call # <<>>
  <2>1. WellOrdered("network", sent) /\ sent # <<>>
    BY <1>4, BroadcastsAreWellOrdered
  <2> QED BY <1>1, <1>4, <2>1, NestedCalls
<1> QED BY <1>2, <1>3, <1>4 DEF HandlerCalls

LEMMA CallsAreWellOrdered ==
  ASSUME NEW t \in Thread, NEW call \in Calls(t)
  PROVE  WellOrdered(t, call) /\ call # <<>>
<1>1. \A lock \in {ManagerLock, DispatcherLock, SchedulerLock,
                   DatabaseLock} :
        WellOrdered(t, <<lock>>) /\ <<lock>> # <<>>
  BY LockKinds DEF WellOrdered
<1>2. CASE t = "dispatcher"
  <2> DEFINE ofClients ==
               UNION {SendCalls(c) \cup CloseCalls(c) : c \in Client}
             ofCasts ==
               UNION {ChangeCastCalls(c) \cup ChangeSpectatorsCalls(c) :
                        c \in Caster}
             short ==
               {<<DispatcherLock>>, <<SchedulerLock>>, <<DatabaseLock>>}
  <2>1. call \in ofClients \cup ofCasts \cup short
    <3>1. call \in DispatcherCalls BY <1>2 DEF Calls
    <3> QED BY <3>1 DEF DispatcherCalls
  <2>2. ASSUME call \in ofClients PROVE WellOrdered(t, call) /\ call # <<>>
    <3>1. PICK c \in Client : call \in SendCalls(c) \cup CloseCalls(c)
      BY <2>2
    <3> QED BY <1>2, <3>1, SendsAreWellOrdered
  <2>3. ASSUME call \in ofCasts PROVE WellOrdered(t, call) /\ call # <<>>
    <3>1. PICK c \in Caster :
            call \in ChangeCastCalls(c) \cup ChangeSpectatorsCalls(c)
      BY <2>3
    <3>2. /\ LiveCastLock(c) \in Lock /\ ~IsLeaf(LiveCastLock(c))
          /\ DatabaseLock \in Lock /\ IsLeaf(DatabaseLock)
      BY LockKinds
    <3>3. /\ WellOrdered(t, <<LiveCastLock(c)>>)
          /\ WellOrdered(t, <<LiveCastLock(c), DatabaseLock>>)
      BY <1>2, <3>2, ShortCalls
    <3> QED BY <3>1, <3>3 DEF ChangeCastCalls, ChangeSpectatorsCalls
  <2>4. ASSUME call \in short PROVE WellOrdered(t, call) /\ call # <<>>
    BY <1>1, <2>4
  <2> HIDE DEF ofClients, ofCasts, short
  <2> QED BY <2>1, <2>2, <2>3, <2>4
<1>3. CASE t = "network"
  <2> DEFINE ofClients ==
               UNION {HandlerCalls(c) \cup CloseCalls(c) : c \in Client}
             ofCasts == UNION {BroadcastCalls(c) : c \in Caster}
             short == {<<SchedulerLock>>, <<ManagerLock>>}
  <2>1. call \in ofClients \cup ofCasts \cup short
    <3>1. call \in NetworkCalls BY <1>3 DEF Calls
    <3> QED BY <3>1 DEF NetworkCalls
  <2>2. ASSUME call \in ofClients PROVE WellOrdered(t, call) /\ call # <<>>
    <3>1. PICK c \in Client : call \in HandlerCalls(c) \cup CloseCalls(c)
      BY <2>2
    <3> QED BY <1>3, <3>1, SendsAreWellOrdered, HandlersAreWellOrdered
  <2>3. ASSUME call \in ofCasts PROVE WellOrdered(t, call) /\ call # <<>>
    BY <1>3, <2>3, BroadcastsAreWellOrdered
  <2>4. ASSUME call \in short PROVE WellOrdered(t, call) /\ call # <<>>
    BY <1>1, <2>4
  <2> HIDE DEF ofClients, ofCasts, short
  <2> QED BY <2>1, <2>2, <2>3, <2>4
<1>4. CASE t \in {"scheduler", "database"} BY <1>1, <1>4 DEF Calls
<1> QED BY <1>2, <1>3, <1>4 DEF Thread

(* Each thread is on one of its calls, and no two have the same lock.      *)
LocksIInv ==
  /\ held \in [Thread -> Seq(Lock)]
  /\ pending \in [Thread -> Seq(Lock)]
  /\ \A t \in Thread : WellOrdered(t, held[t] \o pending[t])
  /\ \A t, u \in Thread : \A lock : Has(t, lock) /\ Has(u, lock) => t = u

LEMMA LocksInitIInv == LocksInit => LocksIInv
<1> SUFFICES ASSUME LocksInit PROVE LocksIInv OBVIOUS
<1>1. /\ held \in [Thread -> Seq(Lock)] /\ pending \in [Thread -> Seq(Lock)]
      /\ \A t \in Thread : held[t] = <<>> /\ pending[t] = <<>>
  BY DEF LocksInit
<1>2. \A t \in Thread : WellOrdered(t, held[t] \o pending[t])
  BY <1>1 DEF WellOrdered
<1>3. \A t \in Thread : \A lock : ~Has(t, lock)
  BY <1>1 DEF Has, Contains
<1> QED BY <1>1, <1>2, <1>3 DEF LocksIInv

LEMMA LocksNextIInv == LocksIInv /\ [LocksNext]_lockVars => LocksIInv'
<1> SUFFICES ASSUME LocksIInv, [LocksNext]_lockVars PROVE LocksIInv'
  OBVIOUS
<1> USE DEF LocksIInv
<1>1. ASSUME NEW t \in Thread, Begin(t) PROVE LocksIInv'
  <2>1. PICK call \in Calls(t) : pending' = [pending EXCEPT ![t] = call]
    BY <1>1 DEF Begin
  <2>2. WellOrdered(t, call) BY <2>1, CallsAreWellOrdered
  <2>3. call \in Seq(Lock) /\ held' = held /\ held[t] = <<>>
    BY <1>1, <2>2 DEF WellOrdered, Begin
  <2>4. pending' \in [Thread -> Seq(Lock)] BY <2>1, <2>3
  <2>5. \A u \in Thread : WellOrdered(u, held'[u] \o pending'[u])
    <3>1. pending'[t] = call /\ held'[t] = <<>> BY <2>1, <2>3
    <3>2. held'[t] \o pending'[t] = call BY <2>3, <3>1
    <3>3. \A u \in Thread \ {t} :
            held'[u] = held[u] /\ pending'[u] = pending[u]
      BY <2>1, <2>3
    <3> QED BY <2>2, <3>2, <3>3
  <2> QED BY <2>3, <2>4, <2>5 DEF Has
<1>2. ASSUME NEW t \in Thread, Take(t) PROVE LocksIInv'
  <2> DEFINE lock == Head(pending[t])
  <2>1. /\ pending[t] # <<>> /\ Free(t, lock)
        /\ held' = [held EXCEPT ![t] = Append(@, lock)]
        /\ pending' = [pending EXCEPT ![t] = Tail(@)]
    BY <1>2 DEF Take
  <2>2. held[t] \in Seq(Lock) /\ pending[t] \in Seq(Lock) OBVIOUS
  <2>3. lock \in Lock /\ Tail(pending[t]) \in Seq(Lock) BY <2>1, <2>2
  <2>4. /\ held'[t] = Append(held[t], lock) /\ pending'[t] = Tail(pending[t])
        /\ \A u \in Thread \ {t} :
             held'[u] = held[u] /\ pending'[u] = pending[u]
    BY <2>1
  <2>5. Append(held[t], lock) \in Seq(Lock) BY <2>2, <2>3
  <2>6. held' \in [Thread -> Seq(Lock)] /\ pending' \in [Thread -> Seq(Lock)]
    BY <2>1, <2>3, <2>5
  <2>7. held'[t] \o pending'[t] = held[t] \o pending[t]
    BY <2>1, <2>2, <2>3, <2>4
  <2>8. \A u \in Thread : WellOrdered(u, held'[u] \o pending'[u])
    BY <2>4, <2>7
  <2>9. \A u \in Thread : \A l : Has(u, l)' =>
          Has(u, l) \/ (u = t /\ l = lock)
    BY <2>2, <2>3, <2>4 DEF Has, Contains
  <2>10. \A u \in Thread : Has(u, lock) => u = t BY <2>1 DEF Free
  <2>11. \A u, v \in Thread : \A l : Has(u, l)' /\ Has(v, l)' => u = v
    BY <2>9, <2>10
  <2> QED BY <2>6, <2>8, <2>11
<1>3. ASSUME NEW t \in Thread, Return(t) PROVE LocksIInv'
  <2>1. /\ held' = [held EXCEPT ![t] = <<>>] /\ pending' = pending
        /\ pending[t] = <<>>
    BY <1>3 DEF Return
  <2>2. /\ held'[t] = <<>>
        /\ \A u \in Thread \ {t} : held'[u] = held[u]
        /\ held' \in [Thread -> Seq(Lock)]
    BY <2>1
  <2>3. WellOrdered(t, <<>> \o <<>>) BY DEF WellOrdered
  <2>4. \A u \in Thread : WellOrdered(u, held'[u] \o pending'[u])
    BY <2>1, <2>2, <2>3
  <2>5. \A u \in Thread : \A l : Has(u, l)' => Has(u, l)
    <3> TAKE u \in Thread
    <3>1. CASE u = t BY <2>2, <3>1 DEF Has, Contains
    <3>2. CASE u # t BY <2>2, <3>2 DEF Has
    <3> QED BY <3>1, <3>2
  <2> QED BY <2>1, <2>2, <2>4, <2>5
<1>4. CASE UNCHANGED lockVars BY <1>4 DEF lockVars, Has
<1> QED BY <1>1, <1>2, <1>3, <1>4 DEF LocksNext

LEMMA JoinedCalls ==
  ASSUME NEW taken \in Seq(Lock), NEW rest \in Seq(Lock), rest # <<>>
  PROVE  /\ taken \o rest \in Seq(Lock)
         /\ Len(taken) \in Nat
         /\ Len(taken) + 1 \in 1 .. Len(taken \o rest)
         /\ (taken \o rest)[Len(taken) + 1] = Head(rest)
         /\ \A i \in 1 .. Len(taken) : (taken \o rest)[i] = taken[i]
<1>1. Len(rest) \in Nat /\ Len(rest) > 0 /\ Head(rest) = rest[1] OBVIOUS
<1> QED BY <1>1

(* Connection::broadcastMessage nests the locks of a caster, of its cast   *)
(* and of a spectator; whatever else is locked by whom, no threads wait    *)
(* for each other in a circle.  Whoever has the lock of a manager or a     *)
(* queue waits for nobody, so that only dispatcher and network could form  *)
(* one; but the dispatcher waits for a connection or a cast only before it *)
(* has taken any.                                                          *)
THEOREM NoCircularWaitHolds == LocksSpec => []NoCircularWait
<1>1. LocksIInv => NoCircularWait
  <2> SUFFICES ASSUME LocksIInv,
                      NEW circle \in SUBSET Thread, circle # {},
                      \A t \in circle :
                        /\ Waits(t)
                        /\ \E u \in circle : Has(u, Head(pending[t]))
               PROVE  FALSE
    BY DEF NoCircularWait
  <2> USE DEF LocksIInv
  <2> DEFINE call(t) == held[t] \o pending[t]
             next(t) == Len(held[t]) + 1
  <2>1. ASSUME NEW t \in circle
        PROVE  /\ call(t) \in Seq(Lock) /\ WellOrdered(t, call(t))
               /\ next(t) \in 1 .. Len(call(t))
               /\ call(t)[next(t)] = Head(pending[t])
               /\ \A i \in 1 .. Len(held[t]) : call(t)[i] = held[t][i]
               /\ Len(held[t]) \in Nat
    <3>1. t \in Thread /\ pending[t] # <<>> BY DEF Waits
    <3>2. held[t] \in Seq(Lock) /\ pending[t] \in Seq(Lock) BY <3>1
    <3>3. WellOrdered(t, call(t)) BY <3>1
    <3>4. /\ call(t) \in Seq(Lock)
          /\ Len(held[t]) \in Nat /\ next(t) \in 1 .. Len(call(t))
          /\ call(t)[next(t)] = Head(pending[t])
          /\ \A i \in 1 .. Len(held[t]) : call(t)[i] = held[t][i]
      BY <3>1, <3>2, JoinedCalls
    <3> QED BY <3>3, <3>4
  <2> HIDE DEF call, next
  <2>2. \A t \in circle : \A lock : Has(t, lock) <=>
          \E i \in 1 .. Len(held[t]) : lock = call(t)[i]
    BY <2>1 DEF Has, Contains
  <2>3. ASSUME NEW t \in circle, NEW lock, Has(t, lock) PROVE ~IsLeaf(lock)
    <3>1. PICK i \in 1 .. Len(held[t]) : lock = call(t)[i] BY <2>2, <2>3
    <3>2. i \in 1 .. Len(call(t)) - 1 BY <2>1 DEF next
    <3> QED BY <2>1, <3>1, <3>2 DEF WellOrdered
  <2>4. \A t \in circle : ~IsLeaf(Head(pending[t])) BY <2>3
  <2>5. ASSUME NEW t \in circle PROVE t \in {"dispatcher", "network"}
    <3>1. ~IsLeaf(call(t)[next(t)]) BY <2>1, <2>4
    <3>2. t \notin {"scheduler", "database"}
      BY <2>1, <3>1 DEF WellOrdered
    <3> QED BY <3>2 DEF Thread
  <2>6. ASSUME NEW t \in circle PROVE ~(/\ Has(t, Head(pending[t]))
                                        /\ Recursive(Head(pending[t])))
    BY <2>6 DEF Waits, Free
  <2>7. ASSUME NEW t \in circle, t = "dispatcher", NEW lock, Has(t, lock)
        PROVE  FALSE
    <3>1. PICK i \in 1 .. Len(held[t]) : lock = call(t)[i] BY <2>2, <2>7
    <3>2. /\ Len(held[t]) \in 1 .. Len(held[t])
          /\ next(t) \in 2 .. Len(call(t)) /\ next(t) - 1 = Len(held[t])
      <4>1. next(t) \in 1 .. Len(call(t)) /\ Len(held[t]) \in Nat BY <2>1
      <4>2. Len(held[t]) >= 1 BY <3>1, <4>1
      <4> QED BY <4>1, <4>2 DEF next
    <3>3. ~IsLeaf(call(t)[next(t)]) /\ WellOrdered("dispatcher", call(t))
      BY <2>1, <2>4, <2>7
    <3>4. /\ Recursive(call(t)[next(t)])
          /\ call(t)[next(t)] = call(t)[next(t) - 1]
      BY <3>2, <3>3 DEF WellOrdered
    <3>5. /\ Recursive(Head(pending[t]))
          /\ Head(pending[t]) = call(t)[Len(held[t])]
      BY <2>1, <3>2, <3>4
    <3>6. Has(t, Head(pending[t])) BY <2>2, <3>2, <3>5
    <3> QED BY <2>6, <3>5, <3>6
  <2>8. PICK t \in circle : t = "network" /\ Has(t, Head(pending[t]))
    <3>1. \A t \in circle : \E u \in circle :
            u = "network" /\ Has(u, Head(pending[t]))
      BY <2>5, <2>7
    <3> QED BY <3>1
  <2>9. Recursive(Head(pending[t]))
    <3>1. t \in circle /\ Has(t, Head(pending[t])) BY <2>8
    <3>2. PICK i \in 1 .. Len(held[t]) : Head(pending[t]) = call(t)[i]
      <4>1. \A lock : Has(t, lock) =>
              \E i \in 1 .. Len(held[t]) : lock = call(t)[i]
        BY <2>2
      <4> QED BY <3>1, <4>1
    <3>3. /\ next(t) \in 1 .. Len(call(t)) /\ Len(held[t]) \in Nat
          /\ Len(call(t)) \in Nat
      BY <2>1
    <3>4. i \in 1 .. Len(call(t)) /\ i # next(t)
      <4>1. Len(held[t]) + 1 \in 1 .. Len(call(t)) BY <3>3 DEF next
      <4>2. i \in Nat /\ 1 <= i /\ i <= Len(held[t]) BY <3>3
      <4>3. Len(held[t]) + 1 <= Len(call(t)) BY <3>3, <4>1
      <4>4. next(t) = Len(held[t]) + 1 BY DEF next
      <4>5. i <= Len(call(t)) BY <3>3, <4>2, <4>3
      <4>6. i # next(t) BY <3>3, <4>2, <4>4
      <4> QED BY <3>3, <4>2, <4>5, <4>6
    <3>5. call(t)[i] = call(t)[next(t)] BY <2>1, <3>2
    <3>6. WellOrdered(t, call(t)) BY <2>1
    <3>7. Recursive(call(t)[i]) BY <3>3, <3>4, <3>5, <3>6 DEF WellOrdered
    <3> QED BY <3>2, <3>7
  <2> QED BY <2>6, <2>8, <2>9
<1> QED BY <1>1, LocksInitIInv, LocksNextIInv, PTL DEF LocksSpec

-----------------------------------------------------------------------------
(* The throttle of an address *)

(* A burst is bounded because the count grows with it: an attempt within   *)
(* Fast is within Forget, so it is counted too, and the count starts anew  *)
(* only at an attempt that is refused or that ends the burst.              *)
BurstIInv == ThrottleTypeOK /\ CountFollowsBurst

LEMMA ThrottleInitIInv == ThrottleInit => BurstIInv
BY ThrottleAssumption
DEF ThrottleInit, BurstIInv, ThrottleTypeOK, CountFollowsBurst

LEMMA AcceptAttemptIInv ==
  ASSUME BurstIInv, NEW ip \in Ip, AcceptAttempt(ip)
  PROVE  BurstIInv'
<1> USE ThrottleAssumption DEF BurstIInv, ThrottleTypeOK, CountFollowsBurst,
            AcceptAttempt, CountAttempt, MayConnect
<1>1. ThrottleTypeOK'
  OBVIOUS
<1>2. \A other \in Ip \ {ip} : /\ count'[other] = count[other]
                               /\ burst'[other] = burst[other]
  OBVIOUS
<1>3. CASE ip \in known /\ sinceLast[ip] <= Fast
  <2>1. ~ OverLimit(ip) /\ sinceLast[ip] <= Forget
    BY <1>3 DEF TooFast
  <2>2. count'[ip] = count[ip] + 1 /\ burst'[ip] = burst[ip] + 1
    BY <1>3, <2>1
  <2>3. count[ip] + 1 <= Limit
    BY <1>3, <2>1 DEF OverLimit
  <2> QED
    BY <1>1, <1>2, <2>2, <2>3
<1>4. CASE ~ (ip \in known /\ sinceLast[ip] <= Fast)
  <2>1. burst'[ip] = 1
    BY <1>4
  <2>2. count'[ip] \in Nat /\ count'[ip] <= Limit
    BY DEF OverLimit
  <2> QED
    BY <1>1, <1>2, <2>1, <2>2
<1> QED
  BY <1>3, <1>4

LEMMA RefuseAttemptIInv ==
  ASSUME BurstIInv, NEW ip \in Ip, RefuseAttempt(ip)
  PROVE  BurstIInv'
<1> USE ThrottleAssumption DEF BurstIInv, ThrottleTypeOK, CountFollowsBurst,
            RefuseAttempt, CountAttempt
<1>1. ThrottleTypeOK'
  OBVIOUS
<1>2. \A other \in Ip \ {ip} : /\ count'[other] = count[other]
                               /\ burst'[other] = burst[other]
  OBVIOUS
<1>3. burst'[ip] = 0 /\ count'[ip] <= Limit
  BY DEF OverLimit, TooFast
<1> QED
  BY <1>1, <1>2, <1>3

LEMMA ThrottleNextIInv ==
  BurstIInv /\ [ThrottleNext]_throttleVars => BurstIInv'
<1> SUFFICES ASSUME BurstIInv, [ThrottleNext]_throttleVars
             PROVE  BurstIInv'
  OBVIOUS
<1>1. CASE \E ip \in Ip : AcceptAttempt(ip) \/ RefuseAttempt(ip)
  BY <1>1, AcceptAttemptIInv, RefuseAttemptIInv
<1>2. CASE Tick
  BY <1>2, ThrottleAssumption
  DEF BurstIInv, ThrottleTypeOK, CountFollowsBurst, Tick
<1>3. CASE UNCHANGED throttleVars
  BY <1>3 DEF BurstIInv, ThrottleTypeOK, CountFollowsBurst, throttleVars
<1> QED
  BY <1>1, <1>2, <1>3 DEF ThrottleNext

(* No address gets more than Limit + 1 connections in a row with less than *)
(* Fast between them (acceptConnection), for every limit and every set of  *)
(* addresses.                                                              *)
THEOREM BurstsAreCutHolds == ThrottleSpec => []BurstsAreCut
<1>1. ThrottleInit => BurstIInv
  BY ThrottleInitIInv
<1>2. BurstIInv /\ [ThrottleNext]_throttleVars => BurstIInv'
  BY ThrottleNextIInv
<1>3. ASSUME BurstIInv, NEW ip \in Ip
      PROVE  burst[ip] <= Limit + 1
  <2>1. /\ Limit \in Nat /\ count[ip] \in Nat /\ burst[ip] \in Nat
        /\ count[ip] <= Limit /\ burst[ip] <= count[ip] + 1
    BY <1>3, ThrottleAssumption
    DEF BurstIInv, ThrottleTypeOK, CountFollowsBurst
  <2> QED
    BY <2>1
<1>4. BurstIInv => BurstsAreCut
  BY <1>3 DEF BurstsAreCut
<1> QED
  BY <1>1, <1>2, <1>4, PTL DEF ThrottleSpec
=============================================================================
