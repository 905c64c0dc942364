------------------------- MODULE ServerThreadsProofs -------------------------
(***************************************************************************)
(* Theorems about the database thread, that it runs every accepted query   *)
(* once, and in order but for the one in flight when shutdown flushes the  *)
(* rest; and about the server's threads together: in what order a shutdown *)
(* stops them, and that none is stopped over accepted work.                *)
(***************************************************************************)
EXTENDS ServerThreads, FiniteSetTheorems, TLAPS

-----------------------------------------------------------------------------
(* The database thread *)

(* How many of the accepted queries have been taken off the list, and      *)
(* which.                                                                  *)
Done == Len(bAccepted) - Len(bTasks)
Taken == {bAccepted[i] : i \in 1 .. Done}

ShutdownInv ==
  /\ bPc \in {"run", "callback"} => bTask \in Query
  /\ bClosing # "no" => bState = "TERMINATED"
  /\ bClosing = "flushing" => bLockHeld
  /\ bClosing = "flushed" => bTasks = <<>>

(* No query is accepted twice, the list is the end of what was accepted,   *)
(* and the rest has been executed but for what is in flight.               *)
ListsAgree ==
  /\ Len(bTasks) <= Len(bAccepted)
  /\ \A i \in 1 .. Len(bTasks) : bTasks[i] = bAccepted[Done + i]
  /\ \A i, j \in 1 .. Len(bAccepted) : bAccepted[i] = bAccepted[j] => i = j
  /\ B!ElementsOf(bAccepted) \subseteq bSubmitted
  /\ Len(bExecuted) + (IF bPc = "run" THEN 1 ELSE 0) = Done
  /\ B!ElementsOf(bExecuted) \cup B!InFlight = Taken

(* Until shutdown the query in flight is the next in order; from then on   *)
(* the one that was in flight, if any, is the only one out of order.       *)
AtMostOne == {{}} \cup {{q} : q \in Query}

OrderKept ==
  /\ bClosing = "no" =>
       /\ B!InOrder({})
       /\ bPc = "run" => Done # 0 /\ bTask = bAccepted[Done]
  /\ bClosing # "no" =>
       \E strays \in AtMostOne :
         B!InOrder(strays) /\ B!InFlight \subseteq strays

QueriesInv == B!TypeOK /\ ShutdownInv /\ ListsAgree /\ OrderKept

-----------------------------------------------------------------------------
LEMMA ElementsOfAppend ==
  ASSUME NEW list \in Seq(Query), NEW x \in Query
  PROVE  /\ Append(list, x) \in Seq(Query)
         /\ Len(Append(list, x)) = Len(list) + 1
         /\ \A i \in 1 .. Len(list) : Append(list, x)[i] = list[i]
         /\ Append(list, x)[Len(list) + 1] = x
         /\ B!ElementsOf(Append(list, x)) = B!ElementsOf(list) \cup {x}
<1> DEFINE longer == Append(list, x)
<1>1. /\ DOMAIN list = 1 .. Len(list) /\ Len(list) \in Nat
      /\ DOMAIN longer = 1 .. Len(list) + 1 /\ longer[Len(list) + 1] = x
      /\ \A i \in 1 .. Len(list) : longer[i] = list[i]
      /\ longer \in Seq(Query) /\ Len(longer) = Len(list) + 1
  OBVIOUS
<1> HIDE DEF longer
<1>2. \A i \in 1 .. Len(list) + 1 : i \in 1 .. Len(list) \/ i = Len(list) + 1
  BY <1>1
<1>3. /\ \A i \in 1 .. Len(list) : i \in 1 .. Len(list) + 1
      /\ Len(list) + 1 \in 1 .. Len(list) + 1
  BY <1>1
<1>4. B!ElementsOf(longer) = B!ElementsOf(list) \cup {x}
  BY <1>1, <1>2, <1>3 DEF B!ElementsOf
<1> QED BY <1>1, <1>4 DEF longer

(* What comes before what in a list that grows at its end.                 *)
LEMMA PrecedesAppend ==
  ASSUME NEW list \in Seq(Query), NEW x \in Query, NEW p, NEW q
  PROVE  /\ B!Precedes(list, p, q) => B!Precedes(Append(list, x), p, q)
         /\ p \in B!ElementsOf(list) => B!Precedes(Append(list, x), p, x)
         /\ B!Precedes(Append(list, x), p, q) =>
              B!Precedes(list, p, q) \/ q = x
<1> DEFINE longer == Append(list, x)
<1>1. /\ DOMAIN list = 1 .. Len(list) /\ Len(list) \in Nat
      /\ DOMAIN longer = 1 .. Len(list) + 1 /\ longer[Len(list) + 1] = x
      /\ \A i \in 1 .. Len(list) : longer[i] = list[i]
  OBVIOUS
<1> HIDE DEF longer
<1>2. \A i \in 1 .. Len(list) :
        /\ i \in 1 .. Len(list) + 1 /\ Len(list) + 1 \in 1 .. Len(list) + 1
        /\ i < Len(list) + 1
  BY <1>1
<1>3. B!Precedes(list, p, q) => B!Precedes(longer, p, q)
  BY <1>1, <1>2 DEF B!Precedes
<1>4. p \in B!ElementsOf(list) => B!Precedes(longer, p, x)
  BY <1>1, <1>2 DEF B!Precedes, B!ElementsOf
<1>5. ASSUME B!Precedes(longer, p, q), q # x PROVE B!Precedes(list, p, q)
  <2>1. PICK i, j \in 1 .. Len(list) + 1 :
          i < j /\ longer[i] = p /\ longer[j] = q
    BY <1>1, <1>5 DEF B!Precedes
  <2>2. j # Len(list) + 1 BY <1>1, <1>5, <2>1
  <2>3. i \in 1 .. Len(list) /\ j \in 1 .. Len(list) BY <1>1, <2>1, <2>2
  <2> QED BY <1>1, <2>1, <2>3 DEF B!Precedes
<1> QED BY <1>3, <1>4, <1>5 DEF longer

(* A query is executed after all that came before it, but for strays.      *)
LEMMA ExecuteInOrder ==
  ASSUME bExecuted \in Seq(Query), NEW x \in Query, NEW strays,
         B!InOrder(strays), bExecuted' = Append(bExecuted, x),
         bAccepted' = bAccepted,
         x \in strays
           \/ \A p \in Query \ strays :
                B!Precedes(bAccepted, p, x) => p \in B!ElementsOf(bExecuted)
  PROVE  B!InOrder(strays)'
<1> SUFFICES ASSUME NEW p \in Query \ strays, NEW q \in Query \ strays,
                    B!Precedes(bAccepted, p, q),
                    q \in B!ElementsOf(bExecuted')
             PROVE  B!Precedes(bExecuted', p, q)
  BY DEF B!InOrder, B!Precedes, B!ElementsOf
<1>1. q \in B!ElementsOf(bExecuted) \/ q = x BY ElementsOfAppend
<1>2. CASE q \in B!ElementsOf(bExecuted)
  BY <1>2, PrecedesAppend DEF B!InOrder
<1>3. CASE q = x BY <1>3, PrecedesAppend
<1> QED BY <1>1, <1>2, <1>3

-----------------------------------------------------------------------------
(* Steps *)

LEMMA QueryTakenKeeps ==
  ASSUME QueriesInv, bPc \in {"lock", "woken"}, ~bLockHeld, B!TakeFirst
  PROVE  QueriesInv'
<1> USE DEF QueriesInv
<1>1. /\ bTasks # <<>> /\ bTask' = Head(bTasks) /\ bTasks' = Tail(bTasks)
      /\ bPc' = "run"
      /\ UNCHANGED <<bState, bLockHeld, bClosing, bNotifying, bSubmitted,
                     bAccepted, bExecuted, bCalledBack>>
  BY DEF B!TakeFirst, B!history
<1>2. /\ bTasks \in Seq(Query) /\ bAccepted \in Seq(Query)
      /\ bExecuted \in Seq(Query) /\ bClosing = "no"
  BY <1>1 DEF B!TypeOK, ShutdownInv
<1>3. /\ bTasks' \in Seq(Query) /\ Len(bTasks) \in Nat \ {0}
      /\ Len(bTasks') = Len(bTasks) - 1 /\ bTask' = bTasks[1]
      /\ \A i \in 1 .. Len(bTasks') : bTasks'[i] = bTasks[i + 1]
      /\ Len(bAccepted) \in Nat /\ Len(bExecuted) \in Nat
      /\ bTask' \in Query
  BY <1>1, <1>2
<1>4. Done \in Nat /\ Done' = Done + 1 /\ Done + 1 \in 1 .. Len(bAccepted)
  BY <1>1, <1>3 DEF Done, ListsAgree
<1>5. bTask' = bAccepted[Done + 1]
  <2>1. 1 \in 1 .. Len(bTasks) BY <1>3
  <2> QED BY <1>3, <2>1 DEF ListsAgree
<1>6. B!TypeOK' BY <1>1, <1>3 DEF B!TypeOK, B!DatabasePc
<1>7. ShutdownInv' BY <1>1, <1>2, <1>3 DEF ShutdownInv
<1>8. B!InFlight = {} /\ B!InFlight' = {bTask'} BY <1>1 DEF B!InFlight
<1>9. Taken' = Taken \cup {bTask'}
  <2>1. \A i \in 1 .. Done + 1 : i \in 1 .. Done \/ i = Done + 1 BY <1>4
  <2>2. \A i \in 1 .. Done : i \in 1 .. Done + 1 BY <1>4
  <2>3. Done + 1 \in 1 .. Done + 1 BY <1>4
  <2> QED BY <1>1, <1>4, <1>5, <2>1, <2>2, <2>3 DEF Taken
<1>10. ListsAgree'
  <2>1. \A i \in 1 .. Len(bTasks') : bTasks'[i] = bAccepted[Done' + i]
    <3> SUFFICES ASSUME NEW i \in 1 .. Len(bTasks')
                 PROVE  bTasks'[i] = bAccepted[Done' + i]
      OBVIOUS
    <3>1. i + 1 \in 1 .. Len(bTasks) /\ Done + (i + 1) = Done' + i
      BY <1>3, <1>4
    <3>2. bTasks[i + 1] = bAccepted[Done + (i + 1)]
      BY <3>1 DEF ListsAgree
    <3> QED BY <1>3, <3>1, <3>2
  <2>2. Len(bExecuted) + 1 = Done' BY <1>1, <1>3, <1>4 DEF ListsAgree
  <2>3. B!ElementsOf(bExecuted)' \cup B!InFlight' = Taken'
    BY <1>1, <1>8, <1>9 DEF ListsAgree, B!ElementsOf
  <2>4. B!ElementsOf(bAccepted)' \subseteq bSubmitted'
    BY <1>1 DEF ListsAgree, B!ElementsOf
  <2> QED BY <1>1, <1>3, <2>1, <2>2, <2>3, <2>4 DEF ListsAgree
<1>11. OrderKept'
  <2>1. B!InOrder({})'
    <3>1. B!InOrder({}) BY <1>2 DEF OrderKept
    <3>2. bAccepted' = bAccepted /\ bExecuted' = bExecuted BY <1>1
    <3> HIDE DEF QueriesInv
    <3> QED BY <3>1, <3>2 DEF B!InOrder, B!Precedes, B!ElementsOf
  <2>2. Done' # 0 /\ bTask' = bAccepted'[Done'] BY <1>1, <1>4, <1>5
  <2> QED BY <1>1, <1>2, <2>1, <2>2 DEF OrderKept
<1> QED BY <1>6, <1>7, <1>10, <1>11

LEMMA QueryRunKeeps ==
  ASSUME QueriesInv, B!RunQuery
  PROVE  QueriesInv'
<1> USE DEF QueriesInv
<1>1. /\ bPc = "run" /\ bPc' \in {"callback", "check"}
      /\ bPc' = "callback" => bTask' = bTask
      /\ bTask' \in {bTask, NoQuery}
      /\ bExecuted' = Append(bExecuted, bTask)
      /\ UNCHANGED <<bState, bTasks, bLockHeld, bClosing, bNotifying,
                     bSubmitted, bAccepted, bCalledBack>>
  BY DEF B!RunQuery
<1>2. /\ bTasks \in Seq(Query) /\ bAccepted \in Seq(Query)
      /\ bExecuted \in Seq(Query) /\ bTask \in Query
  BY <1>1 DEF B!TypeOK, ShutdownInv
<1>3. /\ bExecuted' \in Seq(Query) /\ Len(bExecuted') = Len(bExecuted) + 1
      /\ B!ElementsOf(bExecuted') = B!ElementsOf(bExecuted) \cup {bTask}
      /\ Len(bExecuted) \in Nat
  BY <1>1, <1>2, ElementsOfAppend
<1>4. Done \in Nat /\ Done' = Done /\ Taken' = Taken
  <2>1. Len(bTasks) \in Nat /\ Len(bAccepted) \in Nat BY <1>2
  <2> QED BY <1>1, <2>1 DEF Done, Taken, ListsAgree
<1>5. B!TypeOK' BY <1>1, <1>2, <1>3 DEF B!TypeOK, B!DatabasePc
<1>6. ShutdownInv' BY <1>1, <1>2 DEF ShutdownInv
<1>7. B!InFlight = {bTask} /\ B!InFlight' = {} BY <1>1 DEF B!InFlight
<1>8. ListsAgree'
  <2>1. Len(bExecuted') + 0 = Done' BY <1>1, <1>3, <1>4 DEF ListsAgree
  <2>2. B!ElementsOf(bExecuted)' \cup B!InFlight' = Taken'
    BY <1>3, <1>4, <1>7 DEF ListsAgree, B!ElementsOf
  <2>3. B!ElementsOf(bAccepted)' \subseteq bSubmitted'
    BY <1>1 DEF ListsAgree, B!ElementsOf
  <2> QED BY <1>1, <1>4, <2>1, <2>2, <2>3 DEF ListsAgree
<1>9. OrderKept'
  <2>1. CASE bClosing = "no"
    <3>1. B!InOrder({}) /\ Done # 0 /\ bTask = bAccepted[Done]
      BY <1>1, <2>1 DEF OrderKept
    <3>2. ASSUME NEW p \in Query, B!Precedes(bAccepted, p, bTask)
          PROVE  p \in B!ElementsOf(bExecuted)
      <4>1. PICK i, j \in 1 .. Len(bAccepted) :
              i < j /\ bAccepted[i] = p /\ bAccepted[j] = bTask
        BY <1>2, <3>2 DEF B!Precedes
      <4>2. Done \in 1 .. Len(bAccepted)
        BY <1>2, <1>4, <3>1 DEF Done, ListsAgree
      <4>3. j = Done BY <3>1, <4>1, <4>2 DEF ListsAgree
      <4>4. i \in 1 .. Done /\ i # Done BY <1>2, <1>4, <4>1, <4>3
      <4>5. p \in Taken BY <4>1, <4>4 DEF Taken
      <4>6. p # bTask BY <3>1, <4>1, <4>2, <4>4 DEF ListsAgree
      <4> QED BY <1>7, <4>5, <4>6 DEF ListsAgree
    <3>3. B!InOrder({})' BY <1>1, <1>2, <3>1, <3>2, ExecuteInOrder
    <3> QED BY <1>1, <2>1, <3>3 DEF OrderKept
  <2>2. CASE bClosing # "no"
    <3>1. PICK strays \in AtMostOne :
            B!InOrder(strays) /\ B!InFlight \subseteq strays
      BY <2>2 DEF OrderKept
    <3>2. B!InOrder(strays)'
      BY <1>1, <1>2, <1>7, <3>1, ExecuteInOrder
    <3> QED BY <1>1, <1>7, <2>2, <3>1, <3>2 DEF OrderKept
  <2> QED BY <2>1, <2>2
<1> QED BY <1>5, <1>6, <1>8, <1>9

LEMMA QueryAddedKeeps ==
  ASSUME QueriesInv, NEW c \in QueryCaller, NEW q \in Query, B!AddTask(c, q)
  PROVE  QueriesInv'
<1> USE DEF QueriesInv
<1>1. /\ bSubmitted' = bSubmitted \cup {q} /\ q \notin bSubmitted
      /\ UNCHANGED <<bState, bPc, bTask, bLockHeld, bClosing, bExecuted,
                     bCalledBack>>
      /\ bNotifying' \subseteq bNotifying \cup {c}
  BY DEF B!AddTask
<1>2. /\ bTasks \in Seq(Query) /\ bAccepted \in Seq(Query)
      /\ bExecuted \in Seq(Query)
  BY DEF B!TypeOK
<1>3. B!InFlight' = B!InFlight BY <1>1 DEF B!InFlight
<1>4. CASE UNCHANGED <<bTasks, bAccepted>>
  <2>1. B!TypeOK' BY <1>1, <1>4 DEF B!TypeOK
  <2>2. ShutdownInv' BY <1>1, <1>4 DEF ShutdownInv
  <2>3. ListsAgree'
    <3>1. Done' = Done BY <1>4 DEF Done
    <3>2. Taken' = Taken BY <1>4, <3>1 DEF Taken
    <3>3. /\ B!ElementsOf(bAccepted)' = B!ElementsOf(bAccepted)
          /\ B!ElementsOf(bExecuted)' = B!ElementsOf(bExecuted)
      BY <1>1, <1>4 DEF B!ElementsOf
    <3> QED BY <1>1, <1>3, <1>4, <3>1, <3>2, <3>3 DEF ListsAgree
  <2>4. OrderKept'
    BY <1>1, <1>3, <1>4
    DEF OrderKept, Done, B!InOrder, B!Precedes, B!ElementsOf
  <2> QED BY <2>1, <2>2, <2>3, <2>4
<1>5. CASE /\ bState = "RUNNING" /\ bTasks' = Append(bTasks, q)
           /\ bAccepted' = Append(bAccepted, q)
  <2>1. bClosing = "no" BY <1>5 DEF ShutdownInv
  <2>2. /\ bTasks' \in Seq(Query) /\ Len(bTasks') = Len(bTasks) + 1
        /\ \A i \in 1 .. Len(bTasks) : bTasks'[i] = bTasks[i]
        /\ bTasks'[Len(bTasks) + 1] = q
        /\ Len(bTasks) \in Nat
    BY <1>2, <1>5, ElementsOfAppend
  <2>3. /\ bAccepted' \in Seq(Query) /\ Len(bAccepted') = Len(bAccepted) + 1
        /\ \A i \in 1 .. Len(bAccepted) : bAccepted'[i] = bAccepted[i]
        /\ bAccepted'[Len(bAccepted) + 1] = q
        /\ B!ElementsOf(bAccepted') = B!ElementsOf(bAccepted) \cup {q}
        /\ Len(bAccepted) \in Nat
    BY <1>2, <1>5, ElementsOfAppend
  <2>4. /\ Done \in Nat /\ Done' = Done
        /\ Done + (Len(bTasks) + 1) = Len(bAccepted) + 1
        /\ \A i \in 1 .. Done : i \in 1 .. Len(bAccepted)
    BY <2>2, <2>3 DEF Done, ListsAgree
  <2>5. Taken' = Taken BY <2>3, <2>4 DEF Taken
  <2>6. B!TypeOK' BY <1>1, <2>2, <2>3 DEF B!TypeOK
  <2>7. ShutdownInv' BY <1>1, <2>1 DEF ShutdownInv
  <2>8. \A i \in 1 .. Len(bAccepted) : bAccepted[i] # q
    BY <1>1, <1>2 DEF ListsAgree, B!ElementsOf
  <2>9. ListsAgree'
    <3>1. \A i \in 1 .. Len(bTasks') : bTasks'[i] = bAccepted'[Done' + i]
      <4> SUFFICES ASSUME NEW i \in 1 .. Len(bTasks')
                   PROVE  bTasks'[i] = bAccepted'[Done + i]
        BY <2>4
      <4>1. CASE i \in 1 .. Len(bTasks)
        <5>1. Done + i \in 1 .. Len(bAccepted)
          BY <2>2, <2>3, <2>4, <4>1
        <5> QED BY <2>2, <2>3, <4>1, <5>1 DEF ListsAgree
      <4>2. CASE i = Len(bTasks) + 1 BY <2>2, <2>3, <2>4, <4>2
      <4> QED BY <2>2, <4>1, <4>2
    <3>2. \A i, j \in 1 .. Len(bAccepted') :
            bAccepted'[i] = bAccepted'[j] => i = j
      <4>1. \A i \in 1 .. Len(bAccepted') :
              i \in 1 .. Len(bAccepted) \/ i = Len(bAccepted) + 1
        BY <2>3
      <4> QED BY <2>3, <2>8, <4>1 DEF ListsAgree
    <3>3. B!ElementsOf(bAccepted') \subseteq bSubmitted'
      BY <1>1, <2>3 DEF ListsAgree
    <3>4. B!ElementsOf(bAccepted)' \subseteq bSubmitted'
      BY <3>3 DEF B!ElementsOf
    <3>5. B!ElementsOf(bExecuted)' \cup B!InFlight' = Taken'
      BY <1>1, <1>3, <2>5 DEF ListsAgree, B!ElementsOf
    <3>6. Len(bTasks') <= Len(bAccepted') BY <2>2, <2>3 DEF ListsAgree
    <3>7. Len(bExecuted') + (IF bPc' = "run" THEN 1 ELSE 0) = Done'
      BY <1>1, <2>4 DEF ListsAgree
    <3> QED BY <3>1, <3>2, <3>4, <3>5, <3>6, <3>7 DEF ListsAgree
  <2>10. OrderKept'
    <3>1. q \notin B!ElementsOf(bExecuted)
      <4>1. q \notin Taken BY <2>4, <2>8 DEF Taken
      <4> QED BY <4>1 DEF ListsAgree
    <3>2. B!InOrder({})'
      <4> SUFFICES ASSUME NEW a \in Query, NEW b \in Query,
                          B!Precedes(bAccepted', a, b),
                          b \in B!ElementsOf(bExecuted)
                   PROVE  B!Precedes(bExecuted, a, b)
        BY <1>1 DEF B!InOrder, B!Precedes, B!ElementsOf
      <4>1. B!Precedes(bAccepted, a, b)
        BY <1>2, <1>5, <3>1, PrecedesAppend
      <4> QED BY <2>1, <4>1 DEF OrderKept, B!InOrder
    <3>3. bPc' = "run" => Done' # 0 /\ bTask' = bAccepted'[Done']
      <4> SUFFICES ASSUME bPc = "run"
                   PROVE  Done # 0 /\ bTask = bAccepted'[Done]
        BY <1>1, <2>4
      <4>1. Done # 0 /\ bTask = bAccepted[Done]
        BY <2>1 DEF OrderKept
      <4>2. Done \in 1 .. Len(bAccepted) BY <2>2, <2>3, <2>4, <4>1
      <4> QED BY <2>3, <4>1, <4>2
    <3> QED BY <1>1, <2>1, <3>2, <3>3 DEF OrderKept
  <2> QED BY <2>6, <2>7, <2>9, <2>10
<1> QED BY <1>4, <1>5 DEF B!AddTask

LEMMA FlushKeeps ==
  ASSUME QueriesInv, B!Flush
  PROVE  QueriesInv'
<1> USE DEF QueriesInv
<1>1. /\ bClosing = "flushing" /\ bTasks # <<>> /\ bTasks' = Tail(bTasks)
      /\ bExecuted' = Append(bExecuted, Head(bTasks))
      /\ bCalledBack' = bCalledBack \cup ({Head(bTasks)} \cap WithCallback)
      /\ UNCHANGED <<bState, bPc, bTask, bLockHeld, bClosing, bNotifying,
                     bSubmitted, bAccepted>>
  BY DEF B!Flush
<1>2. /\ bTasks \in Seq(Query) /\ bAccepted \in Seq(Query)
      /\ bExecuted \in Seq(Query)
  BY DEF B!TypeOK
<1> DEFINE x == Head(bTasks)
<1>3. /\ bTasks' \in Seq(Query) /\ Len(bTasks) \in Nat \ {0}
      /\ Len(bTasks') = Len(bTasks) - 1 /\ x = bTasks[1]
      /\ \A i \in 1 .. Len(bTasks') : bTasks'[i] = bTasks[i + 1]
      /\ Len(bAccepted) \in Nat /\ x \in Query
  BY <1>1, <1>2
<1>4. /\ bExecuted' \in Seq(Query) /\ Len(bExecuted') = Len(bExecuted) + 1
      /\ B!ElementsOf(bExecuted') = B!ElementsOf(bExecuted) \cup {x}
      /\ Len(bExecuted) \in Nat
  BY <1>1, <1>2, <1>3, ElementsOfAppend
<1> HIDE DEF x
<1>5. Done \in Nat /\ Done' = Done + 1 /\ Done + 1 \in 1 .. Len(bAccepted)
  BY <1>1, <1>3 DEF Done, ListsAgree
<1>6. x = bAccepted[Done + 1]
  <2>1. 1 \in 1 .. Len(bTasks) BY <1>3
  <2> QED BY <1>3, <2>1 DEF ListsAgree
<1>7. B!TypeOK' BY <1>1, <1>3, <1>4 DEF B!TypeOK, x
<1>8. ShutdownInv' BY <1>1 DEF ShutdownInv
<1>9. B!InFlight' = B!InFlight BY <1>1 DEF B!InFlight
<1>10. Taken' = Taken \cup {x}
  <2>1. \A i \in 1 .. Done + 1 : i \in 1 .. Done \/ i = Done + 1 BY <1>5
  <2>2. \A i \in 1 .. Done : i \in 1 .. Done + 1 BY <1>5
  <2>3. Done + 1 \in 1 .. Done + 1 BY <1>5
  <2> QED BY <1>1, <1>5, <1>6, <2>1, <2>2, <2>3 DEF Taken
<1>11. ListsAgree'
  <2>1. \A i \in 1 .. Len(bTasks') : bTasks'[i] = bAccepted[Done' + i]
    <3> SUFFICES ASSUME NEW i \in 1 .. Len(bTasks')
                 PROVE  bTasks'[i] = bAccepted[Done' + i]
      OBVIOUS
    <3>1. i + 1 \in 1 .. Len(bTasks) /\ Done + (i + 1) = Done' + i
      BY <1>3, <1>5
    <3>2. bTasks[i + 1] = bAccepted[Done + (i + 1)]
      BY <3>1 DEF ListsAgree
    <3> QED BY <1>3, <3>1, <3>2
  <2>2. Len(bExecuted') + (IF bPc' = "run" THEN 1 ELSE 0) = Done'
    BY <1>1, <1>4, <1>5 DEF ListsAgree
  <2>3. B!ElementsOf(bExecuted)' \cup B!InFlight' = Taken'
    BY <1>4, <1>9, <1>10 DEF ListsAgree, B!ElementsOf
  <2>4. B!ElementsOf(bAccepted)' \subseteq bSubmitted'
    BY <1>1 DEF ListsAgree, B!ElementsOf
  <2> QED BY <1>1, <1>3, <2>1, <2>2, <2>3, <2>4 DEF ListsAgree
<1>12. OrderKept'
  <2>1. PICK strays \in AtMostOne :
          B!InOrder(strays) /\ B!InFlight \subseteq strays
    BY <1>1 DEF OrderKept
  <2>2. ASSUME NEW p \in Query \ strays, B!Precedes(bAccepted, p, x)
        PROVE  p \in B!ElementsOf(bExecuted)
    <3>1. PICK i, j \in 1 .. Len(bAccepted) :
            i < j /\ bAccepted[i] = p /\ bAccepted[j] = x
      BY <1>2, <2>2 DEF B!Precedes
    <3>2. j = Done + 1 BY <1>5, <1>6, <3>1 DEF ListsAgree
    <3>3. i \in 1 .. Done BY <1>3, <1>5, <3>1, <3>2
    <3>4. p \in Taken BY <3>1, <3>3 DEF Taken
    <3> QED BY <2>1, <3>4 DEF ListsAgree
  <2>3. B!InOrder(strays)'
    BY <1>1, <1>2, <1>3, <2>1, <2>2, ExecuteInOrder DEF x
  <2> QED BY <1>1, <1>9, <2>1, <2>3 DEF OrderKept
<1> QED BY <1>7, <1>8, <1>11, <1>12

(* The rest leaves the lists alone.                                        *)
LEMMA QueriesStayKeeps ==
  ASSUME QueriesInv, B!TypeOK', ShutdownInv',
         UNCHANGED <<bTasks, bSubmitted, bAccepted, bExecuted>>,
         (bPc' # "run" /\ bPc # "run") \/ UNCHANGED <<bPc, bTask>>,
         bClosing # "no" => bClosing' # "no"
  PROVE  QueriesInv'
<1> USE DEF QueriesInv
<1>1. B!InFlight' = B!InFlight BY DEF B!InFlight
<1>2. Done' = Done /\ Taken' = Taken BY DEF Done, Taken
<1>3. /\ B!ElementsOf(bExecuted)' = B!ElementsOf(bExecuted)
      /\ B!ElementsOf(bAccepted)' = B!ElementsOf(bAccepted)
  BY DEF B!ElementsOf
<1>4. ListsAgree' BY <1>1, <1>2, <1>3 DEF ListsAgree
<1>5. \A strays : B!InOrder(strays)' <=> B!InOrder(strays)
  BY DEF B!InOrder, B!Precedes, B!ElementsOf
<1>6. CASE bClosing' = "no"
  <2>1. B!InOrder({}) /\ bClosing = "no" BY <1>6 DEF OrderKept
  <2>2. B!InOrder({})' BY <1>5, <2>1
  <2>3. bPc' = "run" => Done' # 0 /\ bTask' = bAccepted'[Done']
    BY <1>2, <2>1 DEF OrderKept
  <2> QED BY <1>4, <1>6, <2>2, <2>3 DEF OrderKept
<1>7. CASE bClosing # "no"
  <2>1. PICK strays \in AtMostOne :
          B!InOrder(strays) /\ B!InFlight \subseteq strays
    BY <1>7 DEF OrderKept
  <2>2. B!InOrder(strays)' BY <1>5, <2>1
  <2> QED BY <1>1, <1>4, <1>7, <2>1, <2>2 DEF OrderKept
<1>8. CASE bClosing = "no" /\ bClosing' # "no"
  <2>1. B!InFlight \in AtMostOne
    BY DEF B!InFlight, AtMostOne, ShutdownInv
  <2>2. B!InOrder({}) BY <1>8 DEF OrderKept
  <2>3. B!InOrder(B!InFlight) BY <2>2 DEF B!InOrder
  <2>4. B!InOrder(B!InFlight)' BY <1>1, <1>5, <2>3
  <2> QED BY <1>1, <1>4, <1>8, <2>1, <2>4 DEF OrderKept
<1> QED BY <1>4, <1>6, <1>7, <1>8

LEMMA QueriesKeep == QueriesInv /\ [B!Next]_bVars => QueriesInv'
<1> SUFFICES ASSUME QueriesInv, [B!Next]_bVars PROVE QueriesInv' OBVIOUS
<1> USE DEF QueriesInv, B!TypeOK, B!DatabasePc, ShutdownInv
<1>1. CASE B!CheckState
  BY <1>1, QueriesStayKeeps DEF B!CheckState, B!history
<1>2. CASE B!LockAndLook
  <2>1. CASE B!TakeFirst BY <1>2, <2>1, QueryTakenKeeps DEF B!LockAndLook
  <2>2. CASE ~B!TakeFirst
    BY <1>2, <2>2, QueriesStayKeeps DEF B!LockAndLook, B!history
  <2> QED BY <2>1, <2>2
<1>3. CASE B!LookAgain
  <2>1. CASE B!TakeFirst BY <1>3, <2>1, QueryTakenKeeps DEF B!LookAgain
  <2>2. CASE ~B!TakeFirst
    BY <1>3, <2>2, QueriesStayKeeps DEF B!LookAgain, B!history
  <2> QED BY <2>1, <2>2
<1>4. CASE B!PostCallback
  BY <1>4, QueriesStayKeeps DEF B!PostCallback
<1>5. CASE B!SpuriousWakeup
  BY <1>5, QueriesStayKeeps DEF B!SpuriousWakeup, B!history
<1>6. CASE B!Stop BY <1>6, QueriesStayKeeps DEF B!Stop, B!history
<1>7. CASE B!ShutdownBegin
  BY <1>7, QueriesStayKeeps DEF B!ShutdownBegin, B!history
<1>8. ASSUME NEW c \in QueryCaller, B!ShutdownUnlock(c) PROVE QueriesInv'
  BY <1>8, QueriesStayKeeps DEF B!ShutdownUnlock, B!history
<1>9. ASSUME NEW c \in QueryCaller, B!NotifyOne(c) PROVE QueriesInv'
  BY <1>9, QueriesStayKeeps DEF B!NotifyOne, B!history
<1>10. ASSUME NEW c \in QueryCaller, NEW q \in Query, B!AddTask(c, q)
       PROVE  QueriesInv'
  BY <1>10, QueryAddedKeeps
<1>11. CASE UNCHANGED bVars BY <1>11, QueriesStayKeeps DEF bVars
<1>12. CASE B!RunQuery BY <1>12, QueryRunKeeps
<1>13. CASE B!Flush BY <1>13, FlushKeeps
<1> QED
  BY <1>1, <1>2, <1>3, <1>4, <1>5, <1>6, <1>7, <1>8, <1>9, <1>10, <1>11,
     <1>12, <1>13
  DEF B!Next, B!DatabaseThread, B!ShutdownSteps

LEMMA QueriesBegin == B!Init => QueriesInv
<1> SUFFICES ASSUME B!Init PROVE QueriesInv OBVIOUS
<1>1. /\ bTasks = <<>> /\ bAccepted = <<>> /\ bExecuted = <<>>
      /\ bPc = "check" /\ bClosing = "no" /\ bState = "RUNNING"
      /\ bTask = NoQuery /\ bLockHeld = FALSE /\ bNotifying = {}
      /\ bSubmitted = {} /\ bCalledBack = {}
  BY DEF B!Init
<1>2. B!TypeOK
  <2>1. bTasks \in Seq(Query) /\ bAccepted \in Seq(Query)
        /\ bExecuted \in Seq(Query)
    BY <1>1
  <2> QED BY <1>1, <2>1 DEF B!TypeOK, B!DatabasePc
<1>3. ShutdownInv BY <1>1 DEF ShutdownInv
<1>4. ListsAgree
  BY <1>1 DEF ListsAgree, Done, Taken, B!ElementsOf, B!InFlight
<1>5. OrderKept BY <1>1 DEF OrderKept, B!InOrder, B!Precedes
<1> QED BY <1>2, <1>3, <1>4, <1>5 DEF QueriesInv

(* What the invariant says of the queries.                                 *)
LEMMA QueriesInvSound == QueriesInv => QueriesRunOnce
<1> SUFFICES ASSUME QueriesInv PROVE QueriesRunOnce OBVIOUS
<1> USE DEF QueriesInv
<1>1. bTasks \in Seq(Query) /\ bAccepted \in Seq(Query)
  BY DEF B!TypeOK
<1>2. /\ Len(bTasks) \in Nat /\ Len(bAccepted) \in Nat
      /\ Len(bTasks) <= Len(bAccepted)
      /\ DOMAIN bTasks = 1 .. Len(bTasks)
      /\ DOMAIN bAccepted = 1 .. Len(bAccepted)
  BY <1>1 DEF ListsAgree
<1>3. Done \in Nat /\ Done + Len(bTasks) = Len(bAccepted)
  BY <1>2 DEF Done
<1>4. Len(bExecuted) + Cardinality(B!InFlight) + Len(bTasks)
        = Len(bAccepted)
  <2>1. Cardinality(B!InFlight) = IF bPc = "run" THEN 1 ELSE 0
    BY FS_EmptySet, FS_Singleton DEF B!InFlight
  <2>2. Len(bExecuted) + (IF bPc = "run" THEN 1 ELSE 0) = Done
    BY DEF ListsAgree
  <2> HIDE DEF QueriesInv
  <2> QED BY <1>3, <2>1, <2>2
<1>5. Taken \cup B!ElementsOf(bTasks) = B!ElementsOf(bAccepted)
  <2> HIDE DEF QueriesInv
  <2>1. \A i \in 1 .. Done : i \in 1 .. Len(bAccepted)
    BY <1>2, <1>3
  <2>2. \A i \in 1 .. Len(bTasks) : Done + i \in 1 .. Len(bAccepted)
    BY <1>2, <1>3
  <2>3. \A i \in 1 .. Len(bAccepted) :
          i \in 1 .. Done
            \/ (i - Done \in 1 .. Len(bTasks) /\ Done + (i - Done) = i)
    BY <1>2, <1>3
  <2>4. \A i \in 1 .. Len(bTasks) : bTasks[i] = bAccepted[Done + i]
    BY DEF QueriesInv, ListsAgree
  <2>5. B!ElementsOf(bTasks) \subseteq B!ElementsOf(bAccepted)
    BY <1>2, <2>2, <2>4 DEF B!ElementsOf
  <2>6. Taken \subseteq B!ElementsOf(bAccepted)
    BY <1>2, <2>1 DEF B!ElementsOf, Taken
  <2>7. ASSUME NEW i \in 1 .. Len(bAccepted)
        PROVE  bAccepted[i] \in Taken \cup B!ElementsOf(bTasks)
    <3>1. CASE i \in 1 .. Done BY <3>1 DEF Taken
    <3>2. CASE i - Done \in 1 .. Len(bTasks) /\ Done + (i - Done) = i
      <4>1. bTasks[i - Done] = bAccepted[i] BY <2>4, <3>2
      <4> QED BY <1>2, <3>2, <4>1 DEF B!ElementsOf
    <3> QED BY <2>3, <3>1, <3>2
  <2> QED BY <1>2, <2>5, <2>6, <2>7 DEF B!ElementsOf
<1>6. B!ExecutedExactlyOnce
  <2>1. B!ElementsOf(bExecuted) \cup B!InFlight = Taken BY DEF ListsAgree
  <2> HIDE DEF QueriesInv
  <2>2. B!ElementsOf(bExecuted) \cup B!InFlight \cup B!ElementsOf(bTasks)
          = B!ElementsOf(bAccepted)
    BY <1>5, <2>1
  <2>3. \A set : B!Cardinality(set) = Cardinality(set)
    BY Zenon DEF B!Cardinality, Cardinality
  <2> QED BY <1>4, <2>2, <2>3 DEF B!ExecutedExactlyOnce
<1>7. B!InOrderButInFlight
  BY DEF OrderKept, AtMostOne, B!InOrderButInFlight
<1> QED BY <1>6, <1>7 DEF QueriesRunOnce

(* Whoever queues queries, and whenever a shutdown comes: every accepted   *)
(* query is executed once, in order but for the one in flight (threadMain, *)
(* addTask, flush).                                                        *)
THEOREM QueriesRunOnceHolds == QueriesSpec => []QueriesRunOnce
<1>1. B!SafeSpec => []QueriesInv
  <2>1. QueriesInv /\ [B!Next]_(B!vars) => QueriesInv'
    BY QueriesKeep DEF bVars, B!vars
  <2> QED BY <2>1, QueriesBegin, PTL DEF B!SafeSpec
<1> QED BY <1>1, QueriesInvSound, PTL DEF QueriesSpec

-----------------------------------------------------------------------------
(* The threads of the server *)

DTasks == DispatcherTask \cup {StopTask}

Kept == D!Queued \cup D!Held

(* The dispatcher: the stop task is the last that its list has, and the    *)
(* thread returns after it.                                                *)
DispatcherInv ==
  /\ dList \in Seq(DTasks) /\ dTask \in DTasks \cup {None}
  /\ dState \in {"TERMINATED", "RUNNING", "CLOSING"}
  /\ dPc \in D!DispatcherPc
  /\ dTask # None <=> dPc \in {"taken", "run"}
  /\ dState = "TERMINATED" => dPc \in {"check", "exit"} /\ dList = <<>>
  /\ dPc = "exit" => dState = "TERMINATED"
  /\ StopTask \in Kept => dState # "RUNNING"
  /\ \A i \in 1 .. Len(dList) : dList[i] = StopTask => i = Len(dList)
  /\ dTask = StopTask => dList = <<>>

(* The scheduler hands over events, and stays terminated.                  *)
SchedulerInv ==
  /\ sList \subseteq Event
  /\ sPc = "dispatch" => sPopped \in Event

(* Where the dispatcher is inside the two tasks of a shutdown.             *)
StoppingSteps == {"stopScheduler", "stopDatabase", "stopDispatcher"}
ShutdownSteps ==
  {"terminateScheduler", "clearScheduler", "terminateDatabase",
   "flushDatabase", "terminateDispatcher", "stopServices"}

(* How far the threads are that the dispatcher's task, and then main, shut *)
(* down one after the other.                                               *)
InOrder ==
  /\ step # "idle" => dPc = "run"
  /\ GameShutdownTask \in Kept =>
       dState # "RUNNING" \/ step \in StoppingSteps
  /\ step \in ShutdownSteps \/ mpc # "serving" => dState # "RUNNING"
  /\ step \in ShutdownSteps \ {"terminateScheduler"} \/ mpc # "serving" =>
       sState = "TERMINATED"
  /\ step \in {"flushDatabase", "terminateDispatcher", "stopServices"}
         \/ mpc # "serving" => bClosing # "no"
  /\ step \in {"terminateDispatcher", "stopServices"} \/ mpc # "serving" =>
       bClosing = "flushed"
  /\ mpc \in {"joinDispatcher", "returned"} => bPc = "exit"

(* The database thread: QueriesInv, that its queries run once and in       *)
(* order.                                                                  *)
IInv == DispatcherInv /\ SchedulerInv /\ QueriesInv /\ InOrder

-----------------------------------------------------------------------------
(* The dispatcher *)

LEMMA SameKept == UNCHANGED <<dList, dTask>> => Kept' = Kept
  BY DEF Kept, D!Queued, D!Held

LEMMA TakeFirstKeeps ==
  ASSUME DispatcherInv, dPc \in {"lock", "woken"}, D!TakeFirst
  PROVE  DispatcherInv' /\ Kept' \subseteq Kept /\ dState' = dState
<1> USE DEF DispatcherInv
<1>1. /\ dList # <<>> /\ dTask' = Head(dList) /\ dList' = Tail(dList)
      /\ dPc' = "taken" /\ UNCHANGED <<dState, dNotifying>>
  BY DEF D!TakeFirst
<1>2. /\ dTask' = dList[1] /\ dTask' \in DTasks /\ dList' \in Seq(DTasks)
      /\ Len(dList') = Len(dList) - 1 /\ Len(dList) \in Nat \ {0}
      /\ \A i \in 1 .. Len(dList') : dList'[i] = dList[i + 1]
  BY <1>1
<1>3. dTask' \in D!Queued
  <2>1. 1 \in DOMAIN dList BY <1>1
  <2> QED BY <1>2, <2>1 DEF D!Queued
<1>4. D!Queued' \subseteq D!Queued
  <2> SUFFICES ASSUME NEW i \in 1 .. Len(dList')
               PROVE  dList'[i] \in D!Queued
    BY <1>2 DEF D!Queued
  <2>1. i + 1 \in DOMAIN dList BY <1>2
  <2> QED BY <1>2, <2>1 DEF D!Queued
<1>5. Kept' \subseteq Kept BY <1>3, <1>4 DEF Kept, D!Held
<1>6. \A i \in 1 .. Len(dList') : dList'[i] = StopTask => i = Len(dList')
  <2> SUFFICES ASSUME NEW i \in 1 .. Len(dList'), dList'[i] = StopTask
               PROVE  i = Len(dList')
    OBVIOUS
  <2>1. i + 1 \in 1 .. Len(dList) /\ dList[i + 1] = StopTask BY <1>2
  <2>2. i + 1 = Len(dList) BY <2>1
  <2> QED BY <1>2, <2>2
<1>7. dTask' = StopTask => dList' = <<>>
  <2> SUFFICES ASSUME dList[1] = StopTask PROVE dList' = <<>> BY <1>2
  <2>1. 1 \in 1 .. Len(dList) BY <1>2
  <2>2. Len(dList) = 1 BY <2>1
  <2> QED BY <1>2, <2>2
<1>8. dTask' # None BY <1>2, ServerThreadsAssumption DEF DTasks
<1>9. dState' # "TERMINATED" BY <1>1
<1> QED
  BY <1>1, <1>2, <1>5, <1>6, <1>7, <1>8, <1>9 DEF D!DispatcherPc

(* The steps of threadMain between tasks.                                  *)
LEMMA DispatcherInternalKeeps ==
  ASSUME DispatcherInv,
         \/ D!CheckState \/ D!LockAndLook \/ D!LookAgain
         \/ D!DiscardExpired \/ D!SpuriousWakeup
  PROVE  /\ DispatcherInv' /\ Kept' \subseteq Kept /\ dState' = dState
         /\ dPc # "run"
<1> USE DEF DispatcherInv
<1>1. CASE D!CheckState
  <2>1. /\ dPc = "check" /\ UNCHANGED <<dState, dList, dTask>>
        /\ dPc' = IF dState = "TERMINATED" THEN "exit" ELSE "lock"
    BY <1>1 DEF D!CheckState
  <2> QED BY <2>1, SameKept DEF D!DispatcherPc
<1>2. CASE D!LockAndLook
  <2>1. CASE D!TakeFirst
    BY <1>2, <2>1, TakeFirstKeeps DEF D!LockAndLook
  <2>2. CASE /\ dPc' = "waiting"
             /\ UNCHANGED <<dState, dList, dTask, dNotifying>>
    BY <1>2, <2>2, SameKept DEF D!LockAndLook, D!DispatcherPc
  <2> QED BY <1>2, <2>1, <2>2 DEF D!LockAndLook
<1>3. CASE D!LookAgain
  <2>1. CASE D!TakeFirst
    BY <1>3, <2>1, TakeFirstKeeps DEF D!LookAgain
  <2>2. CASE /\ dPc' = "check"
             /\ UNCHANGED <<dState, dList, dTask, dNotifying>>
    BY <1>3, <2>2, SameKept DEF D!LookAgain, D!DispatcherPc
  <2> QED BY <1>3, <2>1, <2>2 DEF D!LookAgain
<1>4. CASE D!DiscardExpired
  <2>1. /\ dPc = "taken" /\ dPc' = "check" /\ dTask' = None
        /\ UNCHANGED <<dState, dList>>
    BY <1>4 DEF D!DiscardExpired
  <2>2. None # StopTask BY ServerThreadsAssumption
  <2>3. Kept' \subseteq Kept BY <2>1 DEF Kept, D!Queued, D!Held
  <2> QED BY <2>1, <2>2, <2>3 DEF D!DispatcherPc
<1>5. CASE D!SpuriousWakeup
  BY <1>5, SameKept DEF D!SpuriousWakeup, D!DispatcherPc
<1> QED BY <1>1, <1>2, <1>3, <1>4, <1>5

(* Calls to the dispatcher, and what its thread does with a task.          *)
LEMMA NotifyKeeps ==
  ASSUME DispatcherInv, NEW c \in Thread, D!NotifyOne(c)
  PROVE  /\ DispatcherInv' /\ Kept' = Kept /\ dState' = dState
         /\ dPc = "run" => dPc' = "run"
  BY SameKept DEF DispatcherInv, D!NotifyOne, D!DispatcherPc

LEMMA AddTaskKeeps ==
  ASSUME DispatcherInv, NEW c \in Thread, NEW t \in DispatcherTask,
         NEW pushFront \in BOOLEAN, D!AddTask(c, t, pushFront)
  PROVE  /\ DispatcherInv' /\ Kept' \subseteq Kept \cup {t}
         /\ dState' = dState /\ dPc' = dPc
<1> USE DEF DispatcherInv
<1>1. UNCHANGED <<dState, dPc, dTask>> BY DEF D!AddTask
<1>2. CASE UNCHANGED dList BY <1>1, <1>2, SameKept
<1>3. ASSUME dState = "RUNNING",
             dList' = IF pushFront THEN <<t>> \o dList ELSE Append(dList, t)
      PROVE  /\ DispatcherInv' /\ Kept' \subseteq Kept \cup {t}
             /\ dState' = dState /\ dPc' = dPc
  <2>1. t \in DTasks /\ t # StopTask
    BY ServerThreadsAssumption DEF DTasks
  <2>2. /\ dList' \in Seq(DTasks)
        /\ \A i \in 1 .. Len(dList') :
             dList'[i] = t \/ \E j \in 1 .. Len(dList) : dList'[i] = dList[j]
    <3>1. CASE dList' = Append(dList, t) BY <2>1, <3>1
    <3>2. CASE dList' = <<t>> \o dList
      <4>1. /\ dList' \in Seq(DTasks) /\ Len(dList') = Len(dList) + 1
            /\ Len(dList) \in Nat /\ dList'[1] = t
            /\ \A i \in 2 .. Len(dList') : dList'[i] = dList[i - 1]
        BY <2>1, <3>2
      <4>2. \A i \in 2 .. Len(dList') : i - 1 \in 1 .. Len(dList) BY <4>1
      <4>3. \A i \in 1 .. Len(dList') : i = 1 \/ i \in 2 .. Len(dList')
        BY <4>1
      <4> QED BY <4>1, <4>2, <4>3
    <3> QED BY <1>3, <3>1, <3>2
  <2>3. D!Queued' \subseteq D!Queued \cup {t} BY <2>2 DEF D!Queued
  <2>4. Kept' \subseteq Kept \cup {t} BY <1>1, <2>3 DEF Kept, D!Held
  <2>5. StopTask \notin Kept' BY <1>3, <2>1, <2>4
  <2>6. \A i \in 1 .. Len(dList') : dList'[i] # StopTask
    BY <2>2, <2>5 DEF Kept, D!Queued
  <2>7. dTask # StopTask
    BY <1>3, ServerThreadsAssumption DEF Kept, D!Held
  <2> QED BY <1>1, <1>3, <2>2, <2>4, <2>5, <2>6, <2>7
<1> QED BY <1>2, <1>3 DEF D!AddTask

(* The closure of Dispatcher::shutdown goes to the back, and nothing comes *)
(* after it.                                                               *)
LEMMA ShutdownKeeps ==
  ASSUME DispatcherInv, dState # "RUNNING", NEW c \in Thread, D!Shutdown(c)
  PROVE  /\ DispatcherInv' /\ Kept' \subseteq Kept \cup {StopTask}
         /\ dState' = dState
         /\ dPc = "run" => dPc' = "run"
<1> USE DEF DispatcherInv
<1>1. /\ dState # "TERMINATED" /\ StopTask \notin Kept
      /\ dList' = Append(dList, StopTask) /\ UNCHANGED <<dState, dTask>>
      /\ dPc' = IF dPc = "waiting" THEN "woken" ELSE dPc
  BY DEF D!Shutdown, Kept
<1>2. /\ dList' \in Seq(DTasks) /\ Len(dList') = Len(dList) + 1
      /\ Len(dList) \in Nat /\ dList'[Len(dList')] = StopTask
      /\ \A i \in 1 .. Len(dList) : dList'[i] = dList[i]
  BY <1>1 DEF DTasks
<1>3. \A i \in 1 .. Len(dList) : dList[i] # StopTask
  BY <1>1 DEF Kept, D!Queued
<1>4. \A i \in 1 .. Len(dList') : i \in 1 .. Len(dList) \/ i = Len(dList')
  BY <1>2
<1>5. \A i \in 1 .. Len(dList') : dList'[i] = StopTask => i = Len(dList')
  BY <1>2, <1>3, <1>4
<1>6. D!Queued' \subseteq D!Queued \cup {StopTask}
  BY <1>2, <1>4 DEF D!Queued
<1>7. Kept' \subseteq Kept \cup {StopTask} BY <1>1, <1>6 DEF Kept, D!Held
<1>8. dTask # StopTask
  BY <1>1, ServerThreadsAssumption DEF Kept, D!Held
<1> QED BY <1>1, <1>2, <1>5, <1>7, <1>8 DEF D!DispatcherPc

LEMMA TaskKeeps ==
  ASSUME DispatcherInv
  PROVE  /\ D!BeginTask =>
              /\ DispatcherInv' /\ Kept' = Kept /\ dState' = dState
              /\ dPc = "taken" /\ dPc' = "run"
         /\ D!EndTask =>
              /\ DispatcherInv' /\ Kept' \subseteq Kept
              /\ dState # "RUNNING" => dState' # "RUNNING"
         /\ D!Stop =>
              /\ DispatcherInv' /\ Kept' = Kept /\ dState' = "CLOSING"
              /\ dPc' = dPc
<1> USE DEF DispatcherInv
<1>1. ASSUME D!BeginTask
      PROVE  /\ DispatcherInv' /\ Kept' = Kept /\ dState' = dState
             /\ dPc = "taken" /\ dPc' = "run"
  BY <1>1, SameKept DEF D!BeginTask, D!DispatcherPc
<1>2. ASSUME D!EndTask
      PROVE  /\ DispatcherInv' /\ Kept' \subseteq Kept
             /\ dState # "RUNNING" => dState' # "RUNNING"
  <2>1. /\ dPc = "run" /\ dPc' = "check" /\ dTask' = None
        /\ UNCHANGED dList
        /\ dState' = IF dTask = StopTask THEN "TERMINATED" ELSE dState
    BY <1>2 DEF D!EndTask
  <2>2. None # StopTask BY ServerThreadsAssumption
  <2>3. Kept' \subseteq Kept BY <2>1 DEF Kept, D!Queued, D!Held
  <2>4. StopTask \in Kept' => dState' # "RUNNING" BY <2>1, <2>3
  <2> QED BY <2>1, <2>2, <2>3, <2>4 DEF D!DispatcherPc
<1>3. ASSUME D!Stop
      PROVE  /\ DispatcherInv' /\ Kept' = Kept /\ dState' = "CLOSING"
             /\ dPc' = dPc
  BY <1>3, SameKept DEF D!Stop
<1> QED BY <1>1, <1>2, <1>3

-----------------------------------------------------------------------------
(* Scheduler and database thread *)

(* The scheduler holds events only, and once terminated it stays so.       *)
LEMMA SchedulerKeeps ==
  ASSUME SchedulerInv, [S!Next]_sVars
  PROVE  /\ SchedulerInv'
         /\ sState = "TERMINATED" => sState' = "TERMINATED"
<1> USE DEF SchedulerInv
<1>1. CASE S!SchedulerThread
  <2>1. CASE S!CheckState BY <2>1 DEF S!CheckState, S!lists
  <2>2. CASE S!LockAndSleep BY <2>2 DEF S!LockAndSleep, S!lists
  <2>3. CASE S!TimerExpires BY <2>3 DEF S!TimerExpires, S!Wake, S!lists
  <2>4. CASE S!NoTimeout BY <2>4 DEF S!NoTimeout, S!lists
  <2>5. CASE S!PopTop
    <3>1. PICK e \in sList :
            /\ sList' = sList \ {e}
            /\ IF sEventId[e] \in sIds
               THEN /\ sIds' = sIds \ {sEventId[e]}
                    /\ sPc' = "dispatch"
                    /\ sPopped' = e
               ELSE /\ sPc' = "check"
                    /\ UNCHANGED <<sIds, sPopped>>
      BY <2>5 DEF S!PopTop
    <3>2. sState' = sState BY <2>5 DEF S!PopTop
    <3> QED BY <3>1, <3>2
  <2>6. CASE S!PopEmpty BY <2>6 DEF S!PopEmpty, S!lists
  <2>7. CASE S!Dispatch BY <2>7 DEF S!Dispatch, S!lists
  <2> QED
    BY <1>1, <2>1, <2>2, <2>3, <2>4, <2>5, <2>6, <2>7
    DEF S!SchedulerThread
<1>2. CASE S!SpuriousWakeup BY <1>2 DEF S!SpuriousWakeup, S!Wake, S!lists
<1>3. CASE S!Tick BY <1>3 DEF S!Tick, S!lists, S!thread
<1>4. CASE S!Stop BY <1>4 DEF S!Stop, S!lists, S!thread
<1>5. CASE S!ShutdownTerminate
  BY <1>5 DEF S!ShutdownTerminate, S!lists, S!thread
<1>6. ASSUME NEW c \in {"dispatcher"}, S!NotifyOne(c)
      PROVE  /\ SchedulerInv'
             /\ sState = "TERMINATED" => sState' = "TERMINATED"
  BY <1>6 DEF S!NotifyOne, S!lists
<1>7. ASSUME NEW c \in {"dispatcher"}, S!ShutdownClear(c)
      PROVE  /\ SchedulerInv'
             /\ sState = "TERMINATED" => sState' = "TERMINATED"
  BY <1>7 DEF S!ShutdownClear, S!thread
<1>8. ASSUME NEW c \in {"dispatcher"}, NEW e \in Event, S!StopEvent(c, e)
      PROVE  /\ SchedulerInv'
             /\ sState = "TERMINATED" => sState' = "TERMINATED"
  BY <1>8 DEF S!StopEvent, S!thread
<1>9. ASSUME NEW c \in {"dispatcher"}, NEW e \in Event, NEW time,
             S!AddEvent(c, e, time)
      PROVE  /\ SchedulerInv'
             /\ sState = "TERMINATED" => sState' = "TERMINATED"
  BY <1>9 DEF S!AddEvent, S!thread
<1>10. CASE UNCHANGED sVars BY <1>10 DEF sVars
<1> QED
  BY <1>1, <1>2, <1>3, <1>4, <1>5, <1>6, <1>7, <1>8, <1>9, <1>10
  DEF S!Next

(* A shutdown of the database thread does not turn back.                   *)
Forward ==
  /\ bState = "TERMINATED" => bState' = "TERMINATED"
  /\ bClosing # "no" => bClosing' # "no"
  /\ bClosing = "flushed" => bClosing' = "flushed"
  /\ bPc = "exit" => bPc' = "exit"

LEMMA ShutdownGoesForward ==
  ASSUME [B!Next]_bVars, ShutdownInv
  PROVE  Forward
<1>1. CASE B!DatabaseThread
  BY <1>1
  DEF B!DatabaseThread, B!CheckState, B!LockAndLook, B!LookAgain, B!TakeFirst,
      B!RunQuery, B!PostCallback, B!history, Forward
<1>2. CASE B!SpuriousWakeup BY <1>2 DEF B!SpuriousWakeup, Forward
<1>3. CASE B!Stop BY <1>3 DEF B!Stop, Forward
<1>4. CASE B!ShutdownBegin BY <1>4 DEF B!ShutdownBegin, Forward
<1>5. CASE B!ShutdownSteps
  BY <1>5 DEF B!ShutdownSteps, B!Flush, B!ShutdownUnlock, Forward
<1>6. ASSUME NEW c \in QueryCaller, B!NotifyOne(c) PROVE Forward
  BY <1>6 DEF B!NotifyOne, Forward
<1>7. ASSUME NEW c \in QueryCaller, NEW q \in Query, B!AddTask(c, q)
      PROVE  Forward
  BY <1>7 DEF B!AddTask, Forward
<1>8. CASE UNCHANGED bVars BY <1>8 DEF bVars, Forward
<1> QED BY <1>1, <1>2, <1>3, <1>4, <1>5, <1>6, <1>7, <1>8 DEF B!Next

-----------------------------------------------------------------------------
(* The threads together *)

(* Seen from the scheduler and from the database thread, the server does   *)
(* what their modules say, or nothing.                                     *)
LEMMA StepsOfThreads ==
  [Next]_vars => [S!Next]_sVars /\ [B!Next]_bVars
<1> SUFFICES ASSUME [Next]_vars PROVE [S!Next]_sVars /\ [B!Next]_bVars
  OBVIOUS
<1> USE DEF S!Next, S!SchedulerThread, B!Next, B!DatabaseThread,
            B!ShutdownSteps
<1>1. CASE DispatcherInternal BY <1>1 DEF DispatcherInternal
<1>2. CASE SchedulerInternal BY <1>2 DEF SchedulerInternal
<1>3. CASE DatabaseInternal BY <1>3 DEF DatabaseInternal
<1>4. CASE Tick BY <1>4 DEF Tick
<1>5. CASE SpuriousWakeup BY <1>5 DEF SpuriousWakeup
<1>6. CASE NotifyDispatcher \/ NotifyScheduler \/ NotifyDatabase
  BY <1>6, ServerThreadsAssumption
  DEF NotifyDispatcher, NotifyScheduler, NotifyDatabase
<1>7. CASE DispatchEvent BY <1>7 DEF DispatchEvent
<1>8. CASE PostCallback BY <1>8 DEF PostCallback
<1>9. ASSUME NEW p \in Packet, ReceivePacket(p)
      PROVE  [S!Next]_sVars /\ [B!Next]_bVars
  BY <1>9 DEF ReceivePacket
<1>10. CASE ReceiveSigterm BY <1>10 DEF ReceiveSigterm
<1>11. CASE GameTask
  <2>1. CASE \/ BeginTask \/ SaveAndKick \/ QueueGameShutdown
             \/ StopDispatcher \/ TerminateDispatcher \/ StopServices
             \/ EndTask
    BY <2>1 DEF BeginTask, SaveAndKick, QueueGameShutdown, StopDispatcher,
                TerminateDispatcher, StopServices, EndTask
  <2>2. CASE StopScheduler \/ TerminateScheduler \/ ClearScheduler
    BY <2>2 DEF StopScheduler, TerminateScheduler, ClearScheduler
  <2>3. CASE \/ StopDatabase \/ TerminateDatabase \/ FlushDatabase
             \/ UnlockDatabase
    BY <2>3, ServerThreadsAssumption
    DEF StopDatabase, TerminateDatabase, FlushDatabase, UnlockDatabase
  <2> QED BY <1>11, <2>1, <2>2, <2>3 DEF GameTask
<1>12. CASE TaskAddsEvent BY <1>12 DEF TaskAddsEvent
<1>13. CASE TaskAddsQuery
  BY <1>13, ServerThreadsAssumption DEF TaskAddsQuery
<1>14. CASE DeathTimer \/ MainJoins
  BY <1>14 DEF DeathTimer, MainJoins, Join
<1>15. CASE UNCHANGED vars BY <1>15 DEF vars
<1> QED
  BY <1>1, <1>2, <1>3, <1>4, <1>5, <1>6, <1>7, <1>8, <1>9, <1>10, <1>11,
     <1>12, <1>13, <1>14, <1>15
  DEF Next

LEMMA InitIInv == Init => IInv
<1> SUFFICES ASSUME Init PROVE IInv OBVIOUS
<1> USE DEF Init
<1>1. DispatcherInv
  BY ServerThreadsAssumption
  DEF D!Init, DispatcherInv, D!DispatcherPc, Kept, D!Queued, D!Held
<1>2. SchedulerInv BY DEF S!Init, SchedulerInv
<1>3. QueriesInv BY QueriesBegin
<1>4. InOrder
  BY DEF D!Init, B!Init, InOrder, Kept, D!Queued, D!Held, ShutdownSteps
<1> QED BY <1>1, <1>2, <1>3, <1>4 DEF IInv

(* A step that neither lets the dispatcher's thread out of a task nor      *)
(* queues Game::shutdown, and leaves step and main where they are.         *)
LEMMA OthersKeepOrder ==
  ASSUME InOrder, Forward, sState = "TERMINATED" => sState' = "TERMINATED",
         UNCHANGED <<step, mpc>>, dState' = dState,
         dPc = "run" => dPc' = "run",
         GameShutdownTask \in Kept' => GameShutdownTask \in Kept
  PROVE  InOrder'
BY DEF InOrder, Forward

(* What the steps of a shutdown do to the order.                           *)
LEMMA ShutdownKeepsOrder ==
  ASSUME IInv, SchedulerInv', QueriesInv', Forward,
         sState = "TERMINATED" => sState' = "TERMINATED", GameTask
  PROVE  DispatcherInv' /\ InOrder'
<1> USE DEF IInv, InOrder, Forward, StoppingSteps, ShutdownSteps
<1>1. CASE BeginTask
  <2>1. /\ DispatcherInv' /\ Kept' = Kept /\ dState' = dState
        /\ dPc = "taken" /\ dPc' = "run" /\ step = "idle" /\ mpc' = mpc
    BY <1>1, TaskKeeps DEF BeginTask
  <2>2. dTask = GameShutdownTask => GameShutdownTask \in Kept
    BY ServerThreadsAssumption DEF Kept, D!Held, DispatcherTask
  <2>3. step' \in {"setGameState", "terminateScheduler", "returning", "free"}
    BY <1>1 DEF BeginTask
  <2>4. step' = "terminateScheduler" => dTask = GameShutdownTask
    BY <1>1 DEF BeginTask
  <2> QED BY <2>1, <2>2, <2>3, <2>4
<1>2. CASE SaveAndKick
  <2>1. UNCHANGED <<dState, dList, dPc, dTask, mpc>>
    BY <1>2 DEF SaveAndKick, dVars
  <2>2. DispatcherInv' /\ Kept' = Kept
    BY <2>1, SameKept DEF DispatcherInv
  <2> QED BY <1>2, <2>1, <2>2 DEF SaveAndKick
<1>3. CASE QueueGameShutdown
  <2>1. /\ step = "queueShutdown" /\ step' = "stopScheduler" /\ mpc' = mpc
        /\ D!AddTask("dispatcher", GameShutdownTask, FALSE)
    BY <1>3 DEF QueueGameShutdown
  <2>2. "dispatcher" \in Thread /\ GameShutdownTask \in DispatcherTask
    BY DEF Thread, DispatcherTask
  <2>3. DispatcherInv' /\ dState' = dState /\ dPc' = dPc
    BY <2>1, <2>2, AddTaskKeeps
  <2> QED BY <2>1, <2>3
<1>4. CASE StopScheduler \/ StopDatabase
  <2>1. UNCHANGED <<dState, dList, dPc, dTask, mpc>>
    BY <1>4 DEF StopScheduler, StopDatabase, dVars
  <2>2. DispatcherInv' /\ Kept' = Kept
    BY <2>1, SameKept DEF DispatcherInv
  <2>3. /\ step \in StoppingSteps
        /\ step' \in {"stopDatabase", "stopDispatcher"}
    BY <1>4 DEF StopScheduler, StopDatabase
  <2> QED BY <2>1, <2>2, <2>3
<1>5. CASE StopDispatcher
  <2>1. /\ DispatcherInv' /\ dState' = "CLOSING" /\ dPc' = dPc
        /\ step = "stopDispatcher" /\ step' = "returning" /\ mpc' = mpc
    BY <1>5, TaskKeeps DEF StopDispatcher
  <2> QED BY <2>1
<1>6. CASE TerminateScheduler \/ ClearScheduler \/ TerminateDatabase
  <2>1. UNCHANGED <<dState, dList, dPc, dTask, mpc>>
    BY <1>6
    DEF TerminateScheduler, ClearScheduler, TerminateDatabase, dVars
  <2>2. DispatcherInv' /\ Kept' = Kept
    BY <2>1, SameKept DEF DispatcherInv
  <2>3. CASE TerminateScheduler
    <3>1. /\ step = "terminateScheduler" /\ step' = "clearScheduler"
          /\ sState' = "TERMINATED"
      BY <2>3 DEF TerminateScheduler, S!ShutdownTerminate
    <3> QED BY <2>1, <2>2, <3>1
  <2>4. CASE ClearScheduler
    BY <2>1, <2>2, <2>4 DEF ClearScheduler
  <2>5. CASE TerminateDatabase
    <3>1. /\ step = "terminateDatabase" /\ step' = "flushDatabase"
          /\ bClosing' = "flushing"
      BY <2>5 DEF TerminateDatabase, B!ShutdownBegin
    <3> QED BY <2>1, <2>2, <3>1
  <2> QED BY <1>6, <2>3, <2>4, <2>5
<1>7. CASE FlushDatabase
  <2>1. /\ bTasks # <<>> /\ UNCHANGED <<step, mpc>>
        /\ \/ D!AddTask("dispatcher", CallbackOf[Head(bTasks)], FALSE)
           \/ UNCHANGED dVars
    BY <1>7 DEF FlushDatabase, B!Flush
  <2>2. Head(bTasks) \in Query
    <3>1. bTasks \in Seq(Query) BY DEF QueriesInv, B!TypeOK
    <3> QED BY <2>1, <3>1
  <2>3. /\ CallbackOf[Head(bTasks)] \in DispatcherTask
        /\ CallbackOf[Head(bTasks)] # GameShutdownTask
    BY <2>2, ServerThreadsAssumption DEF DispatcherTask
  <2>4. "dispatcher" \in Thread BY DEF Thread
  <2>5. /\ DispatcherInv' /\ dState' = dState /\ dPc' = dPc
        /\ Kept' \subseteq Kept \cup {CallbackOf[Head(bTasks)]}
    <3>1. CASE UNCHANGED dVars
      BY <3>1, SameKept DEF dVars, DispatcherInv
    <3> QED BY <2>1, <2>3, <2>4, <3>1, AddTaskKeeps
  <2> QED BY <2>1, <2>3, <2>5, OthersKeepOrder
<1>8. CASE UnlockDatabase
  <2>1. UNCHANGED <<dState, dList, dPc, dTask, mpc>>
    BY <1>8 DEF UnlockDatabase, dVars
  <2>2. DispatcherInv' /\ Kept' = Kept
    BY <2>1, SameKept DEF DispatcherInv
  <2>3. /\ step = "flushDatabase" /\ step' = "terminateDispatcher"
        /\ bClosing' = "flushed"
    BY <1>8 DEF UnlockDatabase, B!ShutdownUnlock
  <2> QED BY <2>1, <2>2, <2>3
<1>9. CASE TerminateDispatcher
  <2>1. /\ step = "terminateDispatcher" /\ step' = "stopServices"
        /\ mpc' = mpc /\ D!Shutdown("dispatcher")
    BY <1>9 DEF TerminateDispatcher
  <2>2. "dispatcher" \in Thread BY DEF Thread
  <2>3. dState # "RUNNING" /\ dPc = "run" BY <2>1
  <2>4. DispatcherInv' /\ dState' = dState /\ dPc' = "run"
    BY <2>1, <2>2, <2>3, ShutdownKeeps
  <2> QED BY <2>1, <2>3, <2>4
<1>10. CASE StopServices
  <2>1. /\ UNCHANGED <<dState, dList, dPc, dTask>> /\ step = "stopServices"
        /\ step' = "returning" /\ mpc' = "stopping"
    BY <1>10 DEF StopServices, dVars
  <2>2. DispatcherInv' /\ Kept' = Kept
    BY <2>1, SameKept DEF DispatcherInv
  <2> QED BY <2>1, <2>2
<1>11. CASE EndTask
  <2>1. /\ step \in {"free", "returning"} /\ step' = "idle" /\ mpc' = mpc
        /\ DispatcherInv' /\ Kept' \subseteq Kept
        /\ dState # "RUNNING" => dState' # "RUNNING"
    BY <1>11, TaskKeeps DEF EndTask
  <2> QED BY <2>1
<1> QED
  BY <1>1, <1>2, <1>3, <1>4, <1>5, <1>6, <1>7, <1>8, <1>9, <1>10, <1>11
  DEF GameTask

(* Tasks that others hand the dispatcher: none of them is Game::shutdown.  *)
LEMMA WorkKeepsOrder ==
  ASSUME IInv, SchedulerInv', QueriesInv', Forward,
         sState = "TERMINATED" => sState' = "TERMINATED",
         \/ DispatchEvent \/ PostCallback \/ ReceiveSigterm
         \/ \E p \in Packet : ReceivePacket(p)
  PROVE  DispatcherInv' /\ InOrder'
<1> USE DEF IInv
<1>1. PICK c \in Thread, t \in DispatcherTask, front \in BOOLEAN :
        t # GameShutdownTask /\ D!AddTask(c, t, front)
  <2>1. CASE DispatchEvent
    <3>1. sPopped \in Event BY <2>1 DEF DispatchEvent, S!Dispatch, SchedulerInv
    <3>2. /\ sPopped \in DispatcherTask /\ sPopped # GameShutdownTask
          /\ "scheduler" \in Thread
      BY <3>1, ServerThreadsAssumption DEF DispatcherTask, Thread
    <3> QED BY <2>1, <3>2 DEF DispatchEvent
  <2>2. CASE PostCallback
    <3>1. bTask \in Query
      BY <2>2 DEF PostCallback, B!PostCallback, QueriesInv, ShutdownInv
    <3>2. /\ CallbackOf[bTask] \in DispatcherTask
          /\ CallbackOf[bTask] # GameShutdownTask /\ "database" \in Thread
      BY <3>1, ServerThreadsAssumption DEF DispatcherTask, Thread
    <3> QED BY <2>2, <3>2 DEF PostCallback
  <2>3. CASE ReceiveSigterm
    <3>1. /\ SigtermTask \in DispatcherTask /\ "main" \in Thread
          /\ SigtermTask # GameShutdownTask
      BY ServerThreadsAssumption DEF DispatcherTask, Thread
    <3> QED BY <2>3, <3>1 DEF ReceiveSigterm
  <2>4. ASSUME NEW p \in Packet, ReceivePacket(p)
        PROVE  \E c \in Thread, t \in DispatcherTask, front \in BOOLEAN :
                 t # GameShutdownTask /\ D!AddTask(c, t, front)
    <3>1. /\ p \in DispatcherTask /\ p # GameShutdownTask
          /\ "main" \in Thread
      BY ServerThreadsAssumption DEF DispatcherTask, Thread
    <3> QED BY <2>4, <3>1 DEF ReceivePacket
  <2> QED BY <2>1, <2>2, <2>3, <2>4
<1>2. UNCHANGED <<step, mpc>>
  BY DEF DispatchEvent, PostCallback, ReceiveSigterm, ReceivePacket
<1>3. /\ DispatcherInv' /\ dState' = dState /\ dPc' = dPc
      /\ Kept' \subseteq Kept \cup {t}
  BY <1>1, AddTaskKeeps
<1> QED BY <1>1, <1>2, <1>3, OthersKeepOrder

LEMMA NextIInv == IInv /\ [Next]_vars => IInv'
<1> SUFFICES ASSUME IInv, [Next]_vars PROVE IInv' OBVIOUS
<1>1. /\ SchedulerInv' /\ QueriesInv' /\ Forward
      /\ sState = "TERMINATED" => sState' = "TERMINATED"
  BY StepsOfThreads, SchedulerKeeps, QueriesKeep, ShutdownGoesForward
  DEF IInv, QueriesInv
<1>2. DispatcherInv' /\ InOrder'
  <2>1. ASSUME UNCHANGED <<dState, dList, dPc, dTask, step, mpc>>
        PROVE  DispatcherInv' /\ InOrder'
    <3>1. DispatcherInv' /\ Kept' = Kept
      BY <2>1, SameKept DEF IInv, DispatcherInv
    <3> QED BY <1>1, <2>1, <3>1, OthersKeepOrder DEF IInv
  <2>2. CASE \/ DispatcherInternal
             \/ D!SpuriousWakeup /\ UNCHANGED <<step, mpc>>
    <3>1. /\ DispatcherInv' /\ Kept' \subseteq Kept /\ dState' = dState
          /\ dPc # "run" /\ UNCHANGED <<step, mpc>>
      BY <2>2, DispatcherInternalKeeps DEF DispatcherInternal, IInv
    <3> QED BY <1>1, <3>1, OthersKeepOrder DEF IInv
  <2>3. CASE NotifyDispatcher
    <3>1. /\ DispatcherInv' /\ Kept' = Kept /\ dState' = dState
          /\ dPc = "run" => dPc' = "run"
          /\ UNCHANGED <<step, mpc>>
      BY <2>3, NotifyKeeps DEF NotifyDispatcher, IInv
    <3> QED BY <1>1, <3>1, OthersKeepOrder DEF IInv
  <2>4. CASE \/ DispatchEvent \/ PostCallback \/ ReceiveSigterm
             \/ \E p \in Packet : ReceivePacket(p)
    BY <1>1, <2>4, WorkKeepsOrder
  <2>5. CASE GameTask BY <1>1, <2>5, ShutdownKeepsOrder
  <2>6. CASE \/ SchedulerInternal \/ DatabaseInternal \/ Tick
             \/ NotifyScheduler \/ NotifyDatabase
             \/ TaskAddsEvent \/ TaskAddsQuery \/ UNCHANGED vars
    <3>1. UNCHANGED <<dState, dList, dPc, dTask, step, mpc>>
      BY <2>6 DEF SchedulerInternal, DatabaseInternal, Tick, NotifyScheduler,
                  NotifyDatabase, TaskAddsEvent, TaskAddsQuery, vars, dVars
    <3> QED BY <2>1, <3>1
  <2>7. CASE SpuriousWakeup
    <3>1. \/ D!SpuriousWakeup /\ UNCHANGED <<step, mpc>>
          \/ UNCHANGED <<dState, dList, dPc, dTask, step, mpc>>
      BY <2>7 DEF SpuriousWakeup, dVars
    <3> QED BY <2>1, <2>2, <3>1
  <2>8. CASE DeathTimer \/ MainJoins
    <3>1. /\ UNCHANGED <<dState, dList, dPc, dTask, step>>
          /\ mpc # "serving" /\ mpc' # "serving"
          /\ \/ mpc' \notin {"joinDispatcher", "returned"}
             \/ bPc = "exit"
             \/ mpc \in {"joinDispatcher", "returned"}
      BY <2>8 DEF DeathTimer, MainJoins, Join, dVars
    <3>2. DispatcherInv' /\ Kept' = Kept
      BY <3>1, SameKept DEF IInv, DispatcherInv
    <3> QED BY <1>1, <3>1, <3>2 DEF IInv, InOrder, Forward
  <2> QED
    BY <2>2, <2>3, <2>4, <2>5, <2>6, <2>7, <2>8 DEF Next
<1> QED BY <1>1, <1>2 DEF IInv

-----------------------------------------------------------------------------
(* Theorems *)

THEOREM IInvHolds == SafeSpec => []IInv
  BY InitIInv, NextIInv, PTL DEF SafeSpec

(* main leaves io_service::run only when the scheduler, the database       *)
(* thread and the dispatcher have all been told to stop (game.cpp,         *)
(* setGameState and shutdown).                                             *)
THEOREM ServicesStopLastHolds == SafeSpec => []ServicesStopLast
<1>1. IInv => ServicesStopLast
  BY DEF IInv, InOrder, QueriesInv, ShutdownInv, DispatcherInv,
         ServicesStopLast
<1> QED BY <1>1, IInvHolds, PTL

(* No accepted task is left when the dispatcher's thread returns, and no   *)
(* accepted query when main does (addTask, Game::shutdown, flush).         *)
THEOREM QueuesDrainedHolds == SafeSpec => []QueuesDrained
<1>1. IInv => DispatcherDrained BY DEF IInv, DispatcherInv, DispatcherDrained
<1>2. ASSUME IInv, mpc = "returned"
      PROVE  B!ElementsOf(bExecuted) = B!ElementsOf(bAccepted)
  <2>1. bPc = "exit" /\ bTasks = <<>>
    BY <1>2 DEF IInv, InOrder, QueriesInv, ShutdownInv
  <2>2. B!InFlight = {} /\ B!ElementsOf(bTasks) = {}
    BY <2>1 DEF B!InFlight, B!ElementsOf
  <2>3. B!ExecutedExactlyOnce BY <1>2, QueriesInvSound DEF IInv, QueriesRunOnce
  <2> QED BY <2>2, <2>3 DEF B!ExecutedExactlyOnce
<1>3. IInv => QueuesDrained BY <1>1, <1>2 DEF QueuesDrained, QueriesDrained
<1> QED BY <1>3, IInvHolds, PTL

(* So are the dispatcher's steps those of its module: what others hand it  *)
(* are tasks.                                                              *)
LEMMA StepsOfDispatcher == IInv /\ [Next]_vars => [D!Next]_dVars
<1> SUFFICES ASSUME IInv, [Next]_vars PROVE [D!Next]_dVars OBVIOUS
<1> USE DEF D!Next, D!DispatcherThread
<1>1. CASE DispatcherInternal BY <1>1 DEF DispatcherInternal
<1>2. CASE \/ SchedulerInternal \/ DatabaseInternal \/ Tick
           \/ NotifyScheduler \/ NotifyDatabase
           \/ TaskAddsEvent \/ TaskAddsQuery \/ DeathTimer \/ MainJoins
           \/ UNCHANGED vars
  BY <1>2
  DEF SchedulerInternal, DatabaseInternal, Tick, NotifyScheduler,
      NotifyDatabase, TaskAddsEvent, TaskAddsQuery, DeathTimer, MainJoins,
      Join, vars
<1>3. CASE SpuriousWakeup BY <1>3 DEF SpuriousWakeup
<1>4. CASE NotifyDispatcher BY <1>4 DEF NotifyDispatcher
<1>5. CASE DispatchEvent
  BY <1>5
  DEF DispatchEvent, S!Dispatch, IInv, SchedulerInv, DispatcherTask, Thread
<1>6. CASE PostCallback
  <2>1. bTask \in Query
    BY <1>6 DEF PostCallback, B!PostCallback, IInv, QueriesInv, ShutdownInv
  <2> QED BY <1>6, <2>1 DEF PostCallback, DispatcherTask, Thread
<1>7. CASE ReceiveSigterm BY <1>7 DEF ReceiveSigterm, DispatcherTask, Thread
<1>8. ASSUME NEW p \in Packet, ReceivePacket(p)
      PROVE  [D!Next]_dVars
  BY <1>8 DEF ReceivePacket, DispatcherTask, Thread
<1>9. CASE GameTask
  <2>1. CASE BeginTask \/ EndTask \/ StopDispatcher
    BY <2>1 DEF BeginTask, EndTask, StopDispatcher
  <2>2. CASE QueueGameShutdown
    BY <2>2 DEF QueueGameShutdown, DispatcherTask, Thread
  <2>3. CASE FlushDatabase
    <3>1. bTasks \in Seq(Query) /\ bTasks # <<>>
      BY <2>3 DEF FlushDatabase, B!Flush, IInv, QueriesInv, B!TypeOK
    <3>2. Head(bTasks) \in Query BY <3>1
    <3> QED BY <2>3, <3>2 DEF FlushDatabase, DispatcherTask, Thread
  <2>4. CASE TerminateDispatcher BY <2>4 DEF TerminateDispatcher, Thread
  <2>5. CASE \/ SaveAndKick \/ StopScheduler \/ StopDatabase
             \/ TerminateScheduler \/ ClearScheduler \/ TerminateDatabase
             \/ UnlockDatabase \/ StopServices
    BY <2>5 DEF SaveAndKick, StopScheduler, StopDatabase,
                TerminateScheduler, ClearScheduler, TerminateDatabase,
                UnlockDatabase, StopServices
  <2> QED BY <1>9, <2>1, <2>2, <2>3, <2>4, <2>5 DEF GameTask
<1> QED
  BY <1>1, <1>2, <1>3, <1>4, <1>5, <1>6, <1>7, <1>8, <1>9 DEF Next

(* The server's threads together do only what the modules of each, and so  *)
(* the theorems about each, allow: the composition refines its parts.      *)
THEOREM ThreadsComposeHolds ==
  SafeSpec => D!SafeSpec /\ S!SafeSpec /\ B!SafeSpec
<1>1. Init => D!Init /\ S!Init /\ B!Init BY DEF Init
<1>2. IInv /\ [Next]_vars =>
        [D!Next]_(D!vars) /\ [S!Next]_(S!vars) /\ [B!Next]_(B!vars)
  BY StepsOfThreads, StepsOfDispatcher
  DEF dVars, sVars, bVars, D!vars, S!vars, B!vars
<1> QED
  BY <1>1, <1>2, IInvHolds, PTL
  DEF SafeSpec, D!SafeSpec, S!SafeSpec, B!SafeSpec

(* Hence the server's queries run once and in order while its threads call *)
(* each other, and up to the end of a shutdown (threadMain, flush,         *)
(* Game::shutdown).                                                        *)
THEOREM ServerQueriesRunOnce == SafeSpec => []QueriesRunOnce
  BY ThreadsComposeHolds, QueriesRunOnceHolds, PTL DEF QueriesSpec
=============================================================================
