-------------------------------- MODULE Decay --------------------------------
(***************************************************************************)
(* Items that decay (startDecay, internalDecayItem, checkDecay,            *)
(* transformItem and cleanup of newsrc/game.cpp; setID and canDecay of     *)
(* newsrc/item.cpp; EquipItem and DeEquipItem of newsrc/movement.cpp).     *)
(* Every interval one of four buckets is checked, so that an item's turn   *)
(* comes once a second.  An entry holds a reference to its item, and       *)
(* stays when the item becomes something that does not decay, until its    *)
(* turn.                                                                   *)
(***************************************************************************)
EXTENDS Integers, Sequences, FiniteSets, Functions

CONSTANTS
  Item,      \* bound: objects
  Interval,  \* EVENT_DECAYINTERVAL
  Kind,      \* the names of the types
  stopTime,  \* of a type: it keeps the duration
  decayTo,   \* of a type: a type, Gone (0), or Never (-1)
  decayTime, \* of a type, 0 for none
  useTo,     \* of a type: what a use, or putting it on or off, makes of it
  Gone, Never

(* Times are given in seconds.  Of a table of items it is expected that    *)
(* what decays takes time, does not keep it, and becomes another that does *)
(* not keep it either.                                                     *)
ASSUME DecayAssumption ==
  /\ Interval \in Nat \ {0}
  /\ Gone # Never /\ Gone \notin Kind /\ Never \notin Kind
  /\ stopTime \in [Kind -> BOOLEAN]
  /\ decayTo \in [Kind -> Kind \cup {Gone, Never}]
  /\ useTo \in [Kind -> Kind \cup {Never}]
  /\ decayTime \in [Kind -> {0} \cup {n \in Nat : n >= Interval}]
  /\ \A k \in Kind :
       decayTo[k] # Never =>
         /\ decayTime[k] > 0 /\ ~ stopTime[k] /\ decayTo[k] # k
         /\ decayTo[k] # Gone => ~ stopTime[decayTo[k]]

VARIABLES
  kind,      \* Item::id
  inWorld,   \* the item has a parent
  duration,  \* ITEM_ATTRIBUTE_DURATION, 0 if there is none
  decaying,  \* ITEM_ATTRIBUTE_DECAYSTATE is DECAYING_TRUE
  toDecay,   \* Game::toDecayItems
  wheel,     \* Game::decayItems
  lastBucket,
  pending,   \* Game::ToReleaseItems
  refs,      \* Item::referenceCounter
  timeLeft,  \* history: the time an item still has
  alone      \* history: items used by nobody since their decay started

decayVars == <<kind, inWorld, duration, decaying, toDecay, wheel, lastBucket,
               pending, refs, timeLeft, alone>>

Buckets == 4
Bucket == 0 .. Buckets - 1
Second == Interval * Buckets

ItemsNow ==
  [kind |-> kind, inWorld |-> inWorld, duration |-> duration,
   decaying |-> decaying, toDecay |-> toDecay, wheel |-> wheel,
   pending |-> pending, refs |-> refs, timeLeft |-> timeLeft]

BecomeItems(w) ==
  /\ kind' = w.kind /\ inWorld' = w.inWorld /\ duration' = w.duration
  /\ decaying' = w.decaying /\ toDecay' = w.toDecay /\ wheel' = w.wheel
  /\ pending' = w.pending /\ refs' = w.refs /\ timeLeft' = w.timeLeft

DecayInit ==
  /\ kind \in [Item -> {k \in Kind : decayTo[k] = Never}]
  /\ inWorld = [i \in Item |-> TRUE]
  /\ duration = [i \in Item |-> 0]
  /\ decaying = [i \in Item |-> FALSE]
  /\ toDecay = <<>>
  /\ wheel = [b \in Bucket |-> <<>>]
  /\ lastBucket = 0
  /\ pending = <<>>
  /\ refs = [i \in Item |-> 1]
  /\ timeLeft = [i \in Item |-> 0]
  /\ alone = Item

-----------------------------------------------------------------------------
(* What the steps are built from *)

canDecay(w, i) ==
  /\ w.inWorld[i]
  /\ decayTo[w.kind[i]] # Never
  /\ decayTime[w.kind[i]] # 0

ReleaseItem(w, i) == [w EXCEPT !.pending = Append(@, i)]

internalRemoveItem(w, i) == ReleaseItem([w EXCEPT !.inWorld[i] = FALSE], i)

(* transformItem to a type of the same group: setID of the same object.    *)
transformItem(w, i, k) ==
  LET clear == decayTime[k] = 0 /\ ~ stopTime[k] /\ decayTo[k] = Never
      kept == w.duration[i] # 0
      anew == decayTime[k] > 0 /\ (~ stopTime[w.kind[i]] \/ ~ kept)
  IN  IF ~ w.inWorld[i] \/ w.kind[i] = k THEN w
      ELSE [w EXCEPT !.kind[i] = k,
                     !.decaying[i] = @ /\ ~ clear /\ ~ anew,
                     !.duration[i] = IF clear THEN 0
                                     ELSE IF anew THEN decayTime[k] ELSE @]

(* startDecay of an item with a duration.                                  *)
startDecay(w, i) ==
  IF ~ canDecay(w, i) \/ w.decaying[i] THEN w
  ELSE [w EXCEPT !.refs[i] = @ + 1,
                 !.decaying[i] = TRUE,
                 !.toDecay = <<i>> \o @,
                 !.timeLeft[i] = w.duration[i]]

internalDecayItem(w, i) ==
  IF decayTo[w.kind[i]] # Gone
  THEN startDecay(transformItem(w, i, decayTo[w.kind[i]]), i)
  ELSE internalRemoveItem(w, i)

(* Faulty variant: the item that does not decay now keeps its state.       *)
checkEntryStale(w, b, i) ==
  LET decrease == IF w.duration[i] < Second THEN w.duration[i] ELSE Second
      rest == w.duration[i] - decrease
      less == [w EXCEPT !.duration[i] = rest]
      to == (b + (rest + Interval \div 2) \div Second) % Buckets
  IN  IF ~ canDecay(w, i) THEN ReleaseItem(w, i)
      ELSE IF rest >= Second THEN [less EXCEPT !.wheel[b] = Append(@, i)]
      ELSE IF rest = 0 \/ to = b
           THEN ReleaseItem(internalDecayItem(less, i), i)
      ELSE [less EXCEPT !.wheel[to] = Append(@, i)]

(* Faulty variant: the seconds are rounded up.                             *)
checkEntryLate(w, b, i) ==
  LET decrease == IF w.duration[i] < Second THEN w.duration[i] ELSE Second
      rest == w.duration[i] - decrease
      less == [w EXCEPT !.duration[i] = rest]
  IN  IF ~ canDecay(w, i)
      THEN ReleaseItem([w EXCEPT !.decaying[i] = FALSE], i)
      ELSE IF rest > 0 THEN [less EXCEPT !.wheel[b] = Append(@, i)]
      ELSE ReleaseItem(internalDecayItem(less, i), i)

(* One entry of the bucket that is checked, which was taken out of it.     *)
checkEntry(w, b, i) ==
  LET decrease == IF w.duration[i] < Second THEN w.duration[i] ELSE Second
      rest == w.duration[i] - decrease
      less == [w EXCEPT !.duration[i] = rest]
      to == (b + (rest + Interval \div 2) \div Second) % Buckets
  IN  IF ~ canDecay(w, i)
      THEN ReleaseItem([w EXCEPT !.decaying[i] = FALSE], i)
      ELSE IF rest >= Second THEN [less EXCEPT !.wheel[b] = Append(@, i)]
      ELSE IF rest = 0 \/ to = b
           THEN ReleaseItem(internalDecayItem(less, i), i)
      ELSE [less EXCEPT !.wheel[to] = Append(@, i)]

Count(s, i) == Cardinality({n \in DOMAIN s : s[n] = i})

(* cleanup, with the bucket that was checked last.                         *)
bucketOf(w, i, last) ==
  IF w.duration[i] >= Second THEN last
  ELSE (last + 1 + w.duration[i] \div Second) % Buckets

cleanup(w, last) ==
  LET sorted[n \in 0 .. Len(w.toDecay)] ==
        IF n = 0 THEN w.wheel
        ELSE [sorted[n - 1] EXCEPT ![bucketOf(w, w.toDecay[n], last)] =
                Append(@, w.toDecay[n])]
  IN  [w EXCEPT
        !.refs = [i \in Item |-> w.refs[i] - Count(w.pending, i)],
        !.pending = <<>>,
        !.toDecay = <<>>,
        !.wheel = sorted[Len(w.toDecay)]]

-----------------------------------------------------------------------------
(* Actions *)

(* A lever or a torch is used, a ring is put on or off.                    *)
Use(i) ==
  /\ inWorld[i] /\ useTo[kind[i]] # Never
  /\ Len(toDecay) < 2   \* bound
  /\ \A b \in Bucket : Count(wheel[b], i) < 2   \* bound
  /\ BecomeItems(startDecay(transformItem(ItemsNow, i, useTo[kind[i]]), i))
  /\ alone' = IF Count(toDecay, i) = 0
                 /\ \A b \in Bucket : Count(wheel[b], i) = 0
              THEN alone \cup {i} ELSE alone \ {i}
  /\ UNCHANGED lastBucket

RemoveItem(i) ==
  /\ inWorld[i]
  /\ BecomeItems(internalRemoveItem(ItemsNow, i))
  /\ UNCHANGED <<lastBucket, alone>>

checkDecay ==
  LET b == (lastBucket + 1) % Buckets
      later == [ItemsNow EXCEPT
                 !.timeLeft = [i \in Item |-> timeLeft[i] - Interval],
                 !.wheel[b] = <<>>]
      checked[n \in 0 .. Len(wheel[b])] ==
        IF n = 0 THEN later ELSE checkEntry(checked[n - 1], b, wheel[b][n])
      done == cleanup(checked[Len(wheel[b])], b)
  IN  /\ \E b2 \in Bucket : wheel[b2] # <<>> \/ toDecay # <<>>
      /\ lastBucket' = b
      /\ BecomeItems([done EXCEPT !.timeLeft = [i \in Item |->
                       IF done.decaying[i] THEN done.timeLeft[i] ELSE 0]])
      /\ UNCHANGED alone

(* At the end of checkCreatures.                                           *)
Cleanup ==
  /\ pending # <<>> \/ toDecay # <<>>
  /\ BecomeItems(cleanup(ItemsNow, lastBucket))
  /\ UNCHANGED <<lastBucket, alone>>

DecayNext ==
  \/ \E i \in Item : Use(i) \/ RemoveItem(i)
  \/ checkDecay
  \/ Cleanup

DecaySpec == DecayInit /\ [][DecayNext]_decayVars

-----------------------------------------------------------------------------
(* Properties *)

Entries(i) ==
  Count(toDecay, i) + SumFunction([b \in Bucket |-> Count(wheel[b], i)])

DecayTypeOK ==
  /\ kind \in [Item -> Kind]
  /\ inWorld \in [Item -> BOOLEAN]
  /\ \A i \in Item : duration[i] \in Nat /\ timeLeft[i] \in Int
  /\ decaying \in [Item -> BOOLEAN]
  /\ toDecay \in Seq(Item) /\ pending \in Seq(Item)
  /\ wheel \in [Bucket -> Seq(Item)]
  /\ lastBucket \in Bucket
  /\ alone \subseteq Item

(* An item is referred to by the world, by each of its entries and by what *)
(* is to be released, once each; and one that can decay and is in the      *)
(* world has an entry, so that it does (startDecay, checkDecay, cleanup).  *)
DecayIsUnderWay ==
  \A i \in Item :
    /\ refs[i] = (IF inWorld[i] THEN 1 ELSE 0) + Entries(i)
                 + Count(pending, i)
    /\ inWorld[i] /\ decayTo[kind[i]] # Never => Entries(i) > 0

(* An item that is left alone decays less than a second before its time,   *)
(* and at most an interval after it (checkDecay).                          *)
DecaysOnTime ==
  [][\A i \in alone :
       lastBucket' # lastBucket /\ decaying[i]
         /\ <<kind[i], inWorld[i]>>' # <<kind[i], inWorld[i]>>
       => timeLeft[i] - Interval \in - Interval .. Second - 1]_decayVars

(* What can decay does, is released once, and takes its time, to a second. *)
ItemsDecay == [](DecayTypeOK /\ DecayIsUnderWay) /\ DecaysOnTime
=============================================================================
