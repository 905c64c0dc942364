--------------------------- MODULE GameTasksProofs ----------------------------
(***************************************************************************)
(* Theorems about what players do with each other in single tasks of the   *)
(* dispatcher thread: about Trade, for every set of players and items and  *)
(* every size of the containers; about KnownCreatures, for every set of    *)
(* creatures; about Conditions, for every set of them; and about the       *)
(* parties of Party and the channels of Chat, for every number of players. *)
(*                                                                         *)
(* Trade: an item lies in containers that lie in others, and a request     *)
(* looks at a chain of them; the first part says what a move does to such  *)
(* chains.  KnownCreatures: a client reads a sequence of descriptions, by  *)
(* a function defined recursively, about which the facts needed are shown  *)
(* by induction over its length.  Conditions: speed and skills are sums.   *)
(* Parties: a party lists its members and those it invited, a player lists *)
(* the invitations, and the last part shows that no request makes the two  *)
(* sides differ.                                                           *)
(***************************************************************************)
EXTENDS Trade, KnownCreatures, Conditions, Chat, SumLemmas, SequenceTheorems

-----------------------------------------------------------------------------
(* Chains of containers *)

Places == [Item -> Cylinder]

(* The containers around an item are closed under going up, and every set  *)
(* that is has them.                                                       *)
LEMMA AroundIsLeast ==
  ASSUME NEW pl, NEW i
  PROVE  /\ Around(pl, i) \in SUBSET Container
         /\ Around(pl, i) \in ClosedAbove(pl, i)
         /\ \A S \in ClosedAbove(pl, i) : Around(pl, i) \subseteq S
<1>1. Around(pl, i) \in SUBSET Container BY DEF Around
<1>2. {pl[i]} \cap Container \subseteq Around(pl, i)
  BY DEF Around, ClosedAbove
<1>3. ASSUME NEW c \in Around(pl, i), pl[c] \in Container
      PROVE  pl[c] \in Around(pl, i)
  BY <1>3 DEF Around, ClosedAbove
<1>4. Around(pl, i) \in ClosedAbove(pl, i)
  BY <1>1, <1>2, <1>3 DEF ClosedAbove
<1> QED BY <1>1, <1>4 DEF Around

(* Of the parents, the containers are those around.                        *)
LEMMA ContainersAround ==
  ASSUME NEW pl, NEW i
  PROVE  Parents(pl, i) \cap Container = Around(pl, i)
<1> DEFINE S == Parents(pl, i) \cap Container
<1>1. S \subseteq Around(pl, i) BY AroundIsLeast DEF Parents, ClosedAbove
<1>2. S \in ClosedAbove(pl, i)
  <2>1. ASSUME NEW c \in S, pl[c] \in Container PROVE pl[c] \in S
    BY <1>1, <2>1 DEF Parents
  <2> QED BY <2>1 DEF ClosedAbove, Parents
<1> HIDE DEF S
<1>3. Around(pl, i) \subseteq S BY <1>2, AroundIsLeast
<1> QED BY <1>1, <1>3 DEF S

(* The chain goes on with that of the parent.                              *)
LEMMA ChainGoesOn ==
  ASSUME NEW pl, NEW i, pl[i] \in Container
  PROVE  Parents(pl, i) = {pl[i]} \cup Parents(pl, pl[i])
<1> DEFINE c == pl[i]
<1>1. Around(pl, i) \in ClosedAbove(pl, c)
  BY AroundIsLeast DEF ClosedAbove
<1>2. Around(pl, c) \subseteq Around(pl, i) BY <1>1, AroundIsLeast
<1>3. {c} \cup Around(pl, c) \in ClosedAbove(pl, i)
  <2>1. Around(pl, c) \in ClosedAbove(pl, c) BY AroundIsLeast
  <2> QED BY <2>1 DEF ClosedAbove
<1>4. Around(pl, i) \subseteq {c} \cup Around(pl, c)
  BY <1>3, AroundIsLeast
<1>5. c \in Around(pl, i) BY AroundIsLeast DEF ClosedAbove
<1> HIDE DEF c
<1>6. Around(pl, i) = {c} \cup Around(pl, c) BY <1>2, <1>4, <1>5
<1> QED BY <1>6 DEF Parents, c

LEMMA ChainEnds ==
  ASSUME NEW pl, NEW i, pl[i] \notin Container
  PROVE  Parents(pl, i) = {pl[i]}
<1>1. {} \in ClosedAbove(pl, i) BY DEF ClosedAbove
<1>2. Around(pl, i) = {} BY <1>1, AroundIsLeast
<1> QED BY <1>2 DEF Parents

(* What is around a container around an item is around the item.           *)
LEMMA ChainsJoin ==
  ASSUME NEW pl, NEW i, NEW c \in Around(pl, i)
  PROVE  Parents(pl, c) \subseteq Parents(pl, i)
<1>1. Around(pl, i) \in ClosedAbove(pl, c)
  BY AroundIsLeast DEF ClosedAbove
<1>2. Around(pl, c) \subseteq Around(pl, i) BY <1>1, AroundIsLeast
<1> QED BY <1>2 DEF Parents

(* Whoever is at the top of a chain is at the top of all that it is made   *)
(* of.                                                                     *)
LEMMA TopOfAll ==
  ASSUME NEW pl, NEW i, NEW a \in Parents(pl, i), a \notin Container,
         NEW c \in Around(pl, i)
  PROVE  a \in Parents(pl, c)
<1> DEFINE S == {d \in Around(pl, i) : a \in Parents(pl, d)}
<1>1. Around(pl, i) \in ClosedAbove(pl, i) BY AroundIsLeast
<1>2. ASSUME pl[i] \in Container PROVE pl[i] \in S
  BY <1>1, <1>2, ChainGoesOn DEF ClosedAbove
<1>3. ASSUME NEW d \in S, pl[d] \in Container PROVE pl[d] \in S
  <2>1. Parents(pl, d) = {pl[d]} \cup Parents(pl, pl[d])
    BY <1>3, ChainGoesOn
  <2> QED BY <1>1, <1>3, <2>1 DEF ClosedAbove
<1>4. S \in ClosedAbove(pl, i) BY <1>1, <1>2, <1>3 DEF ClosedAbove
<1> HIDE DEF S
<1>5. Around(pl, i) \subseteq S BY <1>4, AroundIsLeast
<1> QED BY <1>5 DEF S

(* A chain has one end.                                                    *)
LEMMA OneTop ==
  ASSUME NEW pl, NEW i,
         NEW a \in Parents(pl, i), a \notin Container,
         NEW b \in Parents(pl, i), b \notin Container
  PROVE  a = b
<1>1. CASE pl[i] \notin Container BY <1>1, ChainEnds
<1>2. CASE pl[i] \in Container
  <2>1. PICK c \in Around(pl, i) : a = pl[c] BY <1>2 DEF Parents
  <2>2. b \in Parents(pl, c) BY TopOfAll
  <2>3. Parents(pl, c) = {pl[c]} BY <2>1, ChainEnds
  <2> QED BY <2>1, <2>2, <2>3
<1> QED BY <1>1, <1>2

LEMMA MovedPlaces ==
  ASSUME NEW pl \in Places, NEW i \in Item, NEW to \in Cylinder
  PROVE  /\ Moved(pl, i, to) \in Places
         /\ Moved(pl, i, to)[i] = to
         /\ \A k \in Item \ {i} : Moved(pl, i, to)[k] = pl[k]
  BY DEF Moved, Places

(* What an item is in is a container.                                      *)
LEMMA ContainedInContainer ==
  ASSUME NEW pl \in Places, NEW i \in Item
  PROVE  /\ Parents(pl, i) \subseteq Cylinder
         /\ Parents(pl, i) \cap Item = Around(pl, i)
<1>1. Around(pl, i) \subseteq Item BY AroundIsLeast, TradeAssumption
<1>2. Parents(pl, i) \subseteq Cylinder BY <1>1 DEF Parents, Places
<1> QED
  BY <1>1, <1>2, ContainersAround, TradeAssumption DEF Cylinder

(* A move of what is not in the chain leaves the chain.                    *)
LEMMA ChainStays ==
  ASSUME NEW pl \in Places, NEW i \in Item, NEW to \in Cylinder,
         NEW j \in Item, j # i,
         ~Holds(pl, i, j) \/ ~Holds(Moved(pl, i, to), i, j)
  PROVE  Parents(Moved(pl, i, to), j) = Parents(pl, j)
<1> DEFINE ql == Moved(pl, i, to)
<1>1. \A k \in Item \ {i} : ql[k] = pl[k] BY DEF Moved, Places
<1>2. Container \subseteq Item BY TradeAssumption
<1> HIDE DEF ql
<1>3. ASSUME i \notin Around(pl, j) PROVE Around(ql, j) = Around(pl, j)
  <2>1. Around(pl, j) \in ClosedAbove(ql, j)
    BY <1>1, <1>2, <1>3, AroundIsLeast DEF ClosedAbove
  <2>2. Around(ql, j) \subseteq Around(pl, j) BY <2>1, AroundIsLeast
  <2>3. Around(ql, j) \in ClosedAbove(pl, j)
    BY <1>1, <1>2, <1>3, <2>2, AroundIsLeast DEF ClosedAbove
  <2> QED BY <2>2, <2>3, AroundIsLeast
<1>4. ASSUME i \notin Around(ql, j) PROVE Around(ql, j) = Around(pl, j)
  <2>1. Around(ql, j) \in ClosedAbove(pl, j)
    BY <1>1, <1>2, <1>4, AroundIsLeast DEF ClosedAbove
  <2>2. Around(pl, j) \subseteq Around(ql, j) BY <2>1, AroundIsLeast
  <2>3. Around(pl, j) \in ClosedAbove(ql, j)
    BY <1>1, <1>2, <1>4, <2>2, AroundIsLeast DEF ClosedAbove
  <2> QED BY <2>2, <2>3, AroundIsLeast
<1>5. i \notin Around(pl, j) \/ i \notin Around(ql, j)
  BY ContainersAround DEF Holds, ql
<1>6. Around(ql, j) = Around(pl, j) /\ i \notin Around(pl, j)
  BY <1>3, <1>4, <1>5
<1>7. {pl[c] : c \in Around(pl, j)} = {ql[c] : c \in Around(ql, j)}
  <2>1. Around(pl, j) \subseteq Item \ {i} BY <1>2, <1>6, AroundIsLeast
  <2> QED BY <1>1, <1>6, <2>1
<1> QED BY <1>1, <1>7 DEF Parents, ql

(* A container that a moved item was not in and is not in holds what it    *)
(* held.                                                                   *)
LEMMA ContentsStay ==
  ASSUME NEW pl \in Places, NEW i \in Item, NEW to \in Cylinder,
         NEW t \in Item, t # i,
         ~Holds(pl, t, i), ~Holds(Moved(pl, i, to), t, i),
         NEW j \in Item
  PROVE  Holds(Moved(pl, i, to), t, j) <=> Holds(pl, t, j)
<1> DEFINE ql == Moved(pl, i, to)
<1>1. \A k \in Item \ {i} : ql[k] = pl[k] BY DEF Moved, Places
<1>2. Container \subseteq Item BY TradeAssumption
<1>3. t \notin Around(pl, i) /\ t \notin Around(ql, i)
  BY ContainersAround DEF Holds, ql
<1>4. CASE j = i BY <1>4
<1>5. CASE j # i
  <2>1. (t \in Parents(pl, j) <=> t \in Around(pl, j))
        /\ (t \in Parents(ql, j) <=> t \in Around(ql, j))
    BY ContainedInContainer, ContainersAround, MovedPlaces, AroundIsLeast
    DEF Holds, ql
  <2> HIDE DEF ql
  <2>2. ASSUME t \in Around(pl, j) PROVE t \in Around(ql, j)
    <3>1. Around(ql, j) \cup Around(pl, i) \in ClosedAbove(pl, j)
      BY <1>1, <1>2, <1>5, AroundIsLeast DEF ClosedAbove
    <3> QED BY <1>3, <2>2, <3>1, AroundIsLeast
  <2>3. ASSUME t \in Around(ql, j) PROVE t \in Around(pl, j)
    <3>1. Around(pl, j) \cup Around(ql, i) \in ClosedAbove(ql, j)
      BY <1>1, <1>2, <1>5, AroundIsLeast DEF ClosedAbove
    <3> QED BY <1>3, <2>3, <3>1, AroundIsLeast
  <2>4. t \in Parents(ql, j) <=> t \in Parents(pl, j) BY <2>1, <2>2, <2>3
  <2> QED BY <2>4 DEF Holds, ql
<1> QED BY <1>4, <1>5

(* Whatever may hold an item can take it without holding itself.           *)
HoldsNoItself(pl) == \A i \in Item : ~Holds(pl, i, i)

LEMMA MoveMakesNoCircle ==
  ASSUME NEW pl \in Places, HoldsNoItself(pl),
         NEW i \in Item, NEW to \in Cylinder, MayHold(pl, to, i)
  PROVE  HoldsNoItself(Moved(pl, i, to))
<1> DEFINE ql == Moved(pl, i, to)
<1>1. ql \in Places /\ ql[i] = to BY MovedPlaces
<1>2. Container \subseteq Item BY TradeAssumption
<1>3. \A k \in Item : ~Holds(pl, i, k) \/ ~Holds(ql, i, k)
        => k = i \/ Parents(ql, k) = Parents(pl, k)
  BY ChainStays
<1> HIDE DEF ql
<1>4. i \notin Parents(ql, i)
  <2>1. CASE to \in Container
    <3>1. to # i /\ ~Holds(pl, i, to) BY <2>1 DEF MayHold
    <3>2. Parents(ql, to) = Parents(pl, to) BY <1>2, <1>3, <2>1, <3>1
    <3>3. Parents(ql, i) = {to} \cup Parents(ql, to)
      BY <1>1, <2>1, ChainGoesOn
    <3> QED BY <3>1, <3>2, <3>3 DEF Holds
  <2>2. CASE to \notin Container
    BY <1>1, <2>2, ChainEnds DEF MayHold
  <2> QED BY <2>1, <2>2
<1>5. ASSUME NEW j \in Item, j \in Parents(ql, j) PROVE FALSE
  <2>1. j # i BY <1>4, <1>5
  <2>2. i \in Parents(ql, j)
    BY <1>3, <1>5, <2>1 DEF HoldsNoItself, Holds
  <2>3. i \in Around(ql, j) /\ j \in Around(ql, j)
    BY <1>1, <1>5, <2>2, ContainedInContainer
  <2> DEFINE S == {c \in Around(ql, j) : j \in Parents(ql, c)}
  <2>4. Around(ql, j) \in ClosedAbove(ql, j) BY AroundIsLeast
  <2>5. ASSUME ql[j] \in Container PROVE ql[j] \in S
    <3>1. Parents(ql, j) = {ql[j]} \cup Parents(ql, ql[j])
      BY <2>5, ChainGoesOn
    <3> QED BY <1>5, <2>4, <2>5, <3>1 DEF ClosedAbove
  <2>6. ASSUME NEW c \in S, ql[c] \in Container PROVE ql[c] \in S
    <3>1. Parents(ql, c) = {ql[c]} \cup Parents(ql, ql[c])
      BY <2>6, ChainGoesOn
    <3> QED BY <1>5, <2>4, <2>6, <3>1 DEF ClosedAbove
  <2>7. S \in ClosedAbove(ql, j) BY <2>4, <2>5, <2>6 DEF ClosedAbove
  <2> HIDE DEF S
  <2>8. i \in S BY <2>3, <2>7, AroundIsLeast
  <2>9. j \in Around(ql, i) BY <1>1, <2>8, ContainedInContainer DEF S
  <2>10. Parents(ql, j) \subseteq Parents(ql, i) BY <2>9, ChainsJoin
  <2> QED BY <1>4, <2>2, <2>10
<1> QED BY <1>5 DEF HoldsNoItself, Holds, ql

-----------------------------------------------------------------------------
(* Room *)

Size(c) == IF c \in Player THEN PackSize ELSE ContainerSize
Contents(pl, c) == {i \in Item : pl[i] = c}
KeepsToSizes(pl) ==
  \A c \in Player \cup Container : Cardinality(Contents(pl, c)) <= Size(c)

LEMMA ContentsFinite ==
  ASSUME NEW pl, NEW c
  PROVE  /\ IsFiniteSet(Contents(pl, c))
         /\ Cardinality(Contents(pl, c)) \in Nat
<1>1. Contents(pl, c) \subseteq Item BY DEF Contents
<1> QED BY <1>1, TradeAssumption, FS_Subset, FS_CardinalityType

LEMMA RoomIs ==
  ASSUME NEW pl, NEW c \in Player \cup Container
  PROVE  HasRoom(pl, c) <=> Cardinality(Contents(pl, c)) < Size(c)
<1>1. Player \cap Container = {} BY TradeAssumption
<1>2. CASE c \in Player
  <2>1. c \notin Container BY <1>1, <1>2
  <2>2. HasRoom(pl, c) <=> Cardinality({i \in Item : pl[i] = c}) < PackSize
    BY <1>2, <2>1 DEF HasRoom
  <2> QED BY <1>2, <2>2 DEF Contents, Size
<1>3. CASE c \in Container
  <2>1. c \notin Player BY <1>1, <1>3
  <2>2. HasRoom(pl, c)
          <=> Cardinality({i \in Item : pl[i] = c}) < ContainerSize
    BY <1>3, <2>1 DEF HasRoom
  <2> QED BY <2>1, <2>2 DEF Contents, Size
<1> QED BY <1>2, <1>3

LEMMA MoveFits ==
  ASSUME NEW pl \in Places, KeepsToSizes(pl), NEW i \in Item,
         NEW to \in Cylinder, HasRoom(pl, to)
  PROVE  KeepsToSizes(Moved(pl, i, to))
<1> DEFINE ql == Moved(pl, i, to)
<1>1. ql[i] = to /\ \A k \in Item \ {i} : ql[k] = pl[k] BY MovedPlaces
<1> HIDE DEF ql
<1>2. ASSUME NEW c \in Player \cup Container
      PROVE  Cardinality(Contents(ql, c)) <= Size(c)
  <2>1. Size(c) \in Nat BY TradeAssumption DEF Size
  <2>2. Cardinality(Contents(pl, c)) <= Size(c) BY DEF KeepsToSizes
  <2>3. CASE c = to
    <3>1. Cardinality(Contents(pl, c)) < Size(c) BY <2>3, RoomIs
    <3>2. Contents(ql, c) \subseteq Contents(pl, c) \cup {i}
      BY <1>1 DEF Contents
    <3>3. Cardinality(Contents(ql, c))
            <= Cardinality(Contents(pl, c) \cup {i})
      BY <3>2, ContentsFinite, FS_AddElement, FS_Subset
    <3>4. Cardinality(Contents(pl, c) \cup {i})
            <= Cardinality(Contents(pl, c)) + 1
      <4>1. IsFiniteSet(Contents(pl, c)) BY ContentsFinite
      <4>2. Cardinality(Contents(pl, c) \cup {i}) =
              IF i \in Contents(pl, c) THEN Cardinality(Contents(pl, c))
                                      ELSE Cardinality(Contents(pl, c)) + 1
        BY <4>1, FS_AddElement
      <4> QED BY <4>2, ContentsFinite
    <3>5. Cardinality(Contents(pl, c) \cup {i}) \in Nat
      BY ContentsFinite, FS_AddElement, FS_CardinalityType
    <3> QED BY <2>1, <3>1, <3>3, <3>4, <3>5, ContentsFinite
  <2>4. CASE c # to
    <3>1. Contents(ql, c) \subseteq Contents(pl, c)
      BY <1>1, <2>4 DEF Contents
    <3>2. Cardinality(Contents(ql, c)) <= Cardinality(Contents(pl, c))
      BY <3>1, ContentsFinite, FS_Subset
    <3> QED BY <2>1, <2>2, <3>2, ContentsFinite
  <2> QED BY <2>3, <2>4
<1> QED BY <1>2 DEF KeepsToSizes, ql

(* Where something was taken from is room.                                 *)
LEMMA LeavesRoom ==
  ASSUME NEW pl \in Places, KeepsToSizes(pl), NEW i \in Item,
         NEW to \in Cylinder, pl[i] \in Player \cup Container, to # pl[i]
  PROVE  HasRoom(Moved(pl, i, to), pl[i])
<1> DEFINE ql == Moved(pl, i, to)
           c == pl[i]
<1>1. ql[i] = to /\ \A k \in Item \ {i} : ql[k] = pl[k] BY MovedPlaces
<1>2. Contents(ql, c) = Contents(pl, c) \ {i} /\ i \in Contents(pl, c)
  BY <1>1 DEF Contents
<1>3. Cardinality(Contents(ql, c)) = Cardinality(Contents(pl, c)) - 1
  <2>1. IsFiniteSet(Contents(pl, c)) BY ContentsFinite
  <2> HIDE DEF c, ql
  <2>2. Cardinality(Contents(pl, c) \ {i}) =
          IF i \in Contents(pl, c) THEN Cardinality(Contents(pl, c)) - 1
                                  ELSE Cardinality(Contents(pl, c))
    BY <2>1, FS_RemoveElement
  <2> QED BY <1>2, <2>2
<1>4. Cardinality(Contents(pl, c)) <= Size(c) /\ Size(c) \in Nat
  BY TradeAssumption DEF KeepsToSizes, Size
<1>5. Cardinality(Contents(ql, c)) < Size(c)
  BY <1>3, <1>4, ContentsFinite
<1> QED BY <1>5, RoomIs

(* Nothing fills what is not moved to.                                     *)
LEMMA RoomStays ==
  ASSUME NEW pl \in Places, NEW i \in Item, NEW to \in Cylinder,
         NEW c \in Player \cup Container, c # to, HasRoom(pl, c)
  PROVE  HasRoom(Moved(pl, i, to), c)
<1> DEFINE ql == Moved(pl, i, to)
<1>1. \A k \in Item \ {i} : ql[k] = pl[k] BY MovedPlaces
<1>2. Contents(ql, c) \subseteq Contents(pl, c)
  BY <1>1, MovedPlaces DEF Contents
<1>3. Cardinality(Contents(ql, c)) <= Cardinality(Contents(pl, c))
  BY <1>2, ContentsFinite, FS_Subset
<1>4. Size(c) \in Nat BY TradeAssumption DEF Size
<1>5. Cardinality(Contents(ql, c)) < Size(c)
  BY <1>3, <1>4, ContentsFinite, RoomIs
<1> QED BY <1>5, RoomIs

-----------------------------------------------------------------------------
(* Offers *)

(* What the requests rely on besides: whoever is asked for an offer in     *)
(* return has none out, no container is in itself, and none holds more     *)
(* than it has room for.                                                   *)
AskedOffersNothing ==
  \A p \in Player : tradeState[p] = "ACKNOWLEDGE" => tradeItem[p] = None

TradeInv ==
  /\ OffersAreSound
  /\ AskedOffersNothing
  /\ HoldsNoItself(place)
  /\ KeepsToSizes(place)

(* A move leaves where an offer is and what it holds, unless it disturbs   *)
(* the offer.                                                              *)
LEMMA MoveLeavesOffer ==
  ASSUME NEW pl \in Places, NEW i \in Item, NEW to \in Cylinder,
         NEW p \in Offering, p \notin RemovalDisturbs(pl, i),
         tradeItem[p] \in Item
  PROVE  LET t == tradeItem[p]
         IN  /\ t # i /\ ~Holds(pl, i, t) /\ ~Holds(pl, t, i)
             /\ Parents(Moved(pl, i, to), t) = Parents(pl, t)
             /\ Moved(pl, i, to)[t] = pl[t]
<1> DEFINE t == tradeItem[p]
<1>1. ~Touches(pl, i, t) /\ ~Holds(pl, i, t) BY DEF RemovalDisturbs
<1>2. t # i /\ ~Holds(pl, t, i) BY <1>1 DEF Touches
<1> QED BY <1>1, <1>2, ChainStays, MovedPlaces

(* internalCloseTrade closes both sides of each trade, and what is still   *)
(* offered is as it was, when nothing happened to the chains it is in.     *)
LEMMA ClosingKeeps ==
  ASSUME OffersAreSound, NEW ps \in SUBSET Player, CloseTrades(ps),
         \A p \in ps : tradePartner[p] # None,
         place' \in Places,
         position' \in [Player -> {"beside", "near", "away", "offline"}],
         \A p \in Offering \ ps :
           /\ Parents(place', tradeItem[p]) = Parents(place, tradeItem[p])
           /\ Holds(place, "ground", tradeItem[p]) /\ position[p] = "beside"
                => position'[p] = "beside"
  PROVE  /\ OffersAreSound'
         /\ AskedOffersNothing => AskedOffersNothing'
         /\ \A p \in Player :
              tradeItem'[p] # None => p \in Offering \ ps
                                      /\ tradeItem'[p] = tradeItem[p]
<1> USE DEF OffersAreSound
<1> DEFINE out == ps \cup {tradePartner[p] : p \in ps}
<1>1. /\ tradeState' = [p \in Player |->
                          IF p \in out THEN "NONE" ELSE tradeState[p]]
      /\ tradePartner' = [p \in Player |->
                            IF p \in out THEN None ELSE tradePartner[p]]
      /\ tradeItem' = [p \in Player |->
                         IF p \in out THEN None ELSE tradeItem[p]]
      /\ tradeItems' = tradeItems \ {tradeItem[p] : p \in out \cap Player}
  BY DEF CloseTrades
<1>2. ps \subseteq out OBVIOUS
<1>3. \A p \in out : p \in ps \/ \E q \in ps : tradePartner[q] = p
  OBVIOUS
<1>4. \A p \in ps : tradePartner[p] \in out OBVIOUS
<1> HIDE DEF out
<1>5. None \notin Player \cup Item BY TradeAssumption
<1>6. \A p \in Player : tradePartner[p] # None =>
        /\ tradePartner[p] \in Player /\ tradePartner[p] # p
        /\ tradePartner[tradePartner[p]] = p
  BY DEF PartnersAgree, TypeOK
<1>7. out \subseteq Player BY <1>3, <1>6
<1>8. \A p \in Player \ out : tradePartner[p] \notin out
  <2> SUFFICES ASSUME NEW p \in Player \ out, tradePartner[p] \in out
               PROVE  FALSE
    OBVIOUS
  <2>1. tradePartner[p] # None BY <1>5, <1>7
  <2>2. CASE tradePartner[p] \in ps BY <1>4, <1>6, <2>1, <2>2
  <2>3. CASE tradePartner[p] \notin ps
    <3>1. PICK q \in ps : tradePartner[q] = tradePartner[p] BY <1>3, <2>3
    <3>2. q = p BY <1>6, <2>1, <3>1
    <3> QED BY <1>2, <3>1, <3>2
  <2> QED BY <2>2, <2>3
<1>9. \A p \in Player :
        /\ p \in out => /\ tradeState'[p] = "NONE" /\ tradePartner'[p] = None
                        /\ tradeItem'[p] = None
        /\ p \notin out => /\ tradeState'[p] = tradeState[p]
                           /\ tradePartner'[p] = tradePartner[p]
                           /\ tradeItem'[p] = tradeItem[p]
  BY <1>1
<1>10. TypeOK'
  <2>1. /\ tradeState' \in
             [Player -> {"NONE", "INITIATED", "ACKNOWLEDGE", "ACCEPT"}]
        /\ tradePartner' \in [Player -> Player \cup {None}]
        /\ tradeItem' \in [Player -> Item \cup {None}]
        /\ tradeItems' \subseteq Item
    BY <1>1 DEF TypeOK
  <2> QED BY <2>1 DEF TypeOK, Places
<1>11. PartnersAgree'
  <2> SUFFICES ASSUME NEW p \in Player
               PROVE  LET q == tradePartner'[p]
                      IN  IF q = None
                          THEN tradeState'[p] = "NONE" /\ tradeItem'[p] = None
                          ELSE /\ q # p /\ tradePartner'[q] = p
                               /\ tradeState'[p] # "NONE"
                               /\ {tradeItem'[p], tradeItem'[q]} # {None}
                               /\ tradeState'[p] = "ACCEPT"
                                    => tradeState'[q] # "ACCEPT"
    BY DEF PartnersAgree
  <2>1. CASE p \in out BY <1>9, <2>1
  <2>2. CASE p \notin out /\ tradePartner[p] = None
    BY <1>9, <2>2 DEF PartnersAgree
  <2>3. CASE p \notin out /\ tradePartner[p] # None
    <3>1. tradePartner[p] \in Player \ out BY <1>6, <1>8, <2>3
    <3> QED BY <1>9, <2>3, <3>1 DEF PartnersAgree
  <2> QED BY <2>1, <2>2, <2>3
<1>12. \A p \in Player :
         tradeItem'[p] # None
           <=> p \in Offering \ out /\ tradeItem'[p] = tradeItem[p]
  BY <1>9 DEF Offering
<1>13. \A p \in Offering : tradeItem[p] \in Item BY DEF TypeOK, Offering
<1>14. OffersAreDisjoint'
  <2>1. Offering' = Offering \ out BY <1>9 DEF Offering
  <2>2. tradeItems' = {tradeItem'[p] : p \in Offering'}
    <3>1. \A p \in out, q \in Offering \ out :
            tradeItem[p] # None => tradeItem[p] # tradeItem[q]
      <4> SUFFICES ASSUME NEW p \in out, NEW q \in Offering \ out,
                          tradeItem[p] # None
                   PROVE  tradeItem[p] # tradeItem[q]
        OBVIOUS
      <4>1. p \in Offering BY <1>7 DEF Offering
      <4> QED BY <4>1 DEF OffersAreDisjoint, Touches
    <3>2. \A q \in Offering : tradeItem[q] # None BY DEF Offering
    <3>3. {tradeItem[p] : p \in out \cap Player}
            \cap {tradeItem[q] : q \in Offering \ out} = {}
      BY <3>1, <3>2
    <3>4. tradeItems = {tradeItem[p] : p \in Offering}
      BY DEF OffersAreDisjoint
    <3>5. \A p \in Offering \cap out :
            tradeItem[p] \in {tradeItem[q] : q \in out \cap Player}
      BY <1>7
    <3>6. \A p \in Offering' : tradeItem'[p] = tradeItem[p]
      BY <1>12, <2>1 DEF Offering
    <3>7. {tradeItem'[p] : p \in Offering'}
            = {tradeItem[p] : p \in Offering \ out}
      BY <2>1, <3>6
    <3>8. tradeItems \ {tradeItem[p] : p \in out \cap Player}
            = {tradeItem[p] : p \in Offering \ out}
      BY <3>3, <3>4, <3>5
    <3> QED BY <1>1, <3>7, <3>8
  <2>3. ASSUME NEW p \in Offering', NEW q \in Offering', p # q
        PROVE  ~Touches(place', tradeItem'[p], tradeItem'[q])
    <3>1. /\ p \in Offering \ ps /\ q \in Offering
          /\ tradeItem'[p] = tradeItem[p] /\ tradeItem'[q] = tradeItem[q]
      BY <1>2, <1>12, <2>1 DEF Offering
    <3>2. ~Touches(place, tradeItem[p], tradeItem[q])
      BY <2>3, <3>1 DEF OffersAreDisjoint
    <3> QED BY <3>1, <3>2 DEF Touches, Holds
  <2> QED BY <2>2, <2>3 DEF OffersAreDisjoint
<1>15. OffersAreInReach'
  <2> SUFFICES ASSUME NEW p \in Offering'
               PROVE  InReach(p, tradeItem[p])'
    BY DEF OffersAreInReach
  <2>1. p \in Offering \ ps /\ tradeItem'[p] = tradeItem[p]
    BY <1>2, <1>12 DEF Offering
  <2>2. InReach(p, tradeItem[p]) BY <2>1 DEF OffersAreInReach
  <2> QED BY <2>1, <2>2 DEF InReach, Holds
<1>16. AskedOffersNothing => AskedOffersNothing'
  BY <1>9 DEF AskedOffersNothing
<1> QED BY <1>2, <1>10, <1>11, <1>12, <1>14, <1>15, <1>16

LEMMA OffersHavePartners ==
  ASSUME OffersAreSound, NEW p \in Offering
  PROVE  /\ tradeItem[p] \in Item /\ tradePartner[p] # None
         /\ tradePartner[p] \in Player
  BY DEF OffersAreSound, TypeOK, PartnersAgree, Offering

(* One move that closes the trades it disturbs.                            *)
LEMMA MoveKeepsOffers ==
  ASSUME OffersAreSound, NEW i \in Item, NEW to \in Cylinder,
         NEW ps \in SUBSET Offering, RemovalDisturbs(place, i) \subseteq ps,
         place' = Moved(place, i, to), UNCHANGED position, CloseTrades(ps)
  PROVE  OffersAreSound' /\ (AskedOffersNothing => AskedOffersNothing')
<1>1. place \in Places /\ place' \in Places
  BY MovedPlaces DEF OffersAreSound, TypeOK, Places
<1>2. \A p \in ps : tradePartner[p] # None BY OffersHavePartners
<1>3. ps \in SUBSET Player BY DEF Offering
<1>4. \A p \in Offering \ ps :
        Parents(place', tradeItem[p]) = Parents(place, tradeItem[p])
  BY <1>1, OffersHavePartners, MoveLeavesOffer
<1>5. position' \in [Player -> {"beside", "near", "away", "offline"}]
  BY DEF OffersAreSound, TypeOK
<1> QED BY <1>1, <1>2, <1>3, <1>4, <1>5, ClosingKeeps

LEMMA DisturbedOffer ==
  ASSUME NEW pl, NEW i, NEW to
  PROVE  /\ RemovalDisturbs(pl, i) \subseteq Offering
         /\ MoveDisturbs(pl, i, to) \subseteq Offering
         /\ RemovalDisturbs(pl, i) \subseteq MoveDisturbs(pl, i, to)
  BY DEF RemovalDisturbs, AdditionDisturbs, MoveDisturbs

(* Items leave the game or go where they may.                              *)
LEMMA ItemStepsKeep ==
  ASSUME TradeInv, NEW i \in Item
  PROVE  /\ \A p \in Player, to \in Cylinder \ {"gone"} :
              MoveItem(p, i, to) => TradeInv'
         /\ \A p \in Player, j \in Item : StackOnto(p, i, j) => TradeInv'
         /\ RemoveItem(i) => TradeInv'
<1> USE DEF TradeInv
<1>1. place \in Places BY DEF OffersAreSound, TypeOK, Places
<1>2. ASSUME NEW p \in Player, NEW to \in Cylinder, MoveItem(p, i, to)
      PROVE  TradeInv'
  <2>1. /\ MayHold(place, to, i) /\ HasRoom(place, to)
        /\ place' = Moved(place, i, to) /\ UNCHANGED position
        /\ CloseTrades(MoveDisturbs(place, i, to))
    BY <1>2 DEF MoveItem
  <2>2. OffersAreSound' /\ AskedOffersNothing'
    BY <2>1, DisturbedOffer, MoveKeepsOffers
  <2>3. HoldsNoItself(place') BY <1>1, <2>1, MoveMakesNoCircle
  <2>4. KeepsToSizes(place') BY <1>1, <2>1, MoveFits
  <2> QED BY <2>2, <2>3, <2>4
<1>3. /\ "gone" \in Cylinder
      /\ MayHold(place, "gone", i) /\ HasRoom(place, "gone")
  BY TradeAssumption DEF Cylinder, MayHold, HasRoom
<1>4. ASSUME place' = Moved(place, i, "gone")
      PROVE  HoldsNoItself(place') /\ KeepsToSizes(place')
  BY <1>1, <1>3, <1>4, MoveMakesNoCircle, MoveFits
<1>5. ASSUME NEW p \in Player, NEW j \in Item, StackOnto(p, i, j)
      PROVE  TradeInv'
  <2> DEFINE ps == RemovalDisturbs(place, i)
                     \cup {q \in Offering : Touches(place, j, tradeItem[q])}
  <2>1. /\ place' = Moved(place, i, "gone") /\ UNCHANGED position
        /\ CloseTrades(ps)
    BY <1>5 DEF StackOnto
  <2>2. ps \in SUBSET Offering /\ RemovalDisturbs(place, i) \subseteq ps
    BY DisturbedOffer
  <2> HIDE DEF ps
  <2>3. OffersAreSound' /\ AskedOffersNothing'
    BY <1>3, <2>1, <2>2, MoveKeepsOffers
  <2> QED BY <1>4, <2>1, <2>3
<1>6. ASSUME RemoveItem(i) PROVE TradeInv'
  <2>1. /\ place' = Moved(place, i, "gone") /\ UNCHANGED position
        /\ CloseTrades(RemovalDisturbs(place, i))
    BY <1>6 DEF RemoveItem
  <2>2. OffersAreSound' /\ AskedOffersNothing'
    BY <1>3, <2>1, DisturbedOffer, MoveKeepsOffers
  <2> QED BY <1>4, <2>1, <2>2
<1> QED BY <1>2, <1>5, <1>6

(* A player who goes too far, leaves or gives up closes its trade.         *)
LEMMA PlayerStepsKeep ==
  ASSUME TradeInv, NEW p \in Player
  PROVE  /\ \A to \in {"beside", "near", "away"} : Walk(p, to) => TradeInv'
         /\ Leave(p) => TradeInv'
         /\ playerCloseTrade(p) => TradeInv'
<1> USE DEF TradeInv
<1>1. place \in Places BY DEF OffersAreSound, TypeOK, Places
<1>2. position \in [Player -> {"beside", "near", "away", "offline"}]
  BY DEF OffersAreSound, TypeOK
<1>3. ASSUME tradePartner[p] = None PROVE tradeItem[p] = None
  BY <1>3 DEF OffersAreSound, PartnersAgree
<1>4. ASSUME UNCHANGED place
      PROVE  HoldsNoItself(place)' /\ KeepsToSizes(place)'
  BY <1>4
<1>5. ASSUME NEW to \in {"beside", "near", "away"}, Walk(p, to)
      PROVE  TradeInv'
  <2> DEFINE far == \/ /\ tradeItem[p] # None
                       /\ Holds(place, "ground", tradeItem[p])
                       /\ to # "beside"
                    \/ tradePartner[p] # None /\ to = "away"
  <2>1. /\ position' = [position EXCEPT ![p] = to] /\ UNCHANGED place
        /\ CloseTrades(IF far THEN {p} ELSE {})
    BY <1>5 DEF Walk
  <2>2. \A q \in IF far THEN {p} ELSE {} : tradePartner[q] # None BY <1>3
  <2>3. ASSUME NEW q \in Offering \ IF far THEN {p} ELSE {},
               Holds(place, "ground", tradeItem[q]), position[q] = "beside"
        PROVE  position'[q] = "beside"
    BY <1>2, <2>1, <2>3 DEF Offering
  <2>4. position' \in [Player -> {"beside", "near", "away", "offline"}]
    BY <1>2, <2>1
  <2> HIDE DEF far
  <2>5. OffersAreSound' /\ AskedOffersNothing'
    BY <1>1, <2>1, <2>2, <2>3, <2>4, ClosingKeeps
  <2> QED BY <1>4, <2>1, <2>5
<1>6. ASSUME Leave(p) PROVE TradeInv'
  <2> DEFINE ps == IF tradePartner[p] # None THEN {p} ELSE {}
  <2>1. /\ position' = [position EXCEPT ![p] = "offline"] /\ UNCHANGED place
        /\ CloseTrades(ps)
    BY <1>6 DEF Leave
  <2>2. \A q \in Offering \ ps : position'[q] = position[q]
    BY <1>2, <1>3, <2>1 DEF Offering
  <2>3. position' \in [Player -> {"beside", "near", "away", "offline"}]
    BY <1>2, <2>1
  <2>4. OffersAreSound' /\ AskedOffersNothing'
    BY <1>1, <2>1, <2>2, <2>3, ClosingKeeps
  <2> QED BY <1>4, <2>1, <2>4
<1>7. ASSUME playerCloseTrade(p) PROVE TradeInv'
  <2>1. tradePartner[p] # None /\ UNCHANGED <<place, position>>
        /\ CloseTrades({p})
    BY <1>7 DEF playerCloseTrade
  <2>2. OffersAreSound' /\ AskedOffersNothing'
    BY <1>1, <1>2, <2>1, ClosingKeeps
  <2> QED BY <1>4, <2>1, <2>2
<1> QED BY <1>5, <1>6, <1>7

(* What is offered is in no other offer, and only who has none offers.     *)
LEMMA RequestKeeps ==
  ASSUME TradeInv, NEW p \in Player, NEW q \in Player, NEW i \in Item,
         playerRequestTrade(p, q, i)
  PROVE  TradeInv'
<1> USE DEF TradeInv, OffersAreSound
<1>1. /\ p # q /\ InReach(p, i) /\ ~AlreadyTraded(i)
      /\ UNCHANGED <<place, position>>
      /\ \/ tradeState[p] = "NONE"
         \/ tradeState[p] = "ACKNOWLEDGE" /\ tradePartner[p] = q
      /\ tradeState[q] = "NONE" \/ tradePartner[q] = p
  BY DEF playerRequestTrade, internalStartTrade
<1>2. /\ tradeState' = [tradeState EXCEPT
                          ![p] = "INITIATED",
                          ![q] = IF @ = "NONE" THEN "ACKNOWLEDGE" ELSE @]
      /\ tradePartner' = [tradePartner EXCEPT
                            ![p] = q,
                            ![q] = IF tradeState[q] = "NONE" THEN p ELSE @]
      /\ tradeItem' = [tradeItem EXCEPT ![p] = i]
      /\ tradeItems' = tradeItems \cup {i}
  BY DEF playerRequestTrade, internalStartTrade
<1>3. None \notin Player \cup Item BY TradeAssumption
<1>4. tradeItem[p] = None
  BY <1>1, <1>3 DEF PartnersAgree, AskedOffersNothing
<1>5. /\ tradePartner'[p] = q /\ tradePartner'[q] = p
      /\ tradeState'[p] = "INITIATED" /\ tradeState'[q] # "NONE"
      /\ tradeItem'[p] = i
      /\ \A r \in Player \ {p} : tradeItem'[r] = tradeItem[r]
      /\ \A r \in Player \ {p, q} : /\ tradeState'[r] = tradeState[r]
                                    /\ tradePartner'[r] = tradePartner[r]
  BY <1>1, <1>2 DEF TypeOK
<1>6. TypeOK' BY <1>1, <1>2 DEF TypeOK
<1>7. PartnersAgree'
  <2>1. ASSUME NEW r \in Player \ {p, q}, tradePartner[r] # None
        PROVE  tradePartner[r] \in Player \ {p, q}
    <3>1. /\ tradePartner[r] \in Player
          /\ tradePartner[tradePartner[r]] = r
      BY <2>1 DEF PartnersAgree, TypeOK
    <3>2. tradePartner[p] \in {None, q} /\ tradePartner[q] \in {None, p}
      BY <1>1 DEF PartnersAgree
    <3> QED BY <1>3, <3>1, <3>2
  <2> SUFFICES ASSUME NEW r \in Player
               PROVE  LET s == tradePartner'[r]
                      IN  IF s = None
                          THEN tradeState'[r] = "NONE" /\ tradeItem'[r] = None
                          ELSE /\ s # r /\ tradePartner'[s] = r
                               /\ tradeState'[r] # "NONE"
                               /\ {tradeItem'[r], tradeItem'[s]} # {None}
                               /\ tradeState'[r] = "ACCEPT"
                                    => tradeState'[s] # "ACCEPT"
    BY DEF PartnersAgree
  <2>2. CASE r \in {p, q} BY <1>1, <1>3, <1>5, <2>2
  <2>3. CASE r \notin {p, q} BY <1>5, <2>1, <2>3 DEF PartnersAgree
  <2> QED BY <2>2, <2>3
<1>8. Offering' = Offering \cup {p} /\ p \notin Offering
  BY <1>3, <1>4, <1>5 DEF Offering
<1>9. OffersAreDisjoint'
  <2>1. tradeItems = {tradeItem[r] : r \in Offering}
    BY DEF OffersAreDisjoint
  <2>2. \A r \in Offering : tradeItem'[r] = tradeItem[r]
    BY <1>5, <1>8 DEF Offering
  <2>3. tradeItems' = {tradeItem'[r] : r \in Offering'}
    BY <1>2, <1>5, <1>8, <2>1, <2>2
  <2>4. \A r \in Offering : /\ ~Touches(place, tradeItem[r], i)
                            /\ ~Touches(place, i, tradeItem[r])
    BY <1>1, <2>1 DEF AlreadyTraded, Touches
  <2>5. ASSUME NEW r \in Offering', NEW s \in Offering', r # s
        PROVE  ~Touches(place', tradeItem'[r], tradeItem'[s])
    BY <1>1, <1>5, <1>8, <2>2, <2>4, <2>5 DEF OffersAreDisjoint
  <2> QED BY <2>3, <2>5 DEF OffersAreDisjoint
<1>10. OffersAreInReach'
  <2>1. \A r \in Offering : InReach(r, tradeItem[r])
    BY DEF OffersAreInReach
  <2>2. \A r \in Offering' : InReach(r, tradeItem'[r])
    BY <1>1, <1>5, <1>8, <2>1 DEF Offering
  <2> QED BY <1>1, <2>2 DEF OffersAreInReach, InReach
<1>11. AskedOffersNothing'
  <2>1. ASSUME tradeState[q] = "NONE" PROVE tradeItem[q] = None
    BY <2>1 DEF PartnersAgree
  <2>2. tradeState'[q] = "ACKNOWLEDGE" => tradeItem[q] = None
    BY <1>1, <1>2, <2>1 DEF AskedOffersNothing, TypeOK
  <2> QED BY <1>1, <1>5, <2>2 DEF AskedOffersNothing
<1>12. HoldsNoItself(place)' /\ KeepsToSizes(place)' BY <1>1
<1> QED BY <1>6, <1>7, <1>9, <1>10, <1>11, <1>12

LEMMA DestinationsMayHold ==
  ASSUME NEW pl, NEW p \in Player, NEW i \in Item, NEW auto \in BOOLEAN,
         NEW d \in Destinations(pl, p, i, auto)
  PROVE  /\ d \in Cylinder /\ MayHold(pl, d, i) /\ HasRoom(pl, d)
         /\ \/ d = p
            \/ d \in Container /\ Holds(pl, p, d)
<1>1. p # i /\ p \notin Container BY TradeAssumption
<1> QED BY <1>1 DEF Destinations, MayHold, Cylinder

(* The exchange is one move or two, and closes what either disturbs.       *)
LEMMA ExchangeMoves ==
  ASSUME TradeInv, NEW p \in Player, NEW q \in Player, Exchange(p, q)
  PROVE  LET x == tradeItem[p]
             y == tradeItem[q]
         IN  /\ x \in Item /\ y \in Item
             /\ Fits(q, x) /\ Fits(p, y)
             /\ \E d1 \in Destinations(place, q, x, FALSE) :
                  LET pl == Moved(place, x, d1)
                      d2s == Destinations(pl, p, y, FALSE)
                  IN  /\ d1 \in Container => ~Touches(place, d1, y)
                      /\ \/ /\ d2s = {} /\ place' = pl
                            /\ CloseTrades({p} \cup MoveDisturbs(place, x, d1))
                         \/ \E d2 \in d2s :
                              /\ place' = Moved(pl, y, d2)
                              /\ CloseTrades({p}
                                   \cup MoveDisturbs(place, x, d1)
                                   \cup MoveDisturbs(pl, y, d2))
  BY DEF Exchange, TradeInv, OffersAreSound, TypeOK

LEMMA ExchangeKeeps ==
  ASSUME TradeInv, NEW p \in Player, tradePartner[p] # None,
         Exchange(p, tradePartner[p]), UNCHANGED position
  PROVE  TradeInv'
<1> USE DEF TradeInv
<1> DEFINE q == tradePartner[p]
           x == tradeItem[p]
           y == tradeItem[q]
<1>1. q \in Player BY DEF OffersAreSound, TypeOK
<1>2. x \in Item /\ y \in Item BY <1>1, ExchangeMoves
<1>3. PICK d1 \in Destinations(place, q, x, FALSE) :
        LET pl == Moved(place, x, d1)
            d2s == Destinations(pl, p, y, FALSE)
        IN  \/ /\ place' = pl
               /\ CloseTrades({p} \cup MoveDisturbs(place, x, d1))
            \/ \E d2 \in d2s :
                 /\ place' = Moved(pl, y, d2)
                 /\ CloseTrades({p} \cup MoveDisturbs(place, x, d1)
                                  \cup MoveDisturbs(pl, y, d2))
  BY <1>1, ExchangeMoves
<1> DEFINE pl == Moved(place, x, d1)
<1>4. d1 \in Cylinder /\ MayHold(place, d1, x) /\ HasRoom(place, d1)
  BY <1>1, <1>2, DestinationsMayHold
<1>5. place \in Places BY DEF OffersAreSound, TypeOK, Places
<1>6. pl \in Places BY <1>2, <1>4, <1>5, MovedPlaces
<1>7. HoldsNoItself(pl) BY <1>2, <1>4, <1>5, MoveMakesNoCircle
<1>8. KeepsToSizes(pl) BY <1>2, <1>4, <1>5, MoveFits
<1>9. /\ position' \in [Player -> {"beside", "near", "away", "offline"}]
      /\ \A r \in Player : position'[r] = position[r]
  BY DEF OffersAreSound, TypeOK
<1>10. \A r \in Offering \ MoveDisturbs(place, x, d1) :
         Parents(pl, tradeItem[r]) = Parents(place, tradeItem[r])
  BY <1>2, <1>4, <1>5, MoveLeavesOffer, OffersHavePartners, DisturbedOffer
<1>11. \A r \in Offering : tradePartner[r] # None /\ r \in Player
  BY OffersHavePartners DEF Offering
<1> HIDE DEF pl, q, x, y
<1>12. CASE /\ place' = pl
            /\ CloseTrades({p} \cup MoveDisturbs(place, x, d1))
  <2> DEFINE ps == {p} \cup MoveDisturbs(place, x, d1)
  <2>1. ps \in SUBSET Player /\ \A r \in ps : tradePartner[r] # None
    BY <1>11, DisturbedOffer
  <2>2. OffersAreSound' /\ AskedOffersNothing'
    BY <1>6, <1>9, <1>10, <1>12, <2>1, ClosingKeeps
  <2> QED BY <1>7, <1>8, <1>12, <2>2
<1>13. ASSUME NEW d2 \in Destinations(pl, p, y, FALSE),
              place' = Moved(pl, y, d2),
              CloseTrades({p} \cup MoveDisturbs(place, x, d1)
                            \cup MoveDisturbs(pl, y, d2))
       PROVE  TradeInv'
  <2> DEFINE ps == {p} \cup MoveDisturbs(place, x, d1)
                     \cup MoveDisturbs(pl, y, d2)
  <2>1. ps \in SUBSET Player /\ \A r \in ps : tradePartner[r] # None
    BY <1>11, DisturbedOffer
  <2>2. d2 \in Cylinder /\ MayHold(pl, d2, y) /\ HasRoom(pl, d2)
    BY <1>2, DestinationsMayHold
  <2>3. place' \in Places BY <1>2, <1>6, <1>13, <2>2, MovedPlaces
  <2>4. HoldsNoItself(place')
    BY <1>2, <1>6, <1>7, <1>13, <2>2, MoveMakesNoCircle
  <2>5. KeepsToSizes(place') BY <1>2, <1>6, <1>8, <1>13, <2>2, MoveFits
  <2>6. \A r \in Offering \ ps :
          Parents(place', tradeItem[r]) = Parents(place, tradeItem[r])
    <3> SUFFICES ASSUME NEW r \in Offering \ ps
                 PROVE  Parents(place', tradeItem[r])
                          = Parents(place, tradeItem[r])
      OBVIOUS
    <3>1. tradeItem[r] \in Item /\ r \in Offering BY OffersHavePartners
    <3>2. r \notin RemovalDisturbs(pl, y) BY DisturbedOffer
    <3>3. Parents(Moved(pl, y, d2), tradeItem[r])
            = Parents(pl, tradeItem[r])
      BY <1>2, <1>6, <2>2, <3>1, <3>2, MoveLeavesOffer
    <3> QED BY <1>10, <1>13, <3>3
  <2> HIDE DEF ps
  <2>7. CloseTrades(ps) BY <1>13 DEF ps
  <2>8. OffersAreSound' /\ AskedOffersNothing'
    BY <1>9, <2>1, <2>3, <2>6, <2>7, ClosingKeeps
  <2> QED BY <2>4, <2>5, <2>8
<1> QED BY <1>3, <1>12, <1>13 DEF pl, q, x, y

LEMMA AcceptKeeps ==
  ASSUME TradeInv, NEW p \in Player, playerAcceptTrade(p)
  PROVE  TradeInv'
<1> USE DEF TradeInv
<1> DEFINE q == tradePartner[p]
<1>1. /\ tradeState[p] \in {"ACKNOWLEDGE", "INITIATED"}
      /\ UNCHANGED position
  BY DEF playerAcceptTrade
<1>2. q # None /\ q \in Player /\ q # p /\ tradePartner[q] = p
  <2>1. q # None BY <1>1 DEF OffersAreSound, PartnersAgree
  <2> QED BY <2>1 DEF OffersAreSound, PartnersAgree, TypeOK
<1>3. place \in Places /\ position
        \in [Player -> {"beside", "near", "away", "offline"}]
  BY DEF OffersAreSound, TypeOK, Places
<1>4. ASSUME tradeState[q] # "ACCEPT",
             tradeState' = [tradeState EXCEPT ![p] = "ACCEPT"],
             UNCHANGED <<place, tradePartner, tradeItem, tradeItems>>
      PROVE  TradeInv'
  <2>1. TypeOK' BY <1>1, <1>4 DEF OffersAreSound, TypeOK
  <2>2. /\ tradeState'[p] = "ACCEPT" /\ tradeState'[q] # "ACCEPT"
        /\ \A r \in Player \ {p} : tradeState'[r] = tradeState[r]
    BY <1>2, <1>4 DEF OffersAreSound, TypeOK
  <2>3. PartnersAgree'
    <3> SUFFICES ASSUME NEW r \in Player
                 PROVE  LET s == tradePartner[r]
                        IN  IF s = None
                            THEN tradeState'[r] = "NONE" /\ tradeItem[r] = None
                            ELSE /\ s # r /\ tradePartner[s] = r
                                 /\ tradeState'[r] # "NONE"
                                 /\ {tradeItem[r], tradeItem[s]} # {None}
                                 /\ tradeState'[r] = "ACCEPT"
                                      => tradeState'[s] # "ACCEPT"
      BY <1>4 DEF PartnersAgree
    <3>1. tradePartner[r] # None
            => tradePartner[r] \in Player /\ tradePartner[tradePartner[r]] = r
      BY DEF OffersAreSound, PartnersAgree, TypeOK
    <3>2. CASE r = p
      BY <1>2, <2>2, <3>2 DEF OffersAreSound, PartnersAgree
    <3>3. CASE r # p
      BY <1>2, <2>2, <3>1, <3>3 DEF OffersAreSound, PartnersAgree
    <3> QED BY <3>2, <3>3
  <2>4. OffersAreDisjoint' /\ OffersAreInReach'
    BY <1>1, <1>4 DEF OffersAreSound, OffersAreDisjoint, OffersAreInReach,
                      Offering, InReach
  <2>5. AskedOffersNothing' BY <1>4, <2>2 DEF AskedOffersNothing
  <2>6. HoldsNoItself(place)' /\ KeepsToSizes(place)' BY <1>4
  <2> QED BY <2>1, <2>3, <2>4, <2>5, <2>6 DEF OffersAreSound
<1>5. ASSUME CloseTrades({p}), UNCHANGED place PROVE TradeInv'
  <2>1. OffersAreSound' /\ AskedOffersNothing'
    BY <1>1, <1>2, <1>3, <1>5, ClosingKeeps
  <2> QED BY <1>5, <2>1
<1>6. ASSUME Exchange(p, q) PROVE TradeInv'
  BY <1>1, <1>2, <1>6, ExchangeKeeps
<1> QED BY <1>4, <1>5, <1>6 DEF playerAcceptTrade

LEMMA TradeKeeps == TradeInv /\ [Next]_vars => TradeInv'
<1> SUFFICES ASSUME TradeInv, [Next]_vars PROVE TradeInv' OBVIOUS
<1>1. CASE UNCHANGED vars
  BY <1>1 DEF vars, trades, TradeInv, OffersAreSound, TypeOK, PartnersAgree,
              OffersAreDisjoint, OffersAreInReach, Offering, InReach,
              AskedOffersNothing
<1>2. CASE Next
  BY <1>2, ItemStepsKeep, PlayerStepsKeep, RequestKeeps, AcceptKeeps DEF Next
<1> QED BY <1>1, <1>2

LEMMA TradeBegins == Init => TradeInv
<1> SUFFICES ASSUME Init PROVE TradeInv OBVIOUS
<1> USE DEF Init
<1>1. TypeOK BY DEF TypeOK, Cylinder
<1>2. Offering = {} BY DEF Offering
<1>3. PartnersAgree BY DEF PartnersAgree
<1>4. OffersAreDisjoint /\ OffersAreInReach /\ AskedOffersNothing
  BY <1>2 DEF OffersAreDisjoint, OffersAreInReach, AskedOffersNothing
<1>5. "ground" \notin Container /\ "ground" \notin Item
  BY TradeAssumption
<1>6. HoldsNoItself(place)
  <2>1. \A i \in Item : Parents(place, i) = {"ground"} BY <1>5, ChainEnds
  <2> QED BY <1>5, <2>1 DEF HoldsNoItself, Holds
<1>7. KeepsToSizes(place)
  <2>1. \A c \in Player \cup Container : c # "ground" BY TradeAssumption
  <2>2. \A c \in Player \cup Container : Contents(place, c) = {}
    BY <2>1 DEF Contents
  <2> QED BY <2>2, FS_EmptySet, TradeAssumption DEF KeepsToSizes, Size
<1> QED BY <1>1, <1>3, <1>4, <1>6, <1>7 DEF TradeInv, OffersAreSound

(* The two sides of a trade know each other, no item is part of two offers *)
(* and an offer is within its owner's reach, however containers are nested *)
(* and whoever moves what (internalCloseTrade, playerRequestTrade, the     *)
(* item hooks).                                                            *)
THEOREM OffersAreSoundHold == Spec => []OffersAreSound
<1>1. TradeInv => OffersAreSound BY DEF TradeInv
<1> QED BY <1>1, TradeBegins, TradeKeeps, PTL DEF Spec

-----------------------------------------------------------------------------
(* What changes hands *)

(* A move leaves what an offer holds, unless it disturbs the offer.        *)
LEMMA MoveLeavesContents ==
  ASSUME NEW pl \in Places, NEW i \in Item, NEW to \in Cylinder,
         NEW p \in Offering, tradeItem[p] \in Item,
         p \notin RemovalDisturbs(pl, i),
         to \in Container => p \notin AdditionDisturbs(Moved(pl, i, to), i)
  PROVE  LET t == tradeItem[p]
         IN  /\ Moved(pl, i, to)[t] = pl[t]
             /\ \A j \in Item :
                  Holds(Moved(pl, i, to), t, j) <=> Holds(pl, t, j)
<1> DEFINE t == tradeItem[p]
           ql == Moved(pl, i, to)
<1>1. ql \in Places /\ ql[i] = to BY MovedPlaces
<1>2. t # i /\ ~Holds(pl, t, i) /\ ql[t] = pl[t] BY MoveLeavesOffer
<1> HIDE DEF ql
<1>3. ~Holds(ql, t, i)
  <2>1. CASE to \in Container
    <3>1. p \notin AdditionDisturbs(ql, i) BY <2>1 DEF ql
    <3> QED BY <1>1, <2>1, <3>1 DEF AdditionDisturbs, Touches
  <2>2. CASE to \notin Container
    <3>1. Parents(ql, i) = {to} BY <1>1, <2>2, ChainEnds
    <3>2. to \notin Item BY <2>2, TradeAssumption DEF Cylinder
    <3> QED BY <3>1, <3>2 DEF Holds
  <2> QED BY <2>1, <2>2
<1>4. \A j \in Item : Holds(ql, t, j) <=> Holds(pl, t, j)
  BY <1>2, <1>3, ContentsStay DEF ql
<1> QED BY <1>2, <1>4 DEF ql

(* Whose trade is closed offers nothing any more.                          *)
LEMMA ClosedOffersNothing ==
  ASSUME NEW ps, CloseTrades(ps), NEW p \in Player, tradeItem'[p] # None
  PROVE  p \notin ps
  BY DEF CloseTrades

SameOffer(p, pl, ql) ==
  LET t == tradeItem[p]
  IN  /\ ql[t] = pl[t]
      /\ \A i \in Item : Holds(ql, t, i) <=> Holds(pl, t, i)

LEMMA OfferStays ==
  ASSUME TradeInv, [Next]_vars, NEW p \in Offering,
         tradeItem'[p] = tradeItem[p]
  PROVE  SameOffer(p, place, place')
<1>1. place \in Places BY DEF TradeInv, OffersAreSound, TypeOK, Places
<1>2. p \in Player /\ tradeItem[p] \in Item /\ tradeItem'[p] # None
  BY OffersHavePartners DEF TradeInv, Offering
<1>3. ASSUME NEW pl \in Places, NEW i \in Item, NEW to \in Cylinder,
             p \notin MoveDisturbs(pl, i, to)
      PROVE  SameOffer(p, pl, Moved(pl, i, to))
  BY <1>2, <1>3, MoveLeavesContents DEF MoveDisturbs, SameOffer
<1>4. ASSUME NEW q \in Player, NEW i \in Item, NEW to \in Cylinder,
             MoveItem(q, i, to)
      PROVE  SameOffer(p, place, place')
  <2>1. place' = Moved(place, i, to) /\ CloseTrades(MoveDisturbs(place, i, to))
    BY <1>4 DEF MoveItem
  <2>2. p \notin MoveDisturbs(place, i, to)
    BY <1>2, <2>1, ClosedOffersNothing
  <2> QED BY <1>1, <1>3, <2>1, <2>2
<1>5. ASSUME NEW i \in Item, NEW ps, place' = Moved(place, i, "gone"),
             RemovalDisturbs(place, i) \subseteq ps, CloseTrades(ps)
      PROVE  SameOffer(p, place, place')
  <2>1. "gone" \in Cylinder /\ "gone" \notin Container
    BY TradeAssumption DEF Cylinder
  <2>2. p \notin RemovalDisturbs(place, i)
    BY <1>2, <1>5, ClosedOffersNothing
  <2> QED BY <1>1, <1>2, <1>5, <2>1, <2>2, MoveLeavesContents DEF SameOffer
<1>6. ASSUME NEW q \in Player, NEW i \in Item, NEW j \in Item,
             StackOnto(q, i, j)
      PROVE  SameOffer(p, place, place')
  BY <1>5, <1>6 DEF StackOnto
<1>7. ASSUME NEW i \in Item, RemoveItem(i)
      PROVE  SameOffer(p, place, place')
  BY <1>5, <1>7 DEF RemoveItem
<1>8. ASSUME UNCHANGED place PROVE SameOffer(p, place, place')
  BY <1>8 DEF SameOffer, Holds
<1>9. ASSUME NEW r \in Player, playerAcceptTrade(r),
             Exchange(r, tradePartner[r])
      PROVE  SameOffer(p, place, place')
  <2> DEFINE q == tradePartner[r]
             x == tradeItem[r]
             y == tradeItem[q]
  <2>1. q \in Player
    BY <1>9 DEF playerAcceptTrade, TradeInv, OffersAreSound, PartnersAgree,
                TypeOK
  <2>2. x \in Item /\ y \in Item BY <1>9, <2>1, ExchangeMoves
  <2>3. PICK d1 \in Destinations(place, q, x, FALSE) :
          LET pl == Moved(place, x, d1)
              d2s == Destinations(pl, r, y, FALSE)
          IN  \/ /\ place' = pl
                 /\ CloseTrades({r} \cup MoveDisturbs(place, x, d1))
              \/ \E d2 \in d2s :
                   /\ place' = Moved(pl, y, d2)
                   /\ CloseTrades({r} \cup MoveDisturbs(place, x, d1)
                                    \cup MoveDisturbs(pl, y, d2))
    BY <1>9, <2>1, ExchangeMoves
  <2> DEFINE pl == Moved(place, x, d1)
  <2>4. d1 \in Cylinder BY <2>1, <2>2, DestinationsMayHold
  <2>5. pl \in Places BY <1>1, <2>2, <2>4, MovedPlaces
  <2> HIDE DEF q, x, y, pl
  <2>6. CASE /\ place' = pl
             /\ CloseTrades({r} \cup MoveDisturbs(place, x, d1))
    <3>1. p \notin MoveDisturbs(place, x, d1)
      BY <1>2, <2>6, ClosedOffersNothing
    <3> QED BY <1>1, <1>3, <2>2, <2>4, <2>6, <3>1 DEF pl
  <2>7. ASSUME NEW d2 \in Destinations(pl, r, y, FALSE),
               place' = Moved(pl, y, d2),
               CloseTrades({r} \cup MoveDisturbs(place, x, d1)
                             \cup MoveDisturbs(pl, y, d2))
        PROVE  SameOffer(p, place, place')
    <3>1. /\ p \notin MoveDisturbs(place, x, d1)
          /\ p \notin MoveDisturbs(pl, y, d2)
      BY <1>2, <2>7, ClosedOffersNothing
    <3>2. d2 \in Cylinder BY <2>2, DestinationsMayHold
    <3>3. SameOffer(p, place, pl) BY <1>1, <1>3, <2>2, <2>4, <3>1 DEF pl
    <3>4. SameOffer(p, pl, place')
      BY <1>3, <2>2, <2>5, <2>7, <3>1, <3>2
    <3> QED BY <3>3, <3>4 DEF SameOffer
  <2> QED BY <2>3, <2>6, <2>7 DEF q, x, y, pl
<1>10. ASSUME NEW r \in Player, playerAcceptTrade(r)
       PROVE  SameOffer(p, place, place')
  BY <1>8, <1>9, <1>10 DEF playerAcceptTrade
<1>11. ASSUME NEW r \in Player, NEW q \in Player, NEW i \in Item,
              playerRequestTrade(r, q, i)
       PROVE  SameOffer(p, place, place')
  BY <1>8, <1>11 DEF playerRequestTrade
<1>12. ASSUME NEW r \in Player,
              \/ \E to \in {"beside", "near", "away"} : Walk(r, to)
              \/ Leave(r) \/ playerCloseTrade(r)
       PROVE  SameOffer(p, place, place')
  BY <1>8, <1>12 DEF Walk, Leave, playerCloseTrade
<1>13. CASE UNCHANGED vars BY <1>8, <1>13 DEF vars
<1>14. CASE Next
  BY <1>4, <1>6, <1>7, <1>10, <1>11, <1>12, <1>14 DEF Next
<1> QED BY <1>13, <1>14

(* What is moved to a destination is held by the player it is for.         *)
LEMMA DestinationHolds ==
  ASSUME NEW pl \in Places, NEW p \in Player, NEW i \in Item,
         NEW auto \in BOOLEAN, NEW d \in Destinations(pl, p, i, auto)
  PROVE  /\ Holds(Moved(pl, i, d), p, i)
         /\ \A k : ~Touches(pl, d, k) /\ k # p => ~Holds(Moved(pl, i, d), k, i)
<1> DEFINE ql == Moved(pl, i, d)
<1>1. /\ d \in Cylinder /\ MayHold(pl, d, i)
      /\ \/ d = p
         \/ d \in Container /\ Holds(pl, p, d)
  BY DestinationsMayHold
<1>2. ql[i] = d BY <1>1, MovedPlaces
<1>3. CASE d \notin Container
  <2>1. Parents(ql, i) = {d} /\ d = p BY <1>1, <1>2, <1>3, ChainEnds
  <2> QED BY <2>1 DEF Holds
<1>4. CASE d \in Container
  <2>1. d \in Item BY <1>4, TradeAssumption
  <2>2. Parents(ql, i) = {d} \cup Parents(ql, d)
    BY <1>2, <1>4, ChainGoesOn
  <2>3. Parents(ql, d) = Parents(pl, d)
    BY <1>1, <1>4, <2>1, ChainStays DEF MayHold
  <2>4. Holds(pl, p, d) BY <1>1, <1>4, TradeAssumption
  <2> QED BY <2>2, <2>3, <2>4 DEF Holds, Touches
<1> QED BY <1>3, <1>4

(* The item that is moved first reaches its new owner and stays there.     *)
LEMMA FirstArrives ==
  ASSUME TradeInv, NEW q \in Player, NEW p \in Player, p # q,
         Exchange(q, p)
  PROVE  Holds(place', p, tradeItem[q])
<1> DEFINE y == tradeItem[q]
           x == tradeItem[p]
<1>1. place \in Places BY DEF TradeInv, OffersAreSound, TypeOK, Places
<1>2. x \in Item /\ y \in Item BY ExchangeMoves
<1>3. PICK d1 \in Destinations(place, p, y, FALSE) :
        LET pl == Moved(place, y, d1)
        IN  /\ d1 \in Container => ~Touches(place, d1, x)
            /\ \/ place' = pl
               \/ \E d2 \in Destinations(pl, q, x, FALSE) :
                    place' = Moved(pl, x, d2)
  BY DEF Exchange
<1> DEFINE pl == Moved(place, y, d1)
<1>4. Holds(pl, p, y) BY <1>1, <1>2, DestinationHolds
<1>5. ~Holds(pl, x, y)
  <2>1. x # p BY <1>2, TradeAssumption
  <2>2. CASE d1 \in Container BY <1>1, <1>2, <1>3, <2>1, <2>2, DestinationHolds
  <2>3. CASE d1 \notin Container
    <3>1. d1 = p /\ d1 \in Cylinder
      BY <1>2, <2>3, DestinationsMayHold
    <3>2. pl[y] = d1 BY <1>1, <1>2, <3>1, MovedPlaces
    <3>3. Parents(pl, y) = {p} BY <2>3, <3>1, <3>2, ChainEnds
    <3> QED BY <2>1, <3>3 DEF Holds
  <2> QED BY <2>2, <2>3
<1>6. pl \in Places BY <1>1, <1>2, DestinationsMayHold, MovedPlaces
<1>7. x # y
  <2>1. p \in Offering /\ q \in Offering
    BY <1>2, TradeAssumption DEF Offering
  <2> QED
    BY <2>1 DEF TradeInv, OffersAreSound, OffersAreDisjoint, Touches
<1>8. ASSUME NEW d2 \in Destinations(pl, q, x, FALSE),
             place' = Moved(pl, x, d2)
      PROVE  Holds(place', p, y)
  <2> HIDE DEF pl, x, y
  <2>1. d2 \in Cylinder BY <1>2, DestinationsMayHold
  <2>2. Parents(place', y) = Parents(pl, y)
    BY <1>2, <1>5, <1>6, <1>7, <1>8, <2>1, ChainStays
  <2> QED BY <1>4, <2>2 DEF Holds
<1> QED BY <1>3, <1>4, <1>8

(* Whoever has room for an item, or a container that has, still does when  *)
(* it has given its own away.                                              *)
LEMMA RoomForReturn ==
  ASSUME TradeInv, NEW p \in Player, NEW q \in Player, p # q,
         p \in Offering, q \in Offering,
         NEW d1 \in Destinations(place, q, tradeItem[p], FALSE),
         tradeItem[q] \notin Stack, Fits(p, tradeItem[q])
  PROVE  Destinations(Moved(place, tradeItem[p], d1), p, tradeItem[q], FALSE)
           # {}
<1> DEFINE x == tradeItem[p]
           y == tradeItem[q]
           pl == Moved(place, x, d1)
<1>1. place \in Places BY DEF TradeInv, OffersAreSound, TypeOK, Places
<1>2. x \in Item /\ y \in Item
  BY OffersHavePartners DEF TradeInv
<1>3. KeepsToSizes(place) /\ HoldsNoItself(place) BY DEF TradeInv
<1>4. ~Touches(place, x, y) /\ ~Touches(place, y, x)
  BY DEF TradeInv, OffersAreSound, OffersAreDisjoint
<1>5. Player \cap Container = {} BY TradeAssumption
<1>6. /\ d1 \in Cylinder
      /\ \/ d1 = q
         \/ d1 \in Container /\ Holds(place, q, d1)
  BY <1>2, DestinationsMayHold
<1>7. Destinations(place, p, y, TRUE) # {} BY DEF Fits
<1>8. d1 # p BY <1>5, <1>6
<1>9. \A c \in Container : Holds(place, p, c) => c # d1
  BY <1>5, <1>6, OneTop DEF Holds
<1> HIDE DEF x, y
<1>10. ASSUME HasRoom(pl, p) PROVE p \in Destinations(pl, p, y, FALSE)
  BY <1>10 DEF Destinations
<1>11. CASE HasRoom(place, p) \/ place[x] = p
  <2>1. HasRoom(pl, p)
    BY <1>1, <1>2, <1>3, <1>6, <1>8, <1>11, RoomStays, LeavesRoom
  <2> QED BY <1>10, <2>1 DEF x, y
<1>12. CASE ~HasRoom(place, p) /\ place[x] # p
  <2>1. PICK c \in Container :
          /\ Holds(place, p, c) /\ HasRoom(place, c) /\ MayHold(place, c, y)
    BY <1>7, <1>12 DEF Destinations
  <2>2. pl[x] # p BY <1>1, <1>2, <1>6, <1>8, MovedPlaces
  <2>3. ASSUME NEW b \in Container, Holds(pl, p, b), HasRoom(pl, b),
               MayHold(pl, b, y)
        PROVE  Destinations(pl, p, y, FALSE) # {}
    <3>1. CASE HasRoom(pl, p) BY <1>10, <3>1
    <3>2. CASE ~HasRoom(pl, p)
      <4> HIDE DEF pl
      <4>1. b \in Destinations(pl, p, y, FALSE)
        BY <2>2, <2>3, <3>2 DEF Destinations, x
      <4> QED BY <4>1
    <3> QED BY <3>1, <3>2
  <2>4. ASSUME NEW b \in Container, b # x, ~Holds(place, x, b)
        PROVE  Parents(pl, b) = Parents(place, b)
    <3>1. b \in Item BY TradeAssumption
    <3> QED BY <1>1, <1>2, <1>6, <2>4, <3>1, ChainStays
  <2>5. CASE ~Touches(place, c, x)
    <3>1. Parents(pl, c) = Parents(place, c) BY <2>4, <2>5 DEF Touches
    <3>2. HasRoom(pl, c) BY <1>1, <1>2, <1>6, <1>9, <2>1, RoomStays
    <3> QED BY <2>1, <2>3, <3>1, <3>2 DEF Holds, MayHold, x, y, pl
  <2>6. CASE Touches(place, c, x)
    <3> DEFINE b == place[x]
    <3>1. p \in Parents(place, x)
      <4>1. CASE c = x BY <2>1, <4>1 DEF Holds
      <4>2. CASE c # x
        <5>1. x \in Parents(place, c) BY <2>6, <4>2 DEF Touches, Holds
        <5>2. x \in Around(place, c)
          BY <1>1, <1>2, <5>1, ContainedInContainer, TradeAssumption
        <5> QED BY <1>5, <2>1, <5>2, TopOfAll DEF Holds
      <4> QED BY <4>1, <4>2
    <3>2. b \in Container BY <1>12, <3>1, ChainEnds
    <3>3. Parents(place, x) = {b} \cup Parents(place, b)
      BY <3>2, ChainGoesOn
    <3>4. Holds(place, p, b) BY <1>12, <3>1, <3>3 DEF Holds
    <3>5. b # x /\ ~Holds(place, x, b)
      BY <1>2, <1>3, <3>3 DEF HoldsNoItself, Holds
    <3>6. Parents(pl, b) = Parents(place, b) BY <2>4, <3>2, <3>5
    <3>7. b # d1 BY <1>9, <3>2, <3>4
    <3>8. HasRoom(pl, b)
      BY <1>1, <1>2, <1>3, <1>6, <3>2, <3>7, LeavesRoom
    <3>9. b # y /\ ~Holds(place, y, b)
      BY <1>4, <3>3 DEF Touches, Holds
    <3>10. Holds(pl, p, b) /\ MayHold(pl, b, y)
      BY <3>4, <3>6, <3>9 DEF Holds, MayHold
    <3> HIDE DEF b
    <3> QED BY <2>3, <3>2, <3>8, <3>10 DEF x, y, pl
  <2> QED BY <2>5, <2>6
<1> QED BY <1>11, <1>12

(* The item that is moved second arrives, unless it is a stack.            *)
LEMMA SecondArrives ==
  ASSUME TradeInv, NEW p \in Player, NEW q \in Player, p # q,
         Exchange(p, q), tradeItem[q] \notin Stack
  PROVE  Holds(place', p, tradeItem[q])
<1> DEFINE x == tradeItem[p]
           y == tradeItem[q]
<1>1. place \in Places BY DEF TradeInv, OffersAreSound, TypeOK, Places
<1>2. x \in Item /\ y \in Item /\ Fits(p, y) BY ExchangeMoves
<1>3. PICK d1 \in Destinations(place, q, x, FALSE) :
        LET pl == Moved(place, x, d1)
            d2s == Destinations(pl, p, y, FALSE)
        IN  \/ d2s = {}
            \/ \E d2 \in d2s : place' = Moved(pl, y, d2)
  BY DEF Exchange
<1> DEFINE pl == Moved(place, x, d1)
<1>4. p \in Offering /\ q \in Offering
  BY <1>2, TradeAssumption DEF Offering
<1>5. Destinations(pl, p, y, FALSE) # {} BY <1>2, <1>4, RoomForReturn
<1>6. pl \in Places BY <1>1, <1>2, DestinationsMayHold, MovedPlaces
<1>7. PICK d2 \in Destinations(pl, p, y, FALSE) : place' = Moved(pl, y, d2)
  BY <1>3, <1>5
<1> HIDE DEF pl
<1> QED BY <1>2, <1>6, <1>7, DestinationHolds

LEMMA BothChangeHands ==
  ASSUME TradeInv, NEW p \in Offering,
         \/ playerAcceptTrade(p)
         \/ playerAcceptTrade(tradePartner[p]),
         Holds(place', tradePartner[p], tradeItem[p]),
         ~Holds(place, tradePartner[p], tradeItem[p]),
         tradeItem[tradePartner[p]] \notin Stack
  PROVE  Holds(place', p, tradeItem[tradePartner[p]])
<1> DEFINE q == tradePartner[p]
<1>1. p \in Player /\ q \in Player /\ q # p /\ tradePartner[q] = p
  <2>1. p \in Player /\ q # None
    BY OffersHavePartners DEF TradeInv, Offering
  <2> QED
    BY <2>1 DEF TradeInv, OffersAreSound, PartnersAgree, TypeOK
<1>2. place' # place BY DEF Holds
<1>3. Exchange(p, q) \/ Exchange(q, p)
  BY <1>1, <1>2 DEF playerAcceptTrade
<1> QED BY <1>1, <1>3, FirstArrives, SecondArrives

(* The partner gets what it was shown and where it was shown, and both     *)
(* items change hands or none does, but for stacks (checkTradeState,       *)
(* playerAcceptTrade), for every nesting of containers and every room.     *)
THEOREM TradeIsFairHolds == Spec => TradeIsFair
<1> DEFINE Unchanged ==
      \A p \in Offering :
        tradeItem'[p] = tradeItem[p] =>
          LET t == tradeItem[p]
          IN  /\ place'[t] = place[t]
              /\ \A i \in Item : Holds(place', t, i) <=> Holds(place, t, i)
    Exchanged ==
      \A p \in Offering :
        LET q == tradePartner[p]
        IN  (/\ playerAcceptTrade(p) \/ playerAcceptTrade(q)
             /\ Holds(place', q, tradeItem[p])
             /\ ~Holds(place, q, tradeItem[p]))
            => (\/ Holds(place', p, tradeItem[q])
                \/ tradeItem[q] \in Stack)
<1>1. TradeInv /\ [Next]_vars => Unchanged
  BY OfferStays DEF SameOffer
<1>2. TradeInv => Exchanged BY BothChangeHands
<1>3. OfferDoesNotChange <=> [][Unchanged]_vars BY DEF OfferDoesNotChange
<1>4. HalfTradeOnlyForStacks <=> [][Exchanged]_vars
  BY DEF HalfTradeOnlyForStacks
<1> HIDE DEF Unchanged, Exchanged
<1> QED
  BY <1>1, <1>2, <1>3, <1>4, TradeBegins, TradeKeeps, PTL
  DEF Spec, TradeIsFair
-----------------------------------------------------------------------------
(* The creatures a client is told of (KnownCreatures) *)

(* A client reads what it is told from the first to the last.              *)
Reading(after, set, told) ==
  after = [n \in 0 .. Len(told) |->
             IF n = 0 THEN [set |-> set, ok |-> TRUE]
             ELSE Told(after[n - 1], told[n])]

LEMMA ReadIs ==
  ASSUME NEW set, NEW told
  PROVE  Read(set, told) =
           (CHOOSE after : Reading(after, set, told))[Len(told)]
BY DEF Read, Reading

LEMMA ReadingExists ==
  ASSUME NEW S, NEW set, NEW told \in Seq(S)
  PROVE  Reading(CHOOSE after : Reading(after, set, told), set, told)
<1> DEFINE step(after, n) ==
             [i \in 0 .. n |->
                IF i = 0 THEN [set |-> set, ok |-> TRUE]
                ELSE Told(after[i - 1], told[i])]
           N == {n \in Nat : \E after : after = step(after, n)}
<1>1. 0 \in N
  <2> DEFINE f == [i \in 0 .. 0 |-> [set |-> set, ok |-> TRUE]]
  <2>1. f = step(f, 0) OBVIOUS
  <2> QED BY <2>1
<1>2. ASSUME NEW n \in N PROVE n + 1 \in N
  <2>1. PICK f : f = step(f, n) BY <1>2
  <2> DEFINE g == step(f, n + 1)
  <2>2. n \in Nat BY <1>2
  <2>3. ASSUME NEW i \in 0 .. n PROVE g[i] = f[i]
    <3>1. f[i] = IF i = 0 THEN [set |-> set, ok |-> TRUE]
                 ELSE Told(f[i - 1], told[i])
      BY <2>1, Zenon
    <3>2. i \in 0 .. n + 1 BY <2>2
    <3> QED BY <3>1, <3>2, Zenon
  <2>4. \A i \in 0 .. n + 1 : i # 0 => i - 1 \in 0 .. n BY <2>2
  <2>5. g = step(g, n + 1) BY <2>3, <2>4
  <2>6. \E h : h = step(h, n + 1)
    <3> HIDE DEF g, step
    <3> QED BY <2>5
  <2>7. n + 1 \in Nat BY <2>2
  <2> HIDE DEF step
  <2> QED BY <2>6, <2>7, Zenon
<1>3. N = Nat
  <2>1. N \in SUBSET Nat OBVIOUS
  <2> HIDE DEF N
  <2> QED BY <1>1, <1>2, <2>1, NatSetInduction
<1>4. Len(told) \in N BY <1>3
<1>5. PICK f : f = step(f, Len(told)) BY <1>4
<1>6. Reading(f, set, told) BY <1>5 DEF Reading
<1> QED BY <1>6

LEMMA ReadNothing ==
  ASSUME NEW set PROVE Read(set, <<>>) = [set |-> set, ok |-> TRUE]
<1> DEFINE f == CHOOSE after : Reading(after, set, <<>>)
<1>1. Reading(f, set, <<>>) BY ReadingExists, <<>> \in Seq({})
<1>2. Read(set, <<>>) = f[0] BY ReadIs
<1> HIDE DEF f
<1> QED BY <1>1, <1>2 DEF Reading

(* What comes last is read last.                                           *)
LEMMA ReadAppend ==
  ASSUME NEW S, NEW set, NEW told \in Seq(S), NEW d \in S
  PROVE  Read(set, Append(told, d)) = Told(Read(set, told), d)
<1> DEFINE more == Append(told, d)
           f == CHOOSE after : Reading(after, set, told)
           g == CHOOSE after : Reading(after, set, more)
           n == Len(told)
           N == {i \in Nat : i <= n => g[i] = f[i]}
<1>1. more \in Seq(S) /\ Len(more) = n + 1 /\ more[n + 1] = d
      /\ \A i \in 1 .. n : more[i] = told[i]
  OBVIOUS
<1>2. Reading(f, set, told) /\ Reading(g, set, more)
  BY <1>1, ReadingExists
<1>3. Read(set, told) = f[n] /\ Read(set, more) = g[n + 1]
  BY <1>1, ReadIs
<1>4. n \in Nat OBVIOUS
<1> HIDE DEF more, f, g, n
<1>5. \A i \in 0 .. n :
        f[i] = IF i = 0 THEN [set |-> set, ok |-> TRUE]
               ELSE Told(f[i - 1], told[i])
  BY <1>2, Zenon DEF Reading, n
<1>6. \A i \in 0 .. n + 1 :
        g[i] = IF i = 0 THEN [set |-> set, ok |-> TRUE]
               ELSE Told(g[i - 1], more[i])
  BY <1>1, <1>2, Zenon DEF Reading
<1>7. 0 \in N
  <2>1. 0 \in 0 .. n /\ 0 \in 0 .. n + 1 BY <1>4
  <2>2. f[0] = g[0] BY <1>5, <1>6, <2>1, Zenon
  <2> QED BY <2>2
<1>8. ASSUME NEW i \in N PROVE i + 1 \in N
  <2> SUFFICES ASSUME i + 1 <= n PROVE g[i + 1] = f[i + 1]
    BY <1>8
  <2>1. i \in Nat /\ i + 1 # 0 /\ (i + 1) - 1 = i /\ i + 1 \in 1 .. n
       /\ i + 1 \in 0 .. n /\ i + 1 \in 0 .. n + 1
    BY <1>4, <1>8
  <2>2. f[i + 1] = Told(f[i], told[i + 1]) BY <1>5, <2>1, Zenon
  <2>3. g[i + 1] = Told(g[i], more[i + 1]) BY <1>6, <2>1, Zenon
  <2>4. g[i] = f[i] BY <1>4, <1>8, <2>1
  <2> QED BY <1>1, <2>1, <2>2, <2>3, <2>4
<1>9. N = Nat
  <2>1. N \in SUBSET Nat OBVIOUS
  <2> HIDE DEF N
  <2> QED BY <1>7, <1>8, <2>1, NatSetInduction
<1>10. n \in N BY <1>4, <1>9
<1>11. g[n] = f[n] BY <1>4, <1>10
<1>12. n + 1 # 0 /\ (n + 1) - 1 = n /\ n + 1 \in 0 .. n + 1 BY <1>4
<1>13. g[n + 1] = Told(g[n], more[n + 1]) BY <1>6, <1>12, Zenon
<1> QED BY <1>1, <1>3, <1>11, <1>13 DEF more

LEMMA ReadOne ==
  ASSUME NEW set, NEW d
  PROVE  Read(set, <<d>>) = Told([set |-> set, ok |-> TRUE], d)
<1>1. ASSUME NEW told \in Seq({d})
      PROVE  Read(set, Append(told, d)) = Told(Read(set, told), d)
  <2>1. d \in {d} OBVIOUS
  <2> QED BY <2>1, ReadAppend
<1>2. PICK told \in Seq({d}) : told = <<>> /\ Append(told, d) = <<d>>
  <2>1. <<>> \in Seq({d}) OBVIOUS
  <2>2. Append(<<>>, d) = <<d>> OBVIOUS
  <2> QED BY <2>1, <2>2, Zenon
<1>3. Read(set, <<d>>) = Told(Read(set, told), d) BY <1>1, <1>2
<1>4. Read(set, told) = [set |-> set, ok |-> TRUE] BY <1>2, ReadNothing
<1> QED BY <1>3, <1>4, Zenon

(* Of creatures it knows a client learns nothing, and is not baffled.      *)
LEMMA ReadKnown ==
  ASSUME NEW S, NEW set, NEW told \in Seq(S),
         \A i \in 1 .. Len(told) :
           told[i].forget = {} /\ told[i].creature \in set
  PROVE  Read(set, told) = [set |-> set, ok |-> TRUE]
<1> DEFINE f == CHOOSE after : Reading(after, set, told)
           n == Len(told)
           all == [set |-> set, ok |-> TRUE]
           N == {i \in Nat : i <= n => f[i] = all}
<1>1. Reading(f, set, told) BY ReadingExists
<1>2. Read(set, told) = f[n] BY ReadIs
<1>3. n \in Nat OBVIOUS
<1> HIDE DEF f
<1>4. f = [i \in 0 .. n |-> IF i = 0 THEN all ELSE Told(f[i - 1], told[i])]
  BY <1>1 DEF Reading
<1>5. 0 \in N BY <1>3, <1>4
<1>6. ASSUME NEW i \in N PROVE i + 1 \in N
  <2> SUFFICES ASSUME i + 1 <= n PROVE f[i + 1] = all
    BY <1>6
  <2>1. i \in Nat /\ i + 1 # 0 /\ (i + 1) - 1 = i /\ i + 1 \in 1 .. n
    BY <1>3, <1>6
  <2>2. f[i + 1] = Told(f[i], told[i + 1])
    <3> HIDE DEF n, all
    <3> QED BY <1>3, <1>4, <2>1
  <2>3. f[i] = all BY <1>3, <1>6, <2>1
  <2>4. told[i + 1].forget = {} /\ told[i + 1].creature \in set BY <2>1
  <2>5. Told(all, told[i + 1]) = all
    <3>1. (set \ {}) \cup {told[i + 1].creature} = set BY <2>4
    <3> QED BY <2>4, <3>1 DEF Told
  <2> QED BY <2>2, <2>3, <2>5
<1>7. N = Nat
  <2>1. N \in SUBSET Nat OBVIOUS
  <2> HIDE DEF N
  <2> QED BY <1>5, <1>6, <2>1, NatSetInduction
<1>8. n \in N BY <1>3, <1>7
<1>9. f[n] = all BY <1>3, <1>8
<1> QED BY <1>2, <1>9
Description == [creature : Creature, known : BOOLEAN, forget : SUBSET Creature]
Knowing == [set : SUBSET Creature, ok : BOOLEAN]

LEMMA ToldType ==
  ASSUME NEW r \in Knowing, NEW d \in Description
  PROVE  Told(r, d) \in Knowing
<1>1. r.ok \in BOOLEAN /\ r.set \in SUBSET Creature /\ d.creature \in Creature
  BY DEF Knowing, Description
<1>2. ((r.set \ d.forget) \cup {d.creature}) \in SUBSET Creature BY <1>1
<1>3. (r.ok /\ d.creature \in r.set) \in BOOLEAN OBVIOUS
<1>4. r = [set |-> r.set, ok |-> r.ok] BY DEF Knowing
<1>5. CASE d.known
  <2>1. Told(r, d) = [r EXCEPT !.ok = r.ok /\ d.creature \in r.set]
    BY <1>5 DEF Told
  <2> QED BY <1>3, <2>1 DEF Knowing
<1>6. CASE ~d.known
  <2>1. Told(r, d) =
          [r EXCEPT !.set = (r.set \ d.forget) \cup {d.creature}]
    BY <1>6 DEF Told
  <2> QED BY <1>2, <2>1 DEF Knowing
<1> QED BY <1>5, <1>6

LEMMA ReadType ==
  ASSUME NEW set \in SUBSET Creature, NEW told \in Seq(Description)
  PROVE  Read(set, told) \in Knowing
<1> DEFINE f == CHOOSE after : Reading(after, set, told)
           n == Len(told)
           N == {i \in Nat : i <= n => f[i] \in Knowing}
<1>1. Reading(f, set, told) BY ReadingExists
<1>2. Read(set, told) = f[n] BY ReadIs
<1>3. n \in Nat /\ \A i \in 1 .. n : told[i] \in Description OBVIOUS
<1> HIDE DEF f, n
<1>4. \A i \in 0 .. n :
        f[i] = IF i = 0 THEN [set |-> set, ok |-> TRUE]
               ELSE Told(f[i - 1], told[i])
  BY <1>1, Zenon DEF Reading, n
<1>5. 0 \in N
  <2>1. 0 \in 0 .. n BY <1>3
  <2>2. f[0] = [set |-> set, ok |-> TRUE] BY <1>4, <2>1, Zenon
  <2>3. [set |-> set, ok |-> TRUE] \in Knowing BY DEF Knowing
  <2> QED BY <2>2, <2>3
<1>6. ASSUME NEW i \in N PROVE i + 1 \in N
  <2> SUFFICES ASSUME i + 1 <= n PROVE f[i + 1] \in Knowing
    BY <1>6
  <2>1. i \in Nat /\ i + 1 # 0 /\ (i + 1) - 1 = i /\ i + 1 \in 1 .. n
       /\ i + 1 \in 0 .. n
    BY <1>3, <1>6
  <2>2. f[i + 1] = Told(f[i], told[i + 1]) BY <1>4, <2>1, Zenon
  <2>3. f[i] \in Knowing BY <1>3, <1>6, <2>1
  <2> QED BY <1>3, <2>1, <2>2, <2>3, ToldType
<1>7. N = Nat
  <2>1. N \in SUBSET Nat OBVIOUS
  <2> HIDE DEF N
  <2> QED BY <1>5, <1>6, <2>1, NatSetInduction
<1>8. n \in N BY <1>3, <1>7
<1> QED BY <1>2, <1>3, <1>8

(* A creature is named that the set has, and any other described: a client *)
(* that knows the set follows, and then knows the set that is left.        *)
LEMMA CheckedCreature ==
  ASSUME NEW sight, NEW set \in SUBSET Creature, NEW c \in Creature,
         NEW e \in checkCreatureAsKnown(sight, set, c)
  PROVE  /\ e[1] \in SUBSET Creature /\ e[2] \in Description
         /\ e[2].forget = {} => e[1] = set \cup {c} /\ e[2].creature = c
         /\ \A r \in Knowing : r.ok /\ set \subseteq r.set =>
              Told(r, e[2]).ok /\ e[1] \subseteq Told(r, e[2]).set
<1>1. CASE c \in set
  <2>1. e[1] = set /\ e[2] = Named(c)
    BY <1>1 DEF checkCreatureAsKnown
  <2>2. e[2].known = TRUE /\ e[2].creature = c /\ e[2].forget = {}
    BY <2>1 DEF Named
  <2>3. e[2] \in Description BY <2>1 DEF Named, Description
  <2>4. ASSUME NEW r \in Knowing, r.ok, set \subseteq r.set
        PROVE  Told(r, e[2]).ok /\ e[1] \subseteq Told(r, e[2]).set
    <3>1. Told(r, e[2]) = [r EXCEPT !.ok = r.ok /\ c \in r.set]
      BY <2>2 DEF Told
    <3>2. (r.ok /\ c \in r.set) = TRUE BY <1>1, <2>4
    <3>3. Told(r, e[2]) = [r EXCEPT !.ok = TRUE] BY <3>1, <3>2
    <3> QED BY <2>1, <2>4, <3>3 DEF Knowing
  <2> QED BY <1>1, <2>1, <2>2, <2>3, <2>4
<1>2. CASE c \notin set
  <2>1. \E gone \in SUBSET Creature :
          /\ e[1] = (set \cup {c}) \ gone
          /\ e[2] = Described(c, gone)
    <3>1. CASE Cardinality(set) < Limit
      <4>1. e = <<set \cup {c}, Described(c, {})>>
        BY <1>2, <3>1 DEF checkCreatureAsKnown
      <4> QED BY <4>1
    <3>2. CASE ~(Cardinality(set) < Limit)
      <4>1. \E r \in set \cup {c} :
              e = <<(set \cup {c}) \ {r}, Described(c, {r})>>
        BY <1>2, <3>2 DEF checkCreatureAsKnown
      <4> QED BY <4>1
    <3> QED BY <3>1, <3>2
  <2>2. PICK gone \in SUBSET Creature :
          /\ e[1] = (set \cup {c}) \ gone
          /\ e[2] = Described(c, gone)
    BY <2>1
  <2>3. e[2].known = FALSE /\ e[2].creature = c /\ e[2].forget = gone
    BY <2>2 DEF Described
  <2>4. e[2] \in Description BY <2>2 DEF Described, Description
  <2>5. ASSUME NEW r \in Knowing, r.ok, set \subseteq r.set
        PROVE  Told(r, e[2]).ok /\ e[1] \subseteq Told(r, e[2]).set
    <3>1. Told(r, e[2]) = [r EXCEPT !.set = (r.set \ gone) \cup {c}]
      BY <2>3 DEF Told
    <3> QED BY <2>2, <2>5, <3>1 DEF Knowing
  <2> QED BY <2>2, <2>3, <2>4, <2>5
<1> QED BY <1>1, <1>2
(* What the caster's client knows, when it has read what it was sent, is   *)
(* at least what the server believes.  While nobody forgets, whatever is   *)
(* in the buffer is of creatures known, a spectator that joins is told of  *)
(* what its own set says, and one that watches is as far as the caster.    *)
CasterFollows ==
  LET r == Read(client, buffer) IN r.ok /\ known \subseteq r.set

WatcherFollows ==
  /\ \A i \in 1 .. Len(buffer) :
       buffer[i].forget = {} /\ buffer[i].creature \in known
  /\ phase = "joining" => own \subseteq watcher
  /\ phase = "watching" =>
       LET w == Read(watcher, buffer) IN w.ok /\ known \subseteq w.set

KnownIInv ==
  /\ NamedAreKnown
  /\ CasterFollows
  /\ ~evicted => WatcherFollows

LEMMA KnownIInvInitially == KnownInit => KnownIInv
<1> SUFFICES ASSUME KnownInit PROVE KnownIInv
  OBVIOUS
<1> USE DEF KnownInit
<1>1. Read(client, buffer) = [set |-> {}, ok |-> TRUE] BY ReadNothing
<1>2. CasterFollows BY <1>1 DEF CasterFollows
<1>3. Len(buffer) = 0 OBVIOUS
<1>4. WatcherFollows BY <1>3 DEF WatcherFollows
<1>5. KnownTypeOK
  <2>1. buffer \in Seq(Description) /\ Len(buffer) <= MaxBuffer
    BY <1>3, KnownAssumption
  <2> QED BY <2>1 DEF KnownTypeOK, Description
<1> QED BY <1>2, <1>4, <1>5 DEF KnownIInv, NamedAreKnown

(* A creature is described to the caster: it goes into the buffer.         *)
LEMMA DescribeKeeps ==
  ASSUME KnownIInv, NEW c \in Creature, Describe(c)
  PROVE  KnownIInv'
<1>1. PICK e \in checkCreatureAsKnown(seen', known, c) :
        /\ known' = e[1]
        /\ buffer' = Append(buffer, e[2])
        /\ evicted' = (evicted \/ e[2].forget # {})
  BY DEF Describe
<1>2. KnownTypeOK BY DEF KnownIInv, NamedAreKnown
<1>3. /\ known \in SUBSET Creature /\ client \in SUBSET Creature
      /\ watcher \in SUBSET Creature /\ own \in SUBSET Creature
      /\ buffer \in Seq(Description) /\ evicted \in BOOLEAN
  BY <1>2 DEF KnownTypeOK, Description
<1>4. /\ e[1] \in SUBSET Creature /\ e[2] \in Description
      /\ e[2].forget = {} => e[1] = known \cup {c} /\ e[2].creature = c
      /\ \A r \in Knowing : r.ok /\ known \subseteq r.set =>
           Told(r, e[2]).ok /\ e[1] \subseteq Told(r, e[2]).set
  BY <1>1, <1>3, CheckedCreature
<1>5. /\ UNCHANGED <<client, phase, own, watcher, baffled>>
      /\ Len(buffer) < MaxBuffer /\ seen' = seen \cup {c}
      /\ phase # "joining"
  BY DEF Describe, Joining
<1>6. Len(buffer') = Len(buffer) + 1 BY <1>1, <1>3, <1>4
<1>7. KnownTypeOK'
  <2>1. buffer' \in Seq(Description) BY <1>1, <1>3, <1>4
  <2>2. Len(buffer') <= MaxBuffer
    BY <1>3, <1>5, <1>6, KnownAssumption
  <2>3. evicted' \in BOOLEAN BY <1>1, <1>3
  <2> QED BY <1>1, <1>2, <1>4, <1>5, <2>1, <2>2, <2>3
      DEF KnownTypeOK, Description
<1>8. ASSUME NEW set \in SUBSET Creature, Read(set, buffer).ok,
             known \subseteq Read(set, buffer).set
      PROVE  LET r == Read(set, buffer') IN r.ok /\ known' \subseteq r.set
  BY <1>1, <1>3, <1>4, <1>8, ReadAppend, ReadType
<1>9. CasterFollows'
  <2>1. CasterFollows BY DEF KnownIInv
  <2> QED BY <1>3, <1>5, <1>8, <2>1 DEF CasterFollows
<1>10. ASSUME ~evicted' PROVE WatcherFollows'
  <2>1. WatcherFollows /\ e[2].forget = {}
    BY <1>1, <1>10 DEF KnownIInv
  <2>2. known' = known \cup {c} /\ e[2].creature = c BY <1>1, <1>4, <2>1
  <2>3. ASSUME NEW i \in 1 .. Len(buffer')
        PROVE  buffer'[i].forget = {} /\ buffer'[i].creature \in known'
    <3>1. CASE i = Len(buffer) + 1
      BY <1>1, <1>3, <1>4, <2>1, <2>2, <3>1
    <3>2. CASE i \in 1 .. Len(buffer)
      <4>1. buffer'[i] = buffer[i] BY <1>1, <1>3, <1>4, <3>2
      <4> QED BY <2>1, <2>2, <3>2, <4>1 DEF WatcherFollows
    <3> QED BY <1>3, <1>6, <3>1, <3>2
  <2> QED BY <1>3, <1>5, <1>8, <2>1, <2>3 DEF WatcherFollows
<1>11. NamedAreKnown'
  BY <1>1, <1>5, <1>7 DEF KnownIInv, NamedAreKnown
<1> QED BY <1>9, <1>10, <1>11 DEF KnownIInv

(* The buffer is read by those it is sent to.                              *)
LEMMA SendBufferKeeps ==
  ASSUME KnownIInv, SendBuffer
  PROVE  KnownIInv'
<1> DEFINE r == Read(client, buffer)
           w == Read(watcher, buffer)
<1>1. KnownTypeOK BY DEF KnownIInv, NamedAreKnown
<1>2. /\ client \in SUBSET Creature /\ watcher \in SUBSET Creature
      /\ buffer \in Seq(Description) /\ evicted \in BOOLEAN
  BY <1>1 DEF KnownTypeOK, Description
<1>3. r \in Knowing /\ w \in Knowing BY <1>2, ReadType
<1>4. r.ok /\ known \subseteq r.set BY DEF KnownIInv, CasterFollows
<1>5. /\ client' = r.set
      /\ watcher' = IF phase = "watching" THEN w.set ELSE watcher
      /\ baffled' = baffled
           \cup (IF r.ok THEN {} ELSE {"caster"})
           \cup (IF phase = "watching" /\ ~w.ok THEN {"spectator"} ELSE {})
      /\ buffer' = <<>> /\ phase # "joining"
      /\ UNCHANGED <<seen, known, phase, own, evicted>>
  BY DEF SendBuffer, Joining
<1> HIDE DEF r, w
<1>6. KnownTypeOK'
  <2>1. r.set \in SUBSET Creature /\ w.set \in SUBSET Creature
    BY <1>3 DEF Knowing
  <2>2. Len(buffer') = 0 /\ buffer' \in Seq(Description) BY <1>5
  <2>3. Len(buffer') <= MaxBuffer BY <2>2, KnownAssumption
  <2> QED BY <1>1, <1>5, <2>1, <2>2, <2>3 DEF KnownTypeOK, Description
<1>7. CasterFollows'
  <2>1. Read(client', buffer') = [set |-> r.set, ok |-> TRUE]
    BY <1>5, ReadNothing
  <2> QED BY <1>4, <1>5, <2>1 DEF CasterFollows
<1>8. ~evicted /\ phase = "watching" => w.ok /\ known \subseteq w.set
  BY DEF KnownIInv, WatcherFollows, w
<1>9. ASSUME ~evicted' PROVE WatcherFollows'
  <2>1. Len(buffer') = 0 BY <1>5
  <2>2. Read(watcher', buffer') = [set |-> watcher', ok |-> TRUE]
    BY <1>5, ReadNothing
  <2>3. phase' = "watching" => known' \subseteq watcher'
    BY <1>5, <1>8, <1>9
  <2> QED BY <1>5, <2>1, <2>2, <2>3 DEF WatcherFollows
<1>10. NamedAreKnown'
  BY <1>4, <1>5, <1>6, <1>8 DEF KnownIInv, NamedAreKnown
<1> QED BY <1>7, <1>9, <1>10 DEF KnownIInv

(* A spectator that joins is told, from nothing, of what its set gets.     *)
LEMMA TellWatcherKeeps ==
  ASSUME KnownIInv, Joining, NEW c \in Creature, TellWatcher(c)
  PROVE  KnownIInv'
<1>1. PICK e \in checkCreatureAsKnown(seen, own, c) :
        /\ own' = e[1]
        /\ watcher' = Read(watcher, <<e[2]>>).set
        /\ evicted' = (evicted \/ e[2].forget # {})
  BY DEF TellWatcher
<1>2. KnownTypeOK BY DEF KnownIInv, NamedAreKnown
<1>3. /\ own \in SUBSET Creature /\ watcher \in SUBSET Creature
      /\ evicted \in BOOLEAN
  BY <1>2 DEF KnownTypeOK
<1>4. /\ e[1] \in SUBSET Creature /\ e[2] \in Description
      /\ \A r \in Knowing : r.ok /\ own \subseteq r.set =>
           Told(r, e[2]).ok /\ e[1] \subseteq Told(r, e[2]).set
  BY <1>1, <1>3, CheckedCreature
<1>5. UNCHANGED <<seen, known, buffer, client, phase, baffled>>
      /\ phase = "joining"
  BY DEF TellWatcher, Joining
<1> DEFINE r == [set |-> watcher, ok |-> TRUE]
<1>6. r \in Knowing BY <1>3 DEF Knowing
<1>7. Read(watcher, <<e[2]>>) = Told(r, e[2]) BY ReadOne
<1>8. watcher' \in SUBSET Creature
  <2> HIDE DEF r
  <2>1. Told(r, e[2]) \in Knowing BY <1>4, <1>6, ToldType
  <2> QED BY <1>1, <1>7, <2>1 DEF Knowing
<1>9. own \subseteq watcher => own' \subseteq watcher'
  <2>1. r.ok /\ r.set = watcher OBVIOUS
  <2> HIDE DEF r
  <2> QED BY <1>1, <1>4, <1>6, <1>7, <2>1
<1> HIDE DEF r
<1>10. KnownTypeOK'
  <2>1. evicted' \in BOOLEAN BY <1>1, <1>3
  <2> QED BY <1>1, <1>2, <1>4, <1>5, <1>8, <2>1 DEF KnownTypeOK
<1>11. CasterFollows' BY <1>5 DEF KnownIInv, CasterFollows
<1>12. ASSUME ~evicted' PROVE WatcherFollows'
  <2>1. WatcherFollows BY <1>1, <1>12 DEF KnownIInv
  <2> QED BY <1>5, <1>9, <2>1 DEF WatcherFollows
<1>13. NamedAreKnown'
  BY <1>1, <1>5, <1>10 DEF KnownIInv, NamedAreKnown
<1> QED BY <1>11, <1>12, <1>13 DEF KnownIInv

(* Who knows all that the caster was told of is not baffled by its buffer. *)
LEMMA addSpectatorKeeps ==
  ASSUME KnownIInv, addSpectator
  PROVE  KnownIInv'
<1>1. KnownTypeOK BY DEF KnownIInv, NamedAreKnown
<1>2. /\ UNCHANGED <<seen, known, buffer, client, own, watcher, baffled,
                    evicted>>
      /\ phase = "joining" /\ phase' = "watching"
      /\ known \ own \subseteq watcher
  BY DEF addSpectator, Joining
<1>3. KnownTypeOK' BY <1>1, <1>2 DEF KnownTypeOK
<1>4. CasterFollows' BY <1>2 DEF KnownIInv, CasterFollows
<1>5. ASSUME ~evicted' PROVE WatcherFollows'
  <2>1. WatcherFollows BY <1>2, <1>5 DEF KnownIInv
  <2>2. known \subseteq watcher BY <1>2, <2>1 DEF WatcherFollows
  <2>3. buffer \in Seq(Description) BY <1>1 DEF KnownTypeOK, Description
  <2>4. \A i \in 1 .. Len(buffer) :
          buffer[i].forget = {} /\ buffer[i].creature \in watcher
    BY <2>1, <2>2 DEF WatcherFollows
  <2>5. Read(watcher, buffer) = [set |-> watcher, ok |-> TRUE]
    BY <2>3, <2>4, ReadKnown
  <2> QED BY <1>2, <2>1, <2>2, <2>5 DEF WatcherFollows
<1>6. NamedAreKnown' BY <1>2, <1>3 DEF KnownIInv, NamedAreKnown
<1> QED BY <1>4, <1>5, <1>6 DEF KnownIInv

(* What else there is disturbs neither, or comes after an eviction.        *)
LEMMA OthersKeepKnown ==
  ASSUME KnownIInv,
         UNCHANGED <<known, buffer, client, baffled, evicted>>,
         seen' \in SUBSET Creature, own' \in SUBSET Creature,
         watcher' \in SUBSET Creature,
         phase' \in {"away", "joining", "watching"},
         ~evicted => \/ UNCHANGED <<phase, own, watcher>>
                     \/ phase' = "joining" /\ own' = {}
                     \/ phase' = "away"
  PROVE  KnownIInv'
<1>1. KnownTypeOK BY DEF KnownIInv, NamedAreKnown
<1>2. KnownTypeOK' BY <1>1 DEF KnownTypeOK
<1>3. CasterFollows' BY DEF KnownIInv, CasterFollows
<1>4. ASSUME ~evicted' PROVE WatcherFollows'
  <2>1. WatcherFollows BY <1>4 DEF KnownIInv
  <2> QED BY <1>4, <2>1 DEF WatcherFollows
<1>5. NamedAreKnown' BY <1>2 DEF KnownIInv, NamedAreKnown
<1> QED BY <1>3, <1>4, <1>5 DEF KnownIInv

LEMMA KnownIInvInductive ==
  ASSUME KnownIInv, [KnownNext]_knownVars
  PROVE  KnownIInv'
<1>1. /\ seen \in SUBSET Creature /\ own \in SUBSET Creature
      /\ watcher \in SUBSET Creature
      /\ phase \in {"away", "joining", "watching"}
  BY DEF KnownIInv, NamedAreKnown, KnownTypeOK
<1>2. ASSUME NEW c \in Creature, Describe(c) PROVE KnownIInv'
  BY <1>2, DescribeKeeps
<1>3. ASSUME NEW c \in Creature, LoseSight(c) PROVE KnownIInv'
  BY <1>1, <1>3, OthersKeepKnown DEF LoseSight
<1>4. ASSUME NEW c \in Creature, DescribeMap(c) PROVE KnownIInv'
  BY <1>4, TellWatcherKeeps DEF DescribeMap
<1>5. ASSUME NEW c \in Creature, syncKnownCreatureSets(c) PROVE KnownIInv'
  BY <1>5, TellWatcherKeeps DEF syncKnownCreatureSets
<1>6. CASE SendBuffer BY <1>6, SendBufferKeeps
<1>7. CASE Spectate BY <1>1, <1>7, OthersKeepKnown DEF Spectate
<1>8. CASE addSpectator BY <1>8, addSpectatorKeeps
<1>9. CASE JoinCrowded BY <1>1, <1>9, OthersKeepKnown DEF JoinCrowded
<1>10. CASE StopSpectating
  BY <1>1, <1>10, OthersKeepKnown DEF StopSpectating
<1>11. CASE UNCHANGED knownVars
  BY <1>1, <1>11, OthersKeepKnown DEF knownVars
<1> QED BY <1>2, <1>3, <1>4, <1>5, <1>6, <1>7, <1>8, <1>9, <1>10, <1>11
    DEF KnownNext

(* No client is named a creature that it was not told of: the caster's     *)
(* never, and a spectator's not as long as nobody had to forget any        *)
(* (checkCreatureAsKnown, syncKnownCreatureSets, broadcastMessage).        *)
THEOREM NamedAreKnownHolds == KnownSpec => []NamedAreKnown
<1>1. KnownIInv => NamedAreKnown BY DEF KnownIInv
<1>2. KnownIInv /\ [KnownNext]_knownVars => KnownIInv'
  BY KnownIInvInductive
<1> QED BY KnownIInvInitially, <1>1, <1>2, PTL DEF KnownSpec
-----------------------------------------------------------------------------
(* What conditions add to a creature (Conditions) *)

(* The states that the helpers map to each other, and those of them in     *)
(* which speed and skills are the sums.                                    *)
Held == Effect \cup {NoCondition}
States == [conditions : [Kind -> Held], speed : Int, skill : Int,
           later : BOOLEAN]

AddsUp(s) ==
  /\ s.speed = SumFunctionOnSet(Deltas(s.conditions), Speed)
  /\ s.skill = SumFunctionOnSet(Deltas(s.conditions), Attributes)

Weight(e) == IF e = NoCondition THEN 0 ELSE e.delta

LEMMA WeightType ==
  /\ Effect \subseteq [delta : Int, ticks : Int]
  /\ \A e \in Held : Weight(e) \in Int
  /\ \A e \in Effect : e # NoCondition /\ e.delta \in Int /\ e.ticks \in Int
<1>1. Renewed .. MaxTicks \subseteq Int
  BY ConditionsAssumption DEF Renewed
<1>2. Effect \subseteq [delta : Int, ticks : Int]
  BY <1>1, ConditionsAssumption DEF Effect
<1> QED BY <1>2, ConditionsAssumption DEF Held, Weight

LEMMA KindsFinite ==
  IsFiniteSet(Kind) /\ IsFiniteSet(Speed) /\ Speed \cap Attributes = {}
BY ConditionsAssumption, FS_Union DEF Kind, Speed

(* One condition comes, goes or is another, and the sum it belongs to      *)
(* changes by the difference.                                              *)
LEMMA ChangeKeeps ==
  ASSUME NEW s \in States, AddsUp(s), NEW k \in Kind, NEW e \in Held,
         NEW t \in States, t.conditions = [s.conditions EXCEPT ![k] = e],
         t.speed = s.speed, t.skill = s.skill,
         NEW by \in Int, by = Weight(e) - Weight(s.conditions[k])
  PROVE  /\ Change(t, k, by) \in States /\ AddsUp(Change(t, k, by))
         /\ Change(t, k, by).conditions = t.conditions
<1> DEFINE f == Deltas(s.conditions)
           g == Deltas(t.conditions)
           u == Change(t, k, by)
<1>1. s.conditions \in [Kind -> Held] /\ t.conditions \in [Kind -> Held]
      /\ s.speed \in Int /\ s.skill \in Int
  BY DEF States
<1>2. \A x \in Kind : f[x] = Weight(s.conditions[x])
                      /\ g[x] = Weight(t.conditions[x])
  BY DEF Deltas, Weight
<1>3. \A x \in Kind : f[x] \in Int /\ g[x] \in Int
  BY <1>1, <1>2, WeightType
<1>4. t.conditions[k] = e /\ \A x \in Kind \ {k} :
                               t.conditions[x] = s.conditions[x]
  BY <1>1
<1>5. g[k] - f[k] = by /\ \A x \in Kind \ {k} : g[x] = f[x]
  BY <1>2, <1>4
<1> HIDE DEF f, g
<1>6. Speed \subseteq Kind /\ Attributes \subseteq Kind
      /\ Kind = Speed \cup Attributes
  BY DEF Kind, Speed
<1>7. ASSUME NEW T \in SUBSET Kind, IsFiniteSet(T)
      PROVE  SumFunctionOnSet(g, T) =
               SumFunctionOnSet(f, T) + (IF k \in T THEN by ELSE 0)
  <2>1. SumFunctionOnSet(f, T) \in Int BY <1>3, <1>7, SumType
  <2>2. CASE k \in T
    <3>1. /\ \A x \in T : f[x] \in Int /\ g[x] \in Int
          /\ \A x \in T \ {k} : g[x] = f[x]
      BY <1>3, <1>5
    <3>2. SumFunctionOnSet(g, T) = SumFunctionOnSet(f, T) + (g[k] - f[k])
      <4>1. IsFiniteSet(T) BY <1>7
      <4> QED BY <2>2, <3>1, <4>1, SumChanges
    <3> QED BY <1>5, <2>2, <3>2
  <2>3. CASE k \notin T
    <3>1. \A x \in T : f[x] \in Int /\ g[x] = f[x]
      BY <1>3, <1>5, <1>7, <2>3
    <3>2. SumFunctionOnSet(g, T) = SumFunctionOnSet(f, T)
      BY <1>7, <3>1, SumSame
    <3> QED BY <2>1, <2>3, <3>2
  <2> QED BY <2>2, <2>3
<1>8. /\ SumFunctionOnSet(g, Speed) =
           s.speed + (IF k \in Speed THEN by ELSE 0)
      /\ SumFunctionOnSet(g, Attributes) =
           s.skill + (IF k \in Attributes THEN by ELSE 0)
  BY <1>6, <1>7, KindsFinite, ConditionsAssumption DEF AddsUp, f
<1>9. CASE k \in Speed
  <2>1. k \notin Attributes BY <1>9, KindsFinite
  <2>2. u = [t EXCEPT !.speed = s.speed + by] BY <1>9 DEF Change
  <2>3. u \in States /\ u.conditions = t.conditions
        /\ u.speed = s.speed + by /\ u.skill = s.skill
    BY <1>1, <2>2 DEF States
  <2> HIDE DEF u
  <2>4. AddsUp(u) BY <1>1, <1>8, <1>9, <2>1, <2>3 DEF AddsUp, g
  <2> QED BY <2>3, <2>4 DEF u
<1>10. CASE k \notin Speed
  <2>1. k \in Attributes BY <1>6, <1>10
  <2>2. u = [t EXCEPT !.skill = s.skill + by] BY <1>10 DEF Change
  <2>3. u \in States /\ u.conditions = t.conditions
        /\ u.speed = s.speed /\ u.skill = s.skill + by
    BY <1>1, <2>2 DEF States
  <2> HIDE DEF u
  <2>4. AddsUp(u) BY <1>1, <1>8, <1>10, <2>1, <2>3 DEF AddsUp, g
  <2> QED BY <2>3, <2>4 DEF u
<1> QED BY <1>9, <1>10

LEMMA HoldsInstead ==
  ASSUME NEW s \in States, NEW k \in Kind, NEW e \in Held
  PROVE  LET t == [s EXCEPT !.conditions[k] = e]
         IN /\ t \in States
            /\ t.conditions = [s.conditions EXCEPT ![k] = e]
            /\ t.speed = s.speed /\ t.skill = s.skill
BY DEF States

LEMMA EndKeeps ==
  ASSUME NEW s \in States, AddsUp(s), NEW k \in Kind
  PROVE  /\ End(s, k) \in States /\ AddsUp(End(s, k))
         /\ End(s, k).conditions = [s.conditions EXCEPT ![k] = NoCondition]
<1>1. s.conditions \in [Kind -> Held] BY DEF States
<1>2. CASE s.conditions[k] = NoCondition
  BY <1>1, <1>2 DEF End
<1>3. CASE s.conditions[k] # NoCondition
  <2> DEFINE t == [s EXCEPT !.conditions[k] = NoCondition]
             by == -s.conditions[k].delta
  <2>1. NoCondition \in Held /\ s.conditions[k] \in Held BY <1>1 DEF Held
  <2>2. /\ t \in States
        /\ t.conditions = [s.conditions EXCEPT ![k] = NoCondition]
        /\ t.speed = s.speed /\ t.skill = s.skill
    BY <2>1, HoldsInstead
  <2>3. by \in Int /\ by = Weight(NoCondition) - Weight(s.conditions[k])
    BY <1>3, <2>1, WeightType DEF Weight
  <2>4. End(s, k) = Change(t, k, by) BY <1>3 DEF End
  <2> HIDE DEF t, by
  <2> QED BY <2>1, <2>2, <2>3, <2>4, ChangeKeeps
<1> QED BY <1>2, <1>3
(* EndAll ends one after the other, in the order of a choice.              *)
Ends(it, s, S) ==
  it = [T \in SUBSET S |->
          IF T = {} THEN s ELSE End(it[T \ {Chosen(T)}], Chosen(T))]

LEMMA EndAllIs ==
  ASSUME NEW s, NEW S
  PROVE  EndAll(s, S) = (CHOOSE it : Ends(it, s, S))[S]
BY DEF EndAll, FoldSet, MapThenFoldSet, Ends, Chosen

LEMMA EndsExist ==
  ASSUME NEW S, IsFiniteSet(S), NEW s
  PROVE  Ends(CHOOSE it : Ends(it, s, S), s, S)
<1> DEFINE small(n) == {T \in SUBSET S : Cardinality(T) <= n}
           step(it, n) ==
             [T \in small(n) |->
                IF T = {} THEN s ELSE End(it[T \ {Chosen(T)}], Chosen(T))]
           N == {n \in Nat : \E it : it = step(it, n)}
<1>1. \A T \in SUBSET S : IsFiniteSet(T) /\ Cardinality(T) \in Nat
  BY FS_Subset, FS_CardinalityType
<1>2. \A T \in SUBSET S : T # {} =>
        /\ Chosen(T) \in T /\ T \ {Chosen(T)} \in SUBSET S
        /\ Cardinality(T \ {Chosen(T)}) = Cardinality(T) - 1
  BY <1>1, FS_RemoveElement DEF Chosen
<1>3. \A T \in SUBSET S : Cardinality(T) = 0 => T = {}
  BY <1>1, FS_EmptySet
<1>4. 0 \in N
  <2> DEFINE it == [T \in small(0) |-> s]
  <2>1. \A T \in small(0) : T = {} BY <1>1, <1>3
  <2>2. it = step(it, 0) BY <2>1
  <2> QED BY <2>2
<1>5. ASSUME NEW n \in N PROVE n + 1 \in N
  <2>1. PICK it : it = step(it, n) BY <1>5
  <2> DEFINE jt == step(it, n + 1)
  <2>2. n \in Nat BY <1>5
  <2>3. \A T \in small(n + 1) : T # {} => T \ {Chosen(T)} \in small(n)
    BY <1>1, <1>2, <2>2
  <2>4. small(n) \subseteq small(n + 1) BY <1>1, <2>2
  <2>5. \A T \in small(n) : jt[T] = it[T] BY <2>1, <2>4
  <2>6. jt = step(jt, n + 1)
    <3> SUFFICES \A T \in small(n + 1) : T # {} =>
                   it[T \ {Chosen(T)}] = jt[T \ {Chosen(T)}]
      OBVIOUS
    <3> QED BY <2>3, <2>5
  <2>7. \E kt : kt = step(kt, n + 1)
    <3> HIDE DEF jt, step
    <3> QED BY <2>6
  <2>8. n + 1 \in Nat BY <2>2
  <2> HIDE DEF step, small
  <2> QED BY <2>7, <2>8, Zenon
<1>6. N = Nat
  <2>1. N \in SUBSET Nat OBVIOUS
  <2> HIDE DEF N
  <2> QED BY <1>4, <1>5, <2>1, NatSetInduction
<1>7. small(Cardinality(S)) = SUBSET S BY <1>1, FS_Subset
<1>8. Cardinality(S) \in N BY <1>1, <1>6
<1>9. PICK it : it = step(it, Cardinality(S)) BY <1>8
<1>10. Ends(it, s, S) BY <1>7, <1>9 DEF Ends
<1> QED BY <1>10

LEMMA EndAllKeeps ==
  ASSUME NEW s \in States, AddsUp(s), NEW S \in SUBSET Kind
  PROVE  EndAll(s, S) \in States /\ AddsUp(EndAll(s, S))
<1> DEFINE it == CHOOSE it : Ends(it, s, S)
           P == {T \in SUBSET S : it[T] \in States /\ AddsUp(it[T])}
<1>1. IsFiniteSet(S) BY KindsFinite, FS_Subset
<1>2. Ends(it, s, S) /\ EndAll(s, S) = it[S] BY <1>1, EndsExist, EndAllIs
<1> HIDE DEF it
<1>3. ASSUME NEW T \in SUBSET S, \A U \in SUBSET T : U # T => U \in P
      PROVE  T \in P
  <2>1. it[T] = IF T = {} THEN s ELSE End(it[T \ {Chosen(T)}], Chosen(T))
    BY <1>2, Zenon DEF Ends
  <2>2. CASE T = {}
    <3>1. it[T] = s BY <2>1, <2>2
    <3> QED BY <3>1
  <2>3. CASE T # {}
    <3>1. Chosen(T) \in T BY <2>3 DEF Chosen
    <3>2. T \ {Chosen(T)} \in P BY <1>3, <3>1
    <3> DEFINE t == it[T \ {Chosen(T)}]
    <3>3. t \in States /\ AddsUp(t) /\ Chosen(T) \in Kind BY <3>1, <3>2
    <3>4. it[T] = End(t, Chosen(T)) BY <2>1, <2>3
    <3> HIDE DEF t
    <3>5. it[T] \in States /\ AddsUp(it[T]) BY <3>3, <3>4, EndKeeps
    <3> QED BY <3>5
  <2> QED BY <2>2, <2>3
<1>4. P = SUBSET S
  <2> HIDE DEF P
  <2>1. P \in SUBSET (SUBSET S) BY DEF P
  <2> QED BY <1>1, <1>3, <2>1, FiniteSetInduction
<1> QED BY <1>2, <1>4

LEMMA RemoveKeeps ==
  ASSUME NEW s \in States, AddsUp(s), NEW kinds \in SUBSET Kind, NEW force
  PROVE  Remove(s, kinds, force) \in States /\ AddsUp(Remove(s, kinds, force))
<1>1. [s EXCEPT !.later = TRUE] \in States
      /\ AddsUp([s EXCEPT !.later = TRUE])
  BY DEF States, AddsUp
<1> QED BY <1>1, EndAllKeeps DEF Remove

LEMMA OnAddKeeps ==
  ASSUME NEW s \in States, AddsUp(s), NEW k \in Kind
  PROVE  OnAdd(s, k) \in States /\ AddsUp(OnAdd(s, k))
<1>1. Haste \in SUBSET Kind /\ Paralysis \in SUBSET Kind BY DEF Kind
<1> QED BY <1>1, RemoveKeeps DEF OnAdd

(* What is put: a condition, but for its ticks, which Set changes.         *)
LEMMA ConditionIsEffect ==
  /\ Condition \subseteq Effect
  /\ \A c \in Condition :
       LET e == [c EXCEPT !.ticks = IF @ = Endless THEN Renewed ELSE @]
       IN e \in Effect /\ e.delta = c.delta
<1>1. {Endless} \cup 1 .. MaxTicks \subseteq Renewed .. MaxTicks
      /\ Renewed \in Renewed .. MaxTicks
  BY ConditionsAssumption DEF Endless, Renewed
<1> QED BY <1>1 DEF Condition, Effect

LEMMA SetKeeps ==
  ASSUME NEW s \in States, AddsUp(s), NEW k \in Kind, NEW c \in Condition,
         NEW by \in Int, by = c.delta - Weight(s.conditions[k])
  PROVE  LET u == Change(Set(s, k, c), k, by)
         IN u \in States /\ AddsUp(u)
<1> DEFINE e == [c EXCEPT !.ticks = IF @ = Endless THEN Renewed ELSE @]
           t == [s EXCEPT !.conditions[k] = e]
<1>1. e \in Effect /\ e.delta = c.delta BY ConditionIsEffect
<1>2. Set(s, k, c) = t BY DEF Set
<1> HIDE DEF e
<1>3. e \in Held /\ Weight(e) = c.delta
  BY <1>1, WeightType DEF Held, Weight
<1>4. /\ t \in States
      /\ t.conditions = [s.conditions EXCEPT ![k] = e]
      /\ t.speed = s.speed /\ t.skill = s.skill
  BY <1>3, HoldsInstead
<1> HIDE DEF t
<1> QED BY <1>2, <1>3, <1>4, ChangeKeeps

LEMMA PutKeeps ==
  ASSUME NEW s \in States, AddsUp(s), NEW k \in Kind, NEW c \in Condition
  PROVE  Put(s, k, c) \in States /\ AddsUp(Put(s, k, c))
<1>1. s.conditions \in [Kind -> Held] /\ s.conditions[k] \in Held
  BY DEF States
<1>2. c \in Effect /\ c \in Held /\ c.delta \in Int /\ Weight(c) = c.delta
  BY ConditionIsEffect, WeightType DEF Held, Weight
<1>3. CASE s.conditions[k] = NoCondition
  <2> DEFINE t == [s EXCEPT !.conditions[k] = c]
             u == Change(t, k, c.delta)
  <2>1. /\ t \in States
        /\ t.conditions = [s.conditions EXCEPT ![k] = c]
        /\ t.speed = s.speed /\ t.skill = s.skill
    BY <1>2, HoldsInstead
  <2>2. c.delta = Weight(c) - Weight(s.conditions[k])
    BY <1>2, <1>3 DEF Weight
  <2>3. Put(s, k, c) = OnAdd(u, k) BY <1>3 DEF Put
  <2> HIDE DEF t
  <2>4. u \in States /\ AddsUp(u) BY <1>2, <2>1, <2>2, ChangeKeeps
  <2> HIDE DEF u
  <2> QED BY <2>3, <2>4, OnAddKeeps
<1>4. CASE s.conditions[k] # NoCondition
  <2>1. s.conditions[k] \in Effect /\ s.conditions[k].delta \in Int
        /\ Weight(s.conditions[k]) = s.conditions[k].delta
    BY <1>1, <1>4, WeightType DEF Held, Weight
  <2>2. UpdateSpeed(s, k, c) \in States /\ AddsUp(UpdateSpeed(s, k, c))
    <3> DEFINE by == c.delta - s.conditions[k].delta
    <3>1. by \in Int /\ by = c.delta - Weight(s.conditions[k])
      BY <1>2, <2>1
    <3> HIDE DEF by
    <3>2. LET u == Change(Set(s, k, c), k, by) IN u \in States /\ AddsUp(u)
      BY <3>1, SetKeeps
    <3> QED BY <3>2 DEF UpdateSpeed, by
  <2>3. UpdateAttributes(s, k, c) \in States
        /\ AddsUp(UpdateAttributes(s, k, c))
    <3> DEFINE t == End(s, k)
    <3>1. t \in States /\ AddsUp(t) /\ t.conditions[k] = NoCondition
      BY <1>1, EndKeeps
    <3>2. c.delta = c.delta - Weight(t.conditions[k])
      BY <1>2, <3>1 DEF Weight
    <3> HIDE DEF t
    <3>3. LET u == Change(Set(t, k, c), k, c.delta)
          IN u \in States /\ AddsUp(u)
      BY <1>2, <3>1, <3>2, SetKeeps
    <3> QED BY <3>3 DEF UpdateAttributes, t
  <2> QED BY <1>4, <2>2, <2>3 DEF Put
<1> QED BY <1>3, <1>4
LEMMA NowAddsUp ==
  ASSUME ModifiersAddUp
  PROVE  Now \in States /\ AddsUp(Now)
BY DEF ModifiersAddUp, ConditionsTypeOK, Now, States, AddsUp, Held

(* Whoever becomes such a state still adds up.                             *)
LEMMA BecomeKeeps ==
  ASSUME ModifiersAddUp, NEW s \in States, AddsUp(s), Become(s),
         walkDelay' \in BOOLEAN, suppressed' \in BOOLEAN,
         adding' \subseteq Kind \X Condition, removing' \in 0 .. MaxDelayed
  PROVE  ModifiersAddUp'
<1>1. conditions' = s.conditions /\ varSpeed' = s.speed
      /\ varSkill' = s.skill
  BY DEF Become
<1>2. ConditionsTypeOK' BY <1>1 DEF ConditionsTypeOK, States, Held
<1>3. Deltas(conditions)' = Deltas(s.conditions) BY <1>1 DEF Deltas
<1> QED BY <1>1, <1>2, <1>3 DEF ModifiersAddUp, AddsUp

LEMMA LaterType ==
  ASSUME NEW s, NEW pending \in 0 .. MaxDelayed, Later(s, pending)
  PROVE  removing' \in 0 .. MaxDelayed
<1>1. MaxDelayed \in Nat BY ConditionsAssumption
<1>2. removing' \in Nat /\ removing' <= MaxDelayed BY <1>1 DEF Later
<1> QED BY <1>1, <1>2

(* The seconds run down and nothing else of a condition changes.           *)
LEMMA TickKeeps ==
  ASSUME ModifiersAddUp, Tick
  PROVE  ModifiersAddUp'
<1>1. ConditionsTypeOK BY DEF ModifiersAddUp
<1>2. /\ conditions' =
           [k \in Kind |->
              IF conditions[k] = NoCondition \/ conditions[k].ticks <= 0
              THEN conditions[k]
              ELSE [conditions[k] EXCEPT !.ticks = @ - 1]]
      /\ UNCHANGED <<varSpeed, varSkill, walkDelay, suppressed, adding,
                     removing>>
  BY DEF Tick
<1>3. ASSUME NEW k \in Kind
      PROVE  conditions'[k] \in Held
             /\ Weight(conditions'[k]) = Weight(conditions[k])
  <2>1. conditions[k] \in Held BY <1>1 DEF ConditionsTypeOK, Held
  <2>2. CASE conditions[k] = NoCondition \/ conditions[k].ticks <= 0
    BY <1>2, <2>1, <2>2
  <2>3. CASE ~(conditions[k] = NoCondition \/ conditions[k].ticks <= 0)
    <3> DEFINE c == conditions[k]
               e == [c EXCEPT !.ticks = c.ticks - 1]
    <3>1. c \in Effect /\ c # NoCondition BY <2>1, <2>3 DEF Held
    <3>2. c.ticks \in Renewed .. MaxTicks BY <3>1 DEF Effect
    <3>3. c.ticks - 1 \in Renewed .. MaxTicks
      <4>1. c.ticks > 0 BY <2>3, <3>2, ConditionsAssumption DEF Renewed
      <4> QED BY <3>2, <4>1, ConditionsAssumption DEF Renewed
    <3>4. e \in Effect /\ e.delta = c.delta BY <3>1, <3>3 DEF Effect
    <3>5. conditions'[k] = e BY <1>2, <2>3
    <3> HIDE DEF e
    <3>6. e # NoCondition BY <3>4, WeightType
    <3> QED BY <3>1, <3>4, <3>5, <3>6 DEF Held, Weight
  <2> QED BY <2>2, <2>3
<1>4. conditions' \in [Kind -> Held] BY <1>2, <1>3
<1>5. Deltas(conditions)' = Deltas(conditions) BY <1>3 DEF Deltas, Weight
<1>6. ConditionsTypeOK' BY <1>1, <1>2, <1>4 DEF ConditionsTypeOK, Held
<1> QED BY <1>2, <1>5, <1>6 DEF ModifiersAddUp

LEMMA ModifiersAddUpInductive ==
  ASSUME ModifiersAddUp, [ConditionsNext]_conditionVars
  PROVE  ModifiersAddUp'
<1>1. ConditionsTypeOK BY DEF ModifiersAddUp
<1>2. /\ walkDelay \in BOOLEAN /\ suppressed \in BOOLEAN
      /\ adding \subseteq Kind \X Condition /\ removing \in 0 .. MaxDelayed
  BY <1>1 DEF ConditionsTypeOK
<1>3. Now \in States /\ AddsUp(Now) BY NowAddsUp
<1>4. Haste \in SUBSET Kind /\ Paralysis \in SUBSET Kind
      /\ Attributes \in SUBSET Kind
  BY DEF Kind
<1>5. ASSUME NEW k \in Kind, NEW c \in Condition, AddCondition(k, c)
      PROVE  ModifiersAddUp'
  <2>1. UNCHANGED <<walkDelay, suppressed>> BY <1>5 DEF AddCondition
  <2>2. CASE PutOff(k)
    <3>1. /\ adding' = adding \cup {<<k, c>>}
          /\ UNCHANGED <<conditions, varSpeed, varSkill, removing>>
      BY <1>5, <2>2 DEF AddCondition
    <3>2. ConditionsTypeOK' BY <1>1, <2>1, <3>1 DEF ConditionsTypeOK
    <3>3. Deltas(conditions)' = Deltas(conditions) BY <3>1 DEF Deltas
    <3> QED BY <3>1, <3>2, <3>3 DEF ModifiersAddUp
  <2>3. CASE ~PutOff(k)
    <3>1. /\ Become(Put(Now, k, c)) /\ Later(Put(Now, k, c), removing)
          /\ UNCHANGED adding
      BY <1>5, <2>3 DEF AddCondition
    <3>2. Put(Now, k, c) \in States /\ AddsUp(Put(Now, k, c))
      BY <1>3, PutKeeps
    <3>3. removing' \in 0 .. MaxDelayed BY <1>2, <3>1, LaterType
    <3> QED BY <1>2, <2>1, <3>1, <3>2, <3>3, BecomeKeeps
  <2> QED BY <2>2, <2>3
<1>6. ASSUME NEW k \in Kind, NEW c \in Condition, forceAddCondition(k, c)
      PROVE  ModifiersAddUp'
  <2>1. /\ UNCHANGED <<walkDelay, suppressed>> /\ adding' \subseteq adding
        /\ Become(Put(Now, k, c)) /\ Later(Put(Now, k, c), removing)
    BY <1>6 DEF forceAddCondition
  <2>2. Put(Now, k, c) \in States /\ AddsUp(Put(Now, k, c))
    BY <1>3, PutKeeps
  <2>3. removing' \in 0 .. MaxDelayed BY <1>2, <2>1, LaterType
  <2>4. adding' \subseteq Kind \X Condition BY <1>2, <2>1
  <2> QED BY <1>2, <2>1, <2>2, <2>3, <2>4, BecomeKeeps
<1>7. ASSUME NEW kinds \in SUBSET Kind, RemoveCondition(kinds)
      PROVE  ModifiersAddUp'
  <2> DEFINE s == Remove(Now, kinds, FALSE)
  <2>1. /\ UNCHANGED <<walkDelay, suppressed, adding>>
        /\ Become(s) /\ Later(s, removing)
    BY <1>7 DEF RemoveCondition
  <2>2. s \in States /\ AddsUp(s) BY <1>3, RemoveKeeps
  <2>3. removing' \in 0 .. MaxDelayed BY <1>2, <2>1, LaterType
  <2> QED BY <1>2, <2>1, <2>2, <2>3, BecomeKeeps
<1>8. CASE forceRemoveCondition
  <2> DEFINE s == Remove(Now, Paralysis, TRUE)
  <2>1. /\ UNCHANGED <<walkDelay, suppressed, adding>>
        /\ Become(s) /\ removing > 0 /\ removing' = removing - 1
    BY <1>8 DEF forceRemoveCondition
  <2>2. s \in States /\ AddsUp(s) BY <1>3, <1>4, RemoveKeeps
  <2>3. removing' \in 0 .. MaxDelayed
    BY <1>2, <2>1, ConditionsAssumption
  <2> QED BY <1>2, <2>1, <2>2, <2>3, BecomeKeeps
<1>9. ASSUME NEW S \in SUBSET Kind, Become(EndAll(Now, S)),
             UNCHANGED <<walkDelay, suppressed, adding, removing>>
      PROVE  ModifiersAddUp'
  <2>1. EndAll(Now, S) \in States /\ AddsUp(EndAll(Now, S))
    BY <1>3, EndAllKeeps
  <2> QED BY <1>2, <1>9, <2>1, BecomeKeeps
<1>10. CASE executeConditions
  <2> DEFINE S == {k \in Kind : conditions[k] # NoCondition
                                /\ conditions[k].ticks = 0}
  <2>1. Become(EndAll(Now, S)) BY <1>10 DEF executeConditions
  <2>2. UNCHANGED <<walkDelay, suppressed, adding, removing>>
    BY <1>10 DEF executeConditions
  <2>3. S \in SUBSET Kind OBVIOUS
  <2> HIDE DEF S
  <2> QED BY <1>9, <2>1, <2>2, <2>3
<1>11. CASE Die
  <2> DEFINE S == {k \in Kind \ FromItem : conditions[k] # NoCondition
                                           /\ conditions[k].ticks >= 0}
  <2>1. Become(EndAll(Now, S)) BY <1>11 DEF Die
  <2>2. UNCHANGED <<walkDelay, suppressed, adding, removing>>
    BY <1>11 DEF Die
  <2>3. S \in SUBSET Kind OBVIOUS
  <2> HIDE DEF S
  <2> QED BY <1>9, <2>1, <2>2, <2>3
<1>12. CASE Tick BY <1>12, TickKeeps
<1>13. ASSUME UNCHANGED <<conditions, varSpeed, varSkill, adding, removing>>,
              walkDelay' \in BOOLEAN, suppressed' \in BOOLEAN
       PROVE  ModifiersAddUp'
  <2>1. ConditionsTypeOK' BY <1>1, <1>13 DEF ConditionsTypeOK
  <2>2. Deltas(conditions)' = Deltas(conditions) BY <1>13 DEF Deltas
  <2> QED BY <1>13, <2>1, <2>2 DEF ModifiersAddUp
<1>14. CASE Step
  <2>1. walkDelay' \in BOOLEAN BY <1>14 DEF Step
  <2> QED BY <1>2, <1>13, <1>14, <2>1 DEF Step
<1>15. CASE Suppress
  <2>1. suppressed' \in BOOLEAN BY <1>15 DEF Suppress
  <2> QED BY <1>2, <1>13, <1>15, <2>1 DEF Suppress
<1>16. CASE UNCHANGED conditionVars
  BY <1>2, <1>13, <1>16 DEF conditionVars
<1>17. ASSUME NEW kinds \in {Haste, Paralysis, Attributes}
                            \cup {{k} : k \in FromItem},
              RemoveCondition(kinds)
       PROVE  ModifiersAddUp'
  <2>1. kinds \in SUBSET Kind BY <1>4, <1>17, ConditionsAssumption
  <2> QED BY <1>7, <1>17, <2>1
<1> QED
  BY <1>5, <1>6, <1>8, <1>10, <1>11, <1>12, <1>14, <1>15, <1>16, <1>17
  DEF ConditionsNext

(* A creature's speed and skills differ from their bases by what the       *)
(* conditions it has add up to, in whatever order they came, were renewed, *)
(* put off and went (startCondition, addCondition, endCondition).          *)
THEOREM ModifiersAddUpHolds == ConditionsSpec => []ModifiersAddUp
<1>1. ConditionsInit => ModifiersAddUp
  <2> SUFFICES ASSUME ConditionsInit PROVE ModifiersAddUp
    OBVIOUS
  <2> USE DEF ConditionsInit
  <2>1. \A k \in Kind : Deltas(conditions)[k] = 0 BY DEF Deltas
  <2>2. /\ SumFunctionOnSet(Deltas(conditions), Speed) = 0
        /\ SumFunctionOnSet(Deltas(conditions), Attributes) = 0
    BY <2>1, KindsFinite, ConditionsAssumption, SumZero DEF Kind, Speed
  <2>3. ConditionsTypeOK
    <3>1. conditions \in [Kind -> Effect \cup {NoCondition}] OBVIOUS
    <3>2. removing \in 0 .. MaxDelayed BY ConditionsAssumption
    <3>3. adding \subseteq Kind \X Condition BY Zenon
    <3>4. varSpeed \in Int /\ varSkill \in Int OBVIOUS
    <3>5. walkDelay \in BOOLEAN /\ suppressed \in BOOLEAN OBVIOUS
    <3> QED BY <3>1, <3>2, <3>3, <3>4, <3>5 DEF ConditionsTypeOK
  <2> QED BY <2>2, <2>3 DEF ModifiersAddUp
<1>2. ModifiersAddUp /\ [ConditionsNext]_conditionVars => ModifiersAddUp'
  BY ModifiersAddUpInductive
<1> QED BY <1>1, <1>2, PTL DEF ConditionsSpec


-----------------------------------------------------------------------------
(* Lists of members *)

LEMMA EraseIs ==
  ASSUME NEW s \in Seq(Person), IsInjective(s), NEW p
  PROVE  /\ Erase(s, p) \in Seq(Person) /\ IsInjective(Erase(s, p))
         /\ Range(Erase(s, p)) = Range(s) \ {p}
<1>1. CASE p \notin Range(s) BY <1>1 DEF Erase
<1>2. CASE p \in Range(s)
  <2> DEFINE i == CHOOSE j \in DOMAIN s :
                    s[j] = p /\ \A k \in 1 .. j - 1 : s[k] # p
             e == SubSeq(s, 1, i - 1) \o SubSeq(s, i + 1, Len(s))
  <2>1. PICK j \in DOMAIN s : s[j] = p BY <1>2 DEF Range
  <2>2. \A k \in DOMAIN s : s[k] = p => k = j BY <2>1 DEF IsInjective
  <2>3. DOMAIN s = 1 .. Len(s) /\ Len(s) \in Nat OBVIOUS
  <2>4. \A k \in 1 .. j - 1 : s[k] # p BY <2>2, <2>3
  <2>5. i \in DOMAIN s /\ s[i] = p BY <2>1, <2>4
  <2>6. i = j BY <2>2, <2>5
  <2>7. Erase(s, p) = e BY <1>2 DEF Erase
  <2> HIDE DEF i
  <2>8. /\ e \in Seq(Person) /\ Len(e) = Len(s) - 1
        /\ \A k \in 1 .. Len(e) : e[k] = IF k < i THEN s[k] ELSE s[k + 1]
    <3> DEFINE a == SubSeq(s, 1, i - 1)
               b == SubSeq(s, i + 1, Len(s))
    <3>1. /\ i - 1 \in Int /\ i + 1 \in Int /\ Len(s) \in Int
          /\ \A k \in 1 .. i - 1 : s[k] \in Person
          /\ \A k \in i + 1 .. Len(s) : s[k] \in Person
      BY <2>3, <2>5
    <3>2. /\ a \in Seq(Person)
          /\ Len(a) = IF 1 <= i - 1 THEN i - 1 - 1 + 1 ELSE 0
          /\ \A k \in 1 .. i - 1 - 1 + 1 : a[k] = s[1 + k - 1]
      BY <3>1, SubSeqProperties
    <3>3. /\ b \in Seq(Person)
          /\ Len(b) = IF i + 1 <= Len(s) THEN Len(s) - (i + 1) + 1 ELSE 0
          /\ \A k \in 1 .. Len(s) - (i + 1) + 1 : b[k] = s[i + 1 + k - 1]
      BY <3>1, SubSeqProperties
    <3> HIDE DEF a, b
    <3>4. /\ a \o b \in Seq(Person) /\ Len(a \o b) = Len(a) + Len(b)
          /\ \A k \in 1 .. Len(a) + Len(b) :
               (a \o b)[k] = IF k <= Len(a) THEN a[k] ELSE b[k - Len(a)]
      BY <3>2, <3>3, ConcatProperties
    <3>5. e = a \o b BY DEF a, b
    <3> HIDE DEF e
    <3>6. Len(a) = i - 1 /\ Len(b) = Len(s) - i BY <2>3, <2>5, <3>2, <3>3
    <3>7. \A k \in 1 .. i - 1 : a[k] = s[k] BY <2>3, <2>5, <3>2
    <3>8. \A k \in 1 .. Len(s) - i : b[k] = s[i + k]
      BY <2>3, <2>5, <3>3
    <3>9. /\ e \in Seq(Person) /\ Len(e) = Len(s) - 1
          /\ \A k \in 1 .. Len(e) :
               e[k] = IF k <= i - 1 THEN a[k] ELSE b[k - (i - 1)]
      <4>1. Len(a) + Len(b) = Len(s) - 1 BY <2>3, <2>5, <3>6
      <4>2. e \in Seq(Person) /\ Len(e) = Len(s) - 1 BY <3>4, <3>5, <4>1
      <4> QED BY <3>4, <3>5, <3>6, <4>1, <4>2
    <3>10. ASSUME NEW k \in 1 .. Len(e)
           PROVE  e[k] = IF k < i THEN s[k] ELSE s[k + 1]
      <4>1. CASE k < i
        <5>1. k <= i - 1 /\ k \in 1 .. i - 1 BY <2>3, <2>5, <3>9, <4>1
        <5> QED BY <3>7, <3>9, <4>1, <5>1
      <4>2. CASE ~ k < i
        <5>1. k - (i - 1) \in 1 .. Len(s) - i BY <2>3, <2>5, <3>9, <4>2
        <5>2. i + (k - (i - 1)) = k + 1 BY <2>3, <2>5
        <5>3. ~ k <= i - 1 BY <2>3, <2>5, <4>2
        <5>4. b[k - (i - 1)] = s[k + 1] BY <3>8, <5>1, <5>2
        <5> QED BY <3>9, <4>2, <5>3, <5>4
      <4> QED BY <4>1, <4>2
    <3> QED BY <3>9, <3>10
  <2> HIDE DEF e
  <2>9. DOMAIN e = 1 .. Len(e) BY <2>8
  <2>10. IsInjective(e)
    <3> SUFFICES ASSUME NEW a \in 1 .. Len(e), NEW b \in 1 .. Len(e),
                        e[a] = e[b]
                 PROVE  a = b
      BY <2>9 DEF IsInjective
    <3> DEFINE up(k) == IF k < i THEN k ELSE k + 1
    <3>1. /\ up(a) \in DOMAIN s /\ up(b) \in DOMAIN s
          /\ e[a] = s[up(a)] /\ e[b] = s[up(b)]
      BY <2>3, <2>5, <2>8
    <3>2. up(a) = up(b) BY <3>1 DEF IsInjective
    <3> QED BY <2>3, <2>5, <2>8, <3>2
  <2>11. ASSUME NEW x \in Range(e) PROVE x \in Range(s) \ {p}
    <3>1. PICK a \in 1 .. Len(e) : e[a] = x BY <2>9, <2>11 DEF Range
    <3>2. CASE a < i
      <4>1. a \in DOMAIN s /\ s[a] = x BY <2>3, <2>5, <2>8, <3>1, <3>2
      <4> QED BY <2>2, <2>6, <3>2, <4>1 DEF Range
    <3>3. CASE ~ a < i
      <4>1. a + 1 \in DOMAIN s /\ s[a + 1] = x
        BY <2>3, <2>5, <2>8, <3>1, <3>3
      <4>2. a + 1 # i BY <2>3, <2>5, <2>8, <3>1, <3>3
      <4> QED BY <2>2, <2>6, <4>1, <4>2 DEF Range
    <3> QED BY <3>2, <3>3
  <2>12. ASSUME NEW x \in Range(s) \ {p} PROVE x \in Range(e)
    <3>1. PICK a \in DOMAIN s : s[a] = x BY <2>12 DEF Range
    <3>2. a # i BY <2>5, <2>12, <3>1
    <3>3. CASE a < i
      <4>1. a \in 1 .. Len(e) /\ e[a] = x
        BY <2>3, <2>5, <2>8, <3>1, <3>3
      <4> QED BY <2>9, <4>1 DEF Range
    <3>4. CASE ~ a < i
      <4>1. a - 1 \in 1 .. Len(e) /\ e[a - 1] = x
        BY <2>3, <2>5, <2>8, <3>1, <3>2, <3>4
      <4> QED BY <2>9, <4>1 DEF Range
    <3> QED BY <3>3, <3>4
  <2> QED BY <2>7, <2>8, <2>10, <2>11, <2>12
<1> QED BY <1>1, <1>2

LEMMA FirstIs ==
  ASSUME NEW x \in Person \cup {Nobody}, NEW s \in Seq(Person)
  PROVE  /\ <<x>> \o s \in Seq(Person \cup {Nobody})
         /\ x \in Person => <<x>> \o s \in Seq(Person)
         /\ Range(<<x>> \o s) = {x} \cup Range(s)
         /\ IsInjective(<<x>> \o s) <=> IsInjective(s) /\ x \notin Range(s)
<1> DEFINE t == <<x>> \o s
<1>1. /\ t \in Seq(Person \cup {Nobody}) /\ Len(t) = Len(s) + 1 /\ t[1] = x
      /\ Len(s) \in Nat
      /\ x \in Person => t \in Seq(Person)
      /\ \A k \in 1 .. Len(s) : t[k + 1] = s[k]
  OBVIOUS
<1>2. DOMAIN s = 1 .. Len(s) /\ DOMAIN t = 1 .. Len(s) + 1 BY <1>1
<1> HIDE DEF t
<1>3. \A k \in 2 .. Len(s) + 1 : k - 1 \in 1 .. Len(s) /\ t[k] = s[k - 1]
  BY <1>1
<1>4. \A k \in 1 .. Len(s) : k + 1 \in 2 .. Len(s) + 1 BY <1>1
<1>5. 1 .. Len(s) + 1 = {1} \cup 2 .. Len(s) + 1 BY <1>1
<1>6. Range(t) = {x} \cup Range(s)
  <2>1. ASSUME NEW k \in DOMAIN t PROVE t[k] = x \/ t[k] \in Range(s)
    BY <1>1, <1>2, <1>3, <1>5 DEF Range
  <2>2. x \in Range(t) BY <1>1, <1>2 DEF Range
  <2>3. ASSUME NEW k \in DOMAIN s PROVE s[k] \in Range(t)
    BY <1>1, <1>2 DEF Range
  <2> QED BY <2>1, <2>2, <2>3 DEF Range
<1>7. ASSUME IsInjective(t) PROVE IsInjective(s) /\ x \notin Range(s)
  <2>1. IsInjective(s) BY <1>1, <1>2, <1>4, <1>7 DEF IsInjective
  <2>2. ASSUME NEW k \in 1 .. Len(s), s[k] = x PROVE FALSE
    <3>1. k + 1 \in DOMAIN t /\ 1 \in DOMAIN t BY <1>1, <1>2
    <3>2. t[k + 1] = t[1] BY <1>1, <2>2
    <3> QED BY <1>7, <3>1, <3>2 DEF IsInjective
  <2> QED BY <1>2, <2>1, <2>2 DEF Range
<1>8. ASSUME IsInjective(s), x \notin Range(s) PROVE IsInjective(t)
  <2> SUFFICES ASSUME NEW a \in DOMAIN t, NEW b \in DOMAIN t, t[a] = t[b]
               PROVE  a = b
    BY DEF IsInjective
  <2>1. \A k \in 2 .. Len(s) + 1 : t[k] # x
    BY <1>2, <1>3, <1>8 DEF Range
  <2>2. CASE a = 1 BY <1>1, <1>2, <1>5, <2>1, <2>2
  <2>3. CASE b = 1 BY <1>1, <1>2, <1>5, <2>1, <2>3
  <2>4. CASE a # 1 /\ b # 1
    <3>1. a - 1 \in DOMAIN s /\ b - 1 \in DOMAIN s /\ s[a - 1] = s[b - 1]
      BY <1>2, <1>3, <1>5, <2>4
    <3>2. a - 1 = b - 1 BY <1>8, <3>1 DEF IsInjective
    <3> QED BY <1>1, <1>2, <3>2
  <2> QED BY <2>2, <2>3, <2>4
<1> QED BY <1>1, <1>6, <1>7, <1>8 DEF t

LEMMA LastIs ==
  ASSUME NEW s \in Seq(Person), NEW p \in Person \ Range(s), IsInjective(s)
  PROVE  /\ Append(s, p) \in Seq(Person) /\ IsInjective(Append(s, p))
         /\ Range(Append(s, p)) = Range(s) \cup {p}
<1> DEFINE t == Append(s, p)
<1>1. /\ t \in Seq(Person) /\ Len(t) = Len(s) + 1 /\ t[Len(s) + 1] = p
      /\ Len(s) \in Nat /\ \A k \in 1 .. Len(s) : t[k] = s[k]
  OBVIOUS
<1>2. DOMAIN s = 1 .. Len(s) /\ DOMAIN t = 1 .. Len(s) + 1 BY <1>1
<1>3. 1 .. Len(s) + 1 = 1 .. Len(s) \cup {Len(s) + 1} BY <1>1
<1> HIDE DEF t
<1>4. Range(t) = Range(s) \cup {p} BY <1>1, <1>2, <1>3 DEF Range
<1>5. \A k \in DOMAIN s : s[k] # p BY DEF Range
<1>6. IsInjective(t) BY <1>1, <1>2, <1>3, <1>5 DEF IsInjective
<1> QED BY <1>1, <1>4, <1>6 DEF t

-----------------------------------------------------------------------------
(* What the calls of a request make of the parties *)

PartyAt ==
  [leader : Person \cup {Nobody}, members : Seq(Person),
   invites : SUBSET Person]

Parties ==
  [at : [PartyId -> PartyAt], of : [Person -> PartyId \cup {Nobody}],
   by : [Person -> SUBSET PartyId]]

With(r) == {r.leader} \cup Range(r.members)

(* Every member is in it once.                                             *)
Formed(r) ==
  IF r.leader = Nobody THEN r = NoParty
  ELSE IsInjective(r.members) /\ r.leader \notin Range(r.members)

(* The invited, and what the others point to, except at the address not.   *)
Points(s, not) ==
  \A p \in Person, pt \in PartyId :
    /\ pt \in s.by[p] <=> p \in s.at[pt].invites
    /\ pt # not => (s.of[p] = pt <=> p \in With(s.at[pt]))

AllFormed(s, not) ==
  \A pt \in PartyId : pt # not =>
    /\ Formed(s.at[pt])
    /\ s.at[pt].leader # Nobody => ~ IsEmpty(s.at[pt])

Agree(s) == s \in Parties /\ AllFormed(s, Nobody) /\ Points(s, Nobody)

(* The party at pt may be empty, and is about to be disbanded then.        *)
AgreeBut(s, pt) ==
  /\ s \in Parties /\ AllFormed(s, pt) /\ Points(s, Nobody)
  /\ Formed(s.at[pt]) /\ s.at[pt].leader # Nobody

(* Nobody points to what it did not point to before.                       *)
Fewer(r, s) ==
  \A p \in Person : r.of[p] \in {s.of[p], Nobody} /\ r.by[p] \subseteq s.by[p]

(* disband takes the party from all that it knows: members may have left.  *)
LEMMA DisbandAgrees ==
  ASSUME NEW s \in Parties, NEW pt \in PartyId, AllFormed(s, pt),
         Points(s, pt),
         \A p \in Person : s.of[p] = pt => p \in With(s.at[pt]),
         \A p \in Person : p \in With(s.at[pt]) => s.of[p] \in {pt, Nobody},
         NEW r, r = disband(s, pt)
  PROVE  /\ Agree(r) /\ Fewer(r, s)
         /\ \A p \in Person : r.by[p] = s.by[p] \ {pt}
<1> DEFINE o == [p \in Person |->
                  IF p = s.at[pt].leader \/ p \in Range(s.at[pt].members)
                  THEN Nobody ELSE s.of[p]]
           b == [p \in Person |-> IF p \in s.at[pt].invites
                                  THEN s.by[p] \ {pt} ELSE s.by[p]]
           a == [s.at EXCEPT ![pt] = NoParty]
<1>1. r = [at |-> a, of |-> o, by |-> b] BY DEF disband
<1>2. o \in [Person -> PartyId \cup {Nobody}] BY DEF Parties
<1>3. b \in [Person -> SUBSET PartyId] BY DEF Parties
<1>4. NoParty \in PartyAt BY DEF NoParty, PartyAt
<1>5. /\ a \in [PartyId -> PartyAt] /\ a[pt] = NoParty
      /\ \A x \in PartyId \ {pt} : a[x] = s.at[x]
  BY <1>4 DEF Parties
<1>6. ASSUME NEW p \in Person
      PROVE  /\ p \in With(s.at[pt]) => o[p] = Nobody
             /\ p \notin With(s.at[pt]) => o[p] = s.of[p]
             /\ b[p] = s.by[p] \ {pt}
  BY DEF With, Points
<1> HIDE DEF a, o, b
<1>7. r \in Parties /\ r.at = a /\ r.of = o /\ r.by = b
  BY <1>1, <1>2, <1>3, <1>5 DEF Parties
<1>8. AllFormed(r, Nobody)
  <2>1. Formed(NoParty) /\ NoParty.leader = Nobody BY DEF Formed, NoParty
  <2> QED BY <1>5, <1>7, <2>1 DEF AllFormed
<1>9. ASSUME NEW p \in Person, NEW x \in PartyId
      PROVE  /\ x \in b[p] <=> p \in a[x].invites
             /\ o[p] = x <=> p \in With(a[x])
  <2>1. x # Nobody /\ p # Nobody BY PartyAssumption
  <2>2. CASE x = pt
    <3>1. With(a[x]) = {Nobody} /\ a[x].invites = {}
      BY <1>5, <2>2 DEF With, NoParty, Range
    <3> QED BY <1>6, <2>1, <2>2, <3>1
  <2>3. CASE x # pt
    <3>1. /\ a[x] = s.at[x] /\ (x \in s.by[p] <=> p \in s.at[x].invites)
          /\ (s.of[p] = x <=> p \in With(s.at[x]))
      BY <1>5, <2>3 DEF Points
    <3> QED BY <1>6, <2>1, <2>3, <3>1
  <2> QED BY <2>2, <2>3
<1>10. Points(r, Nobody) BY <1>7, <1>9 DEF Points
<1>11. Fewer(r, s) BY <1>6, <1>7 DEF Fewer
<1> QED BY <1>6, <1>7, <1>8, <1>10, <1>11 DEF Agree

(* No script refuses.                                                      *)
LEMMA EmptyDisbandAgrees ==
  ASSUME NEW s, NEW pt \in PartyId, AgreeBut(s, pt),
         "disband" \notin MayRefuse, NEW r, r = disbandIfEmpty(s, pt)
  PROVE  /\ Agree(r) /\ Fewer(r, s)
         /\ \A p \in Person : r.by[p] \in {s.by[p], s.by[p] \ {pt}}
<1>1. CASE IsEmpty(s.at[pt])
  <2>1. r = disband(s, pt) BY <1>1 DEF disbandIfEmpty, Refused
  <2>2. Points(s, pt) BY PartyAssumption DEF AgreeBut, Points
  <2>3. \A p \in Person : s.of[p] = pt <=> p \in With(s.at[pt])
    BY PartyAssumption DEF AgreeBut, Points
  <2>4. s \in Parties /\ AllFormed(s, pt) BY DEF AgreeBut
  <2>5. /\ Agree(r) /\ Fewer(r, s)
        /\ \A p \in Person : r.by[p] = s.by[p] \ {pt}
    BY <2>1, <2>2, <2>3, <2>4, DisbandAgrees
  <2> QED BY <2>5
<1>2. CASE ~ IsEmpty(s.at[pt])
  <2>1. r = s BY <1>2 DEF disbandIfEmpty
  <2> QED BY <1>2, <2>1 DEF AgreeBut, Agree, AllFormed, Fewer
<1> QED BY <1>1, <1>2

LEMMA RemoveInviteAgrees ==
  ASSUME NEW s, Agree(s), NEW p \in Person, NEW pt \in s.by[p],
         "disband" \notin MayRefuse, NEW r, r = removeInvite(s, pt, p)
  PROVE  Agree(r) /\ Fewer(r, s) /\ r.by[p] = s.by[p] \ {pt}
<1> DEFINE at == [s.at[pt] EXCEPT !.invites = @ \ {p}]
           t == [s EXCEPT !.at[pt].invites = @ \ {p}, !.by[p] = @ \ {pt}]
<1>1. s \in Parties /\ pt \in PartyId BY DEF Agree, Parties
<1>2. p \in s.at[pt].invites /\ s.at[pt] \in PartyAt
  BY <1>1 DEF Agree, Points, Parties
<1>3. at \in PartyAt /\ at.leader = s.at[pt].leader
      /\ at.members = s.at[pt].members /\ at.invites = s.at[pt].invites \ {p}
  BY <1>2 DEF PartyAt
<1>4. t = [s EXCEPT !.at = [s.at EXCEPT ![pt] = at],
                    !.by = [s.by EXCEPT ![p] = @ \ {pt}]]
  BY <1>1 DEF Parties
<1> HIDE DEF at
<1>5. /\ t \in Parties /\ t.of = s.of
      /\ t.at[pt] = at /\ \A x \in PartyId \ {pt} : t.at[x] = s.at[x]
      /\ t.by[p] = s.by[p] \ {pt}
      /\ \A q \in Person \ {p} : t.by[q] = s.by[q]
  BY <1>1, <1>3, <1>4 DEF Parties
<1>6. r = disbandIfEmpty(t, pt) BY DEF removeInvite
<1> HIDE DEF t
<1>7. s.at[pt].leader # Nobody
  <2>1. pt # Nobody BY <1>1, PartyAssumption
  <2>2. Formed(s.at[pt]) BY <1>1, <2>1 DEF Agree, AllFormed
  <2> QED BY <1>2, <2>2 DEF Formed, NoParty
<1>8. AgreeBut(t, pt)
  <2>1. pt # Nobody BY <1>1, PartyAssumption
  <2>2. Formed(t.at[pt]) /\ t.at[pt].leader # Nobody
    BY <1>1, <1>3, <1>5, <1>7, <2>1 DEF Agree, AllFormed, Formed
  <2>3. AllFormed(t, pt)
    BY <1>1, <1>5, PartyAssumption DEF Agree, AllFormed
  <2>4. ASSUME NEW q \in Person, NEW x \in PartyId
        PROVE  /\ x \in t.by[q] <=> q \in t.at[x].invites
               /\ t.of[q] = x <=> q \in With(t.at[x])
    <3>1. x # Nobody BY PartyAssumption
    <3>2. /\ x \in s.by[q] <=> q \in s.at[x].invites
          /\ s.of[q] = x <=> q \in With(s.at[x])
      BY <3>1 DEF Agree, Points
    <3> QED BY <1>1, <1>3, <1>5, <3>2 DEF With
  <2> QED BY <1>5, <2>2, <2>3, <2>4 DEF AgreeBut, Points
<1>9. /\ Agree(r) /\ Fewer(r, t)
      /\ \A q \in Person : r.by[q] \in {t.by[q], t.by[q] \ {pt}}
  BY <1>1, <1>6, <1>8, EmptyDisbandAgrees
<1>10. r.by[p] = s.by[p] \ {pt} BY <1>5, <1>9
<1>11. \A q \in Person : t.of[q] = s.of[q] /\ t.by[q] \subseteq s.by[q]
  BY <1>5
<1>12. Fewer(r, s)
  <2> SUFFICES ASSUME NEW q \in Person
               PROVE  /\ r.of[q] \in {s.of[q], Nobody}
                      /\ r.by[q] \subseteq s.by[q]
    BY DEF Fewer
  <2>1. r.of[q] \in {t.of[q], Nobody} /\ r.by[q] \subseteq t.by[q]
    BY <1>9 DEF Fewer
  <2> QED BY <1>11, <2>1
<1> QED BY <1>9, <1>10, <1>12

(* One after the other; what p still has is what is left.                  *)
LEMMA ClearAgrees ==
  ASSUME NEW s, Agree(s), NEW p \in Person, "disband" \notin MayRefuse,
         NEW r, r = clearPartyInvitations(s, p)
  PROVE  Agree(r) /\ Fewer(r, s) /\ r.by[p] = {}
<1> DEFINE S == s.by[p]
           fold(it) == it = [u \in SUBSET S |->
             IF u = {} THEN s
             ELSE removeInvite(it[u \ {Chosen(u)}], Chosen(u), p)]
           g == [x \in Parties \X PartyId |-> removeInvite(x[1], x[2], p)]
           it == CHOOSE f : fold(f)
           done(t, u) == Agree(t) /\ Fewer(t, s) /\ t.by[p] = S \ u
<1>1. S \in SUBSET PartyId /\ IsFiniteSet(S)
  BY FS_Subset, PartyAssumption DEF Agree, Parties
<1>2. \A u \in SUBSET S : u # {} =>
        /\ Chosen(u) \in u /\ Chosen(u) \in PartyId
        /\ u \ {Chosen(u)} \in SUBSET u /\ u \ {Chosen(u)} # u
        /\ u \ {Chosen(u)} \in SUBSET S
  <2> SUFFICES ASSUME NEW u \in SUBSET S, u # {} PROVE Chosen(u) \in u
    BY <1>1
  <2> QED BY DEF Chosen
<1>3. done(s, {}) BY DEF Fewer
<1>4. ASSUME NEW t, NEW u \in SUBSET S, u # {},
             done(t, u \ {Chosen(u)}), NEW v,
             v = removeInvite(t, Chosen(u), p)
      PROVE  done(v, u)
  <2>1. Chosen(u) \in t.by[p] BY <1>2, <1>4
  <2>2. Agree(v) /\ Fewer(v, t) /\ v.by[p] = t.by[p] \ {Chosen(u)}
    BY <1>4, <2>1, RemoveInviteAgrees
  <2>3. Fewer(v, s)
    <3> SUFFICES ASSUME NEW q \in Person
                 PROVE  /\ v.of[q] \in {s.of[q], Nobody}
                        /\ v.by[q] \subseteq s.by[q]
      BY DEF Fewer
    <3> QED BY <1>4, <2>2 DEF Fewer
  <2>4. v.by[p] = S \ u BY <1>2, <1>4, <2>2
  <2> QED BY <2>2, <2>3, <2>4
<1> HIDE DEF S
<1>5. \E f : fold(f)
  <2>1. PICK f : Folds(f, g, s, S)
    <3> HIDE DEF g
    <3> QED BY <1>1, FoldExists
  <2> DEFINE T == {u \in SUBSET S : done(f[u], u)}
  <2>2. \A t, x : t \in Parties /\ x \in PartyId =>
          g[<<t, x>>] = removeInvite(t, x, p)
    OBVIOUS
  <2>3. \A t, u : done(t, u) => t \in Parties BY DEF Agree
  <2> HIDE DEF g, done
  <2>4. ASSUME NEW u \in SUBSET S, \A w \in SUBSET u : w # u => w \in T
        PROVE  u \in T
    <3>1. CASE u = {} BY <1>3, <2>1, <3>1 DEF Folds
    <3>2. CASE u # {}
      <4>1. done(f[u \ {Chosen(u)}], u \ {Chosen(u)}) BY <1>2, <2>4, <3>2
      <4>2. f[u] = removeInvite(f[u \ {Chosen(u)}], Chosen(u), p)
        BY <1>2, <2>1, <2>2, <2>3, <3>2, <4>1 DEF Folds
      <4> QED BY <1>4, <3>2, <4>1, <4>2
    <3> QED BY <3>1, <3>2
  <2>5. T = SUBSET S
    <3>1. T \in SUBSET (SUBSET S) OBVIOUS
    <3> HIDE DEF T
    <3> QED BY <1>1, <2>4, <3>1, FiniteSetInduction
  <2>6. \A u \in SUBSET S : u # {} => f[u \ {Chosen(u)}] \in Parties
    BY <1>2, <2>3, <2>5
  <2>7. fold(f)
    <3>1. \A u \in SUBSET S : u # {} =>
            g[<<f[u \ {Chosen(u)}], Chosen(u)>>] =
              removeInvite(f[u \ {Chosen(u)}], Chosen(u), p)
      BY <1>2, <2>2, <2>6
    <3> QED BY <2>1, <3>1 DEF Folds
  <2> HIDE DEF fold
  <2> QED BY <2>7
<1>6. fold(it)
  <2> HIDE DEF fold
  <2> QED BY <1>5
<1>7. r = it[S]
  BY DEF clearPartyInvitations, FoldSet, MapThenFoldSet, Chosen, S
<1> HIDE DEF it, done
<1> DEFINE T == {u \in SUBSET S : done(it[u], u)}
<1>8. ASSUME NEW u \in SUBSET S, \A w \in SUBSET u : w # u => w \in T
      PROVE  u \in T
  <2>1. CASE u = {} BY <1>3, <1>6, <2>1
  <2>2. CASE u # {}
    <3>1. done(it[u \ {Chosen(u)}], u \ {Chosen(u)}) BY <1>2, <1>8, <2>2
    <3>2. it[u] = removeInvite(it[u \ {Chosen(u)}], Chosen(u), p)
      BY <1>6, <2>2
    <3> QED BY <1>4, <2>2, <3>1, <3>2
  <2> QED BY <2>1, <2>2
<1>9. T = SUBSET S
  <2>1. T \in SUBSET (SUBSET S) OBVIOUS
  <2> HIDE DEF T
  <2> QED BY <1>1, <1>8, <2>1, FiniteSetInduction
<1>10. done(r, S) BY <1>7, <1>9
<1> QED BY <1>10 DEF done

(* A member leaves, and with the leader its place.                         *)
LEMMA LeaveAgrees ==
  ASSUME NEW s, Agree(s), NEW p \in Person, s.of[p] # Nobody,
         "disband" \notin MayRefuse, NEW r, r = leaveParty(s, p)
  PROVE  Agree(r) /\ Fewer(r, s) /\ r.of[p] = Nobody
<1> DEFINE pt == s.of[p]
           old == s.at[pt]
           missing == /\ old.leader = p
                      /\ \/ old.members = <<>>
                         \/ Len(old.members) = 1 /\ old.invites = {}
           passed == IF old.leader = p /\ ~missing
                     THEN passPartyLeadership(old, Head(old.members)) ELSE old
           at == [passed EXCEPT !.members = Erase(@, p)]
           out == [s EXCEPT !.of[p] = Nobody, !.at[pt] = at]
<1>1. s \in Parties /\ pt \in PartyId /\ pt # Nobody /\ p # Nobody
  BY PartyAssumption DEF Agree, Parties
<1>2. old \in PartyAt /\ Formed(old) /\ p \in With(old)
  BY <1>1 DEF Agree, AllFormed, Points, Parties
<1>3. old.leader # Nobody
  BY <1>1, <1>2 DEF Formed, NoParty, With, Range
<1>4. /\ old.leader \in Person /\ old.members \in Seq(Person)
      /\ old.invites \in SUBSET Person
      /\ IsInjective(old.members) /\ old.leader \notin Range(old.members)
  BY <1>2, <1>3 DEF PartyAt, Formed
<1>5. r = IF missing /\ ~Refused("disband") THEN disband(out, pt)
          ELSE disbandIfEmpty(out, pt)
  BY DEF leaveParty
<1> HIDE DEF pt, missing
<1>6. /\ passed \in PartyAt /\ passed.invites = old.invites
      /\ IsInjective(passed.members) /\ passed.leader # Nobody
      /\ passed.leader \notin Range(passed.members)
      /\ With(passed) = With(old)
      /\ passed.leader = p => missing
      /\ missing => passed.leader = p
  <2>1. CASE old.leader = p /\ ~missing
    <3> DEFINE h == Head(old.members)
               e == Erase(old.members, h)
               m == <<p>> \o e
    <3>1. old.members # <<>> BY <2>1 DEF missing
    <3>2. h \in Range(old.members) /\ h \in Person
      BY <1>4, <3>1 DEF Range
    <3>3. /\ e \in Seq(Person) /\ IsInjective(e)
          /\ Range(e) = Range(old.members) \ {h}
      BY <1>4, EraseIs
    <3> HIDE DEF h, e
    <3>4. /\ m \in Seq(Person) /\ Range(m) = {p} \cup Range(e)
          /\ IsInjective(m)
      BY <1>4, <2>1, <3>3, FirstIs
    <3>5. passed = [old EXCEPT !.leader = h, !.members = m]
      BY <2>1 DEF passPartyLeadership, h, e
    <3> HIDE DEF m, passed
    <3>6. /\ passed \in PartyAt /\ passed.leader = h /\ passed.members = m
          /\ passed.invites = old.invites
      BY <1>2, <3>2, <3>4, <3>5 DEF PartyAt
    <3>7. h # p BY <1>4, <2>1, <3>2
    <3>8. With(passed) = With(old)
      BY <1>4, <2>1, <3>2, <3>3, <3>4, <3>6 DEF With
    <3> QED BY <1>4, <2>1, <3>2, <3>3, <3>4, <3>6, <3>7, <3>8, PartyAssumption
  <2>2. CASE ~ (old.leader = p /\ ~missing)
    BY <1>2, <1>3, <1>4, <2>2 DEF missing
  <2> QED BY <2>1, <2>2
<1> HIDE DEF passed
<1>7. passed.members \in Seq(Person) BY <1>6 DEF PartyAt
<1>8. /\ at \in PartyAt /\ at.leader = passed.leader
      /\ at.invites = old.invites /\ at.members = Erase(passed.members, p)
      /\ IsInjective(at.members)
      /\ Range(at.members) = Range(passed.members) \ {p}
  BY <1>6, <1>7, EraseIs DEF PartyAt
<1> HIDE DEF at
<1>9. /\ out \in Parties /\ out.by = s.by /\ out.of[p] = Nobody
      /\ \A q \in Person \ {p} : out.of[q] = s.of[q]
      /\ out.at[pt] = at /\ \A x \in PartyId \ {pt} : out.at[x] = s.at[x]
  BY <1>1, <1>8 DEF Parties
<1> HIDE DEF out
<1>10. AllFormed(out, pt)
  BY <1>9, PartyAssumption DEF Agree, AllFormed
<1>11. \A q \in Person : /\ s.of[q] = pt <=> q \in With(old)
                         /\ pt \in s.by[q] <=> q \in old.invites
  BY <1>1 DEF Agree, Points, pt
<1>12. ASSUME NEW q \in Person, NEW x \in PartyId \ {pt}
       PROVE  /\ x \in out.by[q] <=> q \in out.at[x].invites
              /\ out.of[q] = x <=> q \in With(out.at[x])
  <2>1. x # Nobody BY PartyAssumption
  <2>2. /\ x \in s.by[q] <=> q \in s.at[x].invites
        /\ s.of[q] = x <=> q \in With(s.at[x])
    BY <2>1 DEF Agree, Points
  <2>3. q = p => s.of[q] # x BY DEF pt
  <2> QED BY <1>9, <2>1, <2>2, <2>3
<1>13. \A q \in Person : pt \in out.by[q] <=> q \in at.invites
  BY <1>8, <1>9, <1>11
<1>14. Fewer(out, s) BY <1>9 DEF Fewer
<1>15. Agree(r) /\ Fewer(r, out)
  <2>1. CASE missing
    <3>1. r = disband(out, pt) BY <1>5, <2>1 DEF Refused
    <3>2. With(at) = With(old) BY <1>6, <1>8, <2>1 DEF With
    <3>3. Points(out, pt) BY <1>9, <1>12, <1>13 DEF Points
    <3>4. \A q \in Person : out.of[q] = pt => q \in With(out.at[pt])
      BY <1>1, <1>9, <1>11, <3>2
    <3>5. \A q \in Person :
            q \in With(out.at[pt]) => out.of[q] \in {pt, Nobody}
      BY <1>9, <1>11, <3>2
    <3> QED BY <1>1, <1>9, <1>10, <3>1, <3>3, <3>4, <3>5, DisbandAgrees
  <2>2. CASE ~missing
    <3>1. r = disbandIfEmpty(out, pt) BY <1>5, <2>2
    <3>2. With(at) = With(old) \ {p} BY <1>6, <1>8, <2>2 DEF With
    <3>3. \A q \in Person : out.of[q] = pt <=> q \in With(at)
      BY <1>1, <1>9, <1>11, <3>2
    <3>4. Points(out, Nobody) BY <1>9, <1>12, <1>13, <3>3 DEF Points
    <3>5. Formed(at) /\ at.leader # Nobody BY <1>6, <1>8 DEF Formed
    <3>6. AgreeBut(out, pt) BY <1>9, <1>10, <3>4, <3>5 DEF AgreeBut
    <3> QED BY <1>1, <3>1, <3>6, EmptyDisbandAgrees
  <2> QED BY <2>1, <2>2
<1>16. Fewer(r, s)
  <2> SUFFICES ASSUME NEW q \in Person
               PROVE  /\ r.of[q] \in {s.of[q], Nobody}
                      /\ r.by[q] \subseteq s.by[q]
    BY DEF Fewer
  <2>1. r.of[q] \in {out.of[q], Nobody} /\ r.by[q] \subseteq out.by[q]
    BY <1>15 DEF Fewer
  <2>2. out.of[q] \in {s.of[q], Nobody} /\ out.by[q] \subseteq s.by[q]
    BY <1>14 DEF Fewer
  <2> QED BY <2>1, <2>2
<1>17. r.of[p] = Nobody BY <1>9, <1>15 DEF Fewer
<1> QED BY <1>15, <1>16, <1>17

-----------------------------------------------------------------------------
(* The requests *)

(* Who is not online has no party and no invitation.                       *)
PartiesIInv ==
  /\ Agree(PartiesNow) /\ online \subseteq Person
  /\ \A p \in Person \ online : party[p] = Nobody /\ invitePartyList[p] = {}

LEMMA PartiesNowIs ==
  /\ PartiesNow.at = parties /\ PartiesNow.of = party
  /\ PartiesNow.by = invitePartyList
BY DEF PartiesNow

LEMMA BecomesParties ==
  ASSUME NEW s \in Parties, BecomeParties(s)
  PROVE  PartiesNow' = s
BY DEF PartiesNow, BecomeParties, Parties

LEMMA BecomesFewer ==
  ASSUME PartiesIInv, NEW s, Agree(s), Fewer(s, PartiesNow), BecomeParties(s),
         online' \subseteq online,
         \A p \in online \ online' : s.of[p] = Nobody /\ s.by[p] = {}
  PROVE  PartiesIInv'
<1>1. PartiesNow' = s BY BecomesParties DEF Agree
<1>2. party' = s.of /\ invitePartyList' = s.by BY DEF BecomeParties
<1>3. ASSUME NEW p \in Person \ online'
      PROVE  s.of[p] = Nobody /\ s.by[p] = {}
  <2>1. CASE p \in online BY <1>3, <2>1
  <2>2. CASE p \notin online
    BY <1>3, <2>2, PartiesNowIs DEF PartiesIInv, Fewer
  <2> QED BY <2>1, <2>2
<1> QED BY <1>1, <1>2, <1>3 DEF PartiesIInv

LEMMA LogOutKeeps ==
  ASSUME PartiesIInv, MayRefuse \cap {"leave", "disband"} = {},
         NEW p \in Person, LogOut(p)
  PROVE  PartiesIInv'
<1> DEFINE s == clearPartyInvitations(PartiesNow, p)
           t == IF s.of[p] = Nobody \/ Refused("leave") THEN s
                ELSE leaveParty(s, p)
<1>1. Agree(s) /\ Fewer(s, PartiesNow) /\ s.by[p] = {}
  <2>1. s = clearPartyInvitations(PartiesNow, p) OBVIOUS
  <2> HIDE DEF s
  <2> QED BY <2>1, ClearAgrees DEF PartiesIInv
<1>2. online' = online \ {p} /\ BecomeParties(t) BY DEF LogOut
<1> HIDE DEF s
<1>3. Agree(t) /\ Fewer(t, s) /\ t.of[p] = Nobody
  <2>1. CASE s.of[p] = Nobody BY <1>1, <2>1 DEF Fewer
  <2>2. CASE s.of[p] # Nobody
    <3>1. t = leaveParty(s, p) BY <2>2 DEF Refused
    <3> HIDE DEF t
    <3> QED BY <1>1, <2>2, <3>1, LeaveAgrees
  <2> QED BY <2>1, <2>2
<1> HIDE DEF t
<1>4. Fewer(t, PartiesNow)
  <2> SUFFICES ASSUME NEW q \in Person
               PROVE  /\ t.of[q] \in {PartiesNow.of[q], Nobody}
                      /\ t.by[q] \subseteq PartiesNow.by[q]
    BY DEF Fewer
  <2> QED BY <1>1, <1>3 DEF Fewer
<1>5. t.by[p] = {} BY <1>1, <1>3 DEF Fewer
<1> QED BY <1>2, <1>3, <1>4, <1>5, BecomesFewer

LEMMA InviteKeeps ==
  ASSUME PartiesIInv, NEW p \in Person, NEW q \in Person,
         playerInviteToParty(p, q)
  PROVE  PartiesIInv'
<1>1. PICK pt \in PartyId :
        /\ IF party[p] = Nobody THEN parties[pt] = NoParty
           ELSE pt = party[p] /\ parties[pt].leader = p
        /\ BecomeParties(
             [at |-> [parties EXCEPT ![pt].leader = p,
                                     ![pt].invites = @ \cup {q}],
              of |-> [party EXCEPT ![p] = pt],
              by |-> [invitePartyList EXCEPT ![q] = @ \cup {pt}]])
  BY DEF playerInviteToParty
<1> DEFINE a == [parties[pt] EXCEPT !.leader = p, !.invites = @ \cup {q}]
           s == [at |-> [parties EXCEPT ![pt] = a],
                 of |-> [party EXCEPT ![p] = pt],
                 by |-> [invitePartyList EXCEPT ![q] = @ \cup {pt}]]
<1>2. /\ parties \in [PartyId -> PartyAt]
      /\ party \in [Person -> PartyId \cup {Nobody}]
      /\ invitePartyList \in [Person -> SUBSET PartyId]
  BY PartiesNowIs DEF PartiesIInv, Agree, Parties
<1>3. /\ a \in PartyAt /\ a.leader = p
      /\ a.invites = parties[pt].invites \cup {q}
      /\ a.members = parties[pt].members
  BY <1>2 DEF PartyAt
<1>4. BecomeParties(s)
  <2>1. [parties EXCEPT ![pt].leader = p, ![pt].invites = @ \cup {q}] =
          [parties EXCEPT ![pt] = a]
    BY <1>2 DEF PartyAt
  <2> HIDE DEF a
  <2> QED BY <1>1, <2>1
<1> HIDE DEF a
<1>5. /\ s \in Parties /\ s.of[p] = pt /\ s.at[pt] = a
      /\ s.by[q] = invitePartyList[q] \cup {pt}
      /\ \A x \in Person \ {p} : s.of[x] = party[x]
      /\ \A x \in Person \ {q} : s.by[x] = invitePartyList[x]
      /\ \A x \in PartyId \ {pt} : s.at[x] = parties[x]
  BY <1>2, <1>3 DEF Parties
<1> HIDE DEF s
<1>6. \A x \in PartyId :
        /\ Formed(parties[x])
        /\ parties[x].leader # Nobody => ~IsEmpty(parties[x])
        /\ \A y \in Person : /\ x \in invitePartyList[y] <=>
                                  y \in parties[x].invites
                             /\ party[y] = x <=> y \in With(parties[x])
  BY PartiesNowIs, PartyAssumption
  DEF PartiesIInv, Agree, AllFormed, Points
<1>7. p # Nobody /\ pt # Nobody BY PartyAssumption
<1>8. /\ Formed(a) /\ ~IsEmpty(a)
      /\ \A y \in Person : y \in With(a) <=> y = p \/ y \in With(parties[pt])
      /\ \A x \in PartyId : party[p] = x => x = pt
  <2>1. CASE party[p] = Nobody
    <3>1. a.members = <<>> /\ parties[pt].invites = {}
          /\ With(parties[pt]) = {Nobody}
      BY <1>1, <1>3, <2>1 DEF NoParty, With, Range
    <3>2. With(a) = {p} BY <1>3, <3>1 DEF With, Range
    <3>3. Formed(a) /\ ~IsEmpty(a)
      BY <1>3, <1>7, <3>1 DEF Formed, IsEmpty, Range, IsInjective
    <3> QED BY <2>1, <3>1, <3>2, <3>3, PartyAssumption
  <2>2. CASE party[p] # Nobody
    <3>1. pt = party[p] /\ parties[pt].leader = p BY <1>1, <2>2
    <3>2. With(a) = With(parties[pt]) BY <1>3, <3>1 DEF With
    <3>3. Formed(a) BY <1>3, <1>6, <1>7, <3>1 DEF Formed
    <3>4. ~IsEmpty(a) BY <1>3 DEF IsEmpty
    <3>5. p \in With(a) BY <1>3 DEF With
    <3> QED BY <3>1, <3>2, <3>3, <3>4, <3>5
  <2> QED BY <2>1, <2>2
<1>9. AllFormed(s, Nobody) BY <1>5, <1>6, <1>8 DEF AllFormed
<1>10. ASSUME NEW y \in Person, NEW x \in PartyId
       PROVE  /\ x \in s.by[y] <=> y \in s.at[x].invites
              /\ s.of[y] = x <=> y \in With(s.at[x])
  <2>1. CASE x = pt BY <1>3, <1>5, <1>6, <1>8, <2>1
  <2>2. CASE x # pt BY <1>5, <1>6, <1>8, <2>2
  <2> QED BY <2>1, <2>2
<1>11. Agree(s) BY <1>5, <1>9, <1>10 DEF Agree, Points
<1>12. PartiesNow' = s BY <1>4, <1>5, BecomesParties
<1>13. online' = online /\ p \in online /\ q \in online
  BY DEF playerInviteToParty
<1>14. \A x \in Person \ online : s.of[x] = Nobody /\ s.by[x] = {}
  BY <1>5, <1>13 DEF PartiesIInv
<1> QED BY <1>4, <1>11, <1>12, <1>13, <1>14 DEF PartiesIInv, BecomeParties

LEMMA JoinKeeps ==
  ASSUME PartiesIInv, NEW p \in Person, NEW q \in Person,
         playerJoinParty(p, q)
  PROVE  PartiesIInv'
<1> DEFINE pt == party[q]
           a == [parties[pt] EXCEPT !.invites = @ \ {p},
                                    !.members = Append(@, p)]
           s == [at |-> [parties EXCEPT ![pt] = a],
                 of |-> [party EXCEPT ![p] = pt],
                 by |-> [invitePartyList EXCEPT ![p] = @ \ {pt}]]
<1>1. /\ parties \in [PartyId -> PartyAt]
      /\ party \in [Person -> PartyId \cup {Nobody}]
      /\ invitePartyList \in [Person -> SUBSET PartyId]
  BY PartiesNowIs DEF PartiesIInv, Agree, Parties
<1>2. /\ pt \in PartyId /\ p \in parties[pt].invites /\ party[p] = Nobody
      /\ parties[pt].leader = q /\ p \in online /\ online' = online
  BY <1>1 DEF playerJoinParty, isInviting
<1>3. \A x \in PartyId :
        /\ Formed(parties[x])
        /\ parties[x].leader # Nobody => ~IsEmpty(parties[x])
        /\ \A y \in Person : /\ x \in invitePartyList[y] <=>
                                  y \in parties[x].invites
                             /\ party[y] = x <=> y \in With(parties[x])
  BY PartiesNowIs, PartyAssumption
  DEF PartiesIInv, Agree, AllFormed, Points
<1>4. BecomeParties(s)
  <2>1. [parties EXCEPT ![pt].invites = @ \ {p},
                        ![pt].members = Append(@, p)] =
          [parties EXCEPT ![pt] = a]
    BY <1>1, <1>2 DEF PartyAt
  <2> HIDE DEF a
  <2> QED BY <2>1 DEF playerJoinParty
<1> HIDE DEF pt
<1>5. p # Nobody /\ q # Nobody /\ pt # Nobody BY <1>2, PartyAssumption
<1>6. p \notin With(parties[pt]) BY <1>2, <1>3, <1>5
<1>7. /\ parties[pt].members \in Seq(Person)
      /\ IsInjective(parties[pt].members)
      /\ p \notin Range(parties[pt].members) /\ p # q
      /\ q \notin Range(parties[pt].members)
  BY <1>1, <1>2, <1>3, <1>5, <1>6 DEF PartyAt, Formed, With
<1>8. /\ a \in PartyAt /\ a.leader = q
      /\ a.invites = parties[pt].invites \ {p}
      /\ a.members = Append(parties[pt].members, p)
  <2>1. parties[pt] \in PartyAt BY <1>1, <1>2
  <2>2. Append(parties[pt].members, p) \in Seq(Person) BY <1>7
  <2>3. parties[pt].invites \ {p} \in SUBSET Person BY <2>1 DEF PartyAt
  <2> QED BY <1>2, <2>1, <2>2, <2>3 DEF PartyAt
<1> HIDE DEF a
<1>9. /\ IsInjective(a.members) /\ a.members # <<>>
      /\ Range(a.members) = Range(parties[pt].members) \cup {p}
  <2>1. p \in Person \ Range(parties[pt].members) BY <1>7
  <2>2. a.members # <<>> BY <1>7, <1>8
  <2> QED BY <1>7, <1>8, <2>1, <2>2, LastIs
<1>10. Formed(a) /\ ~IsEmpty(a) BY <1>5, <1>7, <1>8, <1>9 DEF Formed, IsEmpty
<1>11. With(a) = With(parties[pt]) \cup {p} BY <1>2, <1>8, <1>9 DEF With
<1>12. /\ s \in Parties /\ s.of[p] = pt /\ s.at[pt] = a
       /\ s.by[p] = invitePartyList[p] \ {pt}
       /\ \A x \in Person \ {p} : s.of[x] = party[x]
                                  /\ s.by[x] = invitePartyList[x]
       /\ \A x \in PartyId \ {pt} : s.at[x] = parties[x]
  BY <1>1, <1>2, <1>8 DEF Parties
<1> HIDE DEF s
<1>13. AllFormed(s, Nobody) BY <1>3, <1>10, <1>12 DEF AllFormed
<1>14. ASSUME NEW y \in Person, NEW x \in PartyId
       PROVE  /\ x \in s.by[y] <=> y \in s.at[x].invites
              /\ s.of[y] = x <=> y \in With(s.at[x])
  <2>1. x # Nobody BY PartyAssumption
  <2>2. CASE x = pt BY <1>3, <1>8, <1>11, <1>12, <2>2
  <2>3. CASE x # pt BY <1>2, <1>3, <1>12, <2>1, <2>3
  <2> QED BY <2>2, <2>3
<1>15. Agree(s) BY <1>12, <1>13, <1>14 DEF Agree, Points
<1>16. PartiesNow' = s BY <1>4, <1>12, BecomesParties
<1>17. \A x \in Person \ online : s.of[x] = Nobody /\ s.by[x] = {}
  BY <1>2, <1>12 DEF PartiesIInv
<1> QED BY <1>2, <1>4, <1>15, <1>16, <1>17 DEF PartiesIInv, BecomeParties

LEMMA PassKeeps ==
  ASSUME PartiesIInv, NEW p \in Person, NEW q \in Person,
         playerPassPartyLeadership(p, q)
  PROVE  PartiesIInv'
<1> DEFINE pt == party[p]
           old == parties[pt]
           e == Erase(old.members, q)
           a == passPartyLeadership(old, q)
           s == [at |-> [parties EXCEPT ![pt] = a],
                 of |-> party, by |-> invitePartyList]
<1>1. /\ parties \in [PartyId -> PartyAt]
      /\ party \in [Person -> PartyId \cup {Nobody}]
      /\ invitePartyList \in [Person -> SUBSET PartyId]
  BY PartiesNowIs DEF PartiesIInv, Agree, Parties
<1>2. /\ pt \in PartyId /\ old.leader = p /\ party[q] = pt /\ p # q
      /\ online' = online /\ parties' = [parties EXCEPT ![pt] = a]
      /\ party' = party /\ invitePartyList' = invitePartyList
  BY <1>1 DEF playerPassPartyLeadership, Leads
<1>3. \A x \in PartyId :
        /\ Formed(parties[x])
        /\ parties[x].leader # Nobody => ~IsEmpty(parties[x])
        /\ \A y \in Person : /\ x \in invitePartyList[y] <=>
                                  y \in parties[x].invites
                             /\ party[y] = x <=> y \in With(parties[x])
  BY PartiesNowIs, PartyAssumption
  DEF PartiesIInv, Agree, AllFormed, Points
<1>4. p # Nobody /\ q # Nobody BY PartyAssumption
<1>5. old \in PartyAt BY <1>1, <1>2
<1>6. q \in With(old) BY <1>2, <1>3
<1> HIDE DEF pt
<1>7. /\ old.members \in Seq(Person) /\ IsInjective(old.members)
      /\ q \in Range(old.members) /\ p \notin Range(old.members)
  BY <1>2, <1>3, <1>4, <1>5, <1>6 DEF PartyAt, Formed, With
<1>8. /\ e \in Seq(Person) /\ IsInjective(e)
      /\ Range(e) = Range(old.members) \ {q}
  BY <1>7, EraseIs
<1>9. a = [old EXCEPT !.leader = q, !.members = <<p>> \o e]
  BY <1>2 DEF passPartyLeadership
<1> HIDE DEF e, a
<1>10. /\ <<p>> \o e \in Seq(Person) /\ Range(<<p>> \o e) = {p} \cup Range(e)
       /\ IsInjective(<<p>> \o e) /\ <<p>> \o e # <<>>
  <2>1. <<p>> \o e # <<>> BY <1>8
  <2> QED BY <1>7, <1>8, <2>1, FirstIs
<1>11. /\ a \in PartyAt /\ a.leader = q /\ a.members = <<p>> \o e
       /\ a.invites = old.invites
  BY <1>5, <1>9, <1>10 DEF PartyAt
<1>12. Formed(a) /\ ~IsEmpty(a)
  BY <1>2, <1>4, <1>8, <1>10, <1>11 DEF Formed, IsEmpty
<1>13. With(a) = With(old) BY <1>2, <1>7, <1>8, <1>10, <1>11 DEF With
<1>14. /\ s \in Parties /\ s.of = party /\ s.by = invitePartyList
       /\ s.at[pt] = a /\ \A x \in PartyId \ {pt} : s.at[x] = parties[x]
  BY <1>1, <1>2, <1>11 DEF Parties
<1>15. BecomeParties(s) BY <1>2 DEF BecomeParties
<1> HIDE DEF s
<1>16. AllFormed(s, Nobody) BY <1>3, <1>12, <1>14 DEF AllFormed
<1>17. Points(s, Nobody)
  <2> SUFFICES ASSUME NEW y \in Person, NEW x \in PartyId
               PROVE  /\ x \in s.by[y] <=> y \in s.at[x].invites
                      /\ s.of[y] = x <=> y \in With(s.at[x])
    BY DEF Points
  <2>1. CASE x = pt BY <1>3, <1>11, <1>13, <1>14, <2>1
  <2>2. CASE x # pt BY <1>3, <1>14, <2>2
  <2> QED BY <2>1, <2>2
<1>18. Agree(s) BY <1>14, <1>16, <1>17 DEF Agree
<1>19. PartiesNow' = s BY <1>14, <1>15, BecomesParties
<1> QED BY <1>2, <1>18, <1>19 DEF PartiesIInv

LEMMA RevokeKeeps ==
  ASSUME PartiesIInv, MayRefuse \cap {"leave", "disband"} = {},
         NEW p \in Person, NEW q \in Person,
         playerRevokePartyInvitation(p, q)
  PROVE  PartiesIInv'
<1> DEFINE r == removeInvite(PartiesNow, party[p], q)
<1>1. party[p] \in PartiesNow.by[q]
  <2>1. party[p] \in PartyId
    BY PartiesNowIs
    DEF playerRevokePartyInvitation, isInviting, PartiesIInv, Agree, Parties
  <2> QED BY <2>1, PartiesNowIs
      DEF playerRevokePartyInvitation, isInviting, PartiesIInv, Agree, Points
<1>2. Agree(r) /\ Fewer(r, PartiesNow)
  <2>1. r = removeInvite(PartiesNow, party[p], q) OBVIOUS
  <2> HIDE DEF r
  <2> QED BY <1>1, <2>1, RemoveInviteAgrees DEF PartiesIInv
<1>3. BecomeParties(r) /\ online' = online
  BY DEF playerRevokePartyInvitation
<1> HIDE DEF r
<1> QED BY <1>2, <1>3, BecomesFewer

LEMMA LeavePartyKeeps ==
  ASSUME PartiesIInv, MayRefuse \cap {"leave", "disband"} = {},
         NEW p \in Person, playerLeaveParty(p)
  PROVE  PartiesIInv'
<1> DEFINE r == leaveParty(PartiesNow, p)
<1>1. /\ PartiesNow.of[p] # Nobody /\ BecomeParties(r) /\ online' = online
  BY PartiesNowIs DEF playerLeaveParty
<1>2. Agree(r) /\ Fewer(r, PartiesNow)
  <2>1. r = leaveParty(PartiesNow, p) OBVIOUS
  <2> HIDE DEF r
  <2> QED BY <1>1, <2>1, LeaveAgrees DEF PartiesIInv
<1> HIDE DEF r
<1> QED BY <1>1, <1>2, BecomesFewer

LEMMA PartyNextKeeps ==
  ASSUME PartiesIInv, MayRefuse \cap {"leave", "disband"} = {}, PartyNext
  PROVE  PartiesIInv' /\ online \subseteq online'
<1>1. PICK p \in Person, q \in Person :
        \/ LogIn(p) \/ playerLeaveParty(p)
        \/ playerInviteToParty(p, q) \/ playerJoinParty(p, q)
        \/ playerRevokePartyInvitation(p, q) \/ playerPassPartyLeadership(p, q)
  BY DEF PartyNext
<1>2. CASE LogIn(p)
  <2>1. PartiesNow' = PartiesNow /\ online' = online \cup {p}
        /\ party' = party /\ invitePartyList' = invitePartyList
    BY <1>2 DEF LogIn, PartiesNow
  <2> QED BY <2>1 DEF PartiesIInv
<1>3. CASE playerLeaveParty(p)
  BY <1>3, LeavePartyKeeps DEF playerLeaveParty
<1>4. CASE playerInviteToParty(p, q)
  BY <1>4, InviteKeeps DEF playerInviteToParty
<1>5. CASE playerJoinParty(p, q) BY <1>5, JoinKeeps DEF playerJoinParty
<1>6. CASE playerRevokePartyInvitation(p, q)
  BY <1>6, RevokeKeeps DEF playerRevokePartyInvitation
<1>7. CASE playerPassPartyLeadership(p, q)
  BY <1>7, PassKeeps DEF playerPassPartyLeadership
<1> QED BY <1>1, <1>2, <1>3, <1>4, <1>5, <1>6, <1>7

LEMMA PartiesIInvAgree == PartiesIInv => PartyTypeOK /\ PartiesAgree
<1> SUFFICES ASSUME PartiesIInv PROVE PartyTypeOK /\ PartiesAgree
  OBVIOUS
<1>1. /\ parties \in [PartyId -> PartyAt]
      /\ party \in [Person -> PartyId \cup {Nobody}]
      /\ invitePartyList \in [Person -> SUBSET PartyId]
      /\ online \subseteq Person
  BY PartiesNowIs DEF PartiesIInv, Agree, Parties
<1>2. PartyTypeOK BY <1>1 DEF PartyTypeOK, PartyAt
<1>3. \A x \in PartyId :
        /\ Formed(parties[x])
        /\ parties[x].leader # Nobody => ~IsEmpty(parties[x])
        /\ \A y \in Person : /\ x \in invitePartyList[y] <=>
                                  y \in parties[x].invites
                             /\ party[y] = x <=> y \in With(parties[x])
  BY PartiesNowIs, PartyAssumption
  DEF PartiesIInv, Agree, AllFormed, Points
<1>4. \A x \in PartyId : Members(x) = With(parties[x]) BY DEF Members, With
<1>5. ASSUME NEW x \in PartyId, parties[x].leader # Nobody
      PROVE  /\ IsInjective(<<parties[x].leader>> \o parties[x].members)
             /\ parties[x].invites \cup Members(x) \subseteq online
  <2>1. /\ parties[x].leader \in Person /\ parties[x].members \in Seq(Person)
        /\ parties[x].invites \subseteq Person
    BY <1>1, <1>5 DEF PartyAt
  <2>2. Range(parties[x].members) \subseteq Person BY <2>1 DEF Range
  <2>3. IsInjective(<<parties[x].leader>> \o parties[x].members)
    BY <1>3, <1>5, <2>1, FirstIs DEF Formed
  <2>4. ASSUME NEW y \in parties[x].invites \cup Members(x)
        PROVE  y \in online
    <3>1. y \in Person BY <1>4, <2>1, <2>2, <2>4 DEF With
    <3>2. party[y] = x \/ x \in invitePartyList[y] BY <1>3, <1>4, <2>4, <3>1
    <3> QED BY <3>1, <3>2, PartyAssumption DEF PartiesIInv
  <2> QED BY <2>3, <2>4
<1>6. PartiesAgree BY <1>3, <1>4, <1>5 DEF PartiesAgree, Formed
<1> QED BY <1>2, <1>6

-----------------------------------------------------------------------------
(* Channels *)

Channel ==
  [owner : Person \cup {Nobody}, users : SUBSET Person,
   invites : SUBSET Person]

(* What a private channel may be while those in who are online.            *)
ChannelIsSound(channel, who) ==
  IF channel.owner = Nobody THEN channel = NoChannel
  ELSE /\ {channel.owner} \cup channel.invites \subseteq who
       /\ channel.users \subseteq channel.invites \cup {channel.owner}

ChatIInv ==
  /\ PartiesIInv
  /\ partyChannels \subseteq PartyId
  /\ partyUsers \in [PartyId -> SUBSET Person]
  /\ privateChannels \in [PrivateId -> Channel]
  /\ \A pt \in PartyId : partyUsers[pt] \subseteq online
  /\ \A c \in PrivateId : ChannelIsSound(privateChannels[c], online)
  /\ \A c, d \in PrivateId :
       (privateChannels[c].owner = privateChannels[d].owner
          /\ privateChannels[c].owner # Nobody) => c = d

LEMMA ForgottenKeeps ==
  ASSUME ChatIInv, NEW p \in Person, removeUserFromAllChannels(p),
         PartiesIInv', online \ {p} \subseteq online'
  PROVE  ChatIInv'
<1>1. /\ partyUsers' = [pt \in PartyId |-> partyUsers[pt] \ {p}]
      /\ privateChannels' = [c \in PrivateId |-> Forgotten(p, c)]
      /\ partyChannels' = partyChannels
  BY DEF removeUserFromAllChannels
<1>2. NoChannel \in Channel /\ NoChannel.owner = Nobody
  BY DEF NoChannel, Channel
<1>3. ASSUME NEW c \in PrivateId
      PROVE  /\ Forgotten(p, c) \in Channel
             /\ ChannelIsSound(Forgotten(p, c), online')
             /\ Forgotten(p, c).owner \in {privateChannels[c].owner, Nobody}
  <2>1. privateChannels[c] \in Channel BY DEF ChatIInv
  <2>2. ChannelIsSound(privateChannels[c], online) BY DEF ChatIInv
  <2>3. CASE Owns(p, c)
    BY <1>2, <2>3 DEF Forgotten, ChannelIsSound
  <2>4. CASE ~Owns(p, c)
    <3> DEFINE f == Forgotten(p, c)
    <3>1. /\ f \in Channel /\ f.owner = privateChannels[c].owner
          /\ f.users = privateChannels[c].users \ {p}
          /\ f.invites = privateChannels[c].invites \ {p}
      BY <2>1, <2>4 DEF Forgotten, Channel
    <3>2. f.owner # p BY <2>4, <3>1 DEF Owns
    <3>3. f.owner = Nobody => f = NoChannel
      <4>1. ASSUME privateChannels[c] = NoChannel PROVE f = NoChannel
        <5>1. /\ privateChannels[c].users = {}
              /\ privateChannels[c].invites = {}
              /\ privateChannels[c].owner = Nobody
          BY <4>1 DEF NoChannel
        <5>2. f.owner = Nobody /\ f.users = {} /\ f.invites = {}
          BY <3>1, <5>1
        <5> HIDE DEF f
        <5> QED BY <3>1, <5>2 DEF NoChannel, Channel
      <4> HIDE DEF f
      <4> QED BY <2>2, <3>1, <4>1 DEF ChannelIsSound
    <3> HIDE DEF f
    <3>4. ChannelIsSound(f, online')
      BY <2>2, <3>1, <3>2, <3>3 DEF ChannelIsSound
    <3> QED BY <3>1, <3>4 DEF f
  <2> QED BY <2>3, <2>4
<1>4. /\ partyUsers' \in [PartyId -> SUBSET Person]
      /\ \A pt \in PartyId : partyUsers'[pt] \subseteq online'
  BY <1>1 DEF ChatIInv
<1>5. privateChannels' \in [PrivateId -> Channel] BY <1>1, <1>3
<1>6. \A c \in PrivateId : ChannelIsSound(privateChannels'[c], online')
  BY <1>1, <1>3
<1>7. \A c \in PrivateId :
        privateChannels'[c].owner \in {privateChannels[c].owner, Nobody}
  BY <1>1, <1>3
<1>8. \A c, d \in PrivateId :
        (privateChannels'[c].owner = privateChannels'[d].owner
           /\ privateChannels'[c].owner # Nobody) => c = d
  BY <1>7 DEF ChatIInv
<1> QED BY <1>1, <1>4, <1>5, <1>6, <1>8 DEF ChatIInv

(* The other requests change at most one private channel.                  *)
LEMMA OneChannelKeeps ==
  ASSUME ChatIInv, NEW c \in PrivateId, NEW f \in Channel,
         ChannelIsSound(f, online),
         f.owner = Nobody \/ \A d \in PrivateId \ {c} :
                               privateChannels[d].owner # f.owner,
         privateChannels' = [privateChannels EXCEPT ![c] = f],
         UNCHANGED <<partyVars, partyChannels, partyUsers>>
  PROVE  ChatIInv'
<1>1. PartiesIInv' /\ online' = online
  BY DEF ChatIInv, PartiesIInv, PartiesNow, partyVars
<1>2. /\ privateChannels' \in [PrivateId -> Channel]
      /\ privateChannels'[c] = f
      /\ \A d \in PrivateId \ {c} : privateChannels'[d] = privateChannels[d]
  BY DEF ChatIInv
<1> QED BY <1>1, <1>2 DEF ChatIInv

LEMMA PrivateKeeps ==
  ASSUME ChatIInv, NEW p \in Person, NEW q \in Person,
         \/ playerCreatePrivateChannel(p) \/ playerChannelInvite(p, q)
         \/ playerChannelExclude(p, q)
         \/ \E c \in PrivateId : OpenPrivateChannel(p, c)
                                 \/ ClosePrivateChannel(p, c)
  PROVE  ChatIInv'
<1>1. p # Nobody /\ q # Nobody BY PartyAssumption
<1>2. /\ \A c \in PrivateId : /\ privateChannels[c] \in Channel
                              /\ ChannelIsSound(privateChannels[c], online)
      /\ \A c, d \in PrivateId :
           (privateChannels[c].owner = privateChannels[d].owner
              /\ privateChannels[c].owner # Nobody) => c = d
      /\ privateChannels \in [PrivateId -> Channel]
  BY DEF ChatIInv
<1>3. CASE playerCreatePrivateChannel(p)
  <2>1. PICK c \in PrivateId :
          /\ privateChannels[c] = NoChannel
          /\ privateChannels' =
               [privateChannels EXCEPT ![c].owner = p, ![c].users = {p}]
    BY <1>3 DEF playerCreatePrivateChannel
  <2> DEFINE f == [privateChannels[c] EXCEPT !.owner = p, !.users = {p}]
  <2>2. /\ f \in Channel /\ f.owner = p /\ f.users = {p} /\ f.invites = {}
    BY <1>2, <2>1 DEF Channel, NoChannel
  <2>3. privateChannels' = [privateChannels EXCEPT ![c] = f]
    BY <1>2, <2>1 DEF Channel
  <2> HIDE DEF f
  <2>4. p \in online /\ \A d \in PrivateId : privateChannels[d].owner # p
        /\ UNCHANGED <<partyVars, partyChannels, partyUsers>>
    BY <1>3 DEF playerCreatePrivateChannel, Owns
  <2>5. ChannelIsSound(f, online) BY <1>1, <2>2, <2>4 DEF ChannelIsSound
  <2>6. \A d \in PrivateId \ {c} : privateChannels[d].owner # f.owner
    BY <2>2, <2>4
  <2> QED BY <2>2, <2>3, <2>4, <2>5, <2>6, OneChannelKeeps
<1>4. CASE playerChannelInvite(p, q)
  <2>1. PICK c \in PrivateId :
          /\ Owns(p, c)
          /\ privateChannels' = [privateChannels EXCEPT
                                   ![c].invites = @ \cup {q}]
    BY <1>4 DEF playerChannelInvite
  <2> DEFINE f == [privateChannels[c] EXCEPT !.invites = @ \cup {q}]
  <2>2. /\ f \in Channel /\ f.owner = p
        /\ f.users = privateChannels[c].users
        /\ f.invites = privateChannels[c].invites \cup {q}
    BY <1>2, <2>1 DEF Channel, Owns
  <2>3. privateChannels' = [privateChannels EXCEPT ![c] = f]
    BY <1>2, <2>1 DEF Channel
  <2> HIDE DEF f
  <2>4. q \in online /\ UNCHANGED <<partyVars, partyChannels, partyUsers>>
    BY <1>4 DEF playerChannelInvite
  <2>5. ChannelIsSound(f, online)
    BY <1>1, <1>2, <2>1, <2>2, <2>4 DEF ChannelIsSound, Owns
  <2>6. \A d \in PrivateId \ {c} : privateChannels[d].owner # f.owner
    BY <1>1, <1>2, <2>1, <2>2 DEF Owns
  <2> QED BY <2>2, <2>3, <2>4, <2>5, <2>6, OneChannelKeeps
<1>5. CASE playerChannelExclude(p, q)
  <2>1. PICK c \in PrivateId :
          /\ Owns(p, c)
          /\ privateChannels' = [privateChannels EXCEPT
                                   ![c].invites = @ \ {q},
                                   ![c].users = @ \ {q}]
    BY <1>5 DEF playerChannelExclude
  <2> DEFINE f == [privateChannels[c] EXCEPT !.invites = @ \ {q},
                                             !.users = @ \ {q}]
  <2>2. /\ f \in Channel /\ f.owner = p
        /\ f.users = privateChannels[c].users \ {q}
        /\ f.invites = privateChannels[c].invites \ {q}
    BY <1>2, <2>1 DEF Channel, Owns
  <2>3. privateChannels' = [privateChannels EXCEPT ![c] = f]
    BY <1>2, <2>1 DEF Channel
  <2> HIDE DEF f
  <2>4. UNCHANGED <<partyVars, partyChannels, partyUsers>>
    BY <1>5 DEF playerChannelExclude
  <2>5. ChannelIsSound(f, online)
    BY <1>1, <1>2, <2>1, <2>2 DEF ChannelIsSound, Owns
  <2>6. \A d \in PrivateId \ {c} : privateChannels[d].owner # f.owner
    BY <1>1, <1>2, <2>1, <2>2 DEF Owns
  <2> QED BY <2>2, <2>3, <2>4, <2>5, <2>6, OneChannelKeeps
<1>6. ASSUME NEW c \in PrivateId, OpenPrivateChannel(p, c)
      PROVE  ChatIInv'
  <2> DEFINE f == [privateChannels[c] EXCEPT !.users = @ \cup {p}]
  <2>1. /\ f \in Channel /\ f.owner = privateChannels[c].owner
        /\ f.users = privateChannels[c].users \cup {p}
        /\ f.invites = privateChannels[c].invites
    BY <1>2 DEF Channel
  <2>2. privateChannels' = [privateChannels EXCEPT ![c] = f]
        /\ UNCHANGED <<partyVars, partyChannels, partyUsers>>
    BY <1>2, <1>6 DEF OpenPrivateChannel, Channel
  <2>3. f.owner = p \/ p \in f.invites
    BY <1>6, <2>1 DEF OpenPrivateChannel, isInvited, Owns
  <2> HIDE DEF f
  <2>4. f.owner # Nobody
    <3>1. NoChannel.invites = {} BY DEF NoChannel
    <3> QED BY <1>1, <1>2, <2>1, <2>3, <3>1 DEF ChannelIsSound
  <2>5. ChannelIsSound(f, online)
    BY <1>2, <2>1, <2>3, <2>4 DEF ChannelIsSound
  <2>6. \A d \in PrivateId \ {c} : privateChannels[d].owner # f.owner
    BY <1>2, <2>1, <2>4
  <2> QED BY <2>1, <2>2, <2>5, <2>6, OneChannelKeeps
<1>7. ASSUME NEW c \in PrivateId, ClosePrivateChannel(p, c)
      PROVE  ChatIInv'
  <2> DEFINE f == IF Owns(p, c) THEN NoChannel
                  ELSE [privateChannels[c] EXCEPT !.users = @ \ {p}]
  <2>1. privateChannels' = [privateChannels EXCEPT ![c] = f]
        /\ UNCHANGED <<partyVars, partyChannels, partyUsers>>
    <3>1. CASE Owns(p, c) BY <1>7, <3>1 DEF ClosePrivateChannel
    <3>2. CASE ~Owns(p, c)
      <4>1. privateChannels' =
              [privateChannels EXCEPT ![c] =
                 [privateChannels[c] EXCEPT !.users = @ \ {p}]]
        BY <1>7, <3>2 DEF ClosePrivateChannel
      <4>2. f = [privateChannels[c] EXCEPT !.users = @ \ {p}] BY <3>2
      <4> HIDE DEF f
      <4> QED BY <1>7, <4>1, <4>2 DEF ClosePrivateChannel
    <3> QED BY <3>1, <3>2
  <2>2. CASE Owns(p, c)
    <3>1. f = NoChannel BY <2>2
    <3>2. NoChannel \in Channel /\ NoChannel.owner = Nobody
      BY DEF NoChannel, Channel
    <3> HIDE DEF f
    <3>3. ChannelIsSound(f, online) BY <3>1, <3>2 DEF ChannelIsSound
    <3> QED BY <2>1, <3>1, <3>2, <3>3, OneChannelKeeps
  <2>3. CASE ~Owns(p, c)
    <3>1. /\ f \in Channel /\ f.owner = privateChannels[c].owner
          /\ f.users = privateChannels[c].users \ {p}
          /\ f.invites = privateChannels[c].invites
      BY <1>2, <2>3 DEF Channel
    <3>2. p \in f.invites
      BY <1>7, <2>3, <3>1 DEF ClosePrivateChannel, isInvited
    <3> HIDE DEF f
    <3>3. f.owner # Nobody
      <4>1. NoChannel.invites = {} BY DEF NoChannel
      <4> QED BY <1>2, <3>1, <3>2, <4>1 DEF ChannelIsSound
    <3>4. ChannelIsSound(f, online) BY <1>2, <3>1, <3>3 DEF ChannelIsSound
    <3>5. \A d \in PrivateId \ {c} : privateChannels[d].owner # f.owner
      BY <1>2, <3>1, <3>3
    <3> QED BY <2>1, <3>1, <3>4, <3>5, OneChannelKeeps
  <2> QED BY <2>2, <2>3
<1> QED BY <1>3, <1>4, <1>5, <1>6, <1>7

LEMMA PartyChannelKeeps ==
  ASSUME ChatIInv, NEW p \in Person,
         \/ playerRequestChannels(p)
         \/ OpenPartyChannel(p) \/ ClosePartyChannel(p)
  PROVE  ChatIInv'
<1>1. UNCHANGED partyVars /\ privateChannels' = privateChannels
  BY DEF playerRequestChannels, OpenPartyChannel, ClosePartyChannel
<1>2. PartiesIInv' /\ online' = online /\ party[p] \in PartyId \cup {Nobody}
  BY <1>1, PartiesNowIs
  DEF ChatIInv, PartiesIInv, PartiesNow, partyVars, Agree, Parties
<1>3. CASE playerRequestChannels(p)
  BY <1>1, <1>2, <1>3 DEF playerRequestChannels, ChatIInv
<1>4. CASE OpenPartyChannel(p)
  <2>1. /\ p \in online /\ partyChannels' = partyChannels
        /\ partyUsers' = [partyUsers EXCEPT ![party[p]] = @ \cup {p}]
    BY <1>4 DEF OpenPartyChannel
  <2>2. /\ partyUsers' \in [PartyId -> SUBSET Person]
        /\ \A pt \in PartyId :
             partyUsers'[pt] \subseteq partyUsers[pt] \cup {p}
    BY <2>1 DEF ChatIInv
  <2> QED BY <1>1, <1>2, <2>1, <2>2 DEF ChatIInv
<1>5. CASE ClosePartyChannel(p)
  <2>1. /\ partyChannels' = partyChannels
        /\ partyUsers' = [partyUsers EXCEPT ![party[p]] = @ \ {p}]
    BY <1>5 DEF ClosePartyChannel
  <2>2. /\ partyUsers' \in [PartyId -> SUBSET Person]
        /\ \A pt \in PartyId : partyUsers'[pt] \subseteq partyUsers[pt]
    BY <2>1 DEF ChatIInv
  <2> QED BY <1>1, <1>2, <2>1, <2>2 DEF ChatIInv
<1> QED BY <1>3, <1>4, <1>5

(* The requests of parties leave the channels alone.                       *)
LEMMA ChannelsStay ==
  ASSUME ChatIInv, UNCHANGED chatVars, PartiesIInv', online \subseteq online'
  PROVE  ChatIInv'
<1>1. /\ partyChannels' = partyChannels /\ partyUsers' = partyUsers
      /\ privateChannels' = privateChannels
  BY DEF chatVars
<1>2. \A c \in PrivateId : ChannelIsSound(privateChannels[c], online')
  BY DEF ChatIInv, ChannelIsSound
<1> QED BY <1>1, <1>2 DEF ChatIInv

LEMMA ChatInitIInv == ChatInit => ChatIInv
<1> SUFFICES ASSUME ChatInit PROVE ChatIInv
  OBVIOUS
<1>1. NoParty \in PartyAt /\ With(NoParty) = {Nobody} /\ Formed(NoParty)
      /\ NoParty.leader = Nobody /\ NoParty.invites = {}
  BY DEF NoParty, PartyAt, With, Range, Formed
<1>2. NoChannel \in Channel /\ NoChannel.owner = Nobody
  BY DEF NoChannel, Channel
<1>3. /\ parties = [pt \in PartyId |-> NoParty] /\ online = {}
      /\ party = [p \in Person |-> Nobody]
      /\ invitePartyList = [p \in Person |-> {}]
  BY DEF ChatInit, PartyInit
<1>4. PartiesNow \in Parties BY <1>1, <1>3 DEF PartiesNow, Parties
<1>5. AllFormed(PartiesNow, Nobody)
  BY <1>1, <1>3, PartiesNowIs DEF AllFormed
<1>6. Points(PartiesNow, Nobody)
  BY <1>1, <1>3, PartiesNowIs, PartyAssumption DEF Points
<1>7. PartiesIInv BY <1>3, <1>4, <1>5, <1>6 DEF PartiesIInv, Agree
<1>8. /\ partyChannels = {} /\ partyUsers = [pt \in PartyId |-> {}]
      /\ privateChannels = [c \in PrivateId |-> NoChannel]
  BY DEF ChatInit
<1> QED BY <1>2, <1>7, <1>8 DEF ChatIInv, ChannelIsSound

LEMMA ChatNextIInv ==
  ASSUME MayRefuse \cap {"leave", "disband"} = {}
  PROVE  ChatIInv /\ [ChatNext]_partyChatVars => ChatIInv'
<1> SUFFICES ASSUME ChatIInv, [ChatNext]_partyChatVars PROVE ChatIInv'
  OBVIOUS
<1>1. PartiesIInv BY DEF ChatIInv
<1>2. CASE PartyNext /\ UNCHANGED chatVars
  BY <1>1, <1>2, PartyNextKeeps, ChannelsStay
<1>3. ASSUME NEW p \in Person, LogIn(p), UNCHANGED chatVars PROVE ChatIInv'
  <2>1. PartyNext BY <1>3 DEF PartyNext
  <2> QED BY <1>1, <1>3, <2>1, PartyNextKeeps, ChannelsStay
<1>4. ASSUME NEW p \in Person, LogOutOfChat(p) PROVE ChatIInv'
  <2>1. PartiesIInv' BY <1>1, <1>4, LogOutKeeps DEF LogOutOfChat
  <2>2. online' = online \ {p} /\ removeUserFromAllChannels(p)
    BY <1>4 DEF LogOutOfChat, LogOut
  <2> QED BY <2>1, <2>2, ForgottenKeeps
<1>5. ASSUME NEW p \in Person, Reconnect(p) PROVE ChatIInv'
  <2>1. PartiesIInv' /\ online' = online /\ removeUserFromAllChannels(p)
    BY <1>1, <1>5 DEF Reconnect, PartiesIInv, PartiesNow, partyVars
  <2> QED BY <2>1, ForgottenKeeps
<1>6. ASSUME NEW p \in Person,
             \/ playerRequestChannels(p)
             \/ OpenPartyChannel(p) \/ ClosePartyChannel(p)
      PROVE  ChatIInv'
  BY <1>6, PartyChannelKeeps
<1>7. CASE PartyChatNext BY <1>2, <1>4, <1>5, <1>6, <1>7 DEF PartyChatNext
<1>8. CASE PrivateChatNext
  BY <1>3, <1>4, <1>5, <1>8, PrivateKeeps DEF PrivateChatNext
<1>9. CASE UNCHANGED partyChatVars
  BY <1>9 DEF partyChatVars, partyVars, chatVars, ChatIInv, PartiesIInv,
              PartiesNow
<1> QED BY <1>7, <1>8, <1>9 DEF ChatNext

LEMMA ChatIInvSound == ChatIInv => ChannelsAreSound
<1> SUFFICES ASSUME ChatIInv PROVE ChannelsAreSound
  OBVIOUS
<1>1. PartyTypeOK /\ PartiesAgree BY PartiesIInvAgree DEF ChatIInv
<1>2. ChatTypeOK BY <1>1 DEF ChatIInv, ChatTypeOK, Channel
<1>3. ChannelsHoldPlayers
  BY DEF ChatIInv, ChannelIsSound, ChannelsHoldPlayers, Owns
<1> QED BY <1>1, <1>2, <1>3 DEF ChannelsAreSound

(* A party, its members and its invited know each other, and channels hold *)
(* only players who are in the game, whatever is asked in whichever order, *)
(* unless a script refuses that one leaves or that a party is disbanded    *)
(* (party.cpp, chat.cpp).                                                  *)
THEOREM ChannelsAreSoundHolds ==
  ASSUME MayRefuse \cap {"leave", "disband"} = {}
  PROVE  ChatSpec => []ChannelsAreSound
<1>1. ChatIInv /\ [ChatNext]_partyChatVars => ChatIInv'
  BY ChatNextIInv
<1>2. ChatSpec => []ChatIInv BY <1>1, ChatInitIInv, PTL DEF ChatSpec
<1> QED BY <1>2, ChatIInvSound, PTL
=============================================================================
