-------------------------------- MODULE Trade --------------------------------
(***************************************************************************)
(* Trading between players (newsrc/game.cpp, newsrc/player.cpp): a player  *)
(* offers an item, the partner offers one in return, both accept, and the  *)
(* items change hands.  Until then the items stay where they are and can   *)
(* be moved by whoever reaches them; a move that touches an offer is to    *)
(* close the trade.                                                        *)
(*                                                                         *)
(* Each request is one task on the dispatcher thread, so it is one action. *)
(* Scripts and lines of sight that may refuse a request are actions that   *)
(* are not taken.  All ground is one tile.  A stack is moved as a whole,   *)
(* onto another one or to a place of its own; moving an item onto an       *)
(* occupied slot, which exchanges the two, is two moves.                   *)
(***************************************************************************)
EXTENDS Naturals, FiniteSets

CONSTANTS
  Player,
  Item,
  Container,    \* items that hold items
  Stack,        \* stackable items, all of one kind
  PackSize,     \* the slots of a player's inventory
  ContainerSize,
  None

(* No name stands for two things.                                          *)
ASSUME TradeAssumption ==
  /\ Container \cup Stack \subseteq Item /\ IsFiniteSet(Item)
  /\ Item \cap (Player \cup {"ground", "gone"}) = {}
  /\ Player \cap {"ground", "gone"} = {}
  /\ None \notin Player \cup Item
  /\ {PackSize, ContainerSize} \subseteq Nat

VARIABLES
  place,        \* the parent of each item: a player, a container, the
                \* "ground", or "gone"
  position,     \* each player "beside" the ground tile, "near" it but out
                \* of reach, "away" from the others, or "offline"
  tradeState,   \* Player::tradeState, TRADE_TRANSFER only within Accept
  tradePartner, \* Player::tradePartner
  tradeItem,    \* Player::tradeItem
  tradeItems    \* the items in Game::tradeItems

trades == <<tradeState, tradePartner, tradeItem, tradeItems>>
vars == <<place, position, trades>>

Cylinder == Player \cup Container \cup {"ground", "gone"}

Init ==
  /\ place = [i \in Item |-> "ground"]
  /\ position = [p \in Player |-> "beside"]
  /\ tradeState = [p \in Player |-> "NONE"]
  /\ tradePartner = [p \in Player |-> None]
  /\ tradeItem = [p \in Player |-> None]
  /\ tradeItems = {}

-----------------------------------------------------------------------------
(* Containers *)

(* The containers around an item: those found by going up from it.         *)
ClosedAbove(pl, i) ==
  {S \in SUBSET Container :
     /\ {pl[i]} \cap Container \subseteq S
     /\ {pl[c] : c \in S} \cap Container \subseteq S}
Around(pl, i) == {c \in Container : \A S \in ClosedAbove(pl, i) : c \in S}

(* The parents of an item, up to whoever holds it in the end.              *)
Parents(pl, i) == {pl[i]} \cup {pl[c] : c \in Around(pl, i)}

(* Container::isHoldingItem                                                *)
Holds(pl, c, i) == c \in Parents(pl, i)

HasRoom(pl, c) ==
  LET used == Cardinality({i \in Item : pl[i] = c})
  IN  CASE c \in Player    -> used < PackSize
        [] c \in Container -> used < ContainerSize
        [] OTHER           -> TRUE

(* queryAdd: no container goes into itself.                                *)
MayHold(pl, c, i) == c # i /\ ~(c \in Container /\ Holds(pl, i, c))

InReach(p, i) ==
  \/ Holds(place, p, i)
  \/ Holds(place, "ground", i) /\ position[p] = "beside"

-----------------------------------------------------------------------------
(* Closing a trade *)

(* internalCloseTrade for each of a set of players: both sides forget the  *)
(* trade and their items leave tradeItems.                                 *)
CloseTrades(players) ==
  LET out == players \cup {tradePartner[p] : p \in players}
  IN  /\ tradeState' = [p \in Player |->
                          IF p \in out THEN "NONE" ELSE tradeState[p]]
      /\ tradePartner' = [p \in Player |->
                            IF p \in out THEN None ELSE tradePartner[p]]
      /\ tradeItem' = [p \in Player |->
                         IF p \in out THEN None ELSE tradeItem[p]]
      /\ tradeItems' = tradeItems \ {tradeItem[p] : p \in out \cap Player}

Offering == {p \in Player : tradeItem[p] # None}

(* Faulty variant: only the offer itself is looked at, not its contents.   *)
TouchesOnlyItself(pl, i, t) == t = i

(* checkTradeState: the item is the offer or inside it.                    *)
Touches(pl, i, t) == t = i \/ Holds(pl, t, i)

(* onRemoveContainerItem, onRemoveInventoryItem and onRemoveTileItem: the  *)
(* offers that item i leaving its parent disturbs.  A container that is    *)
(* taken from counts as touched when it holds the offer further down.      *)
RemovalDisturbs(pl, i) ==
  {p \in Offering :
     LET t == tradeItem[p]
     IN  \/ Touches(pl, i, t)
         \/ Holds(pl, i, t)
         \/ /\ pl[i] \in Container
            /\ pl[t] # pl[i]
            /\ Holds(pl, pl[i], t)}

(* onAddContainerItem, with the item in its new place.                     *)
AdditionDisturbs(pl, i) ==
  {p \in Offering : pl[i] \in Container /\ Touches(pl, i, tradeItem[p])}

(* The rest of internalMoveItem: out of one place and into another.        *)
Moved(pl, i, to) == [pl EXCEPT ![i] = to]

MoveDisturbs(pl, i, to) ==
  RemovalDisturbs(pl, i) \cup AdditionDisturbs(Moved(pl, i, to), i)

-----------------------------------------------------------------------------
(* Moving items *)

(* playerMoveItem, as far as somewhere with room for the item.             *)
MoveItem(p, i, to) ==
  /\ position[p] # "offline"
  /\ InReach(p, i)
  /\ to # place[i] /\ MayHold(place, to, i) /\ HasRoom(place, to)
  /\ \/ to = p
     \/ to \in Container /\ InReach(p, to)
     \/ to = "ground" /\ position[p] \in {"beside", "near"}
  /\ place' = Moved(place, i, to)
  /\ CloseTrades(MoveDisturbs(place, i, to))
  /\ UNCHANGED position

(* playerMoveItem of a stack onto another one, which takes it up: the      *)
(* first is removed, the second updated.                                   *)
StackOnto(p, i, j) ==
  /\ position[p] # "offline"
  /\ {i, j} \subseteq Stack /\ i # j
  /\ InReach(p, i) /\ InReach(p, j)
  /\ place' = Moved(place, i, "gone")
  /\ CloseTrades(RemovalDisturbs(place, i)
                   \cup {q \in Offering : Touches(place, j, tradeItem[q])})
  /\ UNCHANGED position

(* internalRemoveItem: an item decays, is used up, or a script removes it. *)
RemoveItem(i) ==
  /\ ~Holds(place, "gone", i)
  /\ place' = Moved(place, i, "gone")
  /\ CloseTrades(RemovalDisturbs(place, i))
  /\ UNCHANGED position

-----------------------------------------------------------------------------
(* Players coming and going *)

(* Faulty variant: only the distance to the partner is looked at.          *)
WalkFromOffer(p, to) ==
  /\ position[p] # "offline" /\ to \notin {position[p], "offline"}
  /\ position' = [position EXCEPT ![p] = to]
  /\ CloseTrades(IF tradePartner[p] # None /\ to = "away" THEN {p} ELSE {})
  /\ UNCHANGED place

(* onCreatureMove of the player who moved: an offer on the ground must be  *)
(* next to it, and the partner within two tiles.                           *)
Walk(p, to) ==
  /\ position[p] # "offline" /\ to \notin {position[p], "offline"}
  /\ position' = [position EXCEPT ![p] = to]
  /\ CloseTrades(
       IF \/ /\ tradeItem[p] # None
             /\ Holds(place, "ground", tradeItem[p]) /\ to # "beside"
          \/ tradePartner[p] # None /\ to = "away"
       THEN {p} ELSE {})
  /\ UNCHANGED place

(* onRemoveCreature of the player itself: logout or death.                 *)
Leave(p) ==
  /\ position[p] # "offline"
  /\ position' = [position EXCEPT ![p] = "offline"]
  /\ CloseTrades(IF tradePartner[p] # None THEN {p} ELSE {})
  /\ UNCHANGED place

-----------------------------------------------------------------------------
(* Requests *)

(* Faulty variant: an item inside an offered container may be offered.     *)
AlreadyTradedItself(i) == i \in tradeItems

(* playerRequestTrade: no part of the item is being traded already.        *)
AlreadyTraded(i) ==
  \E j \in tradeItems : i = j \/ Holds(place, i, j) \/ Holds(place, j, i)

(* Faulty variant: the partner's own trade is not asked about.             *)
internalStartTradeUnasked(p, q, i) ==
  /\ \/ tradeState[p] = "NONE"
     \/ tradeState[p] = "ACKNOWLEDGE" /\ tradePartner[p] = q
  /\ tradeState' = [tradeState EXCEPT
                      ![p] = "INITIATED",
                      ![q] = IF @ = "NONE" THEN "ACKNOWLEDGE" ELSE @]
  /\ tradePartner' = [tradePartner EXCEPT
                        ![p] = q,
                        ![q] = IF tradeState[q] = "NONE" THEN p ELSE @]
  /\ tradeItem' = [tradeItem EXCEPT ![p] = i]
  /\ tradeItems' = tradeItems \cup {i}

(* The first offer, or the partner's offer in return.                      *)
internalStartTrade(p, q, i) ==
  /\ \/ tradeState[p] = "NONE"
     \/ tradeState[p] = "ACKNOWLEDGE" /\ tradePartner[p] = q
  /\ tradeState[q] = "NONE" \/ tradePartner[q] = p
  /\ tradeState' = [tradeState EXCEPT
                      ![p] = "INITIATED",
                      ![q] = IF @ = "NONE" THEN "ACKNOWLEDGE" ELSE @]
  /\ tradePartner' = [tradePartner EXCEPT
                        ![p] = q,
                        ![q] = IF tradeState[q] = "NONE" THEN p ELSE @]
  /\ tradeItem' = [tradeItem EXCEPT ![p] = i]
  /\ tradeItems' = tradeItems \cup {i}

playerRequestTrade(p, q, i) ==
  /\ p # q
  /\ {position[p], position[q]} \subseteq {"beside", "near"}
  /\ InReach(p, i)
  /\ ~AlreadyTraded(i)
  /\ internalStartTrade(p, q, i)
  /\ UNCHANGED <<place, position>>

playerCloseTrade(p) ==
  /\ position[p] # "offline"
  /\ tradePartner[p] # None
  /\ CloseTrades({p})
  /\ UNCHANGED <<place, position>>

-----------------------------------------------------------------------------
(* Accepting *)

(* Player::queryDestination: a slot of its own, else a container that the  *)
(* player holds.  An offer of its own that lies in a slot is passed over,  *)
(* wherever it lies when the search may end on top of another stack.       *)
Destinations(pl, p, i, autoStack) ==
  IF HasRoom(pl, p) THEN {p}
  ELSE {c \in Container :
          /\ Holds(pl, p, c)
          /\ HasRoom(pl, c) /\ MayHold(pl, c, i)
          /\ p \in Offering =>
               LET t == tradeItem[p]
                   passedOver == pl[t] = p \/ (autoStack /\ i \in Stack)
               IN  ~(passedOver /\ Touches(pl, c, t))}

(* internalAddItem as a test: a stack also fits on others of its kind.     *)
Fits(p, i) ==
  \/ Destinations(place, p, i, TRUE) # {}
  \/ /\ i \in Stack
     /\ \E j \in Stack \ {i} :
          /\ Holds(place, p, j)
          /\ p \in Offering => ~Touches(place, j, tradeItem[p])

(* Faulty variant: only the partner's room is tested.                      *)
ExchangeTestsPartner(p, q) ==
  LET item1 == tradeItem[p]
      item2 == tradeItem[q]
  IN  /\ None \notin {item1, item2}
      /\ Fits(q, item1)
      /\ \E d1 \in Destinations(place, q, item1, FALSE) :
           LET pl == Moved(place, item1, d1)
               d2s == Destinations(pl, p, item2, FALSE)
           IN  /\ d1 \in Container => ~Touches(place, d1, item2)
               /\ IF d2s = {} THEN place' = pl
                  ELSE \E d2 \in d2s : place' = Moved(pl, item2, d2)
  /\ CloseTrades({p})

(* The exchange: both items must fit beside what their receivers hold, but *)
(* the moves themselves put no stack onto another.  The first move does    *)
(* not go into the other offer; the second is not asked whether it went.   *)
(* Offers of third players that a move disturbs are closed; those of the   *)
(* two are in TRADE_TRANSFER, and are forgotten at the end.                *)
Exchange(p, q) ==
  LET item1 == tradeItem[p]
      item2 == tradeItem[q]
  IN  /\ None \notin {item1, item2}
      /\ Fits(q, item1) /\ Fits(p, item2)
      /\ \E d1 \in Destinations(place, q, item1, FALSE) :
           LET pl == Moved(place, item1, d1)
               d2s == Destinations(pl, p, item2, FALSE)
           IN  /\ d1 \in Container => ~Touches(place, d1, item2)
               /\ \/ /\ d2s = {}
                     /\ place' = pl
                     /\ CloseTrades({p} \cup MoveDisturbs(place, item1, d1))
                  \/ \E d2 \in d2s :
                       /\ place' = Moved(pl, item2, d2)
                       /\ CloseTrades({p} \cup MoveDisturbs(place, item1, d1)
                                         \cup MoveDisturbs(pl, item2, d2))

(* Faulty variant: a trade that fails is left in TRADE_TRANSFER.           *)
playerAcceptTradeInTransfer(p) ==
  LET q == tradePartner[p]
  IN  /\ position[p] # "offline"
      /\ tradeState[p] \in {"ACKNOWLEDGE", "INITIATED"}
      /\ \/ /\ tradeState[q] # "ACCEPT"
            /\ tradeState' = [tradeState EXCEPT ![p] = "ACCEPT"]
         \/ /\ tradeState[q] = "ACCEPT"
            /\ tradeState' = [tradeState EXCEPT ![p] = "TRANSFER",
                                              ![q] = "TRANSFER"]
      /\ UNCHANGED <<place, position, tradePartner, tradeItem, tradeItems>>

(* playerAcceptTrade: the second acceptance completes the trade, unless a  *)
(* script refuses or an item does not fit, is too heavy or is no longer    *)
(* offered; the trade is over either way.                                  *)
playerAcceptTrade(p) ==
  LET q == tradePartner[p]
  IN  /\ position[p] # "offline"
      /\ tradeState[p] \in {"ACKNOWLEDGE", "INITIATED"}
      /\ \/ /\ tradeState[q] # "ACCEPT"
            /\ tradeState' = [tradeState EXCEPT ![p] = "ACCEPT"]
            /\ UNCHANGED <<place, tradePartner, tradeItem, tradeItems>>
         \/ /\ tradeState[q] = "ACCEPT"
            /\ CloseTrades({p})
            /\ UNCHANGED place
         \/ /\ tradeState[q] = "ACCEPT"
            /\ Exchange(p, q)
      /\ UNCHANGED position

Next ==
  \/ \E p \in Player, i \in Item :
       \/ \E to \in Cylinder \ {"gone"} : MoveItem(p, i, to)
       \/ \E j \in Item : StackOnto(p, i, j)
       \/ \E q \in Player : playerRequestTrade(p, q, i)
  \/ \E i \in Item : RemoveItem(i)
  \/ \E p \in Player :
       \/ \E to \in {"beside", "near", "away"} : Walk(p, to)
       \/ Leave(p) \/ playerCloseTrade(p) \/ playerAcceptTrade(p)

Spec == Init /\ [][Next]_vars

-----------------------------------------------------------------------------
(* Properties *)

TypeOK ==
  /\ place \in [Item -> Cylinder]
  /\ position \in [Player -> {"beside", "near", "away", "offline"}]
  /\ tradeState \in [Player -> {"NONE", "INITIATED", "ACKNOWLEDGE", "ACCEPT"}]
  /\ tradePartner \in [Player -> Player \cup {None}]
  /\ tradeItem \in [Player -> Item \cup {None}]
  /\ tradeItems \subseteq Item

(* A trade has two sides that know each other, and one of them has offered *)
(* something; who trades with nobody has no offer out.  Whoever closes a   *)
(* trade therefore closes both sides of it (internalCloseTrade).           *)
PartnersAgree ==
  \A p \in Player :
    LET q == tradePartner[p]
    IN  IF q = None
        THEN tradeState[p] = "NONE" /\ tradeItem[p] = None
        ELSE /\ q # p /\ tradePartner[q] = p
             /\ tradeState[p] # "NONE"
             /\ {tradeItem[p], tradeItem[q]} # {None}
             /\ tradeState[p] = "ACCEPT" => tradeState[q] # "ACCEPT"

(* What is in tradeItems is what players offer, and no item is part of two *)
(* offers: it could otherwise be given away twice (playerRequestTrade,     *)
(* "This item is already being traded.").                                  *)
OffersAreDisjoint ==
  /\ tradeItems = {tradeItem[p] : p \in Offering}
  /\ \A p, q \in Offering :
       p # q => ~Touches(place, tradeItem[p], tradeItem[q])

(* As long as an offer stands, it stays where it was and what is in it     *)
(* stays in it: the partner gets what it was shown.                        *)
OfferDoesNotChange ==
  [][\A p \in Offering :
       tradeItem'[p] = tradeItem[p] =>
         LET t == tradeItem[p]
         IN  /\ place'[t] = place[t]
             /\ \A i \in Item : Holds(place', t, i) <=> Holds(place, t, i)
    ]_vars

(* Whoever offers an item can reach it, wherever players and items moved   *)
(* since.                                                                  *)
OffersAreInReach == \A p \in Offering : InReach(p, tradeItem[p])

(* Both items change hands or none does.  The exception is in the code: a  *)
(* stack may have been found to fit on another one, which the move itself  *)
(* does not do; then one side pays and gets nothing.                       *)
HalfTradeOnlyForStacks ==
  [][\A p \in Offering :
       LET q == tradePartner[p]
       IN  (/\ playerAcceptTrade(p) \/ playerAcceptTrade(q)
            /\ Holds(place', q, tradeItem[p])
            /\ ~Holds(place, q, tradeItem[p]))
           => (\/ Holds(place', p, tradeItem[q])
               \/ tradeItem[q] \in Stack)
    ]_vars

(* The two sides of a trade know each other, no item is part of two offers, *)
(* and an offer is within its owner's reach (playerRequestTrade,            *)
(* internalCloseTrade, the item hooks).                                     *)
OffersAreSound ==
  TypeOK /\ PartnersAgree /\ OffersAreDisjoint /\ OffersAreInReach

(* What was offered is what changes hands, and both items do or none, but  *)
(* for stacks (checkTradeState, playerAcceptTrade).                        *)
TradeIsFair == OfferDoesNotChange /\ HalfTradeOnlyForStacks
=============================================================================
