------------------------------- MODULE Market --------------------------------
(***************************************************************************)
(* The market (newsrc/iomarket.cpp, the market requests of                 *)
(* newsrc/game.cpp).  An offer is a row of the database, written at once;  *)
(* what pays for it is the bank balance and the items of a player, which   *)
(* are in memory while the player is online and are written only when it   *)
(* is saved.  Expired offers are found by the database thread and paid     *)
(* back by a later task of the dispatcher thread.                          *)
(*                                                                         *)
(* There is one kind of item.  Requests are single tasks; their queries go *)
(* to the database synchronously.                                          *)
(***************************************************************************)
EXTENDS Integers, FiniteSets, Functions

CONSTANTS
  Trader,    \* players
  Price,     \* the prices asked for
  Fee,       \* the fee of an offer
  Items,     \* what each has at the start
  Money,
  OfferId,   \* bound: the ids of the offers made, 1 .. n
  Nobody

ASSUME MarketAssumption ==
  /\ IsFiniteSet(Trader) /\ Nobody \notin Trader
  /\ Price \subseteq Nat /\ {Fee, Items, Money} \subseteq Nat
  /\ IsFiniteSet(OfferId) /\ OfferId = 1 .. Cardinality(OfferId)

VARIABLES
  online,    \* the traders in the game, all of them in the market
  mem,       \* items and bankBalance of a trader in the game
  saved,     \* the same in the database
  offers,    \* the rows of market_offers
  made,      \* the last id given out
  expired,   \* the ids whose time is up
  search,    \* the query of checkExpiredOffers: "none", "queued", or "found"
  rows       \* the result it found

marketVars == <<online, mem, saved, offers, made, expired, search, rows>>

NoOffer == [owner |-> Nobody, sale |-> FALSE, amount |-> 0, price |-> 0]
Live == {id \in OfferId : offers[id] # NoOffer}
AtStart == [items |-> Items, money |-> Money]

MarketInit ==
  /\ online = {}
  /\ mem = [t \in Trader |-> AtStart]
  /\ saved = [t \in Trader |-> AtStart]
  /\ offers = [id \in OfferId |-> NoOffer]
  /\ made = 0
  /\ expired = {}
  /\ search = "none"
  /\ rows = {}

-----------------------------------------------------------------------------
(* Sessions and saving *)

(* What a player who is not in the game has in memory means nothing; it is *)
(* kept equal to what is saved.                                            *)
LogIn(t) ==
  /\ t \notin online
  /\ online' = online \cup {t}
  /\ UNCHANGED <<mem, saved, offers, made, expired, search, rows>>

SaveTrader(t) ==
  /\ t \in online
  /\ saved' = [saved EXCEPT ![t] = mem[t]]
  /\ UNCHANGED <<online, mem, offers, made, expired, search, rows>>

LogOut(t) ==
  /\ t \in online
  /\ saved' = [saved EXCEPT ![t] = mem[t]]
  /\ online' = online \ {t}
  /\ UNCHANGED <<mem, offers, made, expired, search, rows>>

(* The server ends without saving and is started again; queued queries and *)
(* results are lost.                                                       *)
Crash ==
  /\ online' = {}
  /\ mem' = saved
  /\ search' = "none"
  /\ rows' = {}
  /\ UNCHANGED <<saved, offers, made, expired>>

-----------------------------------------------------------------------------
(* Requests *)

Gains(a, items, money) ==
  [items |-> a.items + items, money |-> a.money + money]

(* What a request gives to players who are in the game stays in memory.    *)
(* For one who is not, it goes to the database: increaseBankBalance, or    *)
(* loadPlayerById, internalAddItem to the inbox and savePlayer.  gain is a *)
(* function from some of the traders to what they get.                     *)
Give(gain) ==
  LET got(all) == [t \in Trader |->
                     IF t \in DOMAIN gain
                     THEN Gains(all[t], gain[t].items, gain[t].money)
                     ELSE all[t]]
  IN  /\ mem' = got(mem)
      /\ saved' = [t \in Trader |->
                     IF t \in online THEN saved[t] ELSE got(mem)[t]]

(* Faulty variant: who is not in the game gets nothing.                    *)
GiveOnline(gain) ==
  LET got(all) == [t \in Trader |->
                     IF t \in DOMAIN gain \cap online
                     THEN Gains(all[t], gain[t].items, gain[t].money)
                     ELSE all[t]]
  IN  /\ mem' = got(mem)
      /\ UNCHANGED saved

Pay(t, items, money) == Gains(mem[t], items, money) \in [items : Nat,
                                                         money : Nat]

(* The items or the money are taken in memory, and the offer is inserted.  *)
playerCreateMarketOffer(t, sale, amount, price) ==
  LET items == IF sale THEN -amount ELSE 0
      money == IF sale THEN -Fee ELSE -(price * amount + Fee)
  IN  /\ t \in online
      /\ made + 1 \in OfferId
      /\ Pay(t, items, money)
      /\ mem' = [mem EXCEPT ![t] = Gains(@, items, money)]
      /\ made' = made + 1
      /\ offers' = [offers EXCEPT
                      ![made + 1] = [owner |-> t, sale |-> sale,
                                     amount |-> amount, price |-> price]]
      /\ UNCHANGED <<online, saved, expired, search, rows>>

(* What an offer holds back for its owner.                                 *)
Refund(offer) ==
  IF offer.sale THEN [items |-> offer.amount, money |-> 0]
  ELSE [items |-> 0, money |-> offer.price * offer.amount]

playerCancelMarketOffer(t, id) ==
  /\ t \in online
  /\ id \in Live /\ offers[id].owner = t
  /\ Give([u \in {t} |-> Refund(offers[id])])
  /\ offers' = [offers EXCEPT ![id] = NoOffer]
  /\ UNCHANGED <<online, made, expired, search, rows>>

(* An expired offer can be accepted until it is found, one's own can be    *)
(* accepted as well, and a part of an offer leaves the rest of it.         *)
playerAcceptMarketOffer(t, id, amount) ==
  LET offer == offers[id]
      price == offer.price * amount
      \* what the one who accepts gets, and what the owner gets
      items == IF offer.sale THEN amount ELSE -amount
      money == IF offer.sale THEN -price ELSE price
      due == IF offer.sale THEN [items |-> 0, money |-> price]
             ELSE [items |-> amount, money |-> 0]
      left == IF amount = offer.amount THEN NoOffer
              ELSE [offer EXCEPT !.amount = @ - amount]
  IN  /\ t \in online
      /\ id \in Live /\ amount <= offer.amount
      /\ Pay(t, items, money)
      /\ Give(IF t = offer.owner
              THEN [u \in {t} |-> Gains(due, items, money)]
              ELSE [u \in {t, offer.owner} |->
                      IF u = t THEN [items |-> items, money |-> money]
                      ELSE due])
      /\ offers' = [offers EXCEPT ![id] = left]
      /\ UNCHANGED <<online, made, expired, search, rows>>

-----------------------------------------------------------------------------
(* Expiry *)

Expire(id) ==
  /\ id \in Live \ expired
  /\ expired' = expired \cup {id}
  /\ UNCHANGED <<online, mem, saved, offers, made, search, rows>>

(* checkExpiredOffers; bound: one such query at a time.                    *)
checkExpiredOffers ==
  /\ search = "none"
  /\ search' = "queued"
  /\ UNCHANGED <<online, mem, saved, offers, made, expired, rows>>

(* The database thread runs the query and adds the callback to the tasks.  *)
FindExpired ==
  /\ search = "queued"
  /\ search' = "found"
  /\ rows' = {[id |-> id, offer |-> offers[id]] : id \in Live \cap expired}
  /\ UNCHANGED <<online, mem, saved, offers, made, expired>>

(* Rows whose offer is still there, whatever has become of its amount.     *)
StillThere == {row \in rows : row.id \in Live}

TotalRefund(t, due) ==
  LET of == {row \in due : row.offer.owner = t}
  IN  [items |-> SumFunction([row \in of |-> Refund(row.offer).items]),
       money |-> SumFunction([row \in of |-> Refund(row.offer).money])]

(* Faulty variant: the answer of moveOfferToHistory is not looked at.      *)
processExpiredOffersAll ==
  /\ search = "found"
  /\ Give([t \in Trader |-> TotalRefund(t, rows)])
  /\ offers' = [id \in OfferId |->
                  IF \E row \in rows : row.id = id THEN NoOffer
                  ELSE offers[id]]
  /\ search' = "none"
  /\ rows' = {}
  /\ UNCHANGED <<online, made, expired>>

(* processExpiredOffers: what moveOfferToHistory still finds is deleted    *)
(* and paid back as it was when the query ran.                             *)
processExpiredOffers ==
  /\ search = "found"
  /\ Give([t \in Trader |-> TotalRefund(t, StillThere)])
  /\ offers' = [id \in OfferId |->
                  IF \E row \in StillThere : row.id = id THEN NoOffer
                  ELSE offers[id]]
  /\ search' = "none"
  /\ rows' = {}
  /\ UNCHANGED <<online, made, expired>>

MarketNext ==
  \/ \E t \in Trader :
       \/ LogIn(t) \/ SaveTrader(t) \/ LogOut(t)
       \/ \E amount \in 1 .. Items, price \in Price, sale \in BOOLEAN :
            playerCreateMarketOffer(t, sale, amount, price)
       \/ \E id \in OfferId :
            \/ playerCancelMarketOffer(t, id)
            \/ \E amount \in 1 .. Items :
                 playerAcceptMarketOffer(t, id, amount)
  \/ \E id \in OfferId : Expire(id)
  \/ checkExpiredOffers \/ FindExpired \/ processExpiredOffers
  \/ Crash

MarketSpec == MarketInit /\ [][MarketNext]_marketVars

-----------------------------------------------------------------------------
(* Properties *)

Assets == [items : Nat, money : Nat]

Offer == [owner : Trader, sale : BOOLEAN, amount : 1 .. Items, price : Price]

MarketTypeOK ==
  /\ online \subseteq Trader
  /\ mem \in [Trader -> Assets]
  /\ saved \in [Trader -> Assets]
  /\ offers \in [OfferId -> Offer \cup {NoOffer}]
  /\ made \in {0} \cup OfferId
  /\ expired \subseteq OfferId
  /\ search \in {"none", "queued", "found"}
  /\ search # "found" => rows = {}

(* What the traders have and what the offers hold back for their owners.   *)
TotalItems ==
  SumFunction([t \in Trader |-> mem[t].items])
    + SumFunction([id \in OfferId |-> Refund(offers[id]).items])

TotalMoney ==
  SumFunction([t \in Trader |-> mem[t].money])
    + SumFunction([id \in OfferId |-> Refund(offers[id]).money])

(* The rows that are paid back with an amount that is out of date.         *)
Stale == \E row \in StillThere : row.offer # offers[row.id]

(* No request, and no expiry, makes or loses items or money but for the    *)
(* fee, whoever is in the game and whatever was saved.  The exceptions are *)
(* in the code: an offer of which a part was accepted after the query for  *)
(* expired ones ran is paid back in full, and a crash brings back what was *)
(* paid for an offer since its owner was saved, or takes away what was     *)
(* gained.                                                                 *)
NothingIsMadeOrLost ==
  /\ []MarketTypeOK
  /\ [][\/ /\ TotalItems' = TotalItems
           /\ TotalMoney' = TotalMoney - (IF made' = made THEN 0 ELSE Fee)
        \/ processExpiredOffers /\ Stale
        \/ Crash /\ \E t \in online : mem[t] # saved[t]
       ]_marketVars
=============================================================================
