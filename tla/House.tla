------------------------------- MODULE House -------------------------------
(***************************************************************************)
(* One house (house.cpp, housetile.cpp, bed.cpp): its owner and its access *)
(* lists, the players inside, the beds with the map bedSleepersMap that    *)
(* finds a sleeper's bed at the next login (game.cpp), the 50 ms between   *)
(* lying down and being logged out, the transfer document of a house sale, *)
(* and what the database keeps: setOwner writes the owner at once, the     *)
(* lists and the beds are only written when the map is saved, so that a    *)
(* crash leaves the new owner with the lists of the last save.             *)
(*                                                                         *)
(* A bed is both of its halves.  A player cannot lie down twice before the *)
(* kick: the action delay (200 ms) is longer than SCHEDULER_MINTICKS.      *)
(***************************************************************************)
EXTENDS FiniteSets, Naturals

CONSTANTS Player, Bed, None

ASSUME HouseAssumption == None \notin Player \cup Bed

VARIABLES
  owner,     \* House::owner
  guests,    \* guestList and subOwnerList: whom the lists invite
  where,     \* the player's place: "off", "out", "in"
  sleeper,   \* BedItem::sleeperGUID
  bedOf,     \* Game::bedSleepersMap
  kicks,     \* players whose kickPlayer event is in the scheduler
  transfer,  \* House::transferItem, as the seller who made it, or None
  stored     \* houses_alfa, house_lists_alfa and tile_store_alfa

house == <<owner, guests, where, sleeper, bedOf, kicks, transfer>>
houseVars == <<owner, guests, where, sleeper, bedOf, kicks, transfer, stored>>

Stored == [owner : Player \cup {None}, guests : SUBSET Player,
           sleeper : [Bed -> Player \cup {None}]]

TypeOK ==
  /\ owner \in Player \cup {None}
  /\ guests \subseteq Player
  /\ where \in [Player -> {"off", "out", "in"}]
  /\ sleeper \in [Bed -> Player \cup {None}]
  /\ bedOf \in [Player -> Bed \cup {None}]
  /\ kicks \subseteq Player
  /\ transfer \in Player \cup {None}
  /\ stored \in Stored

Init ==
  /\ owner = None
  /\ guests = {}
  /\ where = [p \in Player |-> "off"]
  /\ sleeper = [b \in Bed |-> None]
  /\ bedOf = [p \in Player |-> None]
  /\ kicks = {}
  /\ transfer = None
  /\ stored = [owner |-> None, guests |-> {}, sleeper |-> sleeper]

-----------------------------------------------------------------------------
Online == {p \in Player : where[p] # "off"}

\* House::getHouseAccessLevel is not HOUSE_NOT_INVITED.
isInvited(p) == p = owner \/ p \in guests

\* House::kickPlayer for everyone of ps on the house's tiles.
Evict(ps) == where' = [p \in Player |->
  IF p \in ps /\ where[p] = "in" THEN "out" ELSE where[p]]

\* Faulty: bedSleepersMap keeps the sleeper.
WakeUpListed(bs) ==
  /\ sleeper' = [b \in Bed |-> IF b \in bs THEN None ELSE sleeper[b]]
  /\ UNCHANGED bedOf

\* BedItem::wakeUp for the beds of bs: their sleepers leave the map.
WakeUp(bs) ==
  /\ sleeper' = [b \in Bed |-> IF b \in bs THEN None ELSE sleeper[b]]
  /\ bedOf' = [p \in Player |->
       IF \E b \in bs : sleeper[b] = p THEN None ELSE bedOf[p]]

-----------------------------------------------------------------------------
(* A player logs in where it left, or at the entry when it is no longer    *)
(* invited (HouseTile::queryDestination), and is woken only then.          *)
Login(p) ==
  /\ where[p] = "off"
  /\ \E place \in {"in", "out"} :
       /\ place = "in" => isInvited(p)
       /\ where' = [where EXCEPT ![p] = place]
  /\ IF bedOf[p] # None THEN WakeUp({bedOf[p]})
     ELSE UNCHANGED <<sleeper, bedOf>>
  /\ UNCHANGED <<owner, guests, kicks, transfer, stored>>

(* The trade of a seller who leaves is closed, and the document with it;   *)
(* a kick still scheduled finds no player of that id any more.             *)
Logout(p) ==
  /\ p \in Online
  /\ where' = [where EXCEPT ![p] = "off"]
  /\ kicks' = kicks \ {p}
  /\ transfer' = IF transfer = p THEN None ELSE transfer
  /\ UNCHANGED <<owner, guests, sleeper, bedOf, stored>>

\* HouseTile::queryAdd.
Enter(p) ==
  /\ where[p] = "out"
  /\ isInvited(p)
  /\ where' = [where EXCEPT ![p] = "in"]
  /\ UNCHANGED <<owner, guests, sleeper, bedOf, kicks, transfer, stored>>

Leave(p) ==
  /\ where[p] = "in"
  /\ where' = [where EXCEPT ![p] = "out"]
  /\ UNCHANGED <<owner, guests, sleeper, bedOf, kicks, transfer, stored>>

(* Lying down: canUse asks for premium time only, sleep moves the player   *)
(* onto the bed without a query, so a bed by the outer wall takes a        *)
(* stranger in as well, for the 50 ms until he is logged out.              *)
Sleep(p, b) ==
  /\ p \in Online \ kicks
  /\ sleeper[b] = None
  /\ sleeper' = [sleeper EXCEPT ![b] = p]
  /\ bedOf' = [bedOf EXCEPT ![p] = b]
  /\ where' = [where EXCEPT ![p] = "in"]
  /\ kicks' = kicks \cup {p}
  /\ UNCHANGED <<owner, guests, transfer, stored>>

\* The owner of the house wakes a sleeper by using the bed.
trySleep(p, b) ==
  /\ p = owner /\ p \in Online
  /\ sleeper[b] # None
  /\ WakeUp({b})
  /\ UNCHANGED <<owner, guests, where, kicks, transfer, stored>>

\* The scheduled Game::kickPlayer, which no script can refuse.
Kick(p) ==
  /\ p \in kicks
  /\ kicks' = kicks \ {p}
  /\ where' = [where EXCEPT ![p] = "off"]
  /\ transfer' = IF transfer = p THEN None ELSE transfer
  /\ UNCHANGED <<owner, guests, sleeper, bedOf, stored>>

(* House::setOwner of a loaded house: the row of the database at once,     *)
(* everyone out, the beds woken, the lists cleared.  The document of a     *)
(* sale under way stays valid.                                             *)
setOwner(guid) ==
  /\ owner # guid
  /\ stored' = [stored EXCEPT !.owner = guid]
  /\ owner' = guid
  /\ IF owner = None
     THEN UNCHANGED <<where, sleeper, bedOf, guests>>
     ELSE /\ Evict(Player)
          /\ WakeUp(Bed)
          /\ guests' = {}
  /\ UNCHANGED kicks

\* Buying, bidding, eviction: the scripts and the rent.
SetOwner(guid) == setOwner(guid) /\ UNCHANGED transfer

\* Faulty: whom the new list leaves out stays inside.
setAccessListQuietly(ps) ==
  /\ owner # None
  /\ guests # ps
  /\ guests' = ps
  /\ UNCHANGED <<where, owner, sleeper, bedOf, kicks, transfer, stored>>

\* House::setAccessList kicks whom the new list does not invite.
setAccessList(ps) ==
  /\ owner # None
  /\ guests # ps
  /\ guests' = ps
  /\ Evict(Player \ (ps \cup {owner}))
  /\ UNCHANGED <<owner, sleeper, bedOf, kicks, transfer, stored>>

\* House::kickPlayer by one who is inside or an equal.
kickPlayer(p) ==
  /\ where[p] = "in"
  /\ Evict({p})
  /\ UNCHANGED <<owner, guests, sleeper, bedOf, kicks, transfer, stored>>

\* house:startTrade and getTransferItem.
StartTrade(p) ==
  /\ p = owner /\ p \in Online
  /\ transfer = None
  /\ transfer' = p
  /\ UNCHANGED <<owner, guests, where, sleeper, bedOf, kicks, stored>>

\* HouseTransferItem::onTradeEvent: cancelled, or transferred to the buyer.
CancelTrade ==
  /\ transfer # None
  /\ transfer' = None
  /\ UNCHANGED <<owner, guests, where, sleeper, bedOf, kicks, stored>>

executeTransfer(buyer) ==
  /\ transfer # None
  /\ buyer \in Online \ {transfer}
  /\ IF owner = buyer   \* bought otherwise in between
     THEN UNCHANGED <<owner, guests, where, sleeper, bedOf, kicks, stored>>
     ELSE setOwner(buyer)
  /\ transfer' = None

\* IOMapSerialize::saveHouseInfo and saveHouseItems.
Save ==
  /\ stored' = [owner |-> owner, guests |-> guests, sleeper |-> sleeper]
  /\ stored' # stored
  /\ UNCHANGED house

(* The process dies and starts again: the tables are read back, readAttr   *)
(* of every bed with a sleeper fills bedSleepersMap.                       *)
Restart ==
  /\ owner' = stored.owner
  /\ guests' = stored.guests
  /\ sleeper' = stored.sleeper
  /\ bedOf' \in [Player -> Bed \cup {None}]
  /\ \A p \in Player :
       IF \E b \in Bed : stored.sleeper[b] = p
       THEN bedOf'[p] # None /\ stored.sleeper[bedOf'[p]] = p
       ELSE bedOf'[p] = None
  /\ where' = [p \in Player |-> "off"]
  /\ kicks' = {}
  /\ transfer' = None
  /\ UNCHANGED stored

Next ==
  \/ \E p \in Player : Login(p) \/ Logout(p) \/ Enter(p) \/ Leave(p)
                       \/ kickPlayer(p) \/ StartTrade(p) \/ Kick(p)
                       \/ executeTransfer(p)
  \/ \E p \in Player, b \in Bed : Sleep(p, b) \/ trySleep(p, b)
  \/ \E guid \in Player \cup {None} : SetOwner(guid)
  \/ \E ps \in SUBSET Player : setAccessList(ps)
  \/ CancelTrade
  \/ Save
  \/ Restart

Spec == Init /\ [][Next]_houseVars

-----------------------------------------------------------------------------
(* Nobody is in the house whom its lists do not invite, whatever the       *)
(* owner, the lists, a sale or a restart change (setOwner and              *)
(* setAccessList kick, queryAdd and queryDestination refuse): except one   *)
(* who lay down through the wall and is about to be logged out.            *)
InsideAreInvited ==
  \A p \in Player : where[p] = "in" => isInvited(p) \/ p \in kicks

(* Whoever sleeps in a bed is found by its next login, and nobody else is: *)
(* the map and the beds agree across evictions, sales and restarts, nobody *)
(* holds two beds, and a sleeper still in the world is about to leave it   *)
(* (BedItem::sleep, wakeUp, readAttr, Game::bedSleepersMap).               *)
SleepersAreKnown ==
  /\ \A p \in Player, b \in Bed : sleeper[b] = p <=> bedOf[p] = b
  /\ \A b \in Bed : sleeper[b] \in Online => sleeper[b] \in kicks

(* The house as it should be, through every sale, list and restart.        *)
HouseIsKept == TypeOK /\ InsideAreInvited /\ SleepersAreKnown
=============================================================================
