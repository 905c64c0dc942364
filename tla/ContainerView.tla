----------------------------- MODULE ContainerView ----------------------------
(***************************************************************************)
(* The container windows of a player (openContainers of newsrc/player.cpp, *)
(* the notifications of newsrc/container.cpp and newsrc/tile.cpp,          *)
(* internalUseItem of newsrc/actions.cpp, the container requests of        *)
(* newsrc/game.cpp).  The server keeps which container each window shows,  *)
(* the client the items it was told of: the list is sent once, then only   *)
(* changes by their slot.  A window must go when its container, or what    *)
(* holds it, gets out of reach, whoever moves what.                        *)
(*                                                                         *)
(* There is one player, next to another who holds things too.  Two tiles   *)
(* are out of each other's reach.  Windows always show the first page:     *)
(* nothing calls setContainerIndex.                                        *)
(***************************************************************************)
EXTENDS Integers, SequencesExt

CONSTANTS Bag, Item, Window, None  \* Window: numbers up to 15

VARIABLES
  content,        \* Container::itemlist
  parent,         \* of each thing: a tile, a player, a bag, or None
  spot,           \* the tile the player is on
  openContainers, \* Player::openContainers, None for no entry
  client          \* external: what each window of the client shows

vars == <<content, parent, spot, openContainers, client>>

Thing == Bag \cup Item
Tile == {"home", "away"}
Own == "me"
Neighbour == "other"    \* stands at home
Spot == Tile \cup {Own, Neighbour}

-----------------------------------------------------------------------------
(* What holds x: its parent, the parent's parent and so on.                *)
Up(par, x) ==
  LET up[n \in 0 .. Cardinality(Bag)] ==
        IF n = 0 THEN par[x]
        ELSE IF up[n - 1] \in Bag THEN par[up[n - 1]] ELSE up[n - 1]
  IN  up

Within(par, x, b) ==
  x = b \/ \E n \in 0 .. Cardinality(Bag) : Up(par, x)[n] = b
Root(par, x) == Up(par, x)[Cardinality(Bag)] \* a place, or None if removed

(* Position::areInRange<1, 1, 0>, of what a place holds.                   *)
Near(root, at) == root = at \/ root = Own \/ (root = Neighbour /\ at = "home")

(* What a player may have open: its own and what stands next to it.        *)
InReach(root, at) == root = at \/ root = Own

-----------------------------------------------------------------------------
(* Messages, as the client takes them: it knows windows by their number    *)
(* and passes over those it does not show.                                 *)

Showing(open, b) == {w \in Window : open[w] = b}
Shown(view, open, b) == {w \in Showing(open, b) : view[w] # None}

Changed(view, items) ==
  [w \in Window |-> IF w \in DOMAIN items
                    THEN [view[w] EXCEPT !.items = items[w]] ELSE view[w]]

sendAddContainerItem(view, open, b, x) ==
  Changed(view, [w \in Shown(view, open, b) |-> <<x>> \o view[w].items])

sendUpdateContainerItem(view, open, b, slot, x) ==
  Changed(view, [w \in Shown(view, open, b) |->
    IF slot \in DOMAIN view[w].items
    THEN [view[w].items EXCEPT ![slot] = x] ELSE view[w].items])

sendRemoveContainerItem(view, open, b, slot) ==
  Changed(view, [w \in Shown(view, open, b) |->
    IF slot \in DOMAIN view[w].items
    THEN RemoveAt(view[w].items, slot) ELSE view[w].items])

sendContainer(view, con, w, b) ==
  [view EXCEPT ![w] = [bag |-> b, items |-> con[b]]]

(* onSendContainer                                                         *)
Sent(view, con, open, b) ==
  [w \in Window |-> IF open[w] = b THEN [bag |-> b, items |-> con[b]]
                    ELSE view[w]]

Closed(f, wins) == [w \in Window |-> IF w \in wins THEN None ELSE f[w]]

-----------------------------------------------------------------------------
Init ==
  /\ content = [b \in Bag |-> <<>>]
  /\ parent = [x \in Thing |-> IF x \in Bag THEN "home" ELSE Own]
  /\ spot = "home"
  /\ openContainers = [w \in Window |-> None]
  /\ client = [w \in Window |-> None]

(* Faulty variant: windows on what is inside stay.                         *)
autoCloseContainersOnly(par, x) ==
  {w \in Window : openContainers[w] = x /\ x \in Bag}

(* autoCloseContainers: the windows on x and on all that is inside, and on *)
(* what is removed.                                                        *)
autoCloseContainers(par, x) ==
  {w \in Window :
     /\ openContainers[w] # None
     /\ \/ Within(par, openContainers[w], x)
        \/ Root(par, openContainers[w]) = None}

(* Player::postRemoveNotification of x: the windows it closes.  Somebody   *)
(* else's inventory is nobody's to look into.                              *)
ToClose(par, x) ==
  IF x \in Bag /\ (~Near(Root(par, x), spot) \/ Root(par, x) = Neighbour)
  THEN autoCloseContainers(par, x) ELSE {}

(* What leaves another player's inventory is told to that player only.     *)
Notified(from) == from # Neighbour

Taken(con, from, x) ==
  IF from \in Bag THEN [con EXCEPT ![from] = SelectSeq(@, LAMBDA y : y # x)]
  ELSE con

Put(con, to, x) ==
  IF to \in Bag THEN [con EXCEPT ![to] = <<x>> \o @] ELSE con

(* removeThing, told before the item is gone.                              *)
Removed(from, x) ==
  IF from \in Bag /\ Near(Root(parent, from), spot)
  THEN sendRemoveContainerItem(client, openContainers, from,
         SelectInSeq(content[from], LAMBDA y : y = x))
  ELSE client

(* addThing, told afterwards.                                              *)
Added(view, par, to, x) ==
  IF to \in Bag /\ Near(Root(par, to), spot)
  THEN sendAddContainerItem(view, openContainers, to, x) ELSE view

(* The windows on a bag that was moved and stays in reach are sent anew,   *)
(* by postRemoveNotification or by postAddNotification.                    *)
Notify(con, par, x, view, told) ==
  LET wins == IF told THEN ToClose(par, x) ELSE {}
      open == Closed(openContainers, wins)
      left == Closed(view, wins)
  IN  /\ openContainers' = open
      /\ client' = IF x \in Bag /\ (told \/ Root(par, x) # Neighbour)
                   THEN Sent(left, con, open, x) ELSE left

(* internalMoveItem, by whomever; a bag does not go into itself.           *)
MoveItem(x, to) ==
  LET from == parent[x]
      par == [parent EXCEPT ![x] = to]
      con == Put(Taken(content, from, x), to, x)
  IN  /\ Root(parent, x) # None
      /\ to # from \/ to \in Bag
      /\ to \in Bag => ~Within(parent, to, x) /\ Root(parent, to) # None
      /\ content' = con /\ parent' = par
      /\ Notify(con, par, x, Added(Removed(from, x), par, to, x),
                Notified(Root(parent, x)))
      /\ UNCHANGED spot

(* internalAddItem of a new item.                                          *)
AddItem(x, to) ==
  LET par == [parent EXCEPT ![x] = to]
      con == Put(content, to, x)
  IN  /\ parent[x] = None
      /\ to \in Bag => Root(parent, to) # None
      /\ content' = con /\ parent' = par
      /\ Notify(con, par, x, Added(client, par, to, x), FALSE)
      /\ UNCHANGED spot

(* An item goes with all that is inside.                                   *)
Destroyed(par, x) ==
  [y \in Thing |-> IF Within(par, y, x) THEN None ELSE par[y]]
Emptied(con, x) ==
  [b \in Bag |-> IF Within(parent, b, x) THEN <<>> ELSE con[b]]

(* internalRemoveItem                                                      *)
RemoveItem(x) ==
  LET from == parent[x]
      par == Destroyed(parent, x)
  IN  /\ Root(parent, x) # None
      /\ parent' = par /\ content' = Emptied(Taken(content, from, x), x)
      /\ Notify(content', par, x, Removed(from, x),
                Notified(Root(parent, x)))
      /\ UNCHANGED spot

(* transformItem: x becomes the new item y in its place.                   *)
ReplaceItem(x, y) ==
  LET from == parent[x]
      par == [Destroyed(parent, x) EXCEPT ![y] = from]
      slot == SelectInSeq(content[from], LAMBDA z : z = x)
  IN  /\ from \in Bag /\ Root(parent, x) # None
      /\ parent[y] = None /\ y \in Item
      /\ parent' = par
      /\ content' = Emptied([content EXCEPT ![from][slot] = y], x)
      /\ Notify(content', par, x,
                IF Near(Root(parent, from), spot)
                THEN sendUpdateContainerItem(client, openContainers, from,
                       slot, y)
                ELSE client, Notified(Root(parent, x)))
      /\ UNCHANGED spot

(* Player::postAddNotification of the player itself.                       *)
Walk(to) ==
  LET far == {b \in Bag : \E w \in Window : openContainers[w] = b
                            /\ ~Near(Root(parent, b), to)}
      wins == UNION {autoCloseContainers(parent, b) : b \in far}
  IN  /\ to # spot /\ spot' = to
      /\ openContainers' = Closed(openContainers, wins)
      /\ client' = Closed(client, wins)
      /\ UNCHANGED <<content, parent>>

(* playerUseItem: it can be named by its tile, its slot, or a window.      *)
CanName(b) ==
  \/ parent[b] \in {spot, Own}
  \/ parent[b] \in Bag /\ Showing(openContainers, parent[b]) # {}

(* internalUseItem: what is open is closed; of several windows on it all   *)
(* are closed at the client, and one is forgotten.                         *)
UseContainer(w, b) ==
  LET wins == Showing(openContainers, b)
      first == CHOOSE v \in wins : \A u \in wins : v <= u
      open == [openContainers EXCEPT ![w] = b]
  IN  /\ CanName(b)
      /\ IF wins # {}
         THEN /\ openContainers' = [openContainers EXCEPT ![first] = None]
              /\ client' = Closed(client, wins)
         ELSE /\ openContainers' = open
              /\ client' = Sent(client, content, open, b)
      /\ UNCHANGED <<content, parent, spot>>

playerCloseContainer(w) ==
  /\ openContainers' = Closed(openContainers, {w})
  /\ client' = Closed(client, {w})
  /\ UNCHANGED <<content, parent, spot>>

playerMoveUpContainer(w) ==
  /\ openContainers[w] # None
  /\ LET up == parent[openContainers[w]]
     IN  /\ up \in Bag
         /\ openContainers' = [openContainers EXCEPT ![w] = up]
         /\ client' = sendContainer(client, content, w, up)
  /\ UNCHANGED <<content, parent, spot>>

playerUpdateContainer(w) ==
  /\ openContainers[w] # None
  /\ client' = sendContainer(client, content, w, openContainers[w])
  /\ UNCHANGED <<content, parent, spot, openContainers>>

(* ProtocolGame::connect: a new client takes the player over, and is told  *)
(* of no window.                                                           *)
connect ==
  /\ client' = [w \in Window |-> None]
  /\ UNCHANGED <<content, parent, spot, openContainers>>

Next ==
  \/ connect
  \/ \E to \in Tile : Walk(to)
  \/ \E x \in Thing :
       \/ RemoveItem(x)
       \/ \E to \in Spot \cup Bag : MoveItem(x, to) \/ AddItem(x, to)
       \/ \E y \in Item : ReplaceItem(x, y)
  \/ \E w \in Window :
       \/ playerCloseContainer(w)
       \/ playerMoveUpContainer(w)
       \/ playerUpdateContainer(w)
       \/ \E b \in Bag : UseContainer(w, b)

Spec == Init /\ [][Next]_vars

-----------------------------------------------------------------------------
(* Properties *)

TypeOK ==
  /\ content \in [Bag -> Seq(Thing)]
  /\ parent \in [Thing -> Spot \cup Bag \cup {None}]
  /\ spot \in Tile
  /\ openContainers \in [Window -> Bag \cup {None}]
  /\ \A b \in Bag : ToSet(content[b]) = {x \in Thing : parent[x] = b}

(* Nobody has a container open that is out of reach, and what the client   *)
(* shows in a window is what the container holds (postRemoveNotification,  *)
(* autoCloseContainers, sendRemoveContainerItem).                          *)
ClientShowsContainers ==
  \A w \in Window :
    /\ openContainers[w] # None =>
         InReach(Root(parent, openContainers[w]), spot)
    /\ client[w] # None =>
         /\ client[w].bag = openContainers[w]
         /\ client[w].items = content[client[w].bag]
=============================================================================
