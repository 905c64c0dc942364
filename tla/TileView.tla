------------------------------- MODULE TileView -------------------------------
(***************************************************************************)
(* What a client is told about the tiles it sees (sendAddCreature,         *)
(* sendMoveCreature, GetTileDescription of newsrc/protocolgame.cpp; the    *)
(* stack positions of newsrc/tile.cpp; moveCreature of newsrc/map.cpp;     *)
(* placeCreature and removeCreature of newsrc/game.cpp).                   *)
(*                                                                         *)
(* The client keeps its own list of things for each tile in view; the      *)
(* server never repeats it, but sends changes that name a place in the     *)
(* list, counted on its own tile at the right moment and without what this *)
(* player cannot see.  A list is cut off after MaxThings.                  *)
(***************************************************************************)
EXTENDS Integers, SequencesExt

CONSTANTS
  Me,        \* the player whose client this is
  Creature,  \* others that come, go, and hide: invisible monsters, ghosts
  Thing,     \* items that lie on tiles, none of them always on top
  Width,     \* tiles 1 .. Width in a row; a client sees one to each side
  MaxThings  \* 10

VARIABLES
  creatures, \* Tile::creatures, as it is read: the newest last
  items,     \* the down items of a tile, the newest first
  hidden,    \* creatures this player cannot see
  client,    \* the lists of the client
  crowded    \* history: tiles of which the client may lack something

vars == <<creatures, items, hidden, client, crowded>>

Tile == 1 .. Width
Ground == "ground"

At(cs, c) == {t \in Tile : Contains(cs[t], c)}
Where(cs) == CHOOSE t \in Tile : Contains(cs[t], Me)
Sees(cs, t) == t \in Where(cs) - 1 .. Where(cs) + 1 \* canSee

Visible(cs, hid, t) == SelectSeq(cs[t], LAMBDA c : c \notin hid)

(* The things of a tile, as this player is to see them.                    *)
Shown(cs, its, hid, t) == <<Ground>> \o Visible(cs, hid, t) \o its[t]

Cut(s) == SubSeq(s, 1, IF Len(s) < MaxThings THEN Len(s) ELSE MaxThings)

(* GetTileDescription, for a player that is in the game.                   *)
GetTileDescription(cs, its, hid, t) == Cut(Shown(cs, its, hid, t))

(* Of a player that is logging in: its own creature is sent in any case.   *)
LoginDescription(cs, its, hid, t) ==
  LET shown == Shown(cs, its, hid, t)
  IN  IF Contains(Cut(shown), Me) THEN Cut(shown)
      ELSE Append(SubSeq(shown, 1, MaxThings - 1), Me)

-----------------------------------------------------------------------------
(* Places in the list, from 0; -1 for none.                                *)

(* Faulty variant: those the player cannot see are counted as well.        *)
getClientIndexOfCreatureAll(cs, hid, t, c) ==
  1 + Cardinality({i \in DOMAIN cs[t] :
                     \E j \in DOMAIN cs[t] : i < j /\ cs[t][j] = c})

getClientIndexOfCreature(cs, hid, t, c) ==
  1 + Cardinality({i \in DOMAIN cs[t] :
                     /\ cs[t][i] \notin hid
                     /\ \E j \in DOMAIN cs[t] : i < j /\ cs[t][j] = c})

InList(n) == IF n >= MaxThings THEN -1 ELSE n

getStackposOfCreature(cs, hid, t, c) ==
  InList(getClientIndexOfCreature(cs, hid, t, c))

getStackposOfItem(cs, its, hid, t, i) ==
  InList(1 + Len(Visible(cs, hid, t)) + SelectInSeq(its[t], LAMBDA x : x = i)
           - 1)

-----------------------------------------------------------------------------
(* What the client does with a message.                                    *)

Told(view, t, n, thing) ==
  IF n = -1 THEN view
  ELSE [view EXCEPT ![t] = Cut(IF n <= Len(@) THEN InsertAt(@, n + 1, thing)
                               ELSE Append(@, thing))]

RemoveTileThing(view, t, n) ==
  IF n = -1 \/ n >= Len(view[t]) THEN view
  ELSE [view EXCEPT ![t] = RemoveAt(@, n + 1)]

(* 0x6D: the creature goes behind those on its new tile.                   *)
MoveThing(view, t, n, to) ==
  LET behind == 1 + Len(SelectSeq(view[to],
                                  LAMBDA x : x \in Creature \cup {Me}))
  IN  IF n >= Len(view[t]) THEN view
      ELSE Told(RemoveTileThing(view, t, n), to, behind, view[t][n + 1])

(* A tile is sent as a whole when it comes into view.                      *)
Redrawn(cs, its, hid, view, ts) ==
  [t \in Tile |-> IF ~Sees(cs, t) THEN <<>>
                  ELSE IF t \in ts THEN GetTileDescription(cs, its, hid, t)
                  ELSE view[t]]

(* The tiles in view that hold more than is sent, and those that did since *)
(* they were sent as a whole.                                              *)
Crowd(cs, its, hid, before) ==
  {t \in Tile : Sees(cs, t) /\
     (t \in before \/ Len(Shown(cs, its, hid, t)) > MaxThings)}

Tiles(cs, its, hid, view, before) ==
  /\ creatures' = cs /\ items' = its /\ hidden' = hid /\ client' = view
  /\ crowded' = Crowd(cs, its, hid, before)

-----------------------------------------------------------------------------
(* The player logs in to tiles that hold anything.                         *)

Init ==
  \E home \in Tile :
    /\ creatures = [t \in Tile |-> IF t = home THEN <<Me>> ELSE <<>>]
    /\ items = [t \in Tile |-> <<>>]
    /\ hidden = {}
    /\ client = [t \in Tile |->
                   CASE t = home -> <<Ground, Me>>
                     [] t \in {home - 1, home + 1} -> <<Ground>>
                     [] OTHER -> <<>>]
    /\ crowded = {}

(* Tile::addThing with sendAddTileItem.                                    *)
addThing(i, t) ==
  /\ \A u \in Tile : ~Contains(items[u], i)
  /\ LET its == [items EXCEPT ![t] = <<i>> \o @]
     IN  Tiles(creatures, its, hidden,
               IF Sees(creatures, t)
               THEN Told(client, t,
                         getStackposOfItem(creatures, its, hidden, t, i), i)
               ELSE client, crowded)

(* Tile::removeThing with onRemoveTileItem: the place is taken before.     *)
removeThing(i, t) ==
  /\ Contains(items[t], i)
  /\ LET n == getStackposOfItem(creatures, items, hidden, t, i)
     IN  Tiles(creatures, [items EXCEPT ![t] = SelectSeq(@, LAMBDA x : x # i)],
               hidden,
               IF Sees(creatures, t) THEN RemoveTileThing(client, t, n)
               ELSE client, crowded)

Without(c) == [t \in Tile |-> SelectSeq(creatures[t], LAMBDA x : x # c)]
With(cs, c, t) == [cs EXCEPT ![t] = Append(@, c)]

(* placeCreature, of one that is visible.                                  *)
placeCreature(c, t) ==
  /\ At(creatures, c) = {}
  /\ LET cs == With(creatures, c, t)
     IN  Tiles(cs, items, hidden,
               IF Sees(cs, t)
               THEN Told(client, t, getStackposOfCreature(cs, hidden, t, c), c)
               ELSE client, crowded)

removeCreature(c, t) ==
  /\ t \in At(creatures, c)
  /\ LET n == IF c \in hidden THEN -1
              ELSE getStackposOfCreature(creatures, hidden, t, c)
     IN  Tiles(Without(c), items, hidden \ {c},
               IF Sees(creatures, t) THEN RemoveTileThing(client, t, n)
               ELSE client, crowded)

(* sendMoveCreature about somebody else.                                   *)
Moved(c, from, to, cs, n, teleport) ==
  LET gone == RemoveTileThing(client, from, InList(n))
      new == getStackposOfCreature(cs, hidden, to, c)
  IN  CASE c \in hidden -> client
        [] c \notin hidden /\ Sees(cs, from) /\ Sees(cs, to) ->
             IF teleport \/ n >= MaxThings THEN Told(gone, to, new, c)
             ELSE MoveThing(client, from, n, to)
        [] c \notin hidden /\ Sees(cs, from) /\ ~Sees(cs, to) -> gone
        [] c \notin hidden /\ ~Sees(cs, from) /\ Sees(cs, to) ->
             Told(client, to, new, c)
        [] OTHER -> client

(* sendMoveCreature about the player: by one tile, the new column is sent; *)
(* by more, or from a place the client cannot name, the whole view.        *)
MovedMyself(from, to, cs, n, teleport) ==
  LET whole == teleport \/ n >= MaxThings
      new == {t \in Tile : whole \/ ~Sees(creatures, t)}
  IN  Redrawn(cs, items, hidden,
              IF whole THEN client ELSE MoveThing(client, from, n, to), new)

(* Map::moveCreature: the old place before, the new place after.           *)
moveCreature(c, from, to, force) ==
  /\ from # to /\ from \in At(creatures, c)
  /\ LET cs == With(Without(c), c, to)
         n == getClientIndexOfCreature(creatures, hidden, from, c)
         teleport == force \/ to \notin from - 1 .. from + 1
         fresh == {t \in Tile : ~Sees(creatures, t) \/ teleport
                                  \/ n >= MaxThings}
         follows == IF from \in crowded THEN {to} ELSE {}
     IN  IF c = Me
         THEN Tiles(cs, items, hidden,
                    MovedMyself(from, to, cs, n, teleport),
                    (crowded \cup follows) \ fresh)
         ELSE Tiles(cs, items, hidden, Moved(c, from, to, cs, n, teleport),
                    crowded \cup follows)

(* internalCreatureChangeVisible, and the ghost mode of players: whoever   *)
(* hides is removed by its place, and comes back to it.                    *)
ChangeVisible(c, t) ==
  /\ t \in At(creatures, c)
  /\ LET hid == IF c \in hidden THEN hidden \ {c} ELSE hidden \cup {c}
         n == getStackposOfCreature(creatures, hid, t, c)
     IN  Tiles(creatures, items, hid,
               IF ~Sees(creatures, t) THEN client
               ELSE IF c \in hid THEN RemoveTileThing(client, t, n)
               ELSE Told(client, t, n, c), crowded)

(* The player logs in again where it stands (sendMapDescription).          *)
Relogin ==
  /\ client' = [t \in Tile |->
                  IF ~Sees(creatures, t) THEN <<>>
                  ELSE IF t = Where(creatures)
                  THEN LoginDescription(creatures, items, hidden, t)
                  ELSE GetTileDescription(creatures, items, hidden, t)]
  /\ crowded' = Crowd(creatures, items, hidden, {})
  /\ UNCHANGED <<creatures, items, hidden>>

Next ==
  \/ Relogin
  \/ \E t \in Tile :
       \/ \E i \in Thing : addThing(i, t) \/ removeThing(i, t)
       \/ \E c \in Creature :
            placeCreature(c, t) \/ removeCreature(c, t) \/ ChangeVisible(c, t)
       \/ \E c \in Creature \cup {Me}, to \in Tile, force \in BOOLEAN :
            moveCreature(c, t, to, force)

Spec == Init /\ [][Next]_vars

-----------------------------------------------------------------------------
(* Properties *)

TypeOK ==
  /\ \A t \in Tile : Len(client[t]) <= MaxThings
  /\ \A c \in Creature : Cardinality(At(creatures, c)) <= 1
  /\ hidden \subseteq Creature
  /\ crowded \subseteq Tile

(* The client shows the tiles as they are, unless they held more things    *)
(* than it is told of since they came into view, or somebody came from     *)
(* such a tile (moveCreature, the stack positions).                        *)
ClientShowsTiles ==
  \A t \in Tile \ crowded :
    client[t] = IF Sees(creatures, t)
                THEN Shown(creatures, items, hidden, t) ELSE <<>>
=============================================================================
