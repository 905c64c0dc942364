------------------------------ MODULE Cylinders ------------------------------
(***************************************************************************)
(* Items and what holds them: a tile, containers, the inventory of a       *)
(* player (newsrc/tile.cpp, container.cpp, player.cpp), and the moves,     *)
(* additions and removals of newsrc/game.cpp that take them from one       *)
(* cylinder to another.  A move asks both cylinders first (queryAdd,       *)
(* queryMaxCount, queryRemove) and then removes, merges and adds in        *)
(* several steps, while weights are kept up to date in every container     *)
(* around and in the player.                                               *)
(*                                                                         *)
(* There is one player on one tile.  Items fit into the hands, bags also    *)
(* into the backpack slot (classicEquipmentSlots).  A request is a task of *)
(* the dispatcher thread, so that a move is one step.                      *)
(***************************************************************************)
EXTENDS Integers, Sequences, FiniteSets, SequencesExt, FiniteSetsExt

CONSTANTS
  Stack,     \* bound: objects of one kind of stackable items
  Bag,       \* containers
  Weapon, TwoHanded, Shield,  \* other items
  Full,      \* a full stack, 100 in the code
  Capacity,  \* of a bag
  MaxWeight, \* Player::capacity; all things weigh 1
  None

VARIABLES
  content,   \* the items of the tile and of each bag, from the front
  slots,     \* Player::inventory
  parent,    \* Item::parent, None for an item that is not in the world
  count,     \* Item::count of a stack
  totalWeight,     \* Container::totalWeight
  inventoryWeight, \* Player::inventoryWeight
  given            \* history: what was added and not removed

vars == <<content, slots, parent, count, totalWeight, inventoryWeight, given>>

Things == Stack \cup Bag \cup Weapon \cup TwoHanded \cup Shield

(* CONST_SLOT_BACKPACK, _RIGHT and _LEFT, in the order of a search.        *)
Backpack == 3
Right == 5
Left == 6
SlotOrder == <<Backpack, Right, Left>>
Slot == ToSet(SlotOrder)

Tile == "tile"
ThePlayer == "player"
Wherever == -1   \* INDEX_WHEREEVER
MoveUp == 254    \* the index that stands for the container around

Init ==
  /\ content = [c \in Bag \cup {Tile} |-> <<>>]
  /\ slots = [s \in Slot |-> None]
  /\ parent = [i \in Things |-> None]
  /\ count = [i \in Stack |-> 0]
  /\ totalWeight = [b \in Bag |-> 0]
  /\ inventoryWeight = 0
  /\ given = 0

-----------------------------------------------------------------------------
(* A request works on the state step by step: st is a record of it.        *)

Now == [content |-> content, slots |-> slots, parent |-> parent,
        count |-> count, total |-> totalWeight, inv |-> inventoryWeight]

Become(st) ==
  /\ content' = st.content
  /\ slots' = st.slots
  /\ parent' = st.parent
  /\ count' = st.count
  /\ totalWeight' = st.total
  /\ inventoryWeight' = st.inv

(* A cylinder and those around it.                                         *)
Around(st, c) ==
  LET up[n \in 0 .. Cardinality(Bag)] ==
        IF n = 0 THEN {c}
        ELSE LET below == up[n - 1]
             IN  below \cup {st.parent[b] : b \in below \cap Bag}
  IN  up[Cardinality(Bag)]

Carried(st, c) == ThePlayer \in Around(st, c)

getWeight(st, i) ==
  CASE i \in Stack -> st.count[i]
    [] i \in Bag -> 1 + st.total[i]
    [] OTHER -> 1

Worn(st) == {st.slots[s] : s \in Slot} \ {None}

updateInventoryWeight(st) ==
  LET weight(s) ==
        IF st.slots[s] = None THEN 0 ELSE getWeight(st, st.slots[s])
  IN  [st EXCEPT !.inv = weight(Left) + weight(Right) + weight(Backpack)]

(* postAddNotification and postRemoveNotification: a cylinder that the     *)
(* player carries has the player weigh the inventory again.                *)
Notify(st, c) == IF Carried(st, c) THEN updateInventoryWeight(st) ELSE st

(* Faulty variant: only the container itself.                              *)
updateItemWeightHere(st, c, diff) ==
  [st EXCEPT !.total = [b \in Bag |-> IF b = c THEN @[b] + diff ELSE @[b]]]

(* Container::updateItemWeight goes up to the outermost container.         *)
updateItemWeight(st, c, diff) ==
  [st EXCEPT !.total = [b \in Bag |-> IF b \in Around(st, c) THEN @[b] + diff
                                      ELSE @[b]]]

(* Item::equals, of two stacks.                                            *)
Same(i, j) == {i, j} \subseteq Stack

SlotOf(st, i) == CHOOSE s \in Slot : st.slots[s] = i

addThing(st, c, index, i) ==
  LET in == [st EXCEPT !.parent[i] = c]
  IN  IF c = ThePlayer THEN [in EXCEPT !.slots[index] = i]
      ELSE updateItemWeight([in EXCEPT !.content[c] = <<i>> \o @], c,
                            getWeight(in, i))

(* removeThing: part of a stack, or the item.                              *)
removeThing(st, c, i, n) ==
  LET part == i \in Stack /\ n # st.count[i]
      less == updateItemWeight(st, c, -(IF part THEN n ELSE getWeight(st, i)))
  IN  CASE part -> [less EXCEPT !.count[i] = @ - n]
        [] c = ThePlayer -> [st EXCEPT !.slots[SlotOf(st, i)] = None,
                                       !.parent[i] = None]
        [] OTHER -> [less EXCEPT !.content[c] = Remove(@, i),
                                 !.parent[i] = None]

(* updateThing, of a stack that grows.                                     *)
Grow(st, c, i, n) == updateItemWeight([st EXCEPT !.count[i] = @ + n], c, n)

-----------------------------------------------------------------------------
(* What the cylinders are asked *)

hasCapacity(st, i, n) ==
  \/ Carried(st, st.parent[i])
  \/ (IF i \in Stack THEN n ELSE getWeight(st, i))
       <= Max({0, MaxWeight - st.inv})

OtherHand(s) == IF s = Left THEN Right ELSE Left

(* Faulty variant: two-handed weapons are weapons like others.             *)
FitsHandAsOne(st, s, i) ==
  LET other == st.slots[OtherHand(s)]
  IN  \/ other \in {None, i}
      \/ \A kind \in {Shield, Weapon} : ~ {other, i} \subseteq kind

(* Player::queryAdd for a hand.                                            *)
FitsHand(st, s, i) ==
  LET other == st.slots[OtherHand(s)]
  IN  \/ other \in {None, i}
      \/ /\ {other, i} \cap TwoHanded = {}
         /\ \A kind \in {Shield, Weapon} : ~ {other, i} \subseteq kind

(* Player::queryAdd: "ok", "exchange" or "no".                             *)
PlayerQueryAdd(st, index, i, n) ==
  LET there == st.slots[index]
  IN  CASE index = Wherever -> "no"
        [] index = Backpack /\ i \notin Bag -> "no"
        [] index # Backpack /\ ~ FitsHand(st, index, i) -> "no"
        [] there # None /\ ~ Same(there, i) -> "exchange"
        [] OTHER -> IF hasCapacity(st, i, n) THEN "ok" ELSE "no"

(* Faulty variant: a container may go into one that it holds.              *)
ContainerQueryAddDeep(st, b, index, i, n) ==
  IF /\ i # b
     /\ index = Wherever => Len(st.content[b]) < Capacity
     /\ Carried(st, b) => hasCapacity(st, i, n)
  THEN "ok" ELSE "no"

(* Container::queryAdd: not into itself, and a player who carries it must  *)
(* be able to carry more.                                                  *)
ContainerQueryAdd(st, b, index, i, n) ==
  IF /\ i \notin Around(st, b)
     /\ index = Wherever => Len(st.content[b]) < Capacity
     /\ Carried(st, b) => hasCapacity(st, i, n)
  THEN "ok" ELSE "no"

queryAdd(st, c, index, i, n) ==
  CASE c = Tile -> "ok"
    [] c = ThePlayer -> PlayerQueryAdd(st, index, i, n)
    [] OTHER -> ContainerQueryAdd(st, c, index, i, n)

(* How much more a stack takes.                                            *)
Room(st, i) == Full - st.count[i]

ContainerMaxCount(st, b, index, i, n) ==
  LET free == Max({Capacity - Len(st.content[b]), 0})
      takes(j, r) == /\ Same(i, j) /\ j # i /\ st.count[j] < Full
                     /\ ContainerQueryAdd(st, b, 1, i, r) = "ok"
      into == IF index = Wherever THEN ToSet(st.content[b])
              ELSE {st.content[b][k] :
                      k \in {index} \cap DOMAIN st.content[b]}
  IN  IF i \notin Stack THEN free
      ELSE free * Full
             + MapThenSumSet(LAMBDA j : IF takes(j, Room(st, j))
                                        THEN Room(st, j) ELSE 0, into)

(* Every container the player carries, and every slot.                     *)
PlayerMaxCountAll(st, i) ==
  LET n == IF i \in Stack THEN st.count[i] ELSE 1
      inBags == MapThenSumSet(
                  LAMBDA b : ContainerMaxCount(st, b, Wherever, i, n),
                  {b \in Bag : Carried(st, b)})
      inSlot(s) ==
        LET j == st.slots[s]
        IN  CASE j = None /\ PlayerQueryAdd(st, s, i, n) = "ok" ->
                   IF i \in Stack THEN Full ELSE 1
              [] Same(i, j) /\ st.count[j] < Full
                   /\ PlayerQueryAdd(st, s, i, Room(st, j)) = "ok" ->
                   Room(st, j)
              [] OTHER -> 0
  IN  inBags + inSlot(Left) + inSlot(Right) + inSlot(Backpack)

queryMaxCount(st, c, index, i, n) ==
  CASE c = Tile -> Max({1, n})
    [] c = ThePlayer /\ index = Wherever -> PlayerMaxCountAll(st, i)
    [] c = ThePlayer ->
         LET j == st.slots[index]
         IN  CASE j = None /\ PlayerQueryAdd(st, index, i, n) = "ok" ->
                    IF i \in Stack THEN Full ELSE 1
               [] Same(i, j) /\ st.count[j] < Full -> Room(st, j)
               [] OTHER -> 0
    [] OTHER -> ContainerMaxCount(st, c, index, i, n)

queryRemove(st, c, i, n) ==
  st.parent[i] = c /\ n > 0 /\ (i \in Stack => n <= st.count[i])

-----------------------------------------------------------------------------
(* queryDestination: the cylinder, the index in it, and the item there.    *)

To(c, index, i) == [cyl |-> c, index |-> index, item |-> i]

(* The bags the player carries, breadth first.                             *)
BagsCarried(st) ==
  LET bagsIn(seq) == SelectSeq(seq, LAMBDA j : j \in Bag)
      level[n \in 0 .. Cardinality(Bag)] ==
        IF n = 0
        THEN bagsIn([k \in DOMAIN SlotOrder |-> st.slots[SlotOrder[k]]])
        ELSE LET above == level[n - 1]
             IN  FlattenSeq([k \in DOMAIN above |->
                               bagsIn(st.content[above[k]])])
  IN  FlattenSeq([n \in 1 .. Cardinality(Bag) |-> level[n - 1]])

(* The player takes an item to a stack in a slot, to an empty slot, or to  *)
(* a bag with such a stack or with room.                                   *)
PlayerDestination(st, i) ==
  LET n == IF i \in Stack THEN st.count[i] ELSE 1
      merges(j) == Same(i, j) /\ j # i /\ st.count[j] < Full
      slot(k) == st.slots[SlotOrder[k]]
      goodSlot(k) == /\ slot(k) = None \/ merges(slot(k))
                     /\ PlayerQueryAdd(st, SlotOrder[k], i, n) = "ok"
      bags == SelectSeq(BagsCarried(st), LAMBDA b : b # i)
      \* a search for a stack does not count the item itself
      others(b) == IF i \in Stack THEN Remove(st.content[b], i)
                   ELSE st.content[b]
      has(b) == SelectInSeq(others(b), merges)
      goodBag(b) ==
        \/ has(b) > 0
        \/ /\ Len(others(b)) < Capacity
           /\ ContainerQueryAdd(st, b, 1, i, n) = "ok"
      s == SelectInSeq([k \in DOMAIN SlotOrder |-> k], goodSlot)
      b == SelectInSeq(bags, goodBag)
      found == others(bags[b])
      at == has(bags[b])
  IN  CASE s > 0 -> To(ThePlayer, SlotOrder[s], slot(s))
        [] s = 0 /\ b > 0 -> IF at > 0 THEN To(bags[b], at, found[at])
                             ELSE To(bags[b], Len(found) + 1, None)
        [] OTHER -> To(ThePlayer, Wherever, None)

ContainerDestination(st, b, index, i) ==
  LET items == st.content[b]
      stack == SelectInSeq(items, LAMBDA j : /\ Same(i, j) /\ j # i
                                             /\ st.count[j] < Full)
      at == IF index \in DOMAIN items THEN items[index] ELSE None
  IN  CASE index = MoveUp ->
             To(IF st.parent[b] \in Bag THEN st.parent[b] ELSE b,
                Wherever, None)
        [] index # MoveUp /\ st.parent[i] # b /\ stack > 0 ->
             To(b, stack, items[stack])
        [] OTHER -> IF at \in Bag THEN To(at, Wherever, None)
                    ELSE To(b, index, at)

queryDestination(st, c, index, i) ==
  CASE c = Tile ->
         To(Tile, index, IF st.content[Tile] = <<>> THEN None
                         ELSE Head(st.content[Tile]))
    [] c = ThePlayer /\ index = Wherever -> PlayerDestination(st, i)
    [] c = ThePlayer ->
         IF st.slots[index] \in Bag THEN To(st.slots[index], Wherever, None)
         ELSE To(ThePlayer, index, st.slots[index])
    [] OTHER -> ContainerDestination(st, c, index, i)

(* internalMoveItem asks on until the answer is the cylinder it asked.     *)
Destination(st, c, index, i) ==
  LET ask[n \in 0 .. Cardinality(Bag) + 2] ==
        IF n = 0 THEN [asked |-> None, answer |-> To(c, index, None)]
        ELSE LET last == ask[n - 1]
                 at == last.answer
             IN  IF last.asked = at.cyl THEN last
                 ELSE [asked |-> at.cyl,
                       answer |-> queryDestination(st, at.cyl, at.index, i)]
  IN  ask[Cardinality(Bag) + 2].answer

-----------------------------------------------------------------------------
(* Moves, additions and removals *)

Unused(st, i) == {j \in Stack : Same(i, j) /\ st.parent[j] = None}

(* Bound: a part of a stack is taken while there is an object for it.      *)
NoneLeft(st, i, n) == i \in Stack /\ n < st.count[i] /\ Unused(st, i) = {}

CountOf(st, i) == IF i \in Stack THEN st.count[i] ELSE 1

(* An item that stands where another is to go is put where that comes from,*)
(* before the move is looked at again.                                     *)
Exchange(st, from, to, i) ==
  LET out == removeThing(st, to.cyl, to.item, CountOf(st, to.item))
  IN  Notify(Notify(addThing(out, from, Wherever, to.item), to.cyl), from)

CanExchange(st, from, to, i) ==
  LET n == CountOf(st, to.item)
  IN  /\ from # ThePlayer
      /\ queryAdd(st, from, 1, to.item, n) = "ok"
      /\ queryMaxCount(st, from, Wherever, to.item, n) > 0

(* What is moved, or a clone of the stack for the part that is.            *)
Arrive(st, to, i, n) ==
  LET put == IF i \in Stack THEN CHOOSE j \in Unused(st, i) : TRUE ELSE i
  IN  addThing(IF i \in Stack THEN [st EXCEPT !.count[put] = n] ELSE st,
               to.cyl, to.index, put)

(* How much of n the stack that is there takes.                            *)
Merged(st, to, i, n) ==
  IF Same(i, to.item) THEN Min({Room(st, to.item), n}) ELSE 0

Merge(st, to, i, m, merged) ==
  LET grown == IF merged = 0 THEN st ELSE Grow(st, to.cyl, to.item, merged)
  IN  IF merged = m THEN grown ELSE Arrive(grown, to, i, m - merged)

(* removeThing, then the merge with the stack that is there, then addThing *)
(* of the item or of a clone of it; notifications last.                    *)
Transfer(st, from, to, i, m) ==
  LET out == removeThing(st, from, i, m)
  IN  Notify(Notify(Merge(out, to, i, m, Merged(out, to, i, m)), from),
             to.cyl)

(* Objects of the stackable kind are released when they leave the world.   *)
Released(st) ==
  [st EXCEPT !.count = [i \in Stack |-> IF st.parent[i] = None THEN 0
                                        ELSE @[i]]]

(* The rest of internalMoveItem, when nothing is to be exchanged any more. *)
MoveInto(st, from, to, i, n) ==
  LET max == queryMaxCount(st, to.cyl, to.index, i, n)
      m == IF i \in Stack THEN Min({n, max}) ELSE max
  IN  IF \/ i = to.item
         \/ queryAdd(st, to.cyl, to.index, i, n) # "ok"
         \/ max = 0
         \/ NoneLeft(st, i, m)
         \/ ~ queryRemove(st, from, i, m)
      THEN st
      ELSE Released(Transfer(st, from, to, i, m))

MoveTo(st, from, to, i, n) ==
  LET swap == /\ queryAdd(st, to.cyl, to.index, i, n) = "exchange"
              /\ CanExchange(st, from, to, i)
  IN  MoveInto(IF swap THEN Exchange(st, from, to, i) ELSE st, from,
               IF swap THEN To(to.cyl, to.index, None) ELSE to, i, n)

(* internalMoveItem                                                        *)
Move(st, c, index, i, n) ==
  MoveTo(st, st.parent[i], Destination(st, c, index, i), i, n)

playerMoveItem(i, c, index, n) ==
  /\ parent[i] # None
  /\ n <= CountOf(Now, i) /\ ~ NoneLeft(Now, i, n)
  /\ Become(Move(Now, c, index, i, n))
  /\ UNCHANGED given

CanPutInto(st, c, to, i, n) ==
  /\ queryAdd(st, to.cyl, to.index, i, n) = "ok"
  /\ queryMaxCount(st, c, Wherever, i, n) >= n

CanPut(st, c, i) ==
  CanPutInto(st, c, queryDestination(st, c, Wherever, i), i, CountOf(st, i))

PutMerged(st, to, i, merged) ==
  LET left == st.count[i] - merged
      grown == [Grow(st, to.cyl, to.item, merged) EXCEPT !.count[i] = left]
  IN  CASE merged = 0 -> Notify(addThing(st, to.cyl, to.index, i), to.cyl)
        [] merged > 0 /\ left = 0 -> Notify(grown, to.cyl)
        [] OTHER -> grown

PutInto(st, to, i) ==
  PutMerged(st, to, i, Merged(st, to, i, CountOf(st, i)))

Put(st, c, i) == PutInto(st, queryDestination(st, c, Wherever, i), i)

(* internalAddItem: what does not fit into the stack that was found is     *)
(* added by a further call, and dropped if that fails.                     *)
AddItem(st, c, i) ==
  LET put[n \in 0 .. Cardinality(Stack)] ==
        IF n = 0 THEN Put(st, c, i)
        ELSE LET last == put[n - 1]
             IN  IF /\ i \in Stack
                    /\ last.parent[i] = None /\ last.count[i] > 0
                    /\ CanPut(last, c, i)
                 THEN Put(last, c, i) ELSE last
  IN  Released(put[Cardinality(Stack)])

(* internalPlayerAddItem with a new item: onto the tile if the player does *)
(* not take it.                                                            *)
internalPlayerAddItem(i, n) ==
  LET new == IF i \in Stack THEN [Now EXCEPT !.count[i] = n] ELSE Now
  IN  /\ parent[i] = None
      /\ i \in Stack \/ n = 1
      /\ Become(AddItem(new, IF CanPut(new, ThePlayer, i) THEN ThePlayer
                             ELSE Tile, i))
      /\ given' = given + n

internalRemoveItem(i, n) ==
  LET c == parent[i]
      out == Released(removeThing(Now, c, i, n))
  IN  /\ c # None
      /\ queryRemove(Now, c, i, n) /\ n <= CountOf(Now, i)
      /\ i \in Bag => content[i] = <<>>
      /\ Become(Notify(out, c))
      /\ given' = given - n

(* The indexes a client may name in a cylinder.                            *)
Index(c) ==
  CASE c = Tile -> {Wherever}
    [] c = ThePlayer -> Slot \cup {Wherever}
    [] OTHER -> (1 .. Capacity) \cup {Wherever, MoveUp}

Next ==
  \E i \in Things, n \in 1 .. Full :
    \/ internalPlayerAddItem(i, n) \/ internalRemoveItem(i, n)
    \/ \E c \in {Tile, ThePlayer} \cup {b \in Bag : parent[b] # None} :
         \E index \in Index(c) : playerMoveItem(i, c, index, n)

Spec == Init /\ [][Next]_vars

-----------------------------------------------------------------------------
(* Properties *)

Cylinder == Bag \cup {Tile, ThePlayer}

TypeOK ==
  /\ content \in [Bag \cup {Tile} -> Seq(Things)]
  /\ slots \in [Slot -> Things \cup {None}]
  /\ parent \in [Things -> Cylinder \cup {None}]
  /\ count \in [Stack -> 0 .. Full]
  /\ \A i \in Stack : count[i] = 0 <=> parent[i] = None

Holds(c, i) ==
  IF c = ThePlayer THEN i \in Worn(Now) ELSE Contains(content[c], i)

(* Moves keep what the player and the containers cache and both sides of   *)
(* every link true: an item is in exactly the cylinder that it takes for   *)
(* its parent, and only once; no container is inside itself; the weights   *)
(* are those of what is there; nothing is made or lost on the way.         *)
ItemsAreSound ==
  /\ \A i \in Things, c \in Cylinder : Holds(c, i) <=> parent[i] = c
  /\ \A c \in DOMAIN content : IsInjective(content[c])
  /\ \A i \in Things :
       parent[i] # None => Around(Now, parent[i]) \cap {Tile, ThePlayer} # {}
  /\ \A b \in Bag : totalWeight[b] =
       MapThenSumSet(LAMBDA i : getWeight(Now, i), ToSet(content[b]))
  /\ updateInventoryWeight(Now) = Now
  /\ given = MapThenSumSet(LAMBDA i : CountOf(Now, i),
                           {i \in Things : parent[i] # None})

(* However a hand was filled, by a move, by an exchange of items or by the *)
(* search for a place: a two-handed weapon leaves the other hand free,     *)
(* there are no two weapons and no two shields, nobody carries more than   *)
(* the capacity allows, and a bag holds no more than it has room for.      *)
LimitsHold ==
  /\ LET hands == {slots[Left], slots[Right]}
     IN  /\ hands \cap TwoHanded # {} => None \in hands
         /\ ~ (hands \subseteq Shield /\ slots[Left] # slots[Right])
         /\ ~ (hands \subseteq Weapon /\ slots[Left] # slots[Right])
  /\ inventoryWeight <= MaxWeight
  /\ \A b \in Bag : Len(content[b]) <= Capacity

=============================================================================
