----------------------------- MODULE MCGameWorld ------------------------------
(*****************************************************************************)
(* Rules of the world, each of them run by single tasks of the dispatcher    *)
(* thread: items and cylinders, decay, what monsters notice and where they   *)
(* can walk, the tiles and the containers a client shows, levels and skills, *)
(* the market and a house.                                                   *)
(* No property speaks of two of them: the run takes up one at the start and  *)
(* leaves the others as they are, which shows the same as a run of each.     *)
(* The type invariant of a part stands with the first of its properties.     *)
(*                                                                           *)
(* Pair and Other are the two symmetric sets: stacks, creatures, traders and *)
(* players are from Pair, what they deal with from Other; the players and    *)
(* the beds of the house are the same two.                                   *)
(*****************************************************************************)
EXTENDS House, WalkCache, Market, Monsters, Progress, Decay, TLC

CONSTANTS Pair, Other, Me, axe, i1

(* The types of items that decay: a lever that swings back in two steps,   *)
(* and a ring that keeps its time while it is off.                         *)
Types ==
  [shut |-> [stops |-> FALSE, to |-> Never, time |-> 0, use |-> "open"],
   open |-> [stops |-> FALSE, to |-> "ajar", time |-> 15, use |-> "shut"],
   ajar |-> [stops |-> FALSE, to |-> "shut", time |-> 5, use |-> Never],
   off |-> [stops |-> TRUE, to |-> Never, time |-> 0, use |-> "worn"],
   worn |-> [stops |-> FALSE, to |-> Gone, time |-> 17, use |-> "off"]]

VARIABLES
  part,
  content, slots, parent, count, totalWeight, inventoryWeight, given,
  creatures, items, hidden, client, crowded,
  wContent, wParent, spot, openContainers, wClient

(* Stacks, nested bags and a two-handed weapon; and in the other instance  *)
(* all that hands may hold.                                                *)
Y == INSTANCE Cylinders WITH
       Stack <- Pair, Bag <- Other, Weapon <- {}, TwoHanded <- {axe},
       Shield <- {}, Full <- 2, Capacity <- 1, MaxWeight <- 4
A == INSTANCE Cylinders WITH
       Stack <- {}, Bag <- {}, Weapon <- Pair, TwoHanded <- {axe},
       Shield <- Other, Full <- 1, Capacity <- 1, MaxWeight <- 2
V == INSTANCE TileView WITH
       Creature <- Pair, Thing <- {i1}, Width <- 3, MaxThings <- 3
W == INSTANCE ContainerView WITH
       Bag <- Other, Item <- {i1}, Window <- {0, 1}, content <- wContent,
       parent <- wParent, client <- wClient

MCKind == DOMAIN Types
MCStopTime == [k \in MCKind |-> Types[k].stops]
MCDecayTo == [k \in MCKind |-> Types[k].to]
MCDecayTime == [k \in MCKind |-> Types[k].time]
MCUseTo == [k \in MCKind |-> Types[k].use]
MCExpForLevel == <<0, 1, 3, 7>>
MCReqTries == <<1, 2, 4>>

cylinders == <<content, slots, parent, count, totalWeight, inventoryWeight,
  given>>
view == <<creatures, items, hidden, client, crowded>>
windows == <<wContent, wParent, spot, openContainers, wClient>>

Part == {"items", "arms", "decay", "monsters", "view", "windows", "walkable",
         "progress", "market", "house"}

MCInit ==
  /\ part \in Part
  /\ IF part = "arms" THEN A!Init ELSE Y!Init
  /\ DecayInit /\ MonstersInit /\ V!Init /\ W!Init /\ WalkableInit
  /\ ProgressInit
  /\ Init /\ MarketInit
  /\ part = "view" \/ creatures[1] = <<Me>> \* the rest need one
  /\ part = "decay" \/ kind[i1] = "shut"    \* initial state

MCNext ==
  \/ part = "items" /\ Y!Next
     /\ UNCHANGED <<part, decayVars, monsterVars, view, windows, cacheVars,
          progressVars, marketVars, houseVars>>
  \/ part = "arms" /\ A!Next
     /\ UNCHANGED <<part, decayVars, monsterVars, view, windows, cacheVars,
          progressVars, marketVars, houseVars>>
  \/ part = "decay" /\ DecayNext
     /\ UNCHANGED <<part, cylinders, monsterVars, view, windows, cacheVars,
          progressVars, marketVars, houseVars>>
  \/ part = "monsters" /\ MonstersNext
     /\ UNCHANGED <<part, cylinders, decayVars, view, windows, cacheVars,
          progressVars, marketVars, houseVars>>
  \/ part = "view" /\ V!Next
     /\ UNCHANGED <<part, cylinders, decayVars, monsterVars, windows,
          cacheVars, progressVars, marketVars, houseVars>>
  \/ part = "windows" /\ W!Next
     /\ UNCHANGED <<part, cylinders, decayVars, monsterVars, view, cacheVars,
          progressVars, marketVars, houseVars>>
  \/ part = "walkable" /\ WalkableNext
     /\ UNCHANGED <<part, cylinders, decayVars, monsterVars, view, windows,
          progressVars, marketVars, houseVars>>
  \/ part = "progress" /\ ProgressNext
     /\ UNCHANGED <<part, cylinders, decayVars, monsterVars, view, windows,
          cacheVars, marketVars, houseVars>>
  \/ part = "market" /\ MarketNext
     /\ UNCHANGED <<part, cylinders, decayVars, monsterVars, view, windows,
          cacheVars, progressVars, houseVars>>
  \/ part = "house" /\ Next
     /\ UNCHANGED <<part, cylinders, decayVars, monsterVars, view, windows,
          cacheVars, progressVars, marketVars>>

mcVars ==
  <<part, cylinders, decayVars, monsterVars, view, windows, cacheVars,
    progressVars, marketVars, houseVars>>

MCSpec == MCInit /\ [][MCNext]_mcVars

Symmetry == Permutations(Pair) \cup Permutations(Other)

-----------------------------------------------------------------------------
(* Items, their parents, the weights and the capacities stay in order,     *)
(* whatever is moved where (internalMoveItem, the cylinders of tile.cpp,   *)
(* container.cpp and player.cpp).                                          *)
ItemsAreSound ==
  /\ part = "items" => Y!TypeOK
  /\ part = "items" => Y!ItemsAreSound
  /\ part = "items" => Y!LimitsHold
  /\ part = "arms" => A!TypeOK
  /\ part = "arms" => A!ItemsAreSound
  /\ part = "arms" => A!LimitsHold

(* The client's tiles are the server's, and so are its windows, of what is *)
(* in reach (protocolgame.cpp, tile.cpp, container.cpp, player.cpp).       *)
ClientShowsWorld ==
  /\ part = "view" => V!TypeOK
  /\ part = "view" => V!ClientShowsTiles
  /\ part = "windows" => W!TypeOK
  /\ part = "windows" => W!ClientShowsContainers
=============================================================================
