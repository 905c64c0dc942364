-------------------------------- MODULE WalkCache -----------------------------
(***************************************************************************)
(* The tiles around it that a monster knows it can walk on (localMapCache  *)
(* of newsrc/creature.cpp, kept by the notifications of newsrc/map.cpp and *)
(* newsrc/tile.cpp), which path finding believes (Map::canWalkTo).  The    *)
(* cache is shifted when the monster steps, refreshed when it is           *)
(* teleported or something about the monster changes, and otherwise        *)
(* follows what happens on each tile.                                      *)
(*                                                                         *)
(* There is one floor; one more creature, which cannot be pushed; and      *)
(* items that block.  Whatever happens within the cache is within the      *)
(* range of those who are told.                                            *)
(***************************************************************************)
EXTENDS Integers, FiniteSets

CONSTANTS
  Width, Height,   \* of the map
  CacheRange,      \* maxWalkCacheWidth and maxWalkCacheHeight, 11
  MaxSolid,        \* bound: items that block
  Nowhere          \* the place of what is not in the world

Cell == (1 .. Width) \X (1 .. Height)

ASSUME WalkCacheAssumption ==
  /\ {Width, Height} \subseteq Nat \ {0}
  /\ CacheRange \in Nat
  /\ Nowhere \notin Cell

VARIABLES
  pos,            \* the monster's position
  other,          \* the other creature's, or Nowhere
  solid,          \* the tiles with an item that blocks
  localMapCache,  \* by the offset from the monster
  skewed          \* history: a diagonal step to the south was taken since
                  \* the whole cache was last refreshed

cacheVars == <<pos, other, solid, localMapCache, skewed>>

Offset == (-CacheRange .. CacheRange) \X (-CacheRange .. CacheRange)
Step == {d \in (-1 .. 1) \X (-1 .. 1) : d # <<0, 0>>}
At(p, d) == <<p[1] + d[1], p[2] + d[2]>>

(* Tile::queryAdd of the monster: there is a tile, which nothing blocks.   *)
queryAdd(c, p, o, s) == c \in Cell /\ c \notin {p, o} /\ c \notin s

updateMapCache(p, o, s) == [d \in Offset |-> queryAdd(At(p, d), p, o, s)]

(* updateTileCache: the cells get fresh values, if they are in the cache.  *)
updateTileCache(cache, cells, p, o, s) ==
  [d \in Offset |-> IF At(p, d) \in cells THEN queryAdd(At(p, d), p, o, s)
                    ELSE cache[d]]

(* North and south: the rows move, and the new one is asked for.           *)
ShiftRows(cache, step, fresh) ==
  [d \in Offset |->
     IF step[2] = 0 THEN cache[d]
     ELSE IF d[2] = step[2] * CacheRange THEN fresh[d]
     ELSE cache[<<d[1], d[2] + step[2]>>]]

(* East and west: the columns move.  On a diagonal step the first row is   *)
(* left alone, which is the new one only if the step went north.           *)
ShiftColumns(cache, step, fresh) ==
  [d \in Offset |->
     IF step[1] = 0 THEN cache[d]
     ELSE IF d[1] = step[1] * CacheRange THEN fresh[d]
     ELSE IF step[2] # 0 /\ d[2] = -CacheRange THEN cache[d]
     ELSE cache[<<d[1] + step[1], d[2]>>]]

-----------------------------------------------------------------------------
(* onCreatureAppear of the monster itself.                                 *)
WalkableInit ==
  /\ pos = <<1, 1>> /\ other = Nowhere /\ solid = {} /\ skewed = FALSE
  /\ localMapCache = updateMapCache(pos, other, solid)

(* Faulty variant: the tile that was left is forgotten.                    *)
MonsterStepsForgetting(step) ==
  LET to == At(pos, step)
      fresh == updateMapCache(to, other, solid)
  IN  /\ queryAdd(to, pos, other, solid)
      /\ pos' = to
      /\ localMapCache' =
           ShiftColumns(ShiftRows(localMapCache, step, fresh), step, fresh)
      /\ skewed' = (skewed \/ (step[1] # 0 /\ step[2] = 1))
      /\ UNCHANGED <<other, solid>>

(* onCreatureMove of the monster itself.                                   *)
MonsterSteps(step) ==
  LET to == At(pos, step)
      fresh == updateMapCache(to, other, solid)
      cache == ShiftColumns(ShiftRows(localMapCache, step, fresh), step, fresh)
  IN  /\ queryAdd(to, pos, other, solid)
      /\ pos' = to
      /\ localMapCache' = updateTileCache(cache, {pos}, to, other, solid)
      /\ skewed' = (skewed \/ (step[1] # 0 /\ step[2] = 1))
      /\ UNCHANGED <<other, solid>>

MonsterTeleports(to) ==
  /\ to # pos /\ queryAdd(to, pos, other, solid)
  /\ pos' = to /\ skewed' = FALSE
  /\ localMapCache' = updateMapCache(to, other, solid)
  /\ UNCHANGED <<other, solid>>

(* A condition begins or ends, the monster is hit, or has come to the end  *)
(* of its path.                                                            *)
Refresh ==
  /\ localMapCache' = updateMapCache(pos, other, solid)
  /\ skewed' = FALSE
  /\ UNCHANGED <<pos, other, solid>>

(* onCreatureAppear, onCreatureMove and onRemoveCreature of the other.     *)
OtherMoves(to) ==
  /\ to # other
  /\ to # Nowhere => queryAdd(to, pos, other, solid)
  /\ other' = to
  /\ localMapCache' =
       updateTileCache(localMapCache, {other, to} \ {Nowhere}, pos, to, solid)
  /\ UNCHANGED <<pos, solid, skewed>>

(* onAddTileItem, onRemoveTileItem and onUpdateTileItem.                   *)
ItemChanges(c) ==
  LET s == IF c \in solid THEN solid \ {c} ELSE solid \cup {c}
  IN  /\ c \notin {pos, other} /\ Cardinality(s) <= MaxSolid
      /\ solid' = s
      /\ localMapCache' = updateTileCache(localMapCache, {c}, pos, other, s)
      /\ UNCHANGED <<pos, other, skewed>>

WalkableNext ==
  \/ \E step \in Step : MonsterSteps(step)
  \/ \E c \in Cell : MonsterTeleports(c) \/ ItemChanges(c)
  \/ \E c \in Cell \cup {Nowhere} : OtherMoves(c)
  \/ Refresh

WalkableSpec == WalkableInit /\ [][WalkableNext]_cacheVars

-----------------------------------------------------------------------------
(* Properties *)

WalkableTypeOK ==
  /\ pos \in Cell
  /\ other \in Cell \cup {Nowhere}
  /\ solid \subseteq Cell
  /\ localMapCache \in [Offset -> BOOLEAN]
  /\ skewed \in BOOLEAN

(* The cache says of every tile around the monster what the tile itself    *)
(* would say (creature.cpp:489, "update map cache").                       *)
CacheAgrees ==
  \A d \in Offset \ {<<0, 0>>} :
    localMapCache[d] = queryAdd(At(pos, d), pos, other, solid)

(* So it does but for what diagonal steps to the south leave behind        *)
(* (onCreatureMove, onAddTileItem, updateMapCache).                        *)
WalkableIsKnown == WalkableTypeOK /\ (skewed \/ CacheAgrees)
=============================================================================
