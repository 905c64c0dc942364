-------------------------------- MODULE Spawn ---------------------------------
(***************************************************************************)
(* A spawn (newsrc/spawn.cpp; onCreatureDisappear and convinceCreature of  *)
(* newsrc/monster.cpp): blocks that are to hold one monster each, the      *)
(* monsters that are registered for them, and a chain of delayed checks    *)
(* that fills what is empty.  The chain ends when as many monsters are     *)
(* registered as there are blocks, and starts again when one of them is    *)
(* removed from the map; a monster that has left the zone is registered    *)
(* for no block, and counts.                                               *)
(***************************************************************************)
EXTENDS Integers, FiniteSets

CONSTANTS
  Block,      \* 1 .. n, in the order of spawnMap
  Blockable,  \* blocks whose monster does not appear near a player; another
              \* is announced, and appears 4.2 seconds later
  Spawned,    \* bound: monsters of this spawn at a time
  RateSpawn   \* ConfigManager::RATE_SPAWN

ASSUME SpawnAssumption ==
  /\ Block \subseteq Nat \ {0} /\ IsFiniteSet(Block)
  /\ IsFiniteSet(Spawned)

VARIABLES
  spawnedMap, \* the key each monster is registered under, 0 out of the zone
  location,   \* each monster: "nowhere", "zone", "out", or "removed" from
              \* the map and still registered
  announced,  \* blocks whose scheduleSpawn is under way
  due,        \* blocks whose interval has passed since lastSpawn
  checkSpawnEvent, \* is set
  lost        \* history: monsters the start did not place and convincers
              \* took since the last check

spawnVars == <<spawnedMap, location, announced, due, checkSpawnEvent, lost>>

NoBlock == -1
Registered == {m \in Spawned : spawnedMap[m] # NoBlock}
Of(b) == {m \in Spawned : spawnedMap[m] = b}
Fresh == {m \in Spawned : location[m] = "nowhere"}

(* Monsters for some of the blocks, each registered for its own.           *)
Places(bs) == {f \in [bs -> Fresh] :
                 \A b, d \in bs : f[b] = f[d] => b = d}

(* startup, without force: a place may be taken, its block stays due, and  *)
(* no check follows.  Later monsters are placed with force.                *)
SpawnInit ==
  \E bs \in SUBSET Block : \E f \in [bs -> Spawned] :
    /\ \A b, d \in bs : f[b] = f[d] => b = d
    /\ spawnedMap = [m \in Spawned |-> IF \E b \in bs : f[b] = m
                                       THEN CHOOSE b \in bs : f[b] = m
                                       ELSE NoBlock]
    /\ location = [m \in Spawned |-> IF \E b \in bs : f[b] = m THEN "zone"
                                  ELSE "nowhere"]
    /\ announced = {}
    /\ due = Block \ bs
    /\ checkSpawnEvent = FALSE
    /\ lost = Cardinality(Block \ bs)

-----------------------------------------------------------------------------
(* What becomes of monsters *)

Wander(m) ==
  /\ location[m] \in {"zone", "out"}
  /\ location' = [location EXCEPT ![m] = IF @ = "zone" THEN "out" ELSE "zone"]
  /\ UNCHANGED <<spawnedMap, announced, due, checkSpawnEvent, lost>>

(* Faulty variant: nobody looks after the spawn.                           *)
DieUnnoticed(m) ==
  /\ location[m] \in {"zone", "out"}
  /\ location' = [location EXCEPT ![m] = "removed"]
  /\ UNCHANGED <<spawnedMap, announced, due, checkSpawnEvent, lost>>

(* onCreatureDisappear of the monster itself: startSpawnCheck.             *)
Die(m) ==
  /\ location[m] \in {"zone", "out"}
  /\ location' = [location EXCEPT ![m] = "removed"]
  /\ checkSpawnEvent' = TRUE
  /\ UNCHANGED <<spawnedMap, announced, due, lost>>

(* convinceCreature: removeMonster, and no check.                          *)
BeConvinced(m) ==
  /\ location[m] \in {"zone", "out"}
  /\ location' = [location EXCEPT ![m] = "nowhere"]
  /\ spawnedMap' = [spawnedMap EXCEPT ![m] = NoBlock]
  /\ lost' = lost + 1
  /\ UNCHANGED <<announced, due, checkSpawnEvent>>

-----------------------------------------------------------------------------
(* Time *)

Elapse(b) ==
  /\ b \notin due
  /\ due' = due \cup {b}
  /\ UNCHANGED <<spawnedMap, location, announced, checkSpawnEvent, lost>>

(* The last step of scheduleSpawn.                                         *)
Appear(b) ==
  /\ b \in announced
  /\ \E m \in Fresh :
       /\ spawnedMap' = [spawnedMap EXCEPT ![m] = b]
       /\ location' = [location EXCEPT ![m] = "zone"]
  /\ announced' = announced \ {b}
  /\ due' = due \ {b}
  /\ UNCHANGED <<checkSpawnEvent, lost>>

(* cleanup: what is removed is unregistered, and what has left the zone    *)
(* keeps a place of its own.                                               *)
Cleaned ==
  [m \in Spawned |-> CASE location[m] = "removed" -> NoBlock
                       [] location[m] = "out" -> 0
                       [] OTHER -> spawnedMap[m]]

(* Blocks whose turn it is at this check: those that are due and empty, in *)
(* their order, but for those near a player, until RATE_SPAWN is reached.  *)
Turn(empty, near) ==
  LET able == (empty \cap due) \ (near \cap Blockable)
  IN  {b \in able : Cardinality({d \in able : d < b}) < RateSpawn}

(* Blocks with a player near that the check reaches: their wait begins     *)
(* anew.                                                                   *)
PutOff(empty, near) ==
  LET held == empty \cap due \cap near \cap Blockable
  IN  {b \in held : Cardinality({d \in (empty \cap due) \ held : d < b})
                      < RateSpawn}

(* Faulty variant: the chain ends with this check.                         *)
checkSpawnOnce ==
  /\ checkSpawnEvent /\ announced = {}
  /\ \E near \in SUBSET Block :
       LET freed == {m \in Spawned : location[m] = "removed"}
           late == {spawnedMap[m] : m \in freed}
           empty == {b \in Block : \A m \in Spawned : Cleaned[m] # b}
           turn == Turn(empty \ late, near)
           now == turn \cap Blockable
       IN  \E f \in Places(now) :
             LET placed(m) == \E b \in now : f[b] = m
             IN  /\ spawnedMap' = [m \in Spawned |->
                       IF placed(m) THEN CHOOSE b \in now : f[b] = m
                       ELSE Cleaned[m]]
                 /\ location' = [m \in Spawned |->
                       IF placed(m) THEN "zone"
                       ELSE IF m \in freed THEN "nowhere" ELSE location[m]]
                 /\ announced' = turn \ now
                 /\ due' = due \ (late \cup now
                                  \cup PutOff(empty \ late, near))
  /\ checkSpawnEvent' = FALSE
  /\ lost' = 0

(* checkSpawn.  A check comes again after the shortest interval of the     *)
(* blocks; assumed: when what was announced has appeared.                  *)
checkSpawn ==
  /\ checkSpawnEvent /\ announced = {}
  /\ \E near \in SUBSET Block :
       LET freed == {m \in Spawned : location[m] = "removed"}
           late == {spawnedMap[m] : m \in freed}
           empty == {b \in Block : \A m \in Spawned : Cleaned[m] # b}
           turn == Turn(empty \ late, near)
           now == turn \cap Blockable
       IN  \E f \in Places(now) :
             LET placed(m) == \E b \in now : f[b] = m
             IN  /\ spawnedMap' = [m \in Spawned |->
                       IF placed(m) THEN CHOOSE b \in now : f[b] = m
                       ELSE Cleaned[m]]
                 /\ location' = [m \in Spawned |->
                       IF placed(m) THEN "zone"
                       ELSE IF m \in freed THEN "nowhere" ELSE location[m]]
                 /\ announced' = turn \ now
                 /\ due' = due \ (late \cup now
                                  \cup PutOff(empty \ late, near))
  /\ checkSpawnEvent' = (Cardinality(Registered') < Cardinality(Block))
  /\ lost' = 0

SpawnNext ==
  \/ \E m \in Spawned : Wander(m) \/ Die(m) \/ BeConvinced(m)
  \/ \E b \in Block : Elapse(b) \/ Appear(b)
  \/ checkSpawn

SpawnFairness ==
  /\ WF_spawnVars(checkSpawn)
  /\ \A b \in Block : WF_spawnVars(Elapse(b)) /\ WF_spawnVars(Appear(b))

SpawnSafeSpec == SpawnInit /\ [][SpawnNext]_spawnVars
SpawnSpec == SpawnSafeSpec /\ SpawnFairness

-----------------------------------------------------------------------------
(* Properties *)

SpawnTypeOK ==
  /\ spawnedMap \in [Spawned -> Block \cup {0, NoBlock}]
  /\ location \in [Spawned -> {"nowhere", "zone", "out", "removed"}]
  /\ \A m \in Spawned : location[m] = "nowhere" <=> spawnedMap[m] = NoBlock
  /\ announced \cup due \subseteq Block /\ lost \in Nat
  /\ checkSpawnEvent \in BOOLEAN

Empty(b) == \A m \in Of(b) : location[m] = "removed"
Strays == {m \in Of(0) : location[m] # "removed"}

(* No block is filled twice, and when no check is to come, there is for    *)
(* each empty block a monster that strayed, or one that the start did not  *)
(* place or a convincer took (checkSpawn, startSpawnCheck).                *)
SpawnsAreKept ==
  /\ SpawnTypeOK
  /\ \A b \in Block : Cardinality(Of(b)) <= 1
  /\ ~ checkSpawnEvent =>
       Cardinality({b \in Block : Empty(b)}) <= Cardinality(Strays) + lost

(* With a check to come, a block that does not depend on players is filled *)
(* again, or a monster that strayed takes its place.                       *)
EmptyIsRefilled ==
  \A b \in Block \ Blockable :
    (checkSpawnEvent /\ Empty(b)) ~> (~ Empty(b) \/ Strays # {} \/ lost > 0)
=============================================================================
