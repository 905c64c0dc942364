------------------------------ MODULE Monsters -------------------------------
(***************************************************************************)
(* Which monsters think (newsrc/monster.cpp; addCreatureCheck,             *)
(* removeCreatureCheck, checkCreatures and removeCreature of               *)
(* newsrc/game.cpp; setMaster, onRemoveCreature and onDeath of             *)
(* newsrc/creature.cpp).  A monster keeps a list of the opponents it sees, *)
(* from what it is told of their moves.  With no opponent, no condition    *)
(* and no master it is idle, and the game stops checking it; death itself  *)
(* comes with a check.                                                     *)
(*                                                                         *)
(* Two creatures see each other when they are at the same place.  Friends, *)
(* the choice of a target and the walk are left out.                       *)
(***************************************************************************)
EXTENDS Integers, FiniteSets, FiniteSetsExt

CONSTANTS
  Monster, Person,
  Place, Home,  \* Home is the spawn (masterPos) of every monster
  SendsHome,    \* Monster::despawnRange is not 0
  Null          \* no master; the place of what is not in the world

ASSUME MonstersAssumption ==
  /\ IsFiniteSet(Monster) /\ Monster \cap Person = {}
  /\ Home \in Place
  /\ Null \notin Place \cup Monster \cup Person
  /\ SendsHome \in BOOLEAN

VARIABLES
  place,     \* Null: not placed yet, or removed
  health,    \* of a monster: 1, or 0
  master,    \* Creature::master
  targets,   \* Monster::targetList
  burning,   \* the monsters with a condition
  creatureCheck, \* it is to be checked
  inVector   \* inCheckCreaturesVector: it is in a list of checks

monsterVars ==
  <<place, health, master, targets, burning, creatureCheck, inVector>>

Creature == Monster \cup Person

(* A handler calls others, and each starts from what the one before left.  *)
World ==
  [place |-> place, health |-> health, master |-> master,
   targets |-> targets, creatureCheck |-> creatureCheck,
   inVector |-> inVector]

Become(w) ==
  /\ place' = w.place /\ health' = w.health /\ master' = w.master
  /\ targets' = w.targets /\ creatureCheck' = w.creatureCheck
  /\ inVector' = w.inVector

MonstersInit ==
  /\ place = [c \in Creature |-> Null]
  /\ health = [m \in Monster |-> 1]
  /\ master = [m \in Monster |-> Null]
  /\ targets = [m \in Monster |-> {}]
  /\ burning = {}
  /\ creatureCheck = [c \in Creature |-> FALSE]
  /\ inVector = [c \in Creature |-> FALSE]

-----------------------------------------------------------------------------
(* What the handlers are built from *)

Sees(w, m, c) == w.place[m] # Null /\ w.place[m] = w.place[c]
AtPlace(w, p) == {m \in Monster : w.place[m] = p}

isOpponent(w, m, c) ==
  IF w.master[m] \in Person THEN c # w.master[m]
  ELSE c \in Person \/ (c \in Monster /\ w.master[c] \in Person)

(* setIdle, for the monsters ms of which those in awake are not idle:      *)
(* nothing is done to what has no health or was removed.                   *)
setIdle(w, ms, awake) ==
  LET live == {m \in ms : w.health[m] > 0 /\ w.place[m] # Null}
      woken == live \cap awake
      asleep == live \ awake
  IN  [w EXCEPT
        !.targets = [m \in Monster |-> IF m \in asleep THEN {} ELSE @[m]],
        !.creatureCheck = [c \in Creature |->
                     IF c \in woken THEN TRUE
                     ELSE IF c \in asleep THEN @[c] /\ ~ w.inVector[c]
                     ELSE @[c]],
        !.inVector = [c \in Creature |-> @[c] \/ c \in woken]]

updateIdleStatus(w, ms) ==
  setIdle(w, ms, {m \in ms : \/ m \in burning
                             \/ w.master[m] # Null
                             \/ w.targets[m] # {}})

(* Faulty variant: what is out of sight goes, and nothing comes in.        *)
updateTargetListNoLook(w, ms) ==
  [w EXCEPT !.targets =
     [m \in Monster |->
        IF m \in ms THEN {c \in @[m] : Sees(w, m, c)} ELSE @[m]]]

(* updateTargetList: what has no health or is out of sight goes, and what  *)
(* is in sight and an opponent comes in.                                   *)
updateTargetList(w, ms) ==
  [w EXCEPT !.targets =
     [m \in Monster |->
        IF m \in ms
        THEN {c \in @[m] : (c \in Monster => w.health[c] > 0)
                           /\ w.place[m] = w.place[c]}
             \cup {c \in Creature \ {m} : Sees(w, m, c)
                                          /\ isOpponent(w, m, c)}
        ELSE @[m]]]

lookAround(w, ms) == updateIdleStatus(updateTargetList(w, ms), ms)

addCreatureCheck(w, c) ==
  [w EXCEPT !.creatureCheck[c] = TRUE, !.inVector[c] = TRUE]

(* Creature::onRemoveCreature of the one that goes, then that of the       *)
(* monsters who see it; told are those whose turn came before its own,     *)
(* when it still had its master.                                           *)
onRemoveCreature(w, c, told) ==
  LET free == c \in Monster /\ w.master[c] # Null
              /\ w.place[w.master[c]] # Null
      left == [w EXCEPT !.master = IF free THEN [@ EXCEPT ![c] = Null] ELSE @]
      loses(m) == /\ m # c /\ Sees(w, m, c)
                  /\ isOpponent(IF m \in told THEN w ELSE left, m, c)
      after == [left EXCEPT !.targets =
                  [m \in Monster |-> IF loses(m) THEN @[m] \ {c} ELSE @[m]]]
      quiet == {m \in Monster : loses(m) /\ after.targets[m] = {}}
  IN  setIdle(updateIdleStatus(after, quiet), {c} \cap Monster, {})

(* removeCreature, but for the summons of the creature.                    *)
removeOne(w, c, told) ==
  LET left == onRemoveCreature(w, c, told)
  IN  [left EXCEPT !.place[c] = Null,
                   !.creatureCheck[c] = @ /\ ~ left.inVector[c]]

Summons(w, c) == {m \in Monster : w.place[m] # Null /\ w.master[m] = c}

removeCreature(w, c, told) ==
  FoldSet(LAMBDA s, v : removeOne(v, s, told), removeOne(w, c, told),
          Summons(w, c))

(* Creature::onCreatureMove of its master: summons too far away go.        *)
Despawn(w, ms, told) == FoldSet(LAMBDA s, v : removeOne(v, s, told), w, ms)

(* moveCreature of the map and onCreatureMove of who sees it.              *)
moveCreature(w, c, to) ==
  LET moved == [w EXCEPT !.place[c] = to]
      near == (AtPlace(w, w.place[c]) \cup AtPlace(w, to)) \ {c}
      entered == [moved EXCEPT !.targets =
        [m \in Monster |->
           IF m \notin near \/ ~ isOpponent(moved, m, c) THEN @[m]
           ELSE IF Sees(moved, m, c) THEN @[m] \cup {c} ELSE @[m] \ {c}]]
      told == updateIdleStatus(entered, near)
  IN  IF c \in Monster THEN lookAround(told, {c}) ELSE told

(* Faulty variant: the monster may be idle, and stays so.                  *)
changeHealthAsleep(w, ms) ==
  [w EXCEPT !.health = [m \in Monster |-> IF m \in ms THEN 0 ELSE @[m]]]

(* Monster::changeHealth, to none.                                         *)
changeHealth(w, ms) ==
  LET woken == setIdle(w, ms, ms)
  IN  [woken EXCEPT
        !.health = [m \in Monster |-> IF m \in ms THEN 0 ELSE @[m]]]

(* The summons of one that dies or is convinced.                           *)
endSummons(w, m) ==
  LET ss == Summons(w, m)
  IN  [changeHealth(w, ss) EXCEPT
        !.master = [s \in Monster |-> IF s \in ss THEN Null ELSE @[s]]]

-----------------------------------------------------------------------------
(* Actions *)

(* placeCreature, for a summon followed by setMaster.                      *)
placeCreature(c, at, ms) ==
  LET put == [World EXCEPT !.place[c] = at]
      near == AtPlace(put, at) \ {c}
      seen == [put EXCEPT !.targets =
                 [m \in Monster |-> IF m \in near /\ isOpponent(put, m, c)
                                    THEN @[m] \cup {c} ELSE @[m]]]
      told == updateIdleStatus(seen, near)
      done == addCreatureCheck(
                IF c \in Monster THEN lookAround(told, {c}) ELSE told, c)
  IN  /\ place[c] = Null /\ ~ inVector[c]
      /\ \A m \in Monster : c \notin targets[m] /\ master[m] # c
      /\ Become([done EXCEPT
           !.master = IF c \in Monster THEN [@ EXCEPT ![c] = ms] ELSE @])
      /\ UNCHANGED burning

Move(c, to) ==
  /\ place[c] \notin {Null, to}
  /\ \E far \in SUBSET Summons(World, c), told \in SUBSET Monster :
       Become(Despawn(moveCreature(World, c, to), far, told))
  /\ burning' = burning \ {m \in Monster : place'[m] = Null}

(* A player logs out, or a script takes a creature away.                   *)
Remove(c) ==
  /\ place[c] # Null
  /\ \E told \in SUBSET Monster : Become(removeCreature(World, c, told))
  /\ burning' = burning \ {m \in Monster : place'[m] = Null}

(* drainHealth, of all the health there is; a loss of less wakes up, too.  *)
Hit(m) ==
  /\ place[m] # Null /\ health[m] > 0
  /\ \/ Become(changeHealth(World, {m}))
     \/ Become(setIdle(World, {m}, {m}))
  /\ UNCHANGED burning

(* onAddCondition: the new condition is there already.                     *)
Burn(m) ==
  /\ place[m] # Null /\ m \notin burning
  /\ burning' = burning \cup {m}
  /\ Become(setIdle(World, {m}, {m}))

convinceCreature(p, m) ==
  LET won == [World EXCEPT !.master[m] = p]
      alone == lookAround(endSummons(won, m), {m})
  IN  /\ place[p] # Null /\ Sees(World, m, p)
      /\ master[m] \notin Person
      /\ Become(lookAround(alone, {s \in AtPlace(World, place[p]) :
                                     isOpponent(alone, s, m)}))
      /\ UNCHANGED burning

(* checkCreatures.                                                         *)
Think(m) ==
  /\ health[m] > 0
  /\ \/ /\ Become(updateIdleStatus(World, {m}))
        /\ UNCHANGED burning
     \/ /\ SendsHome /\ place[m] # Home
        /\ Become(setIdle(moveCreature(World, m, Home), {m}, {}))
        /\ UNCHANGED burning

(* executeConditions, in a step of its own: the next check finds the       *)
(* monster awake at most once more.                                        *)
Cool(m) ==
  /\ place[m] # Null /\ creatureCheck[m] /\ m \in burning
  /\ burning' = burning \ {m}
  /\ Become(setIdle(World, {m},
              {s \in {m} : master[m] # Null \/ targets[m] # {}}))

(* onDeath, and death.                                                     *)
onDeath(m) ==
  LET alone == [endSummons(World, m) EXCEPT !.targets[m] = {},
                                            !.master[m] = Null]
  IN  /\ health[m] = 0
      /\ \E told \in SUBSET Monster : Become(removeCreature(alone, m, told))
      /\ burning' = burning \ {m}

checkCreature(c) ==
  /\ inVector[c]
  /\ IF creatureCheck[c]
     THEN c \in Monster /\ (Think(c) \/ onDeath(c))
     ELSE /\ inVector' = [inVector EXCEPT ![c] = FALSE]
          /\ IF place[c] = Null /\ c \in Monster
             THEN /\ health' = [health EXCEPT ![c] = 1]
                  /\ master' = [master EXCEPT ![c] = Null]
                  /\ targets' = [targets EXCEPT ![c] = {}]
             ELSE UNCHANGED <<health, master, targets>>
          /\ UNCHANGED <<place, burning, creatureCheck>>

MonstersNext ==
  \/ \E c \in Creature, at \in Place : placeCreature(c, at, Null)
  \/ \E m \in Monster, c \in Creature :
       /\ c # m /\ place[c] # Null /\ (c \in Monster => master[c] = Null)
       /\ placeCreature(m, place[c], c)
  \/ \E c \in Creature, to \in Place : Move(c, to)
  \/ \E c \in Creature : Remove(c) \/ checkCreature(c)
  \/ \E m \in Monster : Hit(m) \/ Burn(m) \/ Cool(m)
  \/ \E p \in Person, m \in Monster : convinceCreature(p, m)

MonstersSpec == MonstersInit /\ [][MonstersNext]_monsterVars

-----------------------------------------------------------------------------
(* Properties *)

MonstersTypeOK ==
  /\ place \in [Creature -> Place \cup {Null}]
  /\ health \in [Monster -> {0, 1}]
  /\ master \in [Monster -> Creature \cup {Null}]
  /\ targets \in [Monster -> SUBSET Creature]
  /\ burning \subseteq Monster
  /\ creatureCheck \in [Creature -> BOOLEAN]
  /\ inVector \in [Creature -> BOOLEAN]

(* A monster knows every player that it sees, its master apart, and is     *)
(* checked (onCreatureAppear, onCreatureMove, updateTargetList).  One that *)
(* was sent home sleeps there until something moves, whoever is with it.   *)
MonstersNotice ==
  \A m \in Monster, p \in Person :
    place[m] # Null /\ place[m] = place[p] /\ health[m] > 0 /\ master[m] # p
    /\ (SendsHome => place[m] # Home)
      => p \in targets[m] /\ creatureCheck[m] /\ inVector[m]

(* Death comes with a check: what has no health is checked until it is     *)
(* removed, and what was removed is not (changeHealth, removeCreature).    *)
DeadAreBuried ==
  \A m \in Monster :
    /\ place[m] # Null /\ health[m] = 0 => creatureCheck[m] /\ inVector[m]
    /\ place[m] = Null => ~ creatureCheck[m]

(* A monster knows the players in its sight, and what is dead is buried.   *)
NothingGoesUnnoticed == MonstersTypeOK /\ MonstersNotice /\ DeadAreBuried
=============================================================================
