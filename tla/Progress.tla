------------------------------ MODULE Progress ------------------------------
(***************************************************************************)
(* What a player has learnt (newsrc/player.cpp): a level, which follows    *)
(* from all the experience it ever gained; and skills and the magic level, *)
(* which keep only the tries since the last advance.  Gaining goes up by   *)
(* one advance at a time, losing (above all by dying) goes down likewise.  *)
(* One skill stands for all of them and for the magic level, whose code is *)
(* the same but for its names.                                             *)
(***************************************************************************)
EXTENDS Integers, Sequences, FiniteSetsExt, Functions

CONSTANTS
  ExpForLevel,  \* sequences: the experience each level asks for in all, and
  ReqTries,     \* the tries each skill level asks for after the one before,
                \* as far as each asks for more than the last
  Gain,         \* what a monster, an exercise or a script gives or takes
  HealthGain    \* of the vocation, per level

MaxLevel == Len(ExpForLevel)
MaxSkill == Len(ReqTries)

ASSUME ProgressAssumption ==
  /\ ExpForLevel \in Seq(Nat) /\ MaxLevel > 0 /\ ExpForLevel[1] = 0
  /\ \A l \in 1 .. MaxLevel - 1 : ExpForLevel[l] < ExpForLevel[l + 1]
  /\ ReqTries \in Seq(Nat) /\ MaxSkill > 0 /\ ReqTries[1] > 0
  /\ \A l \in 1 .. MaxSkill - 1 : ReqTries[l] < ReqTries[l + 1]
  /\ Gain \subseteq Nat /\ HealthGain \in Nat

(* After the last level, the next one asks for no more.                    *)
getExpForLevel(l) == ExpForLevel[Min({l, MaxLevel})]
getReqSkillTries(l) ==
  IF l = 0 THEN 0 ELSE ReqTries[Min({l, MaxSkill})]

VARIABLES
  level, experience, healthMax,
  skill,   \* the skill's level (from 0; the code's skills start at ten)
  tries,   \* since the last advance
  learnt   \* history: what was gained and not lost again

progressVars == <<level, experience, healthMax, skill, tries, learnt>>

ProgressInit ==
  /\ level = 1 /\ experience = 0 /\ healthMax = HealthGain
  /\ skill = 0 /\ tries = 0 /\ learnt = 0

(* The tries that a skill level and what follows it amount to.             *)
Tries(s, t) == SumFunctionOnSet(ReqTries, 1 .. s) + t

-----------------------------------------------------------------------------
(* The loops of the code: each ends at the first level its condition fails *)

(* addExperience: up while the experience suffices for the next level.     *)
LevelUp(l, exp) ==
  Min({k \in l .. MaxLevel :
         \/ exp < getExpForLevel(k + 1)
         \/ getExpForLevel(k) >= getExpForLevel(k + 1)})

(* removeExperience and death: down while the level asks for more.         *)
LevelDown(l, exp) == Max({k \in 1 .. l : k = 1 \/ exp >= getExpForLevel(k)})

(* What is left of a number when n of the amounts have been taken from it. *)
Taking(number, amounts) ==
  LET left[n \in 0 .. Len(amounts)] ==
        IF n = 0 THEN number ELSE left[n - 1] - amounts[n]
  IN  left

(* addSkillAdvance and addManaSpent: <<level, tries>>, with count to add;  *)
(* each advance takes its tries, and nothing is left over at the last.     *)
Advance(s, t, count) ==
  LET next(n) == getReqSkillTries(s + n + 1)
      isLast(n) == getReqSkillTries(s + n) >= next(n)
      left == Taking(t + count,
                     [n \in 1 .. MaxSkill - s |-> getReqSkillTries(s + n)])
      n == Min({k \in 0 .. MaxSkill - s : left[k] < next(k) \/ isLast(k)})
  IN  <<s + n, IF isLast(n) THEN 0 ELSE left[n]>>

(* Faulty variant: the level goes down before its tries are looked up.     *)
DeclineFirst(s, t, lost) ==
  LET had == [n \in 1 .. s + 1 |->
                IF n = 1 THEN t ELSE getReqSkillTries(s - n + 1)]
      left == Taking(lost, had)
      n == Min({k \in 0 .. s : k = s \/ left[k] <= had[k + 1]})
  IN  <<s - n, Max({0, had[n + 1] - left[n]})>>

(* death: what has been gained since an advance is lost first, then the    *)
(* tries of that advance.                                                  *)
Decline(s, t, lost) ==
  LET had == [n \in 1 .. s + 1 |->
                IF n = 1 THEN t ELSE getReqSkillTries(s - n + 2)]
      left == Taking(lost, had)
      n == Min({k \in 0 .. s : k = s \/ left[k] <= had[k + 1]})
  IN  <<s - n, Max({0, had[n + 1] - left[n]})>>

-----------------------------------------------------------------------------

BecomeLevel(l) ==
  /\ level' = l
  /\ healthMax' = Max({0, healthMax + (l - level) * HealthGain})

addExperience(exp) ==
  /\ getExpForLevel(level) < getExpForLevel(level + 1)
  /\ experience' = experience + exp
  /\ BecomeLevel(LevelUp(level, experience + exp))
  /\ UNCHANGED <<skill, tries, learnt>>

(* Faulty variant: a level is lost at most once.                           *)
removeExperienceOnce(exp) ==
  /\ experience > 0
  /\ experience' = Max({0, experience - exp})
  /\ BecomeLevel(IF level > 1 /\ experience' < getExpForLevel(level)
                 THEN level - 1 ELSE level)
  /\ UNCHANGED <<skill, tries, learnt>>

removeExperience(exp) ==
  /\ experience > 0
  /\ experience' = Max({0, experience - exp})
  /\ BecomeLevel(LevelDown(level, experience'))
  /\ UNCHANGED <<skill, tries, learnt>>

addSkillAdvance(count) ==
  /\ getReqSkillTries(skill) < getReqSkillTries(skill + 1)
  /\ LET after == Advance(skill, tries, count)
     IN skill' = after[1] /\ tries' = after[2]
  /\ learnt' = Min({learnt + count, Tries(MaxSkill, 0)})
  /\ UNCHANGED <<level, experience, healthMax>>

(* death: a share of all that was ever learnt; getLostPercent is free.     *)
(* Nobody loses experience at the first level.                             *)
death ==
  \E lostTries \in 0 .. Tries(skill, tries), expLoss \in 0 .. experience :
    /\ LET after == Decline(skill, tries, lostTries)
       IN skill' = after[1] /\ tries' = after[2]
    /\ learnt' = learnt - lostTries
    /\ experience' = experience - (IF level > 1 THEN expLoss ELSE 0)
    /\ BecomeLevel(LevelDown(level, experience'))

ProgressNext ==
  \/ \E n \in Gain :
       addExperience(n) \/ removeExperience(n) \/ addSkillAdvance(n)
  \/ death

ProgressSpec == ProgressInit /\ [][ProgressNext]_progressVars

-----------------------------------------------------------------------------
(* Properties *)

ProgressTypeOK ==
  /\ level \in 1 .. MaxLevel /\ skill \in 0 .. MaxSkill
  /\ experience \in Nat /\ tries \in Nat /\ learnt \in Nat
  /\ healthMax \in Nat

(* Whatever was gained and lost, and in how many pieces, level and health  *)
(* are those of the experience, and a skill is that of the tries; no level *)
(* that is reached waits for the next try (addExperience, removeExperience,*)
(* addSkillAdvance, addManaSpent, death).                                  *)
ProgressAddsUp ==
  /\ ProgressTypeOK
  /\ getExpForLevel(level) <= experience
  /\ level < MaxLevel => experience < getExpForLevel(level + 1)
  /\ healthMax = level * HealthGain
  /\ Tries(skill, tries) = learnt
  /\ skill < MaxSkill => tries < getReqSkillTries(skill + 1)
=============================================================================
