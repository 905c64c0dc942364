------------------------------ MODULE Conditions ------------------------------
(***************************************************************************)
(* The conditions of one creature (newsrc/condition.cpp, newsrc/creature   *)
(* .cpp) that change its speed or its skills, and the two that exclude     *)
(* each other: haste and paralysis.  While the creature is between two     *)
(* steps, taking up the one or losing the other is put off by an event.    *)
(***************************************************************************)
EXTENDS Integers, FiniteSets, FiniteSetsExt, Functions

CONSTANTS
  Haste, Paralysis, Attributes, \* conditions, by their type, id and sub id
  FromItem,   \* those whose id is that of an inventory slot
  Delta,      \* what one may add to the speed or the skills
  MaxTicks,   \* bound: seconds a condition lasts
  MaxDelayed, \* bound: events under way at once
  NoCondition

ASSUME ConditionsAssumption ==
  /\ IsFiniteSet(Haste) /\ IsFiniteSet(Paralysis) /\ IsFiniteSet(Attributes)
  /\ Haste \cap Paralysis = {} /\ (Haste \cup Paralysis) \cap Attributes = {}
  /\ FromItem \subseteq Haste \cup Paralysis \cup Attributes
  /\ Delta \subseteq Int
  /\ MaxTicks \in Nat /\ MaxDelayed \in Nat
  /\ NoCondition \notin [delta : Int, ticks : Int]

Kind == Haste \cup Paralysis \cup Attributes
Speed == Haste \cup Paralysis
Endless == -1 \* ticks of a condition that lasts until it is removed
Renewed == -2 \* the same of one that was set again: setTicks(-1) puts its
              \* end into the past, where hasCondition does not see it

(* A condition changes its creature by delta and lasts ticks seconds.      *)
Condition == [delta : Delta, ticks : {Endless} \cup 1 .. MaxTicks]
Effect == [delta : Delta, ticks : Renewed .. MaxTicks]

(* Haste adds, paralysis takes.                                            *)
Apt(k, c) ==
  /\ k \in Haste \cup Attributes => c.delta > 0
  /\ k \in Paralysis => c.delta < 0
  /\ c.ticks = Endless => k \in FromItem

VARIABLES
  conditions,  \* Creature::conditions, by kind, or NoCondition
  varSpeed,    \* Creature::varSpeed
  varSkill,    \* Player::varSkills and varStats
  walkDelay,   \* getWalkDelay() > 0
  suppressed,  \* an item suppresses paralysis (isSuppress)
  adding,      \* <<kind, condition>> of the events forceAddCondition
  removing     \* events forceRemoveCondition(CONDITION_PARALYZE) to come

conditionVars ==
  <<conditions, varSpeed, varSkill, walkDelay, suppressed, adding, removing>>

ConditionsInit ==
  /\ conditions = [k \in Kind |-> NoCondition]
  /\ varSpeed = 0 /\ varSkill = 0
  /\ walkDelay = FALSE /\ suppressed = FALSE
  /\ adding = {} /\ removing = 0

-----------------------------------------------------------------------------
(* Helpers.  A state s has the fields conditions, speed and skill, and     *)
(* whether a removal of paralysis was put off.                             *)

Now == [conditions |-> conditions, speed |-> varSpeed, skill |-> varSkill,
        later |-> FALSE]

(* hasCondition: one that has expired and waits for executeConditions does *)
(* not count, nor does a suppressed one.                                   *)
Has(s, kinds) ==
  /\ ~(kinds = Paralysis /\ suppressed)
  /\ \E k \in kinds : /\ s.conditions[k] # NoCondition
                      /\ s.conditions[k].ticks \notin {Renewed, 0}

(* changeSpeed, updateSkills and updateStats.                              *)
Change(s, k, by) ==
  IF k \in Speed THEN [s EXCEPT !.speed = @ + by]
  ELSE [s EXCEPT !.skill = @ + by]

(* endCondition, after the condition has left the list.                    *)
End(s, k) ==
  IF s.conditions[k] = NoCondition THEN s
  ELSE Change([s EXCEPT !.conditions[k] = NoCondition], k,
              -s.conditions[k].delta)

EndAll(s, kinds) == FoldSet(LAMBDA k, t : End(t, k), s, kinds)

(* removeCondition by type, which is put off for paralysis.                *)
Remove(s, kinds, force) ==
  IF ~force /\ walkDelay /\ \E k \in kinds \cap Paralysis :
                              s.conditions[k] # NoCondition
  THEN [s EXCEPT !.later = TRUE]
  ELSE EndAll(s, kinds)

(* onAddCondition.                                                         *)
OnAdd(s, k) ==
  IF k \in Paralysis /\ Has(s, Haste) THEN Remove(s, Haste, FALSE)
  ELSE IF k \in Haste /\ Has(s, Paralysis) THEN Remove(s, Paralysis, FALSE)
  ELSE s

(* setTicks, of a condition that is there already.                         *)
Set(s, k, c) ==
  [s EXCEPT !.conditions[k] =
     [c EXCEPT !.ticks = IF @ = Endless THEN Renewed ELSE @]]

(* ConditionSpeed::addCondition: by the difference.                        *)
UpdateSpeed(s, k, c) ==
  IF s.conditions[k].ticks < 0 /\ c.ticks > 0 THEN s
  ELSE Change(Set(s, k, c), k, c.delta - s.conditions[k].delta)

(* updateCondition: not one that ends earlier.                             *)
Outlasts(c, old) ==
  c.ticks = Endless \/ (old.ticks >= 0 /\ c.ticks >= old.ticks)

(* Faulty variant: the old attributes are overwritten, not taken back.     *)
UpdateAttributesOver(s, k, c) ==
  IF ~Outlasts(c, s.conditions[k]) THEN s
  ELSE Change(Set(s, k, c), k, c.delta)

(* ConditionAttributes::addCondition: the old goes, the new comes.         *)
UpdateAttributes(s, k, c) ==
  IF ~Outlasts(c, s.conditions[k]) THEN s
  ELSE Change(Set(End(s, k), k, c), k, c.delta)

(* addCondition, but for what puts it off.                                 *)
Put(s, k, c) ==
  IF s.conditions[k] = NoCondition
  THEN OnAdd(Change([s EXCEPT !.conditions[k] = c], k, c.delta), k)
  ELSE IF k \in Speed THEN UpdateSpeed(s, k, c) ELSE UpdateAttributes(s, k, c)

Become(s) ==
  /\ conditions' = s.conditions
  /\ varSpeed' = s.speed
  /\ varSkill' = s.skill

(* The events that a removal leaves, of which at least one was due.        *)
Later(s, pending) ==
  /\ removing' = pending + (IF s.later THEN 1 ELSE 0)
  /\ removing' <= MaxDelayed

-----------------------------------------------------------------------------

(* addCondition by a spell, an item or a script.                           *)
PutOff(k) == k \in Haste /\ Has(Now, Paralysis) /\ walkDelay

AddCondition(k, c) ==
  /\ Apt(k, c)
  /\ IF PutOff(k)
     THEN /\ Cardinality(adding) < MaxDelayed
          /\ adding' = adding \cup {<<k, c>>}
          /\ UNCHANGED <<conditions, varSpeed, varSkill, removing>>
     ELSE /\ Become(Put(Now, k, c))
          /\ Later(Put(Now, k, c), removing)
          /\ UNCHANGED adding
  /\ UNCHANGED <<walkDelay, suppressed>>

forceAddCondition(k, c) ==
  /\ <<k, c>> \in adding
  /\ adding' = adding \ {<<k, c>>}
  /\ Become(Put(Now, k, c))
  /\ Later(Put(Now, k, c), removing)
  /\ UNCHANGED <<walkDelay, suppressed>>

(* removeCondition by dispelling, or by taking an item off.                *)
RemoveCondition(kinds) ==
  /\ \E k \in kinds : conditions[k] # NoCondition
  /\ Become(Remove(Now, kinds, FALSE))
  /\ Later(Remove(Now, kinds, FALSE), removing)
  /\ UNCHANGED <<walkDelay, suppressed, adding>>

forceRemoveCondition ==
  /\ removing > 0
  /\ Become(Remove(Now, Paralysis, TRUE))
  /\ removing' = removing - 1
  /\ UNCHANGED <<walkDelay, suppressed, adding>>

(* executeConditions, on each think.                                       *)
executeConditions ==
  /\ LET over == {k \in Kind : conditions[k] # NoCondition
                                /\ conditions[k].ticks = 0}
     IN over # {} /\ Become(EndAll(Now, over))
  /\ UNCHANGED <<walkDelay, suppressed, adding, removing>>

(* A death ends all that would be kept in the database (isPersistent).     *)
Die ==
  /\ Become(EndAll(Now, {k \in Kind \ FromItem :
                           conditions[k] # NoCondition
                             /\ conditions[k].ticks >= 0}))
  /\ UNCHANGED <<walkDelay, suppressed, adding, removing>>

(* A second.                                                               *)
Tick ==
  /\ conditions' =
       [k \in Kind |->
          IF conditions[k] = NoCondition \/ conditions[k].ticks <= 0
          THEN conditions[k]
          ELSE [conditions[k] EXCEPT !.ticks = @ - 1]]
  /\ UNCHANGED <<varSpeed, varSkill, walkDelay, suppressed, adding, removing>>

(* The creature takes a step, or has rested from it.                       *)
Step ==
  /\ walkDelay' = ~walkDelay
  /\ UNCHANGED <<conditions, varSpeed, varSkill, suppressed, adding, removing>>

(* An item that suppresses paralysis is put on or taken off.               *)
Suppress ==
  /\ suppressed' = ~suppressed
  /\ UNCHANGED <<conditions, varSpeed, varSkill, walkDelay, adding, removing>>

ConditionsNext ==
  \/ \E k \in Kind, c \in Condition :
       AddCondition(k, c) \/ forceAddCondition(k, c)
  \/ \E kinds \in {Haste, Paralysis, Attributes} \cup {{k} : k \in FromItem} :
       RemoveCondition(kinds)
  \/ forceRemoveCondition \/ executeConditions \/ Die
  \/ Tick \/ Step \/ Suppress

ConditionsSpec == ConditionsInit /\ [][ConditionsNext]_conditionVars

-----------------------------------------------------------------------------
(* Properties *)

ConditionsTypeOK ==
  /\ conditions \in [Kind -> Effect \cup {NoCondition}]
  /\ varSpeed \in Int /\ varSkill \in Int
  /\ walkDelay \in BOOLEAN /\ suppressed \in BOOLEAN
  /\ adding \subseteq Kind \X Condition
  /\ removing \in 0 .. MaxDelayed

Deltas(of) == [k \in Kind |-> IF of[k] = NoCondition THEN 0 ELSE of[k].delta]

(* A creature's speed and skills differ from their bases by what the       *)
(* conditions it has add up to, in whatever order they came, were renewed, *)
(* put off and went (startCondition, addCondition, endCondition).          *)
ModifiersAddUp ==
  /\ ConditionsTypeOK
  /\ varSpeed = SumFunctionOnSet(Deltas(conditions), Speed)
  /\ varSkill = SumFunctionOnSet(Deltas(conditions), Attributes)
=============================================================================
