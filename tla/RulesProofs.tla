----------------------------- MODULE RulesProofs -----------------------------
(***************************************************************************)
(* Proofs about rules of the game: raids, houses and their beds, spawns,   *)
(* what a monster knows of the tiles around it and of the players in its   *)
(* sight, the market, levels and skills, and items that decay.             *)
(***************************************************************************)
EXTENDS Raids, House, Spawn, WalkCache, Market, Monsters, Progress, Decay,
  SumLemmas, TLAPS

(* As long as no raid has strayed, one that runs has exactly one event to  *)
(* come, and without one there is none: startRaid follows setRunning, and  *)
(* resetRaid the last event.                                               *)
RaidsIInv ==
  /\ RaidsTypeOK
  /\ ~strayed =>
       \/ running = NoRaid /\ events = {}
       \/ \E e \in Event : events = {e} /\ running = e.raid

LEMMA EventFields ==
  ASSUME NEW e \in Event
  PROVE  /\ e.raid \in Raid /\ e.left \in 0 .. Length - 1
         /\ e.listed \in BOOLEAN /\ e.due \in BOOLEAN
         /\ [e EXCEPT !.due = TRUE] \in Event
         /\ [e EXCEPT !.due = TRUE].raid = e.raid
         /\ e.left > 0 => [e EXCEPT !.left = @ - 1, !.due = FALSE] \in Event
         /\ [e EXCEPT !.left = @ - 1, !.due = FALSE].raid = e.raid
<1>1. /\ e.raid \in Raid /\ e.left \in 0 .. Length - 1
      /\ e.listed \in BOOLEAN /\ e.due \in BOOLEAN
  BY DEF Event
<1>2. [e EXCEPT !.due = TRUE] \in Event BY DEF Event
<1>3. [e EXCEPT !.due = TRUE].raid = e.raid BY DEF Event
<1>4. ASSUME e.left > 0
      PROVE  [e EXCEPT !.left = @ - 1, !.due = FALSE] \in Event
  <2>1. e.left - 1 \in 0 .. Length - 1 BY <1>1, <1>4, RaidsAssumption
  <2> QED BY <2>1 DEF Event
<1>5. [e EXCEPT !.left = @ - 1, !.due = FALSE].raid = e.raid BY DEF Event
<1> QED BY <1>1, <1>2, <1>3, <1>4, <1>5

(* Raid::startRaid, when none runs.                                        *)
LEMMA StartKeeps ==
  ASSUME RaidsIInv, running = NoRaid, NEW r \in Raid, NEW listed \in BOOLEAN,
         Start(r, listed)
  PROVE  /\ events' \subseteq Event /\ running' \in Raid
         /\ ~strayed => \E e \in Event : events' = {e} /\ running' = e.raid
<1> DEFINE first == [raid |-> r, left |-> Length - 1, listed |-> listed,
                     due |-> FALSE]
<1>1. first \in Event /\ first.raid = r BY RaidsAssumption DEF Event
<1>2. events' = events \cup {first} /\ running' = r BY DEF Start
<1>3. events \subseteq Event BY DEF RaidsIInv, RaidsTypeOK
<1>4. ASSUME ~strayed PROVE events = {}
  <2>1. \A e \in Event : e.raid # NoRaid BY EventFields, RaidsAssumption
  <2> QED BY <1>4, <2>1 DEF RaidsIInv
<1> HIDE DEF first
<1> QED BY <1>1, <1>2, <1>3, <1>4

LEMMA RaidsInitIInv == RaidsInit => RaidsIInv
  BY DEF RaidsInit, RaidsIInv, RaidsTypeOK

LEMMA RaidsNextIInv == RaidsIInv /\ [RaidsNext]_raidVars => RaidsIInv'
<1> SUFFICES ASSUME RaidsIInv, [RaidsNext]_raidVars PROVE RaidsIInv'
  OBVIOUS
<1> USE DEF RaidsIInv, RaidsTypeOK
<1>1. CASE checkRaids
  <2>1. /\ check' = "delayed" /\ strayed' = strayed
    BY <1>1 DEF checkRaids
  <2>2. ASSUME running = NoRaid, NEW r \in raidList, Start(r, r \notin Once),
               raidList' = raidList \ ({r} \cap Once)
        PROVE  RaidsIInv'
    <3>1. r \in Raid /\ (r \notin Once) \in BOOLEAN /\ raidList' \subseteq Raid
      BY <2>2
    <3>2. /\ events' \subseteq Event /\ running' \in Raid
          /\ ~strayed => \E e \in Event : events' = {e} /\ running' = e.raid
      BY <2>2, <3>1, StartKeeps
    <3> QED BY <2>1, <3>1, <3>2
  <2>3. CASE UNCHANGED <<raidList, running, events>> BY <2>1, <2>3
  <2> QED BY <1>1, <2>2, <2>3 DEF checkRaids
<1>2. ASSUME NEW r \in Raid, luaGameStartRaid(r) PROVE RaidsIInv'
  <2>1. running = NoRaid /\ Start(r, TRUE) BY <1>2 DEF luaGameStartRaid
  <2>2. UNCHANGED <<raidList, check, strayed>> BY <1>2 DEF luaGameStartRaid
  <2>3. /\ events' \subseteq Event /\ running' \in Raid
        /\ ~strayed => \E e \in Event : events' = {e} /\ running' = e.raid
    BY <2>1, StartKeeps
  <2> QED BY <2>2, <2>3
<1>3. ASSUME NEW e \in Event, executeRaidEvent(e) PROVE RaidsIInv'
  <2>1. e \in events /\ UNCHANGED <<raidList, check, strayed>>
    BY <1>3 DEF executeRaidEvent
  <2>2. ~strayed => events = {e} /\ running = e.raid BY <2>1
  <2>3. CASE /\ e.left > 0
             /\ events' = (events \ {e})
                            \cup {[e EXCEPT !.left = @ - 1, !.due = FALSE]}
             /\ UNCHANGED running
    <3> DEFINE later == [e EXCEPT !.left = @ - 1, !.due = FALSE]
    <3>1. later \in Event /\ later.raid = e.raid BY <2>3, EventFields
    <3>2. events' = (events \ {e}) \cup {later} /\ running' = running
      BY <2>3
    <3> HIDE DEF later
    <3>3. ~strayed => events' = {later} /\ running' = later.raid
      BY <2>2, <3>1, <3>2
    <3> QED BY <2>1, <3>1, <3>2, <3>3
  <2>4. CASE events' = events \ {e} /\ running' = NoRaid
    BY <2>1, <2>2, <2>4
  <2> QED BY <1>3, <2>3, <2>4 DEF executeRaidEvent
<1>4. ASSUME NEW e \in Event, EventFallsDue(e) PROVE RaidsIInv'
  <2> DEFINE dueNow == [e EXCEPT !.due = TRUE]
  <2>1. /\ e \in events /\ UNCHANGED <<raidList, running, check, strayed>>
        /\ events' = (events \ {e}) \cup {dueNow}
    BY <1>4 DEF EventFallsDue
  <2>2. dueNow \in Event /\ dueNow.raid = e.raid BY EventFields
  <2> HIDE DEF dueNow
  <2>3. ~strayed => events' = {dueNow} /\ running' = dueNow.raid
    BY <2>1, <2>2
  <2> QED BY <2>1, <2>2, <2>3
<1>5. CASE reload
  <2>1. /\ events' = {e \in events : ~e.listed} /\ running' = NoRaid
        /\ raidList' = Raid /\ check' = "delayed"
        /\ strayed' = (strayed \/ \E e \in events : ~e.listed)
    BY <1>5 DEF reload
  <2>2. ~strayed' => events' = {} BY <2>1
  <2>3. strayed' \in BOOLEAN /\ events' \subseteq Event BY <2>1
  <2> QED BY <2>1, <2>2, <2>3
<1>6. CASE CheckFallsDue BY <1>6 DEF CheckFallsDue
<1>7. CASE UNCHANGED raidVars BY <1>7 DEF raidVars
<1> QED BY <1>1, <1>2, <1>3, <1>4, <1>5, <1>6, <1>7 DEF RaidsNext

(* Raids::checkRaids and Game.startRaid start a raid only when none runs,  *)
(* and executeRaidEvent resets it with its last event or a failed one, so  *)
(* that no two chains of events are under way, whatever the raids.         *)
THEOREM OneRaidAtATimeHolds == RaidsSpec => []OneRaidAtATime
<1>1. RaidsIInv => OneRaidAtATime
  <2> SUFFICES ASSUME RaidsIInv, ~strayed
               PROVE  /\ Cardinality(events) <= 1
                      /\ \A e \in events : running = e.raid
    BY DEF OneRaidAtATime
  <2>1. CASE events = {} BY <2>1, FS_EmptySet
  <2>2. ASSUME NEW e \in Event, events = {e}, running = e.raid
        PROVE  /\ Cardinality(events) <= 1
               /\ \A f \in events : running = f.raid
    <3>1. Cardinality({e}) = 1 BY FS_Singleton
    <3> QED BY <2>2, <3>1
  <2> QED BY <2>1, <2>2 DEF RaidsIInv
<1> QED BY <1>1, RaidsInitIInv, RaidsNextIInv, PTL DEF RaidsSpec

-----------------------------------------------------------------------------
(* The house *)

(* What a restart reads back is as good as what was saved: nobody has two  *)
(* beds in the database.                                                   *)
StoredSleepOnce ==
  \A a, b \in Bed :
    stored.sleeper[a] = stored.sleeper[b] /\ stored.sleeper[a] # None
      => a = b

HouseInv == HouseIsKept /\ StoredSleepOnce

LEMMA StoredFields ==
  ASSUME TypeOK
  PROVE  /\ stored.owner \in Player \cup {None}
         /\ stored.guests \subseteq Player
         /\ stored.sleeper \in [Bed -> Player \cup {None}]
  BY DEF TypeOK, Stored

(* Who is put out of the house leaves those inside who are not of ps.      *)
LEMMA EvictLeaves ==
  ASSUME TypeOK, NEW ps, Evict(ps)
  PROVE  /\ where' \in [Player -> {"off", "out", "in"}]
         /\ \A p \in Player :
              where'[p] = "in" => where[p] = "in" /\ p \notin ps
         /\ \A p \in Player : where'[p] = "off" <=> where[p] = "off"
  BY DEF TypeOK, Evict

(* A bed that is left and the map agree as they did, and nobody who did    *)
(* not sleep does.                                                         *)
LEMMA WakeUpKeeps ==
  ASSUME TypeOK, SleepersAreKnown, NEW bs \in SUBSET Bed, WakeUp(bs)
  PROVE  /\ sleeper' \in [Bed -> Player \cup {None}]
         /\ bedOf' \in [Player -> Bed \cup {None}]
         /\ \A p \in Player, b \in Bed : sleeper'[b] = p <=> bedOf'[p] = b
         /\ \A b \in Bed : sleeper'[b] \in Player =>
              sleeper'[b] = sleeper[b] /\ b \notin bs
<1>1. /\ sleeper' \in [Bed -> Player \cup {None}]
      /\ bedOf' \in [Player -> Bed \cup {None}]
  BY DEF TypeOK, WakeUp
<1>2. \A b \in Bed : sleeper'[b] = IF b \in bs THEN None ELSE sleeper[b]
  BY DEF WakeUp
<1>3. \A p \in Player : bedOf'[p] =
        IF \E b \in bs : sleeper[b] = p THEN None ELSE bedOf[p]
  BY DEF WakeUp
<1>4. ASSUME NEW p \in Player, NEW b \in Bed
      PROVE  sleeper'[b] = p <=> bedOf'[p] = b
  <2>1. sleeper[b] = p <=> bedOf[p] = b BY DEF SleepersAreKnown
  <2>2. None # p /\ None # b BY HouseAssumption
  <2>3. CASE \E c \in bs : sleeper[c] = p
    <3>1. PICK c \in bs : sleeper[c] = p BY <2>3
    <3>2. bedOf[p] = c BY <3>1 DEF SleepersAreKnown
    <3> QED BY <1>2, <1>3, <2>1, <2>2, <3>1, <3>2
  <2>4. CASE ~\E c \in bs : sleeper[c] = p
    BY <1>2, <1>3, <2>1, <2>2, <2>4
  <2> QED BY <2>3, <2>4
<1> QED BY <1>1, <1>2, <1>4, HouseAssumption

(* The beds stay, no place is taken that is not invited, and nobody comes  *)
(* online or off the list of kicks who sleeps.                             *)
LEMMA BedsStayKeeps ==
  ASSUME HouseInv, TypeOK', InsideAreInvited',
         UNCHANGED <<sleeper, bedOf>>, stored'.sleeper = stored.sleeper,
         \A p \in Player : where'[p] # "off" =>
           where[p] # "off" /\ (p \in kicks => p \in kicks')
  PROVE  HouseInv'
<1> USE DEF HouseInv, HouseIsKept
<1>1. SleepersAreKnown'
  <2>1. \A p \in Player, b \in Bed : sleeper'[b] = p <=> bedOf'[p] = b
    BY DEF SleepersAreKnown
  <2>2. \A b \in Bed : sleeper'[b] \in Online' => sleeper'[b] \in kicks'
    BY DEF SleepersAreKnown, Online
  <2> QED BY <2>1, <2>2 DEF SleepersAreKnown
<1>2. StoredSleepOnce' BY DEF StoredSleepOnce
<1> QED BY <1>1, <1>2

(* Some are woken, and nobody comes online who sleeps.                     *)
LEMMA BedsWokenKeep ==
  ASSUME HouseInv, TypeOK', InsideAreInvited', NEW bs \in SUBSET Bed,
         WakeUp(bs), stored'.sleeper = stored.sleeper, kicks' = kicks,
         \A b \in Bed :
           sleeper[b] \in Player /\ where'[sleeper[b]] # "off" =>
             where[sleeper[b]] # "off" \/ \E c \in bs : sleeper[c] = sleeper[b]
  PROVE  HouseInv'
<1> USE DEF HouseInv, HouseIsKept
<1>1. SleepersAreKnown'
  <2>1. \A p \in Player, b \in Bed : sleeper'[b] = p <=> bedOf'[p] = b
    BY WakeUpKeeps
  <2>2. ASSUME NEW b \in Bed, sleeper'[b] \in Online'
        PROVE  sleeper'[b] \in kicks'
    <3>1. /\ sleeper'[b] \in Player /\ where'[sleeper'[b]] # "off"
      BY <2>2 DEF Online
    <3>2. sleeper'[b] = sleeper[b] /\ b \notin bs BY <3>1, WakeUpKeeps
    <3>3. ~\E c \in bs : sleeper[c] = sleeper[b]
      BY <3>1, <3>2 DEF SleepersAreKnown
    <3>4. sleeper[b] \in Online BY <3>1, <3>2, <3>3 DEF Online
    <3> QED BY <3>2, <3>4 DEF SleepersAreKnown
  <2> QED BY <2>1, <2>2 DEF SleepersAreKnown
<1>2. StoredSleepOnce' BY DEF StoredSleepOnce
<1> QED BY <1>1, <1>2

(* House::setOwner.                                                        *)
LEMMA SetOwnerKeeps ==
  ASSUME HouseInv, NEW guid \in Player \cup {None}, setOwner(guid),
         transfer' \in Player \cup {None}
  PROVE  HouseInv'
<1> USE DEF HouseInv, HouseIsKept
<1>1. /\ owner' = guid /\ stored' = [stored EXCEPT !.owner = guid]
      /\ kicks' = kicks
  BY DEF setOwner
<1>2. stored' \in Stored /\ stored'.sleeper = stored.sleeper
  BY <1>1 DEF TypeOK, Stored
<1>3. CASE owner = None
  <2>1. UNCHANGED <<where, sleeper, bedOf, guests>> BY <1>3 DEF setOwner
  <2>2. TypeOK' BY <1>1, <1>2, <2>1 DEF TypeOK
  <2>3. InsideAreInvited'
    BY <1>1, <1>3, <2>1, HouseAssumption DEF InsideAreInvited, isInvited
  <2> QED BY <1>1, <1>2, <2>1, <2>2, <2>3, BedsStayKeeps
<1>4. CASE owner # None
  <2>1. Evict(Player) /\ WakeUp(Bed) /\ guests' = {}
    BY <1>4 DEF setOwner
  <2>2. TypeOK'
    BY <1>1, <1>2, <2>1, EvictLeaves, WakeUpKeeps DEF TypeOK
  <2>3. InsideAreInvited' BY <2>1, EvictLeaves DEF InsideAreInvited
  <2>4. \A p \in Player : where'[p] # "off" => where[p] # "off"
    BY <2>1, EvictLeaves
  <2> QED BY <1>1, <1>2, <2>1, <2>2, <2>3, <2>4, BedsWokenKeep
<1> QED BY <1>3, <1>4

(* Going in and out, in and off the world, lists and sales.                *)
LEMMA HouseStepsKeep ==
  ASSUME HouseInv
  PROVE  /\ \A p \in Player :
              Logout(p) \/ Enter(p) \/ Leave(p) \/ kickPlayer(p)
                \/ StartTrade(p) \/ Kick(p) => HouseInv'
         /\ \A ps \in SUBSET Player : setAccessList(ps) => HouseInv'
         /\ CancelTrade => HouseInv'
<1> USE DEF HouseInv, HouseIsKept
<1>1. ASSUME NEW p \in Player, Logout(p) \/ Kick(p) PROVE HouseInv'
  <2>1. /\ where' = [where EXCEPT ![p] = "off"] /\ kicks' = kicks \ {p}
        /\ transfer' \in {None, transfer}
        /\ UNCHANGED <<owner, guests, sleeper, bedOf, stored>>
    BY <1>1 DEF Logout, Kick
  <2>2. \A q \in Player : where'[q] # "off" => q # p /\ where'[q] = where[q]
    BY <2>1 DEF TypeOK
  <2>3. TypeOK' BY <2>1 DEF TypeOK
  <2>4. InsideAreInvited' BY <2>1, <2>2 DEF InsideAreInvited, isInvited
  <2> QED BY <2>1, <2>2, <2>3, <2>4, BedsStayKeeps
<1>2. ASSUME NEW p \in Player, Enter(p) \/ Leave(p) PROVE HouseInv'
  <2>1. /\ UNCHANGED <<owner, guests, sleeper, bedOf, kicks, transfer, stored>>
        /\ where[p] # "off"
        /\ \E side \in {"in", "out"} :
             /\ where' = [where EXCEPT ![p] = side]
             /\ side = "in" => isInvited(p)
    BY <1>2 DEF Enter, Leave
  <2>2. TypeOK' BY <2>1 DEF TypeOK
  <2>3. InsideAreInvited' BY <2>1 DEF InsideAreInvited, isInvited, TypeOK
  <2>4. \A q \in Player : where'[q] # "off" => where[q] # "off"
    BY <2>1 DEF TypeOK
  <2> QED BY <2>1, <2>2, <2>3, <2>4, BedsStayKeeps
<1>3. ASSUME NEW p \in Player, kickPlayer(p) PROVE HouseInv'
  <2>1. /\ UNCHANGED <<owner, guests, sleeper, bedOf, kicks, transfer, stored>>
        /\ Evict({p})
    BY <1>3 DEF kickPlayer
  <2>2. TypeOK' BY <2>1, EvictLeaves DEF TypeOK
  <2>3. InsideAreInvited'
    BY <2>1, EvictLeaves DEF InsideAreInvited, isInvited
  <2> QED BY <2>1, <2>2, <2>3, EvictLeaves, BedsStayKeeps
<1>4. ASSUME NEW ps \in SUBSET Player, setAccessList(ps) PROVE HouseInv'
  <2>1. /\ UNCHANGED <<owner, sleeper, bedOf, kicks, transfer, stored>>
        /\ guests' = ps /\ Evict(Player \ (ps \cup {owner}))
    BY <1>4 DEF setAccessList
  <2>2. TypeOK' BY <2>1, EvictLeaves DEF TypeOK
  <2>3. InsideAreInvited'
    BY <2>1, EvictLeaves DEF InsideAreInvited, isInvited
  <2> QED BY <2>1, <2>2, <2>3, EvictLeaves, BedsStayKeeps
<1>5. ASSUME (\E p \in Player : StartTrade(p)) \/ CancelTrade PROVE HouseInv'
  <2>1. /\ UNCHANGED <<owner, guests, where, sleeper, bedOf, kicks, stored>>
        /\ transfer' \in Player \cup {None}
    BY <1>5 DEF StartTrade, CancelTrade
  <2>2. TypeOK' BY <2>1 DEF TypeOK
  <2>3. InsideAreInvited' BY <2>1 DEF InsideAreInvited, isInvited
  <2> QED BY <2>1, <2>2, <2>3, BedsStayKeeps
<1> QED BY <1>1, <1>2, <1>3, <1>4, <1>5

LEMMA LoginKeeps ==
  ASSUME HouseInv, NEW p \in Player, Login(p)
  PROVE  HouseInv'
<1> USE DEF HouseInv, HouseIsKept
<1>1. /\ where[p] = "off"
      /\ UNCHANGED <<owner, guests, kicks, transfer, stored>>
  BY DEF Login
<1>2. PICK side \in {"in", "out"} :
        /\ side = "in" => isInvited(p)
        /\ where' = [where EXCEPT ![p] = side]
  BY DEF Login
<1>3. \A q \in Player : q # p => where'[q] = where[q]
  BY <1>2 DEF TypeOK
<1>4. InsideAreInvited'
  BY <1>1, <1>2, <1>3 DEF InsideAreInvited, isInvited, TypeOK
<1>5. CASE bedOf[p] # None /\ WakeUp({bedOf[p]})
  <2>1. bedOf[p] \in Bed /\ sleeper[bedOf[p]] = p
    BY <1>5 DEF TypeOK, SleepersAreKnown
  <2>2. TypeOK' BY <1>1, <1>2, <1>5, <2>1, WakeUpKeeps DEF TypeOK
  <2> QED BY <1>1, <1>3, <1>4, <1>5, <2>1, <2>2, BedsWokenKeep
<1>6. CASE bedOf[p] = None /\ UNCHANGED <<sleeper, bedOf>>
  <2>1. TypeOK' BY <1>1, <1>2, <1>6 DEF TypeOK
  <2>2. WakeUp({}) BY <1>6 DEF WakeUp, TypeOK
  <2>3. \A b \in Bed : sleeper[b] # p
    BY <1>6, HouseAssumption DEF SleepersAreKnown
  <2> QED BY <1>1, <1>3, <1>4, <2>1, <2>2, <2>3, BedsWokenKeep
<1> QED BY <1>5, <1>6 DEF Login

(* Whoever lies down has no other bed: a sleeper that is online is on the  *)
(* list of kicks.                                                          *)
LEMMA SleepKeeps ==
  ASSUME HouseInv, NEW p \in Player, NEW b \in Bed, Sleep(p, b)
  PROVE  HouseInv'
<1> USE DEF HouseInv, HouseIsKept
<1>1. /\ p \in Online /\ p \notin kicks /\ sleeper[b] = None
      /\ sleeper' = [sleeper EXCEPT ![b] = p]
      /\ bedOf' = [bedOf EXCEPT ![p] = b]
      /\ where' = [where EXCEPT ![p] = "in"]
      /\ kicks' = kicks \cup {p}
      /\ UNCHANGED <<owner, guests, transfer, stored>>
  BY DEF Sleep
<1>2. TypeOK' BY <1>1 DEF TypeOK
<1>3. InsideAreInvited' BY <1>1 DEF InsideAreInvited, isInvited, TypeOK
<1>4. \A c \in Bed : sleeper[c] # p BY <1>1 DEF SleepersAreKnown
<1>5. \A q \in Player : bedOf[q] # b
  BY <1>1, HouseAssumption DEF SleepersAreKnown
<1>6. SleepersAreKnown'
  <2>1. ASSUME NEW q \in Player, NEW c \in Bed
        PROVE  sleeper'[c] = q <=> bedOf'[q] = c
    <3>1. /\ sleeper'[c] = IF c = b THEN p ELSE sleeper[c]
          /\ bedOf'[q] = IF q = p THEN b ELSE bedOf[q]
      BY <1>1 DEF TypeOK
    <3>2. sleeper[c] = q <=> bedOf[q] = c BY DEF SleepersAreKnown
    <3> QED BY <1>4, <1>5, <3>1, <3>2
  <2>2. ASSUME NEW c \in Bed, sleeper'[c] \in Online'
        PROVE  sleeper'[c] \in kicks'
    <3>1. CASE c = b BY <1>1, <3>1 DEF TypeOK
    <3>2. CASE c # b
      <4>1. sleeper'[c] = sleeper[c] /\ sleeper[c] # p
        BY <1>1, <1>4, <3>2 DEF TypeOK
      <4>2. sleeper[c] \in Online BY <1>1, <2>2, <4>1 DEF Online, TypeOK
      <4> QED BY <1>1, <4>1, <4>2 DEF SleepersAreKnown
    <3> QED BY <3>1, <3>2
  <2> QED BY <2>1, <2>2 DEF SleepersAreKnown
<1>7. StoredSleepOnce' BY <1>1 DEF StoredSleepOnce
<1> QED BY <1>2, <1>3, <1>6, <1>7

LEMMA RestartKeeps ==
  ASSUME HouseInv, Restart
  PROVE  HouseInv'
<1> USE DEF HouseInv, HouseIsKept
<1>1. /\ owner' = stored.owner /\ guests' = stored.guests
      /\ sleeper' = stored.sleeper /\ kicks' = {} /\ transfer' = None
      /\ where' = [p \in Player |-> "off"] /\ stored' = stored
      /\ bedOf' \in [Player -> Bed \cup {None}]
  BY DEF Restart
<1>2. \A p \in Player :
        IF \E b \in Bed : stored.sleeper[b] = p
        THEN bedOf'[p] # None /\ stored.sleeper[bedOf'[p]] = p
        ELSE bedOf'[p] = None
  BY DEF Restart
<1>3. TypeOK' BY <1>1, StoredFields DEF TypeOK
<1>4. \A p \in Player : where'[p] = "off" BY <1>1
<1>5. InsideAreInvited' BY <1>4 DEF InsideAreInvited
<1>6. SleepersAreKnown'
  <2>1. ASSUME NEW p \in Player, NEW b \in Bed
        PROVE  sleeper'[b] = p <=> bedOf'[p] = b
    <3>1. None # p /\ None # b BY HouseAssumption
    <3>2. CASE \E c \in Bed : stored.sleeper[c] = p
      <4>1. bedOf'[p] \in Bed /\ stored.sleeper[bedOf'[p]] = p
        BY <1>1, <1>2, <3>2
      <4> QED BY <1>1, <3>1, <4>1 DEF StoredSleepOnce
    <3>3. CASE ~\E c \in Bed : stored.sleeper[c] = p
      BY <1>1, <1>2, <3>1, <3>3
    <3> QED BY <3>2, <3>3
  <2> QED BY <1>4, <2>1 DEF SleepersAreKnown, Online
<1>7. StoredSleepOnce' BY <1>1 DEF StoredSleepOnce
<1> QED BY <1>3, <1>5, <1>6, <1>7

LEMMA HouseKeeps == HouseInv /\ [Next]_houseVars => HouseInv'
<1> SUFFICES ASSUME HouseInv, [Next]_houseVars PROVE HouseInv' OBVIOUS
<1> USE DEF HouseInv, HouseIsKept
<1>1. ASSUME NEW p \in Player, NEW b \in Bed, trySleep(p, b) PROVE HouseInv'
  <2>1. /\ WakeUp({b})
        /\ UNCHANGED <<owner, guests, where, kicks, transfer, stored>>
    BY <1>1 DEF trySleep
  <2>2. TypeOK' BY <2>1, WakeUpKeeps DEF TypeOK
  <2>3. InsideAreInvited' BY <2>1 DEF InsideAreInvited, isInvited
  <2> QED BY <2>1, <2>2, <2>3, BedsWokenKeep
<1>2. ASSUME NEW guid \in Player \cup {None}, SetOwner(guid) PROVE HouseInv'
  <2>1. setOwner(guid) /\ transfer' \in Player \cup {None}
    BY <1>2 DEF SetOwner, TypeOK
  <2> QED BY <2>1, SetOwnerKeeps
<1>3. ASSUME NEW buyer \in Player, executeTransfer(buyer) PROVE HouseInv'
  <2>1. transfer' = None BY <1>3 DEF executeTransfer
  <2>2. CASE setOwner(buyer) BY <2>1, <2>2, SetOwnerKeeps
  <2>3. CASE UNCHANGED <<owner, guests, where, sleeper, bedOf, kicks, stored>>
    <3>1. TypeOK' BY <2>1, <2>3 DEF TypeOK
    <3>2. InsideAreInvited' BY <2>3 DEF InsideAreInvited, isInvited
    <3> QED BY <2>3, <3>1, <3>2, BedsStayKeeps
  <2> QED BY <1>3, <2>2, <2>3 DEF executeTransfer
<1>4. CASE Save
  <2>1. /\ stored' = [owner |-> owner, guests |-> guests, sleeper |-> sleeper]
        /\ UNCHANGED <<owner, guests, where, sleeper, bedOf, kicks, transfer>>
    BY <1>4 DEF Save, house
  <2>2. TypeOK' BY <2>1 DEF TypeOK, Stored
  <2>3. InsideAreInvited' BY <2>1 DEF InsideAreInvited, isInvited
  <2>4. SleepersAreKnown' BY <2>1 DEF SleepersAreKnown, Online
  <2>5. StoredSleepOnce'
    BY <2>1 DEF StoredSleepOnce, SleepersAreKnown, TypeOK
  <2> QED BY <2>2, <2>3, <2>4, <2>5
<1>5. CASE UNCHANGED houseVars
  <2>1. /\ UNCHANGED <<owner, guests, where, sleeper, bedOf, kicks, transfer,
                       stored>>
    BY <1>5 DEF houseVars
  <2>2. TypeOK' BY <2>1 DEF TypeOK
  <2>3. InsideAreInvited' BY <2>1 DEF InsideAreInvited, isInvited
  <2> QED BY <2>1, <2>2, <2>3, BedsStayKeeps
<1> HIDE DEF HouseInv, HouseIsKept
<1> QED
  BY <1>1, <1>2, <1>3, <1>4, <1>5, HouseStepsKeep, LoginKeeps, SleepKeeps,
     RestartKeeps
  DEF Next

LEMMA HouseBegins == Init => HouseInv
<1> SUFFICES ASSUME Init PROVE HouseInv OBVIOUS
<1>1. /\ owner = None /\ guests = {} /\ kicks = {} /\ transfer = None
      /\ where = [p \in Player |-> "off"] /\ sleeper = [b \in Bed |-> None]
      /\ bedOf = [p \in Player |-> None]
      /\ stored = [owner |-> None, guests |-> {}, sleeper |-> sleeper]
  BY DEF Init
<1>2. TypeOK BY <1>1 DEF TypeOK, Stored
<1>3. InsideAreInvited BY <1>1 DEF InsideAreInvited
<1>4. SleepersAreKnown
  BY <1>1, HouseAssumption DEF SleepersAreKnown, Online
<1>5. StoredSleepOnce BY <1>1 DEF StoredSleepOnce
<1> QED BY <1>2, <1>3, <1>4, <1>5 DEF HouseInv, HouseIsKept

(* Nobody is in a house uninvited, and whoever sleeps in a bed is found by *)
(* its next login, through sales, new lists, saves and crashes, whatever   *)
(* the players and the beds (setOwner, setAccessList, wakeUp, readAttr).   *)
THEOREM HouseIsKeptHolds == Spec => []HouseIsKept
<1>1. HouseInv => HouseIsKept BY DEF HouseInv
<1> QED BY <1>1, HouseBegins, HouseKeeps, PTL DEF Spec

-----------------------------------------------------------------------------
(* Spawns *)

(* No block has two monsters, one that is announced has none, and without  *)
(* a check to come nothing is to be cleaned up and there are monsters for  *)
(* all blocks, but for those that the start or a convincer left out.       *)
OneForEach ==
  \A m, n \in Spawned :
    spawnedMap[m] = spawnedMap[n] /\ spawnedMap[m] \in Block => m = n

AnnouncedAreFree ==
  \A b \in announced : \A m \in Spawned : spawnedMap[m] # b

NoCheckIsNeeded ==
  /\ \A m \in Spawned : location[m] # "removed"
  /\ Cardinality(Block) <= Cardinality(Registered) + lost

SpawnInv ==
  /\ SpawnTypeOK
  /\ OneForEach
  /\ AnnouncedAreFree
  /\ ~checkSpawnEvent => NoCheckIsNeeded

LEMMA SpawnSizes ==
  ASSUME SpawnTypeOK
  PROVE  /\ IsFiniteSet(Registered) /\ Cardinality(Registered) \in Nat
         /\ Cardinality(Block) \in Nat
<1>1. Registered \subseteq Spawned BY DEF Registered
<1> QED BY <1>1, SpawnAssumption, FS_Subset, FS_CardinalityType

LEMMA SpawnBegins == SpawnInit => SpawnInv
<1> SUFFICES ASSUME SpawnInit PROVE SpawnInv OBVIOUS
<1> DEFINE Starts(bs, f) ==
      /\ \A b, d \in bs : f[b] = f[d] => b = d
      /\ spawnedMap = [m \in Spawned |-> IF \E b \in bs : f[b] = m
                                         THEN CHOOSE b \in bs : f[b] = m
                                         ELSE NoBlock]
      /\ location = [m \in Spawned |-> IF \E b \in bs : f[b] = m
                                       THEN "zone" ELSE "nowhere"]
      /\ announced = {} /\ due = Block \ bs /\ checkSpawnEvent = FALSE
      /\ lost = Cardinality(Block \ bs)
<1>1. PICK bs \in SUBSET Block : \E f \in [bs -> Spawned] : Starts(bs, f)
  BY DEF SpawnInit
<1>2. PICK f \in [bs -> Spawned] : Starts(bs, f) BY <1>1
<1>3. /\ IsFiniteSet(bs) /\ Cardinality(bs) \in Nat
      /\ Cardinality(Block) \in Nat /\ IsFiniteSet(Block \ bs)
      /\ lost \in Nat /\ lost = Cardinality(Block) - Cardinality(bs)
  <2>1. IsFiniteSet(bs) /\ IsFiniteSet(Block \ bs)
    BY SpawnAssumption, FS_Subset
  <2>2. Cardinality(Block \ bs)
          = Cardinality(Block) - Cardinality(Block \cap bs)
    BY SpawnAssumption, FS_Difference
  <2>3. Block \cap bs = bs OBVIOUS
  <2> QED BY <1>2, <2>1, <2>2, <2>3, SpawnAssumption, FS_CardinalityType
<1>4. \A m \in Spawned :
        \/ /\ spawnedMap[m] \in bs /\ f[spawnedMap[m]] = m
           /\ location[m] = "zone"
        \/ /\ \A b \in bs : f[b] # m
           /\ spawnedMap[m] = NoBlock /\ location[m] = "nowhere"
  BY <1>2
<1>5. NoBlock \notin Block BY SpawnAssumption DEF NoBlock
<1>6. SpawnTypeOK
  <2>1. \A m \in Spawned :
          /\ spawnedMap[m] \in Block \cup {0, NoBlock}
          /\ location[m] \in {"nowhere", "zone", "out", "removed"}
          /\ location[m] = "nowhere" <=> spawnedMap[m] = NoBlock
    BY <1>4, <1>5
  <2>2. /\ spawnedMap \in [Spawned -> Block \cup {0, NoBlock}]
        /\ location \in [Spawned -> {"nowhere", "zone", "out", "removed"}]
    BY <1>2, <2>1
  <2> QED BY <1>2, <1>3, <2>1, <2>2 DEF SpawnTypeOK
<1>7. OneForEach BY <1>4, <1>5 DEF OneForEach
<1>8. NoCheckIsNeeded
  <2>1. f \in Injection(bs, Registered)
    <3>1. \A b \in bs : f[b] \in Spawned /\ spawnedMap[f[b]] \in bs
      BY <1>4
    <3>2. f \in [bs -> Registered] BY <1>5, <3>1 DEF Registered
    <3> QED BY <1>2, <3>2 DEF Injection, IsInjective
  <2>2. Cardinality(bs) <= Cardinality(Registered)
    BY <1>6, <2>1, SpawnSizes, FS_Injection
  <2>3. Cardinality(Block) <= Cardinality(Registered) + lost
    BY <1>3, <1>6, <2>2, SpawnSizes
  <2> QED BY <1>4, <2>3 DEF NoCheckIsNeeded
<1> QED BY <1>2, <1>6, <1>7, <1>8 DEF SpawnInv, AnnouncedAreFree

(* checkSpawn fills what is empty, and only that.                          *)
LEMMA CheckKeeps ==
  ASSUME SpawnInv, checkSpawn
  PROVE  SpawnInv'
<1> USE DEF SpawnInv
<1> DEFINE freed == {m \in Spawned : location[m] = "removed"}
           late == {spawnedMap[m] : m \in freed}
           empty == {b \in Block : \A m \in Spawned : Cleaned[m] # b}
<1>1. PICK near \in SUBSET Block :
        LET turn == Turn(empty \ late, near)
            now == turn \cap Blockable
        IN  \E f \in Places(now) :
              LET placed(m) == \E b \in now : f[b] = m
              IN  /\ spawnedMap' = [m \in Spawned |->
                        IF placed(m) THEN CHOOSE b \in now : f[b] = m
                        ELSE Cleaned[m]]
                  /\ location' = [m \in Spawned |->
                        IF placed(m) THEN "zone"
                        ELSE IF m \in freed THEN "nowhere" ELSE location[m]]
                  /\ announced' = turn \ now
                  /\ due' = due \ (late \cup now
                                   \cup PutOff(empty \ late, near))
  BY DEF checkSpawn
<1> DEFINE turn == Turn(empty \ late, near)
           now == turn \cap Blockable
<1>2. PICK f \in Places(now) :
        /\ spawnedMap' = [m \in Spawned |->
              IF \E b \in now : f[b] = m THEN CHOOSE b \in now : f[b] = m
              ELSE Cleaned[m]]
        /\ location' = [m \in Spawned |->
              IF \E b \in now : f[b] = m THEN "zone"
              ELSE IF m \in freed THEN "nowhere" ELSE location[m]]
        /\ announced' = turn \ now
        /\ due' = due \ (late \cup now \cup PutOff(empty \ late, near))
  BY <1>1
<1>3. /\ checkSpawnEvent' = (Cardinality(Registered') < Cardinality(Block))
      /\ lost' = 0
  BY DEF checkSpawn
<1>4. turn \subseteq empty BY DEF Turn
<1>5. \A b \in now : f[b] \in Fresh BY DEF Places
<1> HIDE DEF turn
<1>6. \A m \in Spawned :
        \/ /\ spawnedMap'[m] \in now /\ f[spawnedMap'[m]] = m
           /\ location'[m] = "zone"
        \/ /\ spawnedMap'[m] = Cleaned[m]
           /\ location'[m] = IF location[m] = "removed" THEN "nowhere"
                             ELSE location[m]
  BY <1>2
<1>7. \A m \in Spawned :
        Cleaned[m] = IF location[m] = "removed" THEN NoBlock
                     ELSE IF location[m] = "out" THEN 0 ELSE spawnedMap[m]
  BY DEF Cleaned
<1>8. /\ 0 \notin Block /\ NoBlock \notin Block /\ NoBlock # 0
      /\ now \subseteq Block
  <2>1. now \subseteq Block BY <1>4
  <2> HIDE DEF now
  <2> QED BY <2>1, SpawnAssumption DEF NoBlock
<1> HIDE DEF now
<1>9. SpawnTypeOK'
  <2>1. \A m \in Spawned :
          /\ spawnedMap'[m] \in Block \cup {0, NoBlock}
          /\ location'[m] \in {"nowhere", "zone", "out", "removed"}
          /\ location'[m] = "nowhere" <=> spawnedMap'[m] = NoBlock
    BY <1>6, <1>7, <1>8 DEF SpawnTypeOK
  <2>2. /\ spawnedMap' \in [Spawned -> Block \cup {0, NoBlock}]
        /\ location' \in [Spawned -> {"nowhere", "zone", "out", "removed"}]
    BY <1>2, <2>1
  <2>3. announced' \cup due' \subseteq Block
    BY <1>2, <1>4 DEF SpawnTypeOK
  <2>4. checkSpawnEvent' \in BOOLEAN /\ lost' \in Nat BY <1>3
  <2> QED BY <2>1, <2>2, <2>3, <2>4 DEF SpawnTypeOK
<1>10. \A b \in empty : \A m \in Spawned : Cleaned[m] # b OBVIOUS
<1>11. now \subseteq empty BY <1>4 DEF now
<1> HIDE DEF empty
<1>12. OneForEach'
  <2> SUFFICES ASSUME NEW m \in Spawned, NEW n \in Spawned,
                      spawnedMap'[m] = spawnedMap'[n],
                      spawnedMap'[m] \in Block
               PROVE  m = n
    BY DEF OneForEach
  <2>1. CASE spawnedMap'[m] = Cleaned[m] /\ spawnedMap'[n] = Cleaned[n]
    BY <1>7, <1>8, <2>1 DEF OneForEach
  <2>2. CASE ~(spawnedMap'[m] = Cleaned[m] /\ spawnedMap'[n] = Cleaned[n])
    BY <1>6, <1>10, <1>11, <2>2
  <2> QED BY <2>1, <2>2
<1>13. AnnouncedAreFree'
  BY <1>2, <1>4, <1>6, <1>10 DEF AnnouncedAreFree
<1>14. ~checkSpawnEvent' => NoCheckIsNeeded'
  <2>1. \A m \in Spawned : location'[m] # "removed" BY <1>6
  <2>2. ~checkSpawnEvent' =>
          Cardinality(Block) <= Cardinality(Registered') + lost'
    <3>1. Cardinality(Registered') \in Nat /\ Cardinality(Block) \in Nat
      <4>1. Registered' \subseteq Spawned BY DEF Registered
      <4> QED BY <4>1, SpawnAssumption, FS_Subset, FS_CardinalityType
    <3> SUFFICES ASSUME ~checkSpawnEvent'
                 PROVE  Cardinality(Block) <= Cardinality(Registered') + lost'
      OBVIOUS
    <3>2. ~(Cardinality(Registered') < Cardinality(Block)) BY <1>3
    <3>3. lost' = 0 BY <1>3
    <3> QED BY <3>1, <3>2, <3>3
  <2> QED BY <2>1, <2>2 DEF NoCheckIsNeeded
<1> QED BY <1>9, <1>12, <1>13, <1>14

(* A monster that is taken away leaves a place that lost counts.           *)
LEMMA ConvinceKeeps ==
  ASSUME SpawnInv, NEW m \in Spawned, BeConvinced(m)
  PROVE  SpawnInv'
<1> USE DEF SpawnInv
<1>1. /\ location[m] \in {"zone", "out"}
      /\ location' = [location EXCEPT ![m] = "nowhere"]
      /\ spawnedMap' = [spawnedMap EXCEPT ![m] = NoBlock]
      /\ lost' = lost + 1
      /\ announced' = announced /\ due' = due
      /\ checkSpawnEvent' = checkSpawnEvent
  BY DEF BeConvinced
<1>2. /\ spawnedMap'[m] = NoBlock
      /\ \A n \in Spawned \ {m} : /\ spawnedMap'[n] = spawnedMap[n]
                                  /\ location'[n] = location[n]
      /\ location'[m] = "nowhere" /\ spawnedMap[m] # NoBlock
  BY <1>1 DEF SpawnTypeOK
<1>3. NoBlock \notin Block BY SpawnAssumption DEF NoBlock
<1>4. SpawnTypeOK' BY <1>1, <1>2 DEF SpawnTypeOK
<1>5. OneForEach' BY <1>2, <1>3 DEF OneForEach
<1>6. AnnouncedAreFree'
  BY <1>1, <1>2, <1>3 DEF AnnouncedAreFree, SpawnTypeOK
<1>7. ~checkSpawnEvent' => NoCheckIsNeeded'
  <2> SUFFICES ASSUME ~checkSpawnEvent PROVE NoCheckIsNeeded' BY <1>1
  <2>1. Registered' = Registered \ {m} /\ m \in Registered
    BY <1>2 DEF Registered
  <2>2. Cardinality(Registered') = Cardinality(Registered) - 1
    BY <2>1, SpawnSizes, FS_RemoveElement
  <2>3. Cardinality(Block) <= Cardinality(Registered) + lost
    BY DEF NoCheckIsNeeded
  <2>4. Cardinality(Block) <= Cardinality(Registered') + lost'
    BY <1>1, <2>2, <2>3, SpawnSizes DEF SpawnTypeOK
  <2>5. \A n \in Spawned : location'[n] # "removed"
    BY <1>2 DEF NoCheckIsNeeded
  <2> QED BY <2>4, <2>5 DEF NoCheckIsNeeded
<1> QED BY <1>4, <1>5, <1>6, <1>7

(* What was announced comes to a block that is empty still.                *)
LEMMA AppearKeeps ==
  ASSUME SpawnInv, NEW b \in Block, Appear(b)
  PROVE  SpawnInv'
<1> USE DEF SpawnInv
<1>1. PICK m \in Fresh : /\ spawnedMap' = [spawnedMap EXCEPT ![m] = b]
                         /\ location' = [location EXCEPT ![m] = "zone"]
  BY DEF Appear
<1>2. /\ b \in announced
      /\ announced' = announced \ {b} /\ due' = due \ {b}
      /\ checkSpawnEvent' = checkSpawnEvent /\ lost' = lost
  BY DEF Appear
<1>3. m \in Spawned /\ spawnedMap[m] = NoBlock
  BY DEF Fresh, SpawnTypeOK
<1>4. /\ spawnedMap'[m] = b /\ location'[m] = "zone"
      /\ \A n \in Spawned \ {m} : /\ spawnedMap'[n] = spawnedMap[n]
                                  /\ location'[n] = location[n]
  BY <1>1, <1>3 DEF SpawnTypeOK
<1>5. NoBlock \notin Block BY SpawnAssumption DEF NoBlock
<1>6. SpawnTypeOK' BY <1>1, <1>2, <1>3, <1>4, <1>5 DEF SpawnTypeOK
<1>7. \A n \in Spawned : spawnedMap[n] # b
  BY <1>2 DEF AnnouncedAreFree
<1>8. OneForEach' BY <1>4, <1>7 DEF OneForEach
<1>9. AnnouncedAreFree' BY <1>2, <1>4 DEF AnnouncedAreFree
<1>10. ~checkSpawnEvent' => NoCheckIsNeeded'
  <2> SUFFICES ASSUME ~checkSpawnEvent PROVE NoCheckIsNeeded' BY <1>2
  <2>1. Registered' = Registered \cup {m} /\ m \notin Registered
    BY <1>3, <1>4, <1>5 DEF Registered
  <2>2. Cardinality(Registered') = Cardinality(Registered) + 1
    BY <2>1, SpawnSizes, FS_AddElement
  <2>3. Cardinality(Block) <= Cardinality(Registered) + lost
    BY DEF NoCheckIsNeeded
  <2>4. Cardinality(Block) <= Cardinality(Registered') + lost'
    BY <1>2, <2>2, <2>3, SpawnSizes DEF SpawnTypeOK
  <2>5. \A n \in Spawned : location'[n] # "removed"
    BY <1>4 DEF NoCheckIsNeeded
  <2> QED BY <2>4, <2>5 DEF NoCheckIsNeeded
<1> QED BY <1>6, <1>8, <1>9, <1>10

LEMMA SpawnKeeps == SpawnInv /\ [SpawnNext]_spawnVars => SpawnInv'
<1> SUFFICES ASSUME SpawnInv, [SpawnNext]_spawnVars PROVE SpawnInv'
  OBVIOUS
<1>1. CASE checkSpawn BY <1>1, CheckKeeps
<1>2. ASSUME NEW b \in Block, Appear(b) PROVE SpawnInv'
  BY <1>2, AppearKeeps
<1>3. ASSUME NEW m \in Spawned, BeConvinced(m) PROVE SpawnInv'
  BY <1>3, ConvinceKeeps
<1>4. ASSUME NEW m \in Spawned, Wander(m) PROVE SpawnInv'
  <2>1. SpawnTypeOK' BY <1>4 DEF SpawnInv, SpawnTypeOK, Wander
  <2>2. /\ OneForEach' /\ AnnouncedAreFree'
        /\ ~checkSpawnEvent' => NoCheckIsNeeded'
    BY <1>4 DEF SpawnInv, SpawnTypeOK, OneForEach, AnnouncedAreFree,
       NoCheckIsNeeded, Registered, Wander
  <2> QED BY <2>1, <2>2 DEF SpawnInv
<1>5. ASSUME NEW m \in Spawned, Die(m) PROVE SpawnInv'
  <2>1. SpawnTypeOK' BY <1>5 DEF SpawnInv, SpawnTypeOK, Die
  <2>2. OneForEach' /\ AnnouncedAreFree' /\ checkSpawnEvent'
    BY <1>5 DEF SpawnInv, OneForEach, AnnouncedAreFree, Die
  <2> QED BY <2>1, <2>2 DEF SpawnInv
<1>6. ASSUME NEW b \in Block, Elapse(b) PROVE SpawnInv'
  BY <1>6 DEF SpawnInv, SpawnTypeOK, OneForEach, AnnouncedAreFree,
     NoCheckIsNeeded, Registered, Elapse
<1>7. CASE UNCHANGED spawnVars
  BY <1>7 DEF SpawnInv, SpawnTypeOK, OneForEach, AnnouncedAreFree,
     NoCheckIsNeeded, Registered, spawnVars
<1> QED BY <1>1, <1>2, <1>3, <1>4, <1>5, <1>6, <1>7 DEF SpawnNext

(* The monsters of the zone's blocks are as many as the blocks that have   *)
(* one, so that those left over by NoCheckIsNeeded are strays.             *)
LEMMA EmptyAreAnswered ==
  ASSUME SpawnInv, NoCheckIsNeeded
  PROVE  Cardinality({b \in Block : Empty(b)}) <= Cardinality(Strays) + lost
<1> USE DEF SpawnInv
<1> DEFINE Zone == {m \in Spawned : spawnedMap[m] \in Block}
           Full == {b \in Block : ~Empty(b)}
<1>1. \A m \in Spawned : location[m] # "removed" BY DEF NoCheckIsNeeded
<1>2. \A b \in Block : ~Empty(b) <=> \E m \in Spawned : spawnedMap[m] = b
  BY <1>1 DEF Empty, Of
<1>3. Strays = {m \in Spawned : spawnedMap[m] = 0}
  BY <1>1 DEF Strays, Of
<1>4. /\ IsFiniteSet(Zone) /\ IsFiniteSet(Full) /\ IsFiniteSet(Strays)
      /\ Cardinality(Zone) \in Nat /\ Cardinality(Full) \in Nat
      /\ Cardinality(Strays) \in Nat /\ Cardinality(Block) \in Nat
      /\ Cardinality(Registered) \in Nat
  <2>1. /\ Zone \subseteq Spawned /\ Full \subseteq Block
        /\ Strays \subseteq Spawned
    BY <1>3
  <2> QED BY <2>1, SpawnSizes, SpawnAssumption, FS_Subset, FS_CardinalityType
<1>5. Cardinality(Zone) <= Cardinality(Full)
  <2> DEFINE g == [m \in Zone |-> spawnedMap[m]]
  <2>1. g \in [Zone -> Full] BY <1>2
  <2>2. \A m, n \in Zone : g[m] = g[n] => m = n BY DEF OneForEach
  <2>3. g \in Injection(Zone, Full)
    BY <2>1, <2>2 DEF Injection, IsInjective
  <2> QED BY <1>4, <2>3, FS_Injection
<1>6. Cardinality(Registered) <= Cardinality(Zone) + Cardinality(Strays)
  <2>1. 0 \notin Block /\ NoBlock \notin Block /\ NoBlock # 0
    BY SpawnAssumption DEF NoBlock
  <2>2. Registered = Zone \cup Strays /\ Zone \cap Strays = {}
    BY <1>3, <2>1 DEF Registered, SpawnTypeOK
  <2>3. Cardinality(Zone \cup Strays)
          = Cardinality(Zone) + Cardinality(Strays)
              - Cardinality(Zone \cap Strays)
    BY <1>4, FS_Union
  <2>4. Cardinality(Zone \cap Strays) = 0 BY <2>2, FS_EmptySet
  <2> QED BY <1>4, <2>2, <2>3, <2>4
<1>7. Cardinality({b \in Block : Empty(b)})
        = Cardinality(Block) - Cardinality(Full)
  <2>1. {b \in Block : Empty(b)} = Block \ Full /\ Block \cap Full = Full
    OBVIOUS
  <2>2. Cardinality(Block \ Full)
          = Cardinality(Block) - Cardinality(Block \cap Full)
    BY SpawnAssumption, FS_Difference
  <2> QED BY <2>1, <2>2
<1>8. Cardinality(Block) <= Cardinality(Registered) + lost /\ lost \in Nat
  BY DEF NoCheckIsNeeded, SpawnTypeOK
<1>9. Cardinality({b \in Block : Empty(b)}) <= Cardinality(Strays) + lost
  <2> HIDE DEF Zone, Full
  <2> QED BY <1>4, <1>5, <1>6, <1>7, <1>8
<1> QED BY <1>9

LEMMA SpawnInvSound == SpawnInv => SpawnsAreKept
<1> SUFFICES ASSUME SpawnInv PROVE SpawnsAreKept OBVIOUS
<1>1. SpawnTypeOK BY DEF SpawnInv
<1>2. ASSUME NEW b \in Block PROVE Cardinality(Of(b)) <= 1
  <2>1. CASE Of(b) = {} BY <2>1, FS_EmptySet
  <2>2. CASE Of(b) # {}
    <3>1. PICK m \in Of(b) : TRUE BY <2>2
    <3>2. Of(b) = {m} BY <1>2, <3>1 DEF SpawnInv, OneForEach, Of
    <3> QED BY <3>2, FS_Singleton
  <2> QED BY <2>1, <2>2
<1>3. ~checkSpawnEvent =>
        Cardinality({b \in Block : Empty(b)}) <= Cardinality(Strays) + lost
  BY EmptyAreAnswered DEF SpawnInv
<1> QED BY <1>1, <1>2, <1>3 DEF SpawnsAreKept

(* No block is filled twice, and the chain of checks only ends when every  *)
(* block without a monster is accounted for, whatever the blocks, the      *)
(* players near them and RATE_SPAWN (checkSpawn, startSpawnCheck).         *)
THEOREM SpawnsAreKeptHolds == SpawnSafeSpec => []SpawnsAreKept
<1> QED BY SpawnBegins, SpawnKeeps, SpawnInvSound, PTL DEF SpawnSafeSpec

-----------------------------------------------------------------------------
(* The tiles around a monster *)

LEMMA CellsAround ==
  ASSUME NEW p \in Cell, NEW d \in Offset
  PROVE  /\ p[1] \in Int /\ p[2] \in Int /\ p = <<p[1], p[2]>>
         /\ d[1] \in Int /\ d[2] \in Int /\ d = <<d[1], d[2]>>
         /\ At(p, d) = <<p[1] + d[1], p[2] + d[2]>>
         /\ At(p, d) = p <=> d = <<0, 0>>
<1>1. /\ p[1] \in Int /\ p[2] \in Int /\ p = <<p[1], p[2]>>
  BY WalkCacheAssumption DEF Cell
<1>2. /\ d[1] \in Int /\ d[2] \in Int /\ d = <<d[1], d[2]>>
  BY WalkCacheAssumption DEF Offset
<1>3. At(p, d) = p <=> d[1] = 0 /\ d[2] = 0
  BY <1>1, <1>2 DEF At
<1> QED BY <1>1, <1>2, <1>3 DEF At

(* A whole new cache agrees, and one that agrees goes on doing so when the *)
(* cells are updated at which anything changed.                            *)
LEMMA RefreshAgrees ==
  ASSUME localMapCache' = updateMapCache(pos', other', solid')
  PROVE  localMapCache' \in [Offset -> BOOLEAN] /\ CacheAgrees'
  BY DEF updateMapCache, queryAdd, CacheAgrees

LEMMA UpdateAgrees ==
  ASSUME WalkableTypeOK, pos' = pos, NEW cells,
         localMapCache' = updateTileCache(localMapCache, cells, pos, other',
                                          solid'),
         \A c : c \notin cells =>
           (queryAdd(c, pos, other, solid)
              <=> queryAdd(c, pos, other', solid'))
  PROVE  /\ localMapCache' \in [Offset -> BOOLEAN]
         /\ CacheAgrees => CacheAgrees'
<1>1. \A d \in Offset :
        localMapCache'[d] = IF At(pos, d) \in cells
                            THEN queryAdd(At(pos, d), pos, other', solid')
                            ELSE localMapCache[d]
  BY DEF updateTileCache
<1>2. localMapCache' \in [Offset -> BOOLEAN]
  BY DEF WalkableTypeOK, updateTileCache, queryAdd
<1>3. ASSUME CacheAgrees, NEW d \in Offset \ {<<0, 0>>}
      PROVE  localMapCache'[d] = queryAdd(At(pos', d), pos', other', solid')
  <2>1. localMapCache[d] = queryAdd(At(pos, d), pos, other, solid)
    BY <1>3 DEF CacheAgrees
  <2>2. queryAdd(At(pos, d), pos, other', solid') \in BOOLEAN
        /\ queryAdd(At(pos, d), pos, other, solid) \in BOOLEAN
    BY DEF queryAdd
  <2> QED BY <1>1, <2>1, <2>2
<1> QED BY <1>2, <1>3 DEF CacheAgrees

(* Shifting rows and columns puts what was known at the new offsets, and   *)
(* what comes into the cache is asked for, but for steps to the south that *)
(* are diagonal.                                                           *)
LEMMA ShiftAgrees ==
  ASSUME WalkableTypeOK, CacheAgrees, NEW step \in Step,
         NEW fresh \in [Offset -> BOOLEAN], NEW d \in Offset \ {<<0, 0>>},
         ~(step[1] # 0 /\ step[2] = 1),
         At(At(pos, step), d) # pos
  PROVE  LET shifted == ShiftColumns(ShiftRows(localMapCache, step, fresh),
                                     step, fresh)
         IN  \/ shifted[d] = fresh[d]
             \/ shifted[d] = queryAdd(At(At(pos, step), d), pos, other, solid)
<1> DEFINE byRow == ShiftRows(localMapCache, step, fresh)
           shifted == ShiftColumns(byRow, step, fresh)
           e == <<d[1] + step[1], d[2]>>
           g == <<d[1], d[2] + step[2]>>
           both == <<d[1] + step[1], d[2] + step[2]>>
           known == queryAdd(At(At(pos, step), d), pos, other, solid)
<1> SUFFICES shifted[d] = fresh[d] \/ shifted[d] = known OBVIOUS
<1>1. /\ d[1] \in -CacheRange .. CacheRange
      /\ d[2] \in -CacheRange .. CacheRange
      /\ step[1] \in -1 .. 1 /\ step[2] \in -1 .. 1
      /\ step[1] # 0 \/ step[2] # 0
      /\ step = <<step[1], step[2]>>
  BY DEF Offset, Step
<1>2. pos[1] \in Int /\ pos[2] \in Int /\ pos = <<pos[1], pos[2]>>
  BY WalkCacheAssumption DEF WalkableTypeOK, Cell
<1>3. At(At(pos, step), d) = <<pos[1] + step[1] + d[1],
                               pos[2] + step[2] + d[2]>>
  BY DEF At
<1>4. CacheRange \in Nat BY WalkCacheAssumption
<1>5. ASSUME both \in Offset
      PROVE  localMapCache[both] = known
  <2>1. At(pos, both) = At(At(pos, step), d)
    BY <1>1, <1>2, <1>3 DEF At
  <2>2. both # <<0, 0>>
    BY <1>1, <1>2, <2>1 DEF At
  <2> QED BY <1>5, <2>1, <2>2 DEF CacheAgrees
<1>6. shifted[d] = IF step[1] = 0 THEN byRow[d]
                   ELSE IF d[1] = step[1] * CacheRange THEN fresh[d]
                   ELSE IF step[2] # 0 /\ d[2] = -CacheRange THEN byRow[d]
                   ELSE byRow[e]
  BY DEF ShiftColumns
<1>7. byRow[d] = IF step[2] = 0 THEN localMapCache[d]
                ELSE IF d[2] = step[2] * CacheRange THEN fresh[d]
                ELSE localMapCache[g]
  BY DEF ShiftRows
<1>8. ASSUME e \in Offset
      PROVE  byRow[e] = IF step[2] = 0 THEN localMapCache[e]
                       ELSE IF d[2] = step[2] * CacheRange THEN fresh[e]
                       ELSE localMapCache[both]
  BY <1>8 DEF ShiftRows
<1> HIDE DEF byRow, shifted, known
<1>9. CASE step[1] = 0
  <2>1. shifted[d] = byRow[d] /\ step[2] # 0 BY <1>1, <1>6, <1>9
  <2>2. g = both BY <1>1, <1>9
  <2>3. CASE d[2] = step[2] * CacheRange BY <1>7, <2>1, <2>3
  <2>4. CASE d[2] # step[2] * CacheRange
    <3>1. both \in Offset BY <1>1, <1>4, <1>9, <2>1, <2>4 DEF Offset
    <3> QED BY <1>5, <1>7, <2>1, <2>2, <2>4, <3>1
  <2> QED BY <2>3, <2>4
<1>10. CASE step[1] # 0
  <2>1. step[2] \in {0, -1} BY <1>1, <1>10
  <2>2. CASE d[1] = step[1] * CacheRange BY <1>6, <1>10, <2>2
  <2>3. CASE d[1] # step[1] * CacheRange /\ step[2] # 0 /\ d[2] = -CacheRange
    <3>1. step[2] * CacheRange = d[2] BY <1>4, <2>1, <2>3
    <3> QED BY <1>6, <1>7, <1>10, <2>3, <3>1
  <2>4. CASE /\ d[1] # step[1] * CacheRange
             /\ ~(step[2] # 0 /\ d[2] = -CacheRange)
    <3>1. e \in Offset BY <1>1, <1>4, <1>10, <2>4 DEF Offset
    <3>2. shifted[d] = byRow[e] BY <1>6, <1>10, <2>4
    <3>3. CASE step[2] = 0
      <4>1. e = both BY <1>1, <3>3
      <4> QED BY <1>5, <1>8, <3>1, <3>2, <3>3, <4>1
    <3>4. CASE step[2] # 0
      <4>1. step[2] = -1 /\ d[2] # -CacheRange BY <2>1, <2>4, <3>4
      <4>2. d[2] # step[2] * CacheRange BY <1>4, <4>1
      <4>3. both \in Offset BY <1>1, <1>4, <3>1, <4>1 DEF Offset
      <4> QED BY <1>5, <1>8, <3>1, <3>2, <3>4, <4>2, <4>3
    <3> QED BY <3>3, <3>4
  <2> QED BY <2>2, <2>3, <2>4
<1> QED BY <1>9, <1>10

LEMMA MonsterStepsKeeps ==
  ASSUME WalkableIsKnown, NEW step \in Step, MonsterSteps(step)
  PROVE  WalkableIsKnown'
<1> USE DEF WalkableIsKnown
<1> DEFINE to == At(pos, step)
           fresh == updateMapCache(to, other, solid)
           shifted == ShiftColumns(ShiftRows(localMapCache, step, fresh),
                                   step, fresh)
<1>1. /\ queryAdd(to, pos, other, solid)
      /\ pos' = to /\ other' = other /\ solid' = solid
      /\ localMapCache' = updateTileCache(shifted, {pos}, to, other, solid)
      /\ skewed' = (skewed \/ (step[1] # 0 /\ step[2] = 1))
  BY DEF MonsterSteps
<1>2. to \in Cell /\ to # pos BY <1>1 DEF queryAdd
<1>3. fresh \in [Offset -> BOOLEAN]
      /\ \A d \in Offset : fresh[d] = queryAdd(At(to, d), to, other, solid)
  BY DEF updateMapCache, queryAdd
<1> HIDE DEF fresh
<1>4. shifted \in [Offset -> BOOLEAN]
  <2>1. \A d \in Offset : ShiftRows(localMapCache, step, fresh)[d] \in BOOLEAN
    <3> SUFFICES ASSUME NEW d \in Offset
                 PROVE  ShiftRows(localMapCache, step, fresh)[d] \in BOOLEAN
      OBVIOUS
    <3>1. step[2] # 0 /\ d[2] # step[2] * CacheRange
            => <<d[1], d[2] + step[2]>> \in Offset
      BY WalkCacheAssumption DEF Offset, Step
    <3> QED BY <1>3, <3>1 DEF ShiftRows, WalkableTypeOK
  <2>2. \A d \in Offset :
          step[1] # 0 /\ d[1] # step[1] * CacheRange
            => <<d[1] + step[1], d[2]>> \in Offset
    BY WalkCacheAssumption DEF Offset, Step
  <2> QED BY <1>3, <2>1, <2>2 DEF ShiftColumns
<1>5. ASSUME ~skewed', NEW d \in Offset \ {<<0, 0>>}
      PROVE  localMapCache'[d] = queryAdd(At(to, d), to, other, solid)
  <2>1. CacheAgrees /\ ~(step[1] # 0 /\ step[2] = 1) BY <1>1, <1>5
  <2>2. localMapCache'[d] = IF At(to, d) = pos
                            THEN queryAdd(At(to, d), to, other, solid)
                            ELSE shifted[d]
    BY <1>1 DEF updateTileCache
  <2>3. At(to, d) # to BY <1>2, CellsAround
  <2>4. At(to, d) # pos =>
          queryAdd(At(to, d), pos, other, solid)
            = queryAdd(At(to, d), to, other, solid)
    BY <2>3 DEF queryAdd
  <2>5. CASE At(to, d) = pos BY <2>2, <2>5
  <2>6. CASE At(to, d) # pos
    <3>1. \/ shifted[d] = fresh[d]
          \/ shifted[d] = queryAdd(At(to, d), pos, other, solid)
      BY <1>3, <2>1, <2>6, ShiftAgrees
    <3> QED BY <1>3, <2>2, <2>4, <2>6, <3>1
  <2> QED BY <2>5, <2>6
<1>6. localMapCache' \in [Offset -> BOOLEAN]
  <2> HIDE DEF shifted
  <2> QED BY <1>1, <1>4 DEF updateTileCache, queryAdd
<1>7. WalkableTypeOK' BY <1>1, <1>2, <1>6 DEF WalkableTypeOK
<1>8. skewed' \/ CacheAgrees' BY <1>1, <1>5 DEF CacheAgrees
<1> QED BY <1>7, <1>8

LEMMA WalkableKeeps ==
  WalkableIsKnown /\ [WalkableNext]_cacheVars => WalkableIsKnown'
<1> SUFFICES ASSUME WalkableIsKnown, [WalkableNext]_cacheVars
             PROVE  WalkableIsKnown'
  OBVIOUS
<1>1. ASSUME NEW step \in Step, MonsterSteps(step) PROVE WalkableIsKnown'
  BY <1>1, MonsterStepsKeeps
<1>2. ASSUME NEW c \in Cell, MonsterTeleports(c) PROVE WalkableIsKnown'
  <2>1. /\ pos' = c /\ other' = other /\ solid' = solid /\ ~skewed'
        /\ localMapCache' = updateMapCache(pos', other', solid')
        /\ skewed' \in BOOLEAN
    BY <1>2 DEF MonsterTeleports
  <2> QED BY <2>1, RefreshAgrees DEF WalkableIsKnown, WalkableTypeOK
<1>3. CASE Refresh
  <2>1. /\ pos' = pos /\ other' = other /\ solid' = solid /\ ~skewed'
        /\ localMapCache' = updateMapCache(pos', other', solid')
        /\ skewed' \in BOOLEAN
    BY <1>3 DEF Refresh
  <2> QED BY <2>1, RefreshAgrees DEF WalkableIsKnown, WalkableTypeOK
<1>4. ASSUME NEW c \in Cell \cup {Nowhere}, OtherMoves(c)
      PROVE  WalkableIsKnown'
  <2>1. /\ pos' = pos /\ other' = c /\ solid' = solid /\ skewed' = skewed
        /\ localMapCache' = updateTileCache(localMapCache,
                              {other, c} \ {Nowhere}, pos, other', solid')
    BY <1>4 DEF OtherMoves
  <2>2. \A d : d \notin {other, c} \ {Nowhere} =>
          (queryAdd(d, pos, other, solid) <=> queryAdd(d, pos, other', solid'))
    BY <2>1, WalkCacheAssumption DEF queryAdd
  <2>3. /\ localMapCache' \in [Offset -> BOOLEAN]
        /\ CacheAgrees => CacheAgrees'
    BY <2>1, <2>2, UpdateAgrees DEF WalkableIsKnown
  <2> QED BY <2>1, <2>3 DEF WalkableIsKnown, WalkableTypeOK
<1>5. ASSUME NEW c \in Cell, ItemChanges(c) PROVE WalkableIsKnown'
  <2>1. /\ pos' = pos /\ other' = other /\ skewed' = skewed
        /\ solid' = IF c \in solid THEN solid \ {c} ELSE solid \cup {c}
        /\ localMapCache' = updateTileCache(localMapCache, {c}, pos, other',
                                            solid')
    BY <1>5 DEF ItemChanges
  <2>2. \A d : d \notin {c} =>
          (queryAdd(d, pos, other, solid) <=> queryAdd(d, pos, other', solid'))
    BY <2>1 DEF queryAdd
  <2>3. /\ localMapCache' \in [Offset -> BOOLEAN]
        /\ CacheAgrees => CacheAgrees'
    BY <2>1, <2>2, UpdateAgrees DEF WalkableIsKnown
  <2> QED BY <2>1, <2>3 DEF WalkableIsKnown, WalkableTypeOK
<1>6. CASE UNCHANGED cacheVars
  BY <1>6 DEF cacheVars, WalkableIsKnown, WalkableTypeOK, CacheAgrees
<1> QED BY <1>1, <1>2, <1>3, <1>4, <1>5, <1>6 DEF WalkableNext

LEMMA WalkableBegins == WalkableInit => WalkableIsKnown
<1> SUFFICES ASSUME WalkableInit PROVE WalkableIsKnown OBVIOUS
<1>1. <<1, 1>> \in Cell BY WalkCacheAssumption DEF Cell
<1>2. localMapCache = updateMapCache(pos, other, solid) BY DEF WalkableInit
<1>3. localMapCache \in [Offset -> BOOLEAN] /\ CacheAgrees
  BY <1>2 DEF updateMapCache, queryAdd, CacheAgrees
<1> QED BY <1>1, <1>3 DEF WalkableInit, WalkableIsKnown, WalkableTypeOK

(* Until a diagonal step to the south, a monster knows of every tile that  *)
(* its cache covers whether it can walk there, on every map and for every  *)
(* range of the cache (onCreatureMove, updateTileCache).                   *)
THEOREM WalkableIsKnownHolds == WalkableSpec => []WalkableIsKnown
<1> QED BY WalkableBegins, WalkableKeeps, PTL DEF WalkableSpec

-----------------------------------------------------------------------------
(* The market *)

(* No offer has an id ahead of the last one given out, no two rows are of  *)
(* one offer, and what is in memory of who is not in the game is what was  *)
(* saved.                                                                  *)
MarketIInv ==
  /\ MarketTypeOK
  /\ \A id \in OfferId : id > made => offers[id] = NoOffer
  /\ \A t \in Trader \ online : mem[t] = saved[t]
  /\ IsFiniteSet(rows) /\ rows \subseteq [id : OfferId, offer : Offer]
  /\ \A row1, row2 \in rows : row1.id = row2.id => row1 = row2

ItemsIn(m) == [t \in Trader |-> m[t].items]
MoneyIn(m) == [t \in Trader |-> m[t].money]
ItemsHeld(o) == [id \in OfferId |-> Refund(o[id]).items]
MoneyHeld(o) == [id \in OfferId |-> Refund(o[id]).money]

Slots == [OfferId -> Offer \cup {NoOffer}]

ItemsOf(m) == SumFunctionOnSet(ItemsIn(m), Trader)
MoneyOf(m) == SumFunctionOnSet(MoneyIn(m), Trader)
ItemsDue(o) == SumFunctionOnSet(ItemsHeld(o), OfferId)
MoneyDue(o) == SumFunctionOnSet(MoneyHeld(o), OfferId)

LEMMA MarketConstants ==
  /\ IsFiniteSet(Trader) /\ IsFiniteSet(OfferId)
  /\ OfferId \subseteq Nat \ {0} /\ Price \subseteq Nat
  /\ Fee \in Nat /\ Items \in Nat /\ Money \in Nat
  /\ Nobody \notin Trader
<1>1. Cardinality(OfferId) \in Nat BY MarketAssumption, FS_CardinalityType
<1>2. OfferId \subseteq Nat \ {0}
  <2>1. \A n \in Nat : 1 .. n \subseteq Nat \ {0} OBVIOUS
  <2>2. OfferId = 1 .. Cardinality(OfferId) BY MarketAssumption
  <2> QED BY <1>1, <2>1, <2>2, Zenon
<1> QED BY <1>2, MarketAssumption, Zenon

LEMMA Refunds ==
  /\ \A offer \in Offer \cup {NoOffer} : Refund(offer) \in Assets
  /\ Refund(NoOffer) = [items |-> 0, money |-> 0]
<1>1. ASSUME NEW offer \in Offer
      PROVE  Refund(offer) \in Assets
  <2>1. offer.amount \in 1 .. Items /\ offer.price \in Price BY DEF Offer
  <2>2. offer.amount \in Nat /\ offer.price \in Nat
    <3>1. 1 .. Items \subseteq Nat BY MarketConstants
    <3>2. Price \subseteq Nat BY MarketConstants
    <3> QED BY <2>1, <3>1, <3>2, Zenon
  <2>3. offer.price * offer.amount \in Nat BY <2>2
  <2> QED BY <2>2, <2>3 DEF Refund, Assets
<1>2. Refund(NoOffer) = [items |-> 0, money |-> 0] BY DEF Refund, NoOffer
<1> QED BY <1>1, <1>2 DEF Assets

LEMMA Totals ==
  /\ TotalItems = ItemsOf(mem)
                    + ItemsDue(offers)
  /\ TotalMoney = MoneyOf(mem)
                    + MoneyDue(offers)
<1>1. \A m : DOMAIN ItemsIn(m) = Trader /\ DOMAIN MoneyIn(m) = Trader
  BY DEF ItemsIn, MoneyIn
<1>2. \A o : DOMAIN ItemsHeld(o) = OfferId /\ DOMAIN MoneyHeld(o) = OfferId
  BY DEF ItemsHeld, MoneyHeld
<1>3. TotalItems = SumFunction(ItemsIn(mem)) + SumFunction(ItemsHeld(offers))
  BY DEF TotalItems, ItemsIn, ItemsHeld
<1>4. TotalMoney = SumFunction(MoneyIn(mem)) + SumFunction(MoneyHeld(offers))
  BY DEF TotalMoney, MoneyIn, MoneyHeld
<1> QED BY <1>1, <1>2, <1>3, <1>4
  DEF SumFunction, ItemsOf, MoneyOf, ItemsDue, MoneyDue

LEMMA TotalsPrimed ==
  /\ TotalItems' = ItemsOf(mem')
                     + ItemsDue(offers')
  /\ TotalMoney' = MoneyOf(mem')
                     + MoneyDue(offers')
<1>1. \A m : DOMAIN ItemsIn(m) = Trader /\ DOMAIN MoneyIn(m) = Trader
  BY DEF ItemsIn, MoneyIn
<1>2. \A o : DOMAIN ItemsHeld(o) = OfferId /\ DOMAIN MoneyHeld(o) = OfferId
  BY DEF ItemsHeld, MoneyHeld
<1>3. TotalItems' =
        SumFunction(ItemsIn(mem')) + SumFunction(ItemsHeld(offers'))
  BY DEF TotalItems, ItemsIn, ItemsHeld
<1>4. TotalMoney' =
        SumFunction(MoneyIn(mem')) + SumFunction(MoneyHeld(offers'))
  BY DEF TotalMoney, MoneyIn, MoneyHeld
<1> QED BY <1>1, <1>2, <1>3, <1>4
  DEF SumFunction, ItemsOf, MoneyOf, ItemsDue, MoneyDue

(* What a step that changes one offer and the assets of one trader, or of  *)
(* two, makes of the totals.                                               *)
LEMMA OneOffer ==
  ASSUME NEW o \in Slots,
         NEW p \in Slots,
         NEW id \in OfferId, \A i \in OfferId \ {id} : p[i] = o[i]
  PROVE  /\ ItemsDue(p) =
              ItemsDue(o)
                + (Refund(p[id]).items - Refund(o[id]).items)
         /\ MoneyDue(p) =
              MoneyDue(o)
                + (Refund(p[id]).money - Refund(o[id]).money)
<1>1. IsFiniteSet(OfferId) BY MarketConstants
<1>2. \A i \in OfferId : Refund(p[i]) \in Assets /\ Refund(o[i]) \in Assets
  BY Refunds DEF Slots
<1>3. \A i \in OfferId : /\ ItemsHeld(p)[i] = Refund(p[i]).items
                         /\ ItemsHeld(o)[i] = Refund(o[i]).items
                         /\ MoneyHeld(p)[i] = Refund(p[i]).money
                         /\ MoneyHeld(o)[i] = Refund(o[i]).money
  BY DEF ItemsHeld, MoneyHeld
<1>4. \A a \in Assets : a.items \in Int /\ a.money \in Int BY DEF Assets
<1>5. \A i \in OfferId : /\ ItemsHeld(p)[i] \in Int /\ ItemsHeld(o)[i] \in Int
                         /\ MoneyHeld(p)[i] \in Int /\ MoneyHeld(o)[i] \in Int
  BY <1>2, <1>3, <1>4
<1>6. \A i \in OfferId \ {id} : /\ ItemsHeld(p)[i] = ItemsHeld(o)[i]
                                /\ MoneyHeld(p)[i] = MoneyHeld(o)[i]
  BY <1>3
<1>7. ASSUME NEW f, NEW g,
             \A i \in OfferId : g[i] \in Int /\ f[i] \in Int,
             \A i \in OfferId \ {id} : g[i] = f[i]
      PROVE  SumFunctionOnSet(g, OfferId) =
               SumFunctionOnSet(f, OfferId) + (g[id] - f[id])
  BY <1>1, <1>7, SumChanges
<1>8. ItemsDue(p) =
        ItemsDue(o)
          + (ItemsHeld(p)[id] - ItemsHeld(o)[id])
  BY <1>5, <1>6, <1>7 DEF ItemsDue, MoneyDue
<1>9. MoneyDue(p) =
        MoneyDue(o)
          + (MoneyHeld(p)[id] - MoneyHeld(o)[id])
  BY <1>5, <1>6, <1>7 DEF ItemsDue, MoneyDue
<1> QED BY <1>3, <1>8, <1>9 DEF ItemsDue, MoneyDue

LEMMA OneTrader ==
  ASSUME NEW m \in [Trader -> Assets], NEW n \in [Trader -> Assets],
         NEW t \in Trader, \A u \in Trader \ {t} : n[u] = m[u]
  PROVE  /\ ItemsOf(n) =
              ItemsOf(m)
                + (n[t].items - m[t].items)
         /\ MoneyOf(n) =
              MoneyOf(m)
                + (n[t].money - m[t].money)
<1>1. IsFiniteSet(Trader) BY MarketConstants
<1>2. \A u \in Trader : /\ ItemsIn(n)[u] = n[u].items
                        /\ ItemsIn(m)[u] = m[u].items
                        /\ MoneyIn(n)[u] = n[u].money
                        /\ MoneyIn(m)[u] = m[u].money
  BY DEF ItemsIn, MoneyIn
<1>3. \A a \in Assets : a.items \in Int /\ a.money \in Int BY DEF Assets
<1>4. \A u \in Trader : /\ ItemsIn(n)[u] \in Int /\ ItemsIn(m)[u] \in Int
                        /\ MoneyIn(n)[u] \in Int /\ MoneyIn(m)[u] \in Int
  BY <1>2, <1>3
<1>5. \A u \in Trader \ {t} : /\ ItemsIn(n)[u] = ItemsIn(m)[u]
                              /\ MoneyIn(n)[u] = MoneyIn(m)[u]
  BY <1>2
<1>6. ItemsOf(n) =
        ItemsOf(m) + (ItemsIn(n)[t] - ItemsIn(m)[t])
  BY <1>1, <1>4, <1>5, SumChanges DEF ItemsOf, MoneyOf
<1>7. MoneyOf(n) =
        MoneyOf(m) + (MoneyIn(n)[t] - MoneyIn(m)[t])
  BY <1>1, <1>4, <1>5, SumChanges DEF ItemsOf, MoneyOf
<1> QED BY <1>2, <1>6, <1>7

LEMMA TwoTraders ==
  ASSUME NEW m \in [Trader -> Assets], NEW n \in [Trader -> Assets],
         NEW t \in Trader, NEW u \in Trader \ {t},
         \A v \in Trader \ {t, u} : n[v] = m[v]
  PROVE  /\ ItemsOf(n) =
              ItemsOf(m)
                + (n[t].items - m[t].items) + (n[u].items - m[u].items)
         /\ MoneyOf(n) =
              MoneyOf(m)
                + (n[t].money - m[t].money) + (n[u].money - m[u].money)
<1> DEFINE k == [m EXCEPT ![t] = n[t]]
<1>1. /\ k \in [Trader -> Assets] /\ k[t] = n[t] /\ k[u] = m[u]
      /\ \A v \in Trader \ {t} : k[v] = m[v]
      /\ \A v \in Trader \ {u} : n[v] = k[v]
  OBVIOUS
<1> HIDE DEF k
<1>2. /\ ItemsOf(k) =
           ItemsOf(m) + (k[t].items - m[t].items)
      /\ MoneyOf(k) =
           MoneyOf(m) + (k[t].money - m[t].money)
  BY <1>1, OneTrader
<1>3. /\ ItemsOf(n) =
           ItemsOf(k) + (n[u].items - k[u].items)
      /\ MoneyOf(n) =
           MoneyOf(k) + (n[u].money - k[u].money)
  BY <1>1, OneTrader
<1> QED BY <1>1, <1>2, <1>3

LEMMA SumsType ==
  /\ \A m \in [Trader -> Assets] :
       /\ ItemsOf(m) \in Int
       /\ MoneyOf(m) \in Int
  /\ \A o \in Slots :
       /\ ItemsDue(o) \in Int
       /\ MoneyDue(o) \in Int
<1>1. IsFiniteSet(OfferId) /\ IsFiniteSet(Trader) BY MarketConstants
<1>2. \A a \in Assets : a.items \in Int /\ a.money \in Int BY DEF Assets
<1>3. ASSUME NEW m \in [Trader -> Assets]
      PROVE  \A t \in Trader : ItemsIn(m)[t] \in Int /\ MoneyIn(m)[t] \in Int
  BY <1>2 DEF ItemsIn, MoneyIn
<1>4. ASSUME NEW o \in Slots
      PROVE  \A id \in OfferId :
               ItemsHeld(o)[id] \in Int /\ MoneyHeld(o)[id] \in Int
  <2>1. \A id \in OfferId : Refund(o[id]) \in Assets BY Refunds DEF Slots
  <2> QED BY <2>1, <1>2 DEF ItemsHeld, MoneyHeld
<1> QED BY <1>1, <1>3, <1>4, SumType
  DEF ItemsOf, MoneyOf, ItemsDue, MoneyDue

(* The assets of the traders and the offers change by as much.             *)
Kept(fee) ==
  TotalItems' = TotalItems /\ TotalMoney' = TotalMoney - fee

(* The totals after a step whose parts are known.                          *)
LEMMA Balance ==
  ASSUME MarketIInv,
         NEW items1 \in Int, NEW money1 \in Int,
         ItemsOf(mem') =
           ItemsOf(mem) + items1,
         MoneyOf(mem') =
           MoneyOf(mem) + money1,
         NEW items2 \in Int, NEW money2 \in Int,
         ItemsDue(offers') =
           ItemsDue(offers) + items2,
         MoneyDue(offers') =
           MoneyDue(offers) + money2
  PROVE  /\ TotalItems' = TotalItems + (items1 + items2)
         /\ TotalMoney' = TotalMoney + (money1 + money2)
         /\ TotalItems \in Int /\ TotalMoney \in Int
<1>1. /\ ItemsOf(mem) \in Int
      /\ MoneyOf(mem) \in Int
      /\ ItemsDue(offers) \in Int
      /\ MoneyDue(offers) \in Int
  BY SumsType DEF MarketIInv, MarketTypeOK, Slots
<1>2. \A a, b, c, d \in Int : (a + b) + (c + d) = (a + c) + (b + d)
  OBVIOUS
<1>3. TotalItems' = TotalItems + (items1 + items2)
  <2>1. TotalItems' = (ItemsOf(mem) + items1)
                        + (ItemsDue(offers) + items2)
    BY TotalsPrimed
  <2> QED BY <1>1, <1>2, <2>1, Totals
<1>4. TotalMoney' = TotalMoney + (money1 + money2)
  <2>1. TotalMoney' = (MoneyOf(mem) + money1)
                        + (MoneyDue(offers) + money2)
    BY TotalsPrimed
  <2> QED BY <1>1, <1>2, <2>1, Totals
<1> QED BY <1>1, <1>3, <1>4, Totals

LEMMA Unpaid ==
  ASSUME MarketIInv, UNCHANGED <<mem, offers>>
  PROVE  Kept(0)
<1>1. TotalItems \in Int /\ TotalMoney \in Int
  BY Totals, SumsType DEF MarketIInv, MarketTypeOK, Slots
<1> QED BY <1>1, Totals, TotalsPrimed DEF Kept

LEMMA Given ==
  ASSUME MarketIInv, NEW gain, Give(gain)
  PROVE  /\ mem' = [t \in Trader |->
                      IF t \in DOMAIN gain
                      THEN Gains(mem[t], gain[t].items, gain[t].money)
                      ELSE mem[t]]
         /\ mem' \in [Trader -> Assets] =>
              /\ saved' \in [Trader -> Assets]
              /\ \A t \in Trader \ online : mem'[t] = saved'[t]
<1>1. mem' = [t \in Trader |->
                IF t \in DOMAIN gain
                THEN Gains(mem[t], gain[t].items, gain[t].money)
                ELSE mem[t]]
  BY DEF Give
<1>2. saved' = [t \in Trader |-> IF t \in online THEN saved[t] ELSE mem'[t]]
  BY DEF Give
<1>3. saved \in [Trader -> Assets] BY DEF MarketIInv, MarketTypeOK
<1> QED BY <1>1, <1>2, <1>3

LEMMA GainsType ==
  ASSUME NEW a \in Assets, NEW items \in Int, NEW money \in Int
  PROVE  /\ Gains(a, items, money).items = a.items + items
         /\ Gains(a, items, money).money = a.money + money
         /\ items \in Nat /\ money \in Nat =>
              Gains(a, items, money) \in Assets
  BY DEF Gains, Assets

LEMMA Posted ==
  ASSUME MarketIInv, NEW t \in Trader, NEW amount \in 1 .. Items,
         NEW price \in Price, NEW sale \in BOOLEAN,
         playerCreateMarketOffer(t, sale, amount, price)
  PROVE  MarketIInv' /\ Kept(Fee) /\ made' # made
<1> DEFINE items == IF sale THEN -amount ELSE 0
           money == IF sale THEN -Fee ELSE -(price * amount + Fee)
           offer == [owner |-> t, sale |-> sale,
                     amount |-> amount, price |-> price]
<1>1. /\ amount \in Nat /\ price \in Nat /\ Fee \in Nat
      /\ price * amount \in Nat
  <2>1. 1 .. Items \subseteq Nat /\ Price \subseteq Nat /\ Fee \in Nat
    BY MarketConstants
  <2>2. amount \in Nat /\ price \in Nat BY <2>1
  <2> QED BY <2>1, <2>2
<1>2. items \in Int /\ money \in Int BY <1>1
<1>3. /\ t \in online /\ made + 1 \in OfferId
      /\ Gains(mem[t], items, money) \in Assets
      /\ mem' = [mem EXCEPT ![t] = Gains(mem[t], items, money)]
      /\ made' = made + 1 /\ offers' = [offers EXCEPT ![made + 1] = offer]
      /\ UNCHANGED <<online, saved, expired, search, rows>>
  BY DEF playerCreateMarketOffer, Pay, Assets
<1>4. /\ offer \in Offer
      /\ Refund(offer).items = IF sale THEN amount ELSE 0
      /\ Refund(offer).money = IF sale THEN 0 ELSE price * amount
  BY DEF Offer, Refund
<1>5. /\ mem \in [Trader -> Assets] /\ offers \in Slots
      /\ made \in Nat
      /\ \A id \in OfferId : id > made => offers[id] = NoOffer
  <2>1. mem \in [Trader -> Assets] /\ offers \in Slots
    BY Zenon DEF MarketIInv, MarketTypeOK, Slots
  <2>2. made \in Nat
    <3>1. made \in {0} \cup OfferId BY Zenon DEF MarketIInv, MarketTypeOK
    <3>2. OfferId \subseteq Nat BY MarketConstants, Zenon
    <3> HIDE DEF items, money, offer
    <3> QED BY <3>1, <3>2
  <2>3. \A id \in OfferId : id > made => offers[id] = NoOffer
    BY Zenon DEF MarketIInv
  <2> QED BY <2>1, <2>2, <2>3
<1> HIDE DEF items, money, offer
<1>6. /\ mem' \in [Trader -> Assets]
      /\ mem'[t] = Gains(mem[t], items, money)
      /\ \A u \in Trader \ {t} : mem'[u] = mem[u]
  BY <1>3, <1>5
<1>7. /\ offers' \in Slots
      /\ offers'[made + 1] = offer
      /\ \A id \in OfferId \ {made + 1} : offers'[id] = offers[id]
      /\ offers[made + 1] = NoOffer
  BY <1>3, <1>4, <1>5 DEF Slots
<1>8. MarketIInv'
  <2>1. MarketTypeOK'
    BY <1>3, <1>6, <1>7 DEF MarketIInv, MarketTypeOK, Slots
  <2>2. \A id \in OfferId : id > made' => offers'[id] = NoOffer
    <3>1. OfferId \subseteq Nat BY MarketConstants
    <3> QED BY <3>1, <1>3, <1>5, <1>7
  <2>3. \A u \in Trader \ online' : mem'[u] = saved'[u]
    BY <1>3, <1>6 DEF MarketIInv
  <2> QED BY <2>1, <2>2, <2>3, <1>3 DEF MarketIInv
<1>9. Kept(Fee)
  <2>1. /\ ItemsOf(mem') =
             ItemsOf(mem)
               + (mem'[t].items - mem[t].items)
        /\ MoneyOf(mem') =
             MoneyOf(mem)
               + (mem'[t].money - mem[t].money)
    BY <1>5, <1>6, OneTrader
  <2>2. /\ ItemsDue(offers') =
             ItemsDue(offers)
               + (Refund(offers'[made + 1]).items
                    - Refund(offers[made + 1]).items)
        /\ MoneyDue(offers') =
             MoneyDue(offers)
               + (Refund(offers'[made + 1]).money
                    - Refund(offers[made + 1]).money)
    BY <1>3, <1>5, <1>7, OneOffer
  <2>3. /\ mem'[t].items = mem[t].items + items
        /\ mem'[t].money = mem[t].money + money
    BY <1>2, <1>5, <1>6, GainsType
  <2>4. mem[t].items \in Int /\ mem[t].money \in Int BY <1>5 DEF Assets
  <2>5. /\ mem'[t].items - mem[t].items = items
        /\ mem'[t].money - mem[t].money = money
    BY <1>2, <2>3, <2>4
  <2>6. /\ Refund(offers[made + 1]).items = 0
        /\ Refund(offers[made + 1]).money = 0
    BY <1>7, Refunds
  <2>7. Refund(offer).items \in Int /\ Refund(offer).money \in Int
    BY <1>1, <1>4
  <2>8. /\ Refund(offers'[made + 1]).items - Refund(offers[made + 1]).items
             = Refund(offer).items
        /\ Refund(offers'[made + 1]).money - Refund(offers[made + 1]).money
             = Refund(offer).money
    BY <1>7, <2>6, <2>7
  <2>9. /\ TotalItems' = TotalItems + (items + Refund(offer).items)
        /\ TotalMoney' = TotalMoney + (money + Refund(offer).money)
        /\ TotalItems \in Int /\ TotalMoney \in Int
    BY <1>2, <2>1, <2>2, <2>5, <2>7, <2>8, Balance
  <2>10. items + Refund(offer).items = 0 BY <1>1, <1>4 DEF items
  <2>11. money + Refund(offer).money = -Fee BY <1>1, <1>4 DEF money
  <2> QED BY <1>1, <2>9, <2>10, <2>11 DEF Kept
<1> QED BY <1>3, <1>5, <1>8, <1>9

(* A request that gives and changes an offer.                              *)
LEMMA GiveKeeps ==
  ASSUME MarketIInv, UNCHANGED <<online, made, expired, search, rows>>,
         NEW gain, Give(gain), mem' \in [Trader -> Assets],
         NEW id \in Live, NEW offer \in Offer \cup {NoOffer},
         offers' = [offers EXCEPT ![id] = offer]
  PROVE  /\ MarketIInv'
         /\ ItemsDue(offers') = ItemsDue(offers)
              + (Refund(offer).items - Refund(offers[id]).items)
         /\ MoneyDue(offers') = MoneyDue(offers)
              + (Refund(offer).money - Refund(offers[id]).money)
<1>1. /\ id \in OfferId /\ offers[id] # NoOffer /\ offers \in Slots
      /\ offers' \in Slots /\ offers'[id] = offer
      /\ \A i \in OfferId \ {id} : offers'[i] = offers[i]
  BY DEF Live, MarketIInv, MarketTypeOK, Slots
<1>2. \A i \in OfferId : i > made' => offers'[i] = NoOffer
  BY <1>1 DEF MarketIInv
<1>3. /\ saved' \in [Trader -> Assets]
      /\ \A t \in Trader \ online : mem'[t] = saved'[t]
  BY Given
<1>4. MarketTypeOK'
  BY <1>1, <1>3 DEF MarketIInv, MarketTypeOK, Slots
<1>5. MarketIInv' BY <1>2, <1>3, <1>4 DEF MarketIInv
<1>6. /\ ItemsDue(offers') = ItemsDue(offers)
           + (Refund(offers'[id]).items - Refund(offers[id]).items)
      /\ MoneyDue(offers') = MoneyDue(offers)
           + (Refund(offers'[id]).money - Refund(offers[id]).money)
  BY <1>1, OneOffer
<1> QED BY <1>1, <1>5, <1>6, Zenon

LEMMA Cancelled ==
  ASSUME MarketIInv, NEW t \in Trader, NEW id \in OfferId,
         playerCancelMarketOffer(t, id)
  PROVE  MarketIInv' /\ Kept(0) /\ made' = made
<1> DEFINE back == Refund(offers[id])
           gain == [u \in {t} |-> back]
<1>1. /\ id \in Live /\ Give(gain) /\ offers' = [offers EXCEPT ![id] = NoOffer]
      /\ UNCHANGED <<online, made, expired, search, rows>>
  BY DEF playerCancelMarketOffer
<1>2. /\ mem \in [Trader -> Assets] /\ back \in Assets
      /\ back.items \in Nat /\ back.money \in Nat
  BY Refunds DEF MarketIInv, MarketTypeOK, Assets
<1>3. \A u \in Trader : mem'[u] = IF u = t
                                  THEN Gains(mem[t], back.items, back.money)
                                  ELSE mem[u]
  <2>1. DOMAIN gain = {t} /\ gain[t] = back OBVIOUS
  <2> HIDE DEF gain, back
  <2> QED BY <1>1, <2>1, Given
<1>4. /\ Gains(mem[t], back.items, back.money) \in Assets
      /\ mem'[t].items = mem[t].items + back.items
      /\ mem'[t].money = mem[t].money + back.money
  <2> HIDE DEF back
  <2> QED BY <1>2, <1>3, GainsType
<1>5. mem' \in [Trader -> Assets]
  <2>1. mem' = [u \in Trader |-> mem'[u]] BY <1>1, Given
  <2> HIDE DEF gain, back
  <2> QED BY <1>2, <1>3, <1>4, <2>1
<1> HIDE DEF back, gain
<1>6. /\ MarketIInv'
      /\ ItemsDue(offers') = ItemsDue(offers)
           + (Refund(NoOffer).items - back.items)
      /\ MoneyDue(offers') = MoneyDue(offers)
           + (Refund(NoOffer).money - back.money)
  BY <1>1, <1>5, GiveKeeps DEF back
<1>7. /\ Refund(NoOffer).items - back.items = -back.items
      /\ Refund(NoOffer).money - back.money = -back.money
  BY <1>2, Refunds
<1>8. /\ ItemsOf(mem') = ItemsOf(mem) + (mem'[t].items - mem[t].items)
      /\ MoneyOf(mem') = MoneyOf(mem) + (mem'[t].money - mem[t].money)
  BY <1>2, <1>3, <1>5, OneTrader
<1>9. /\ mem'[t].items - mem[t].items = back.items
      /\ mem'[t].money - mem[t].money = back.money
  <2>1. mem[t].items \in Int /\ mem[t].money \in Int BY <1>2 DEF Assets
  <2> QED BY <1>2, <1>4, <2>1
<1>10. /\ TotalItems' = TotalItems + (back.items + (-back.items))
       /\ TotalMoney' = TotalMoney + (back.money + (-back.money))
       /\ TotalItems \in Int /\ TotalMoney \in Int
  BY <1>2, <1>6, <1>7, <1>8, <1>9, Balance
<1> QED BY <1>1, <1>2, <1>6, <1>10 DEF Kept

(* What an offer still holds back when a part of it has been accepted.     *)
LEMMA PartIsTaken ==
  ASSUME NEW offer \in Offer, NEW amount \in 1 .. Items,
         amount <= offer.amount,
         NEW left, left = IF amount = offer.amount THEN NoOffer
                          ELSE [offer EXCEPT !.amount = @ - amount]
  PROVE  /\ left \in Offer \cup {NoOffer}
         /\ Refund(left).items = Refund(offer).items
              - (IF offer.sale THEN amount ELSE 0)
         /\ Refund(left).money = Refund(offer).money
              - (IF offer.sale THEN 0 ELSE offer.price * amount)
<1>1. /\ amount \in Nat /\ offer.price \in Nat /\ offer.amount \in Nat
      /\ offer.amount \in 1 .. Items /\ Items \in Nat
  <2>1. /\ Items \in Nat /\ 1 .. Items \subseteq Nat /\ Price \subseteq Nat
    BY MarketConstants
  <2>2. offer.amount \in 1 .. Items /\ offer.price \in Price BY DEF Offer
  <2> QED BY <2>1, <2>2
<1>2. \A p, a, b \in Nat : p * (a - b) = p * a - p * b OBVIOUS
<1>3. CASE amount = offer.amount
  <2>1. /\ left = NoOffer /\ Refund(left).items = 0 /\ Refund(left).money = 0
    BY <1>3, Refunds
  <2>2. Refund(offer).items = IF offer.sale THEN amount ELSE 0
    BY <1>3 DEF Refund
  <2>3. Refund(offer).money =
          IF offer.sale THEN 0 ELSE offer.price * amount
    BY <1>3 DEF Refund
  <2>4. offer.price * amount \in Nat BY <1>1
  <2> QED BY <1>1, <2>1, <2>2, <2>3, <2>4
<1>4. CASE amount # offer.amount
  <2>1. /\ left = [offer EXCEPT !.amount = offer.amount - amount]
        /\ offer.amount - amount \in 1 .. Items
    BY <1>1, <1>4
  <2>2. /\ left \in Offer /\ left.sale = offer.sale
        /\ left.amount = offer.amount - amount /\ left.price = offer.price
    BY <2>1 DEF Offer
  <2>3. Refund(left).items =
          IF offer.sale THEN offer.amount - amount ELSE 0
    BY <2>2 DEF Refund
  <2>4. Refund(left).money =
          IF offer.sale THEN 0 ELSE offer.price * (offer.amount - amount)
    BY <2>2 DEF Refund
  <2>5. Refund(offer).items = IF offer.sale THEN offer.amount ELSE 0
    BY DEF Refund
  <2>6. Refund(offer).money =
          IF offer.sale THEN 0 ELSE offer.price * offer.amount
    BY DEF Refund
  <2>7. offer.price * (offer.amount - amount) =
          offer.price * offer.amount - offer.price * amount
    BY <1>1, <1>2
  <2> QED BY <1>1, <2>2, <2>3, <2>4, <2>5, <2>6, <2>7
<1> QED BY <1>3, <1>4

LEMMA Accepted ==
  ASSUME MarketIInv, NEW t \in Trader, NEW id \in OfferId,
         NEW amount \in 1 .. Items, playerAcceptMarketOffer(t, id, amount)
  PROVE  MarketIInv' /\ Kept(0) /\ made' = made
<1> DEFINE offer == offers[id]
           price == offer.price * amount
           items == IF offer.sale THEN amount ELSE -amount
           money == IF offer.sale THEN -price ELSE price
           given == IF offer.sale THEN [items |-> 0, money |-> price]
                    ELSE [items |-> amount, money |-> 0]
           own == [u \in {t} |-> Gains(given, items, money)]
           both == [u \in {t, offer.owner} |->
                      IF u = t THEN [items |-> items, money |-> money]
                      ELSE given]
           left == IF amount = offer.amount THEN NoOffer
                   ELSE [offer EXCEPT !.amount = @ - amount]
<1>1. /\ t \in online /\ id \in Live /\ amount <= offer.amount
      /\ Gains(mem[t], items, money) \in Assets
      /\ Give(IF t = offer.owner THEN own ELSE both)
      /\ UNCHANGED <<online, made, expired, search, rows>>
  BY DEF playerAcceptMarketOffer, Pay, Assets
<1>2. offers' = [offers EXCEPT ![id] = left]
  BY DEF playerAcceptMarketOffer
<1>3. offer \in Offer BY <1>1 DEF Live, MarketIInv, MarketTypeOK
<1>4. /\ amount \in Nat /\ price \in Nat /\ offer.owner \in Trader
      /\ mem \in [Trader -> Assets]
  <2>1. /\ 1 .. Items \subseteq Nat /\ Price \subseteq Nat
    BY MarketConstants
  <2>2. offer.owner \in Trader /\ offer.price \in Price BY <1>3 DEF Offer
  <2>3. amount \in Nat /\ offer.price \in Nat BY <2>1, <2>2
  <2> QED BY <2>2, <2>3 DEF MarketIInv, MarketTypeOK
<1>5. /\ given.items = (IF offer.sale THEN 0 ELSE amount)
      /\ given.money = (IF offer.sale THEN price ELSE 0)
  OBVIOUS
<1>6. /\ items \in Int /\ money \in Int
      /\ given.items \in Nat /\ given.money \in Nat
  BY <1>4, <1>5
<1>7. /\ left \in Offer \cup {NoOffer}
      /\ Refund(left).items = Refund(offer).items
           - (IF offer.sale THEN amount ELSE 0)
      /\ Refund(left).money = Refund(offer).money
           - (IF offer.sale THEN 0 ELSE price)
  <2> DEFINE l == left
  <2>1. l = IF amount = offer.amount THEN NoOffer
            ELSE [offer EXCEPT !.amount = @ - amount]
    OBVIOUS
  <2> HIDE DEF l
  <2>2. /\ l \in Offer \cup {NoOffer}
        /\ Refund(l).items = Refund(offer).items
             - (IF offer.sale THEN amount ELSE 0)
        /\ Refund(l).money = Refund(offer).money
             - (IF offer.sale THEN 0 ELSE offer.price * amount)
    <3> HIDE DEF offer
    <3> QED BY <1>1, <1>3, <2>1, PartIsTaken
  <2> QED BY <2>2 DEF l
<1>8. /\ items + given.items - (IF offer.sale THEN amount ELSE 0) = 0
      /\ money + given.money - (IF offer.sale THEN 0 ELSE price) = 0
  BY <1>4, <1>5
<1>9. /\ mem' \in [Trader -> Assets]
      /\ ItemsOf(mem') = ItemsOf(mem) + (items + given.items)
      /\ MoneyOf(mem') = MoneyOf(mem) + (money + given.money)
  <2>1. /\ DOMAIN own = {t} /\ own[t] = Gains(given, items, money)
        /\ DOMAIN both = {t, offer.owner}
        /\ both[t] = [items |-> items, money |-> money]
        /\ t # offer.owner => both[offer.owner] = given
    OBVIOUS
  <2>2. /\ \A u \in Trader : mem[u].items \in Nat /\ mem[u].money \in Nat
        /\ \A u \in Trader : mem[u] \in Assets
    BY <1>4 DEF Assets
  <2>3. /\ mem[t].items + items \in Nat /\ mem[t].money + money \in Nat
    <3>1. /\ Gains(mem[t], items, money).items \in Nat
          /\ Gains(mem[t], items, money).money \in Nat
      BY <1>1 DEF Assets
    <3> HIDE DEF items, money
    <3> QED BY <1>6, <2>2, <3>1, GainsType
  <2>4. \A u \in Trader : \A i, m \in Int :
          mem[u].items + i \in Nat /\ mem[u].money + m \in Nat =>
            /\ Gains(mem[u], i, m) \in Assets
            /\ Gains(mem[u], i, m).items = mem[u].items + i
            /\ Gains(mem[u], i, m).money = mem[u].money + m
    BY DEF Gains, Assets
  <2> HIDE DEF own, both, items, money, given, price, offer, left
  <2>5. CASE t = offer.owner
    <3>1. /\ Give(own)
          /\ own[t].items = given.items + items
          /\ own[t].money = given.money + money
      BY <1>1, <2>1, <2>5 DEF Gains
    <3>2. /\ mem' = [u \in Trader |-> mem'[u]]
          /\ \A u \in Trader \ {t} : mem'[u] = mem[u]
          /\ mem'[t] = Gains(mem[t], own[t].items, own[t].money)
      BY <2>1, <3>1, Given
    <3>3. /\ own[t].items \in Int /\ own[t].money \in Int
          /\ mem[t].items + own[t].items \in Nat
          /\ mem[t].money + own[t].money \in Nat
      BY <1>6, <2>2, <2>3, <3>1
    <3>4. /\ mem'[t] \in Assets
          /\ mem'[t].items = mem[t].items + own[t].items
          /\ mem'[t].money = mem[t].money + own[t].money
      BY <2>4, <3>2, <3>3
    <3>5. mem' \in [Trader -> Assets] BY <2>2, <3>2, <3>4
    <3>6. /\ ItemsOf(mem') = ItemsOf(mem) + (mem'[t].items - mem[t].items)
          /\ MoneyOf(mem') = MoneyOf(mem) + (mem'[t].money - mem[t].money)
      BY <1>4, <3>2, <3>5, OneTrader
    <3>7. /\ mem'[t].items - mem[t].items = items + given.items
          /\ mem'[t].money - mem[t].money = money + given.money
      BY <1>6, <2>2, <3>1, <3>3, <3>4
    <3> QED BY <3>5, <3>6, <3>7
  <2>6. CASE t # offer.owner
    <3> DEFINE o == offer.owner
    <3>1. Give(both) /\ o \in Trader \ {t} BY <1>1, <1>4, <2>6
    <3>2. /\ mem' = [u \in Trader |-> mem'[u]]
          /\ \A u \in Trader \ {t, o} : mem'[u] = mem[u]
          /\ mem'[t] = Gains(mem[t], items, money)
          /\ mem'[o] = Gains(mem[o], given.items, given.money)
      BY <2>1, <2>6, <3>1, Given
    <3>3. /\ mem[o].items + given.items \in Nat
          /\ mem[o].money + given.money \in Nat
      BY <1>6, <2>2, <3>1
    <3> HIDE DEF o
    <3>4. /\ mem'[t] \in Assets
          /\ mem'[t].items = mem[t].items + items
          /\ mem'[t].money = mem[t].money + money
      BY <1>6, <2>3, <2>4, <3>2
    <3>5. /\ mem'[o] \in Assets
          /\ mem'[o].items = mem[o].items + given.items
          /\ mem'[o].money = mem[o].money + given.money
      BY <1>6, <2>4, <3>1, <3>2, <3>3
    <3>6. mem' \in [Trader -> Assets] BY <2>2, <3>2, <3>4, <3>5
    <3>7. /\ ItemsOf(mem') = ItemsOf(mem) + (mem'[t].items - mem[t].items)
               + (mem'[o].items - mem[o].items)
          /\ MoneyOf(mem') = MoneyOf(mem) + (mem'[t].money - mem[t].money)
               + (mem'[o].money - mem[o].money)
      BY <1>4, <3>1, <3>2, <3>6, TwoTraders
    <3>8. /\ mem'[t].items - mem[t].items = items
          /\ mem'[t].money - mem[t].money = money
          /\ mem'[o].items - mem[o].items = given.items
          /\ mem'[o].money - mem[o].money = given.money
      BY <1>6, <2>2, <3>1, <3>4, <3>5
    <3>9. ItemsOf(mem) \in Int /\ MoneyOf(mem) \in Int BY <1>4, SumsType
    <3> QED BY <1>6, <3>6, <3>7, <3>8, <3>9
  <2> QED BY <2>5, <2>6
<1> HIDE DEF items, money, given, price, own, both, left
<1>10. /\ MarketIInv'
       /\ ItemsDue(offers') =
            ItemsDue(offers) + (Refund(left).items - Refund(offer).items)
       /\ MoneyDue(offers') =
            MoneyDue(offers) + (Refund(left).money - Refund(offer).money)
  BY <1>1, <1>2, <1>7, <1>9, GiveKeeps
<1>11. Refund(offer).items \in Int /\ Refund(offer).money \in Int
  BY <1>3, Refunds DEF Assets
<1> DEFINE parts == IF offer.sale THEN amount ELSE 0
           paid == IF offer.sale THEN 0 ELSE price
<1>12. parts \in Int /\ paid \in Int BY <1>4
<1>13. /\ Refund(left).items = Refund(offer).items - parts
       /\ Refund(left).money = Refund(offer).money - paid
       /\ items + given.items - parts = 0
       /\ money + given.money - paid = 0
  BY <1>7, <1>8
<1> HIDE DEF parts, paid, offer
<1>14. /\ Refund(left).items - Refund(offer).items = -parts
       /\ Refund(left).money - Refund(offer).money = -paid
  BY <1>11, <1>12, <1>13
<1>15. /\ TotalItems' = TotalItems + ((items + given.items) + (-parts))
       /\ TotalMoney' = TotalMoney + ((money + given.money) + (-paid))
       /\ TotalItems \in Int /\ TotalMoney \in Int
  <2>1. items + given.items \in Int /\ money + given.money \in Int BY <1>6
  <2>2. -parts \in Int /\ -paid \in Int BY <1>12
  <2> QED BY <1>9, <1>10, <1>14, <2>1, <2>2, Balance
<1> QED BY <1>1, <1>6, <1>10, <1>12, <1>13, <1>15 DEF Kept

(* Expired offers.  dues are rows to be paid back, and val is what each of *)
(* them is worth, in items or in money: it is paid to the owners, and it   *)
(* is what the offers no longer hold back.                                 *)
LEMMA PaidBack ==
  ASSUME MarketIInv, NEW dues \in SUBSET rows,
         NEW val, \A row \in dues : val[row] \in Int,
         NEW m, NEW n,
         \A t \in Trader :
           /\ m[t] \in Int
           /\ n[t] = m[t] + SumFunctionOnSet(val,
                               {row \in dues : row.offer.owner = t})
  PROVE  SumFunctionOnSet(n, Trader) =
           SumFunctionOnSet(m, Trader) + SumFunctionOnSet(val, dues)
<1> DEFINE key == [row \in dues |-> row.offer.owner]
           part(t) == {row \in dues : key[row] = t}
           parts == [t \in Trader |-> SumFunctionOnSet(val, part(t))]
<1>1. IsFiniteSet(dues) /\ IsFiniteSet(Trader)
  BY FS_Subset, MarketConstants DEF MarketIInv
<1>2. \A row \in dues : key[row] \in Trader BY DEF MarketIInv, Offer
<1>3. SumFunctionOnSet(parts, Trader) = SumFunctionOnSet(val, dues)
  <2> HIDE DEF key
  <2> QED BY <1>1, <1>2, SumOfParts
<1>4. \A t \in Trader :
        /\ part(t) = {row \in dues : row.offer.owner = t}
        /\ IsFiniteSet(part(t)) /\ part(t) \subseteq dues
  BY <1>1, FS_Subset
<1>5. \A t \in Trader : parts[t] = SumFunctionOnSet(val, part(t)) OBVIOUS
<1> HIDE DEF part, key, parts
<1>6. \A t \in Trader : SumFunctionOnSet(val, part(t)) \in Int
  BY <1>4, SumType
<1>7. \A t \in Trader : /\ m[t] \in Int /\ parts[t] \in Int
                        /\ n[t] = m[t] + parts[t]
  BY <1>4, <1>5, <1>6
<1>8. SumFunctionOnSet(n, Trader) =
        SumFunctionOnSet(m, Trader) + SumFunctionOnSet(parts, Trader)
  BY <1>1, <1>7, SumPlus
<1> QED BY <1>3, <1>8

LEMMA TakenBack ==
  ASSUME MarketIInv, NEW dues \in SUBSET rows,
         NEW val, NEW o, NEW p,
         \A row \in dues : val[row] = o[row.id],
         \A id \in OfferId :
           /\ o[id] \in Int
           /\ p[id] = IF \E row \in dues : row.id = id THEN 0 ELSE o[id]
  PROVE  SumFunctionOnSet(o, OfferId) =
           SumFunctionOnSet(p, OfferId) + SumFunctionOnSet(val, dues)
<1> DEFINE key == [row \in dues |-> row.id]
           part(id) == {row \in dues : key[row] = id}
           parts == [id \in OfferId |-> SumFunctionOnSet(val, part(id))]
<1>1. IsFiniteSet(dues) /\ IsFiniteSet(OfferId)
  BY FS_Subset, MarketConstants DEF MarketIInv
<1>2. \A row \in dues : key[row] \in OfferId /\ val[row] \in Int
  BY DEF MarketIInv
<1>3. SumFunctionOnSet(parts, OfferId) = SumFunctionOnSet(val, dues)
  <2> HIDE DEF key
  <2> QED BY <1>1, <1>2, SumOfParts
<1>4. ASSUME NEW id \in OfferId
      PROVE  /\ p[id] \in Int /\ parts[id] \in Int
             /\ o[id] = p[id] + parts[id]
  <2>1. parts[id] = SumFunctionOnSet(val, part(id)) OBVIOUS
  <2>2. CASE \E row \in dues : row.id = id
    <3>1. PICK row \in dues : row.id = id BY <2>2
    <3>2. part(id) = {row} BY <3>1 DEF MarketIInv
    <3>3. val[row] = o[id] /\ p[id] = 0 BY <2>2, <3>1
    <3> HIDE DEF part, parts
    <3>4. SumFunctionOnSet(val, {row}) = val[row]
      BY <1>2, <3>1, SumSingle
    <3> QED BY <2>1, <3>2, <3>3, <3>4
  <2>3. CASE ~\E row \in dues : row.id = id
    <3>1. part(id) = {} BY <2>3
    <3> HIDE DEF part, parts
    <3> QED BY <2>1, <2>3, <3>1, SumEmpty
  <2> QED BY <2>2, <2>3
<1> HIDE DEF part, parts, key
<1>5. SumFunctionOnSet(o, OfferId) =
        SumFunctionOnSet(p, OfferId) + SumFunctionOnSet(parts, OfferId)
  BY <1>1, <1>4, SumPlus
<1> QED BY <1>3, <1>5

ItemsOfRow == [row \in rows |-> Refund(row.offer).items]
MoneyOfRow == [row \in rows |-> Refund(row.offer).money]

LEMMA RowsType ==
  ASSUME MarketIInv
  PROVE  \A row \in rows : /\ row.id \in OfferId /\ row.offer.owner \in Trader
                           /\ Refund(row.offer) \in Assets
                           /\ ItemsOfRow[row] = Refund(row.offer).items
                           /\ MoneyOfRow[row] = Refund(row.offer).money
                           /\ ItemsOfRow[row] \in Nat
                           /\ MoneyOfRow[row] \in Nat
<1>1. \A row \in rows : row.id \in OfferId /\ row.offer \in Offer
  BY DEF MarketIInv
<1>2. \A offer \in Offer : /\ offer.owner \in Trader
                           /\ Refund(offer) \in Assets
  BY Refunds DEF Offer
<1>3. \A a \in Assets : a.items \in Nat /\ a.money \in Nat BY DEF Assets
<1> QED BY <1>1, <1>2, <1>3 DEF ItemsOfRow, MoneyOfRow

LEMMA TotalRefunds ==
  ASSUME MarketIInv, NEW dues \in SUBSET rows, NEW t \in Trader
  PROVE  /\ TotalRefund(t, dues).items =
              SumFunctionOnSet(ItemsOfRow,
                               {row \in dues : row.offer.owner = t})
         /\ TotalRefund(t, dues).money =
              SumFunctionOnSet(MoneyOfRow,
                               {row \in dues : row.offer.owner = t})
         /\ TotalRefund(t, dues).items \in Nat
         /\ TotalRefund(t, dues).money \in Nat
<1> DEFINE of == {row \in dues : row.offer.owner = t}
           items == [row \in of |-> Refund(row.offer).items]
           money == [row \in of |-> Refund(row.offer).money]
<1>1. IsFiniteSet(of)
  <2>1. of \in SUBSET rows OBVIOUS
  <2> HIDE DEF of
  <2> QED BY <2>1, FS_Subset DEF MarketIInv
<1>2. \A row \in of : /\ items[row] = ItemsOfRow[row]
                      /\ money[row] = MoneyOfRow[row]
                      /\ ItemsOfRow[row] \in Nat /\ MoneyOfRow[row] \in Nat
                      /\ items[row] \in Nat /\ money[row] \in Nat
  BY RowsType
<1>3. /\ TotalRefund(t, dues).items = SumFunction(items)
      /\ TotalRefund(t, dues).money = SumFunction(money)
  BY DEF TotalRefund
<1>4. DOMAIN items = of /\ DOMAIN money = of OBVIOUS
<1> HIDE DEF of, items, money
<1>5. /\ TotalRefund(t, dues).items = SumFunctionOnSet(items, of)
      /\ TotalRefund(t, dues).money = SumFunctionOnSet(money, of)
  BY <1>3, <1>4 DEF SumFunction
<1>6. \A row \in of : ItemsOfRow[row] \in Int /\ MoneyOfRow[row] \in Int
  BY <1>2
<1>7. SumFunctionOnSet(items, of) = SumFunctionOnSet(ItemsOfRow, of)
  BY <1>1, <1>2, <1>6, SumSame
<1>8. SumFunctionOnSet(money, of) = SumFunctionOnSet(MoneyOfRow, of)
  BY <1>1, <1>2, <1>6, SumSame
<1>9. /\ SumFunctionOnSet(items, of) \in Nat
      /\ SumFunctionOnSet(money, of) \in Nat
  BY <1>1, <1>2, SumNat
<1> QED BY <1>5, <1>7, <1>8, <1>9 DEF of

LEMMA ExpiredKept ==
  ASSUME MarketIInv, processExpiredOffers
  PROVE  MarketIInv' /\ (~Stale => Kept(0)) /\ made' = made
<1> DEFINE gain == [t \in Trader |-> TotalRefund(t, StillThere)]
<1>1. /\ Give(gain) /\ search' = "none" /\ rows' = {}
      /\ offers' = [id \in OfferId |->
                      IF \E row \in StillThere : row.id = id THEN NoOffer
                      ELSE offers[id]]
      /\ UNCHANGED <<online, made, expired>>
  BY DEF processExpiredOffers
<1>2. /\ mem \in [Trader -> Assets] /\ offers \in Slots
      /\ StillThere \in SUBSET rows
  BY DEF MarketIInv, MarketTypeOK, Slots, StillThere
<1>3. \A t \in Trader : gain[t].items \in Nat /\ gain[t].money \in Nat
  BY <1>2, TotalRefunds
<1>4. DOMAIN gain = Trader OBVIOUS
<1>5. \A t \in Trader : gain[t] = TotalRefund(t, StillThere) OBVIOUS
<1> HIDE DEF gain
<1>6. \A t \in Trader :
        /\ mem'[t] = Gains(mem[t], gain[t].items, gain[t].money)
        /\ mem'[t] \in Assets
        /\ mem'[t].items = mem[t].items + gain[t].items
        /\ mem'[t].money = mem[t].money + gain[t].money
        /\ mem[t].items \in Int /\ mem[t].money \in Int
  <2> TAKE t \in Trader
  <2>1. mem'[t] = Gains(mem[t], gain[t].items, gain[t].money)
    BY <1>1, <1>4, Given
  <2>2. mem[t] \in Assets /\ mem[t].items \in Int /\ mem[t].money \in Int
    BY <1>2 DEF Assets
  <2> QED BY <1>3, <2>1, <2>2, GainsType
<1>7. mem' \in [Trader -> Assets]
  <2>1. mem' = [t \in Trader |-> mem'[t]] BY <1>1, Given
  <2> QED BY <1>6, <2>1
<1>8. offers' \in Slots BY <1>1, <1>2 DEF Slots
<1>9. MarketIInv'
  <2>1. /\ saved' \in [Trader -> Assets]
        /\ \A t \in Trader \ online' : mem'[t] = saved'[t]
    BY <1>1, <1>7, Given
  <2>2. MarketTypeOK'
    BY <1>1, <1>7, <1>8, <2>1 DEF MarketIInv, MarketTypeOK, Slots
  <2>3. \A id \in OfferId : id > made' => offers'[id] = NoOffer
    BY <1>1 DEF MarketIInv
  <2>4. IsFiniteSet(rows') BY <1>1, FS_EmptySet
  <2> QED BY <1>1, <2>1, <2>2, <2>3, <2>4 DEF MarketIInv
<1>10. ASSUME ~Stale PROVE Kept(0)
  <2> DEFINE items == SumFunctionOnSet(ItemsOfRow, StillThere)
             money == SumFunctionOnSet(MoneyOfRow, StillThere)
  <2>1. /\ \A t \in Trader :
             /\ ItemsIn(mem)[t] = mem[t].items
             /\ ItemsIn(mem')[t] = mem'[t].items
             /\ MoneyIn(mem)[t] = mem[t].money
             /\ MoneyIn(mem')[t] = mem'[t].money
    BY DEF ItemsIn, MoneyIn
  <2>2. /\ \A row \in StillThere : ItemsOfRow[row] \in Int
        /\ \A row \in StillThere : MoneyOfRow[row] \in Int
    BY <1>2, RowsType
  <2>3. ItemsOf(mem') = ItemsOf(mem) + items
    <3>1. \A t \in Trader :
            /\ ItemsIn(mem)[t] \in Int
            /\ ItemsIn(mem')[t] = ItemsIn(mem)[t] + SumFunctionOnSet(
                 ItemsOfRow, {row \in StillThere : row.offer.owner = t})
      BY <1>2, <1>5, <1>6, <2>1, TotalRefunds
    <3> QED BY <1>2, <2>2, <3>1, PaidBack DEF ItemsOf
  <2>4. MoneyOf(mem') = MoneyOf(mem) + money
    <3>1. \A t \in Trader :
            /\ MoneyIn(mem)[t] \in Int
            /\ MoneyIn(mem')[t] = MoneyIn(mem)[t] + SumFunctionOnSet(
                 MoneyOfRow, {row \in StillThere : row.offer.owner = t})
      BY <1>2, <1>5, <1>6, <2>1, TotalRefunds
    <3> QED BY <1>2, <2>2, <3>1, PaidBack DEF MoneyOf
  <2>5. \A id \in OfferId :
          /\ ItemsHeld(offers)[id] = Refund(offers[id]).items
          /\ MoneyHeld(offers)[id] = Refund(offers[id]).money
          /\ ItemsHeld(offers')[id] = Refund(offers'[id]).items
          /\ MoneyHeld(offers')[id] = Refund(offers'[id]).money
    BY DEF ItemsHeld, MoneyHeld
  <2>6. \A id \in OfferId :
          /\ ItemsHeld(offers)[id] \in Int
          /\ ItemsHeld(offers')[id] =
               IF \E row \in StillThere : row.id = id THEN 0
               ELSE ItemsHeld(offers)[id]
          /\ MoneyHeld(offers)[id] \in Int
          /\ MoneyHeld(offers')[id] =
               IF \E row \in StillThere : row.id = id THEN 0
               ELSE MoneyHeld(offers)[id]
    <3> TAKE id \in OfferId
    <3>1. Refund(offers[id]) \in Assets BY <1>2, Refunds DEF Slots
    <3>2. Refund(offers[id]).items \in Int /\ Refund(offers[id]).money \in Int
      BY <3>1 DEF Assets
    <3>3. offers'[id] = IF \E row \in StillThere : row.id = id THEN NoOffer
                        ELSE offers[id]
      BY <1>1
    <3>4. Refund(NoOffer).items = 0 /\ Refund(NoOffer).money = 0
      BY Refunds
    <3> QED BY <2>5, <3>2, <3>3, <3>4
  <2>7. \A row \in StillThere : /\ ItemsOfRow[row] = ItemsHeld(offers)[row.id]
                                /\ MoneyOfRow[row] = MoneyHeld(offers)[row.id]
    <3> TAKE row \in StillThere
    <3>1. row.offer = offers[row.id] BY <1>10 DEF Stale
    <3>2. /\ row.id \in OfferId
          /\ ItemsOfRow[row] = Refund(row.offer).items
          /\ MoneyOfRow[row] = Refund(row.offer).money
      BY <1>2, RowsType
    <3> QED BY <2>5, <3>1, <3>2
  <2>8. ItemsDue(offers) = ItemsDue(offers') + items
    BY <1>2, <2>6, <2>7, TakenBack DEF ItemsDue
  <2>9. MoneyDue(offers) = MoneyDue(offers') + money
    BY <1>2, <2>6, <2>7, TakenBack DEF MoneyDue
  <2>10. items \in Int /\ money \in Int
    <3>1. IsFiniteSet(StillThere) BY <1>2, FS_Subset DEF MarketIInv
    <3> QED BY <2>2, <3>1, SumType
  <2>11. /\ ItemsDue(offers') \in Int /\ MoneyDue(offers') \in Int
    BY <1>8, SumsType
  <2> HIDE DEF items, money
  <2>12. /\ ItemsDue(offers') = ItemsDue(offers) + (-items)
         /\ MoneyDue(offers') = MoneyDue(offers) + (-money)
    BY <2>8, <2>9, <2>10, <2>11
  <2>13. -items \in Int /\ -money \in Int BY <2>10
  <2>14. /\ TotalItems' = TotalItems + (items + (-items))
         /\ TotalMoney' = TotalMoney + (money + (-money))
         /\ TotalItems \in Int /\ TotalMoney \in Int
    BY <2>3, <2>4, <2>10, <2>12, <2>13, Balance
  <2> QED BY <2>10, <2>14 DEF Kept
<1> QED BY <1>1, <1>9, <1>10

LEMMA MarketInitIInv == MarketInit => MarketIInv
<1> SUFFICES ASSUME MarketInit PROVE MarketIInv
  OBVIOUS
<1>1. AtStart \in Assets BY MarketConstants DEF AtStart, Assets
<1>2. MarketTypeOK BY <1>1 DEF MarketInit, MarketTypeOK
<1> QED BY <1>2, FS_EmptySet DEF MarketInit, MarketIInv

(* The query takes each expired offer as it is at that time.               *)
LEMMA Found ==
  ASSUME MarketIInv, FindExpired
  PROVE  MarketIInv'
<1> DEFINE found == Live \cap expired
           f == [id \in found |-> [id |-> id, offer |-> offers[id]]]
<1>1. IsFiniteSet(found) BY MarketConstants, FS_Subset DEF Live
<1>2. rows' = {f[id] : id \in found} BY DEF FindExpired
<1>3. \A id \in found : id \in OfferId /\ offers[id] \in Offer
  BY DEF Live, MarketIInv, MarketTypeOK
<1>4. rows' \subseteq [id : OfferId, offer : Offer] BY <1>2, <1>3
<1>5. \A row1, row2 \in rows' : row1.id = row2.id => row1 = row2 BY <1>2
<1>6. IsFiniteSet(rows')
  <2>1. /\ f \in [found -> rows']
        /\ \A row \in rows' : \E id \in found : f[id] = row
    BY <1>2
  <2>2. f \in Surjection(found, rows') BY <2>1 DEF Surjection
  <2> HIDE DEF f, found
  <2> QED BY <1>1, <2>2, FS_Surjection
<1>7. UNCHANGED <<online, mem, saved, offers, made, expired>>
      /\ search' = "found"
  BY DEF FindExpired
<1>8. MarketTypeOK' BY <1>7 DEF MarketIInv, MarketTypeOK
<1> QED BY <1>4, <1>5, <1>6, <1>7, <1>8 DEF MarketIInv

(* A crash takes away what was not saved, and nothing if all was.          *)
LEMMA Crashed ==
  ASSUME MarketIInv, Crash
  PROVE  /\ MarketIInv' /\ made' = made
         /\ (\A t \in online : mem[t] = saved[t]) => Kept(0)
<1>1. /\ online' = {} /\ mem' = saved /\ search' = "none" /\ rows' = {}
      /\ UNCHANGED <<saved, offers, made, expired>>
  BY DEF Crash
<1>2. MarketTypeOK' BY <1>1 DEF MarketIInv, MarketTypeOK
<1>3. MarketIInv' BY <1>1, <1>2, FS_EmptySet DEF MarketIInv
<1>4. ASSUME \A t \in online : mem[t] = saved[t] PROVE Kept(0)
  <2>1. mem \in [Trader -> Assets] /\ saved \in [Trader -> Assets]
    BY DEF MarketIInv, MarketTypeOK
  <2>2. \A t \in Trader : mem[t] = saved[t] BY <1>4 DEF MarketIInv
  <2>3. mem' = mem BY <1>1, <2>1, <2>2
  <2> QED BY <1>1, <2>3, Unpaid
<1> QED BY <1>1, <1>3, <1>4

LEMMA MarketStep ==
  ASSUME MarketIInv, [MarketNext]_marketVars
  PROVE  /\ MarketIInv'
         /\ \/ /\ TotalItems' = TotalItems
               /\ TotalMoney' = TotalMoney - (IF made' = made THEN 0 ELSE Fee)
            \/ processExpiredOffers /\ Stale
            \/ Crash /\ \E t \in online : mem[t] # saved[t]
<1> DEFINE Balanced ==
             /\ TotalItems' = TotalItems
             /\ TotalMoney' = TotalMoney - (IF made' = made THEN 0 ELSE Fee)
<1>1. ASSUME Kept(0), made' = made PROVE Balanced BY <1>1 DEF Kept
<1>2. ASSUME UNCHANGED <<mem, offers, made>> PROVE Balanced
  BY <1>1, <1>2, Unpaid
<1> HIDE DEF Balanced
<1>3. ASSUME NEW t \in Trader,
             LogIn(t) \/ SaveTrader(t) \/ LogOut(t)
      PROVE  MarketIInv' /\ Balanced
  <2>1. /\ online' \subseteq Trader /\ saved' \in [Trader -> Assets]
        /\ \A u \in Trader \ online' : mem[u] = saved'[u]
        /\ UNCHANGED <<mem, offers, made, expired, search, rows>>
    <3>1. CASE LogIn(t)
      BY <3>1 DEF LogIn, MarketIInv, MarketTypeOK
    <3>2. CASE SaveTrader(t)
      BY <3>2 DEF SaveTrader, MarketIInv, MarketTypeOK
    <3>3. CASE LogOut(t)
      BY <3>3 DEF LogOut, MarketIInv, MarketTypeOK
    <3> QED BY <1>3, <3>1, <3>2, <3>3
  <2>2. MarketTypeOK' BY <2>1 DEF MarketIInv, MarketTypeOK
  <2>3. MarketIInv' BY <2>1, <2>2 DEF MarketIInv
  <2> QED BY <1>2, <2>1, <2>3
<1>4. ASSUME NEW t \in Trader, NEW amount \in 1 .. Items, NEW price \in Price,
             NEW sale \in BOOLEAN,
             playerCreateMarketOffer(t, sale, amount, price)
      PROVE  MarketIInv' /\ Balanced
  BY <1>4, Posted DEF Kept, Balanced
<1>5. ASSUME NEW t \in Trader, NEW id \in OfferId,
             playerCancelMarketOffer(t, id)
      PROVE  MarketIInv' /\ Balanced
  BY <1>1, <1>5, Cancelled
<1>6. ASSUME NEW t \in Trader, NEW id \in OfferId, NEW amount \in 1 .. Items,
             playerAcceptMarketOffer(t, id, amount)
      PROVE  MarketIInv' /\ Balanced
  BY <1>1, <1>6, Accepted
<1>7. ASSUME NEW id \in OfferId, Expire(id) PROVE MarketIInv' /\ Balanced
  <2>1. /\ expired' \subseteq OfferId
        /\ UNCHANGED <<online, mem, saved, offers, made, search, rows>>
    BY <1>7 DEF Expire, MarketIInv, MarketTypeOK
  <2>2. MarketTypeOK' BY <2>1 DEF MarketIInv, MarketTypeOK
  <2> QED BY <1>2, <2>1, <2>2 DEF MarketIInv
<1>8. CASE checkExpiredOffers
  <2>1. /\ search = "none" /\ search' = "queued"
        /\ UNCHANGED <<online, mem, saved, offers, made, expired, rows>>
    BY <1>8 DEF checkExpiredOffers
  <2>2. MarketTypeOK' BY <2>1 DEF MarketIInv, MarketTypeOK
  <2>3. MarketIInv' BY <2>1, <2>2 DEF MarketIInv
  <2> QED BY <1>2, <2>1, <2>3 DEF Balanced
<1>9. CASE FindExpired
  <2>1. UNCHANGED <<mem, offers, made>> BY <1>9 DEF FindExpired
  <2> QED BY <1>2, <1>9, <2>1, Found DEF Balanced
<1>10. CASE processExpiredOffers
  BY <1>1, <1>10, ExpiredKept DEF Balanced
<1>11. CASE Crash
  BY <1>1, <1>11, Crashed DEF Balanced
<1>12. CASE UNCHANGED marketVars
  <2>1. UNCHANGED <<online, mem, saved, offers, made, expired, search, rows>>
    BY <1>12 DEF marketVars
  <2>2. MarketTypeOK' BY <2>1 DEF MarketIInv, MarketTypeOK
  <2>3. MarketIInv' BY <2>1, <2>2 DEF MarketIInv
  <2> QED BY <1>2, <2>1, <2>3 DEF Balanced
<1> QED
  BY <1>3, <1>4, <1>5, <1>6, <1>7, <1>8, <1>9, <1>10, <1>11, <1>12
  DEF MarketNext, Balanced

(* No request and no expiry makes or loses items or money, but for the     *)
(* fee, an offer of which a part was accepted after the query for expired  *)
(* ones ran, and a crash before all were saved (iomarket.cpp, the market   *)
(* requests of game.cpp); for every number of traders and offers, every    *)
(* price and every amount.                                                 *)
THEOREM NothingIsMadeOrLostHolds == MarketSpec => NothingIsMadeOrLost
<1>1. MarketIInv => MarketTypeOK BY DEF MarketIInv
<1>2. MarketIInv /\ [MarketNext]_marketVars => MarketIInv' BY MarketStep
<1>3. MarketIInv /\ [MarketNext]_marketVars =>
        [\/ /\ TotalItems' = TotalItems
            /\ TotalMoney' = TotalMoney - (IF made' = made THEN 0 ELSE Fee)
         \/ processExpiredOffers /\ Stale
         \/ Crash /\ \E t \in online : mem[t] # saved[t]
        ]_marketVars
  BY MarketStep
<1> QED BY <1>1, <1>2, <1>3, MarketInitIInv, PTL
        DEF MarketSpec, NothingIsMadeOrLost

-----------------------------------------------------------------------------
(* Monsters: what a handler makes of the world, which the next one starts  *)
(* from.                                                                   *)

WorldType ==
  [place : [Creature -> Place \cup {Null}],
   health : [Monster -> {0, 1}],
   master : [Monster -> Creature \cup {Null}],
   targets : [Monster -> SUBSET Creature],
   creatureCheck : [Creature -> BOOLEAN],
   inVector : [Creature -> BOOLEAN]]

(* m has p in its sight, and notices it.                                   *)
Faces(w, m, p) ==
  /\ w.place[m] # Null /\ w.place[m] = w.place[p]
  /\ w.health[m] > 0 /\ w.master[m] # p
  /\ SendsHome => w.place[m] # Home

Knows(w, m, p) == Faces(w, m, p) => p \in w.targets[m]

Notices(w, m, p) ==
  Faces(w, m, p) => p \in w.targets[m] /\ w.creatureCheck[m]

(* The dead are checked, the removed are not, and what is checked is in a  *)
(* list; the master of a removed one is gone, too, and one that is in no   *)
(* list any more is as good as new.                                        *)
WorldBase(w) ==
  /\ w \in WorldType
  /\ \A m \in Monster :
       /\ w.place[m] # Null /\ w.health[m] = 0 => w.creatureCheck[m]
       /\ w.place[m] = Null => ~ w.creatureCheck[m]
       /\ w.creatureCheck[m] => w.inVector[m]
       /\ w.place[m] = Null /\ w.master[m] # Null =>
            w.place[w.master[m]] = Null
       /\ w.place[m] = Null /\ ~ w.inVector[m] => w.health[m] = 1

WorldSound(w) ==
  WorldBase(w) /\ \A m \in Monster, p \in Person : Notices(w, m, p)

(* Two worlds that differ in nothing else but who is known and awake.      *)
SameBodies(v, w) ==
  v.place = w.place /\ v.health = w.health /\ v.master = w.master

LEMMA SetIdleType ==
  ASSUME NEW w \in WorldType, NEW ms \in SUBSET Monster, NEW awake
  PROVE  setIdle(w, ms, awake) \in WorldType
<1> DEFINE live == {m \in ms : w.health[m] > 0 /\ w.place[m] # Null}
           woken == live \cap awake
           asleep == live \ awake
           t == [m \in Monster |-> IF m \in asleep THEN {} ELSE w.targets[m]]
           k == [c \in Creature |->
                     IF c \in woken THEN TRUE
                     ELSE IF c \in asleep
                          THEN w.creatureCheck[c] /\ ~ w.inVector[c]
                     ELSE w.creatureCheck[c]]
           v == [c \in Creature |-> w.inVector[c] \/ c \in woken]
<1>1. setIdle(w, ms, awake) =
        [w EXCEPT !.targets = t, !.creatureCheck = k, !.inVector = v]
  BY DEF setIdle, WorldType
<1>2. t \in [Monster -> SUBSET Creature] BY DEF WorldType
<1>3. k \in [Creature -> BOOLEAN] BY Zenon DEF WorldType
<1>4. v \in [Creature -> BOOLEAN] BY DEF WorldType
<1> HIDE DEF t, k, v
<1> QED BY <1>1, <1>2, <1>3, <1>4 DEF WorldType

Alive(w, m) == w.health[m] > 0 /\ w.place[m] # Null

(* What setIdle makes of a monster.                                        *)
IdleOrNot(r, w, m, ms, awake) ==
  /\ m \in ms /\ Alive(w, m) /\ m \in awake =>
       /\ r.creatureCheck[m] /\ r.inVector[m]
       /\ r.targets[m] = w.targets[m]
  /\ m \in ms /\ Alive(w, m) /\ m \notin awake =>
       /\ r.creatureCheck[m] <=> w.creatureCheck[m] /\ ~ w.inVector[m]
       /\ r.inVector[m] = w.inVector[m]
       /\ r.targets[m] = {}
  /\ ~ (m \in ms /\ Alive(w, m)) =>
       /\ r.creatureCheck[m] = w.creatureCheck[m]
       /\ r.inVector[m] = w.inVector[m]
       /\ r.targets[m] = w.targets[m]

LEMMA SetIdleIs ==
  ASSUME NEW w \in WorldType, NEW ms \in SUBSET Monster, NEW awake,
         NEW r, r = setIdle(w, ms, awake)
  PROVE  /\ r \in WorldType /\ SameBodies(r, w)
         /\ \A m \in Monster : IdleOrNot(r, w, m, ms, awake)
<1>1. r \in WorldType BY SetIdleType
<1>2. SameBodies(r, w) BY DEF SameBodies, setIdle, WorldType
<1>3. ASSUME NEW m \in Monster PROVE IdleOrNot(r, w, m, ms, awake)
  BY DEF setIdle, WorldType, Creature, IdleOrNot, Alive
<1> QED BY <1>1, <1>2, <1>3

(* Nobody turns to what is dead or was removed.                            *)
LEMMA SetIdleBase ==
  ASSUME NEW w, WorldBase(w), NEW ms \in SUBSET Monster, NEW awake,
         NEW r, r = setIdle(w, ms, awake)
  PROVE  WorldBase(r)
<1>1. w \in WorldType BY DEF WorldBase
<1>2. /\ r \in WorldType /\ SameBodies(r, w)
      /\ \A m \in Monster : IdleOrNot(r, w, m, ms, awake)
  BY <1>1, SetIdleIs
<1>3. ASSUME NEW m \in Monster
      PROVE  /\ r.place[m] # Null /\ r.health[m] = 0 => r.creatureCheck[m]
             /\ r.place[m] = Null => ~ r.creatureCheck[m]
             /\ r.creatureCheck[m] => r.inVector[m]
             /\ r.place[m] = Null /\ ~ r.inVector[m] => r.health[m] = 1
  <2>1. w.health[m] \in {0, 1} BY <1>1 DEF WorldType
  <2>2. /\ w.place[m] # Null /\ w.health[m] = 0 => w.creatureCheck[m]
        /\ w.place[m] = Null => ~ w.creatureCheck[m]
        /\ w.creatureCheck[m] => w.inVector[m]
        /\ w.place[m] = Null /\ ~ w.inVector[m] => w.health[m] = 1
    BY DEF WorldBase
  <2>3. IdleOrNot(r, w, m, ms, awake) BY <1>2
  <2>4. r.place = w.place /\ r.health = w.health BY <1>2 DEF SameBodies
  <2>5. CASE m \in ms /\ Alive(w, m) /\ m \in awake
    BY <2>3, <2>4, <2>5 DEF IdleOrNot, Alive
  <2>6. CASE m \in ms /\ Alive(w, m) /\ m \notin awake
    BY <2>2, <2>3, <2>4, <2>6 DEF IdleOrNot, Alive
  <2>7. CASE ~ (m \in ms /\ Alive(w, m))
    BY <2>2, <2>3, <2>4, <2>7 DEF IdleOrNot
  <2> QED BY <2>5, <2>6, <2>7
<1> QED BY <1>2, <1>3 DEF WorldBase, SameBodies

(* updateIdleStatus wakes the monsters that know somebody, and takes       *)
(* nobody from a list.                                                     *)
LEMMA UpdateIdleIs ==
  ASSUME NEW w, WorldBase(w), NEW ms \in SUBSET Monster,
         NEW r, r = updateIdleStatus(w, ms)
  PROVE  /\ WorldBase(r) /\ SameBodies(r, w) /\ r.targets = w.targets
         /\ \A m \in Monster, p \in Person :
              Knows(w, m, p) /\ (m \in ms \/ Notices(w, m, p))
                => Notices(r, m, p)
<1> DEFINE awake == {m \in ms : \/ m \in burning
                                \/ w.master[m] # Null
                                \/ w.targets[m] # {}}
<1>1. w \in WorldType BY DEF WorldBase
<1>2. r = setIdle(w, ms, awake) BY DEF updateIdleStatus
<1>3. \A m \in ms : m \notin awake => w.targets[m] = {} OBVIOUS
<1>4. \A m \in ms : w.targets[m] # {} => m \in awake OBVIOUS
<1> HIDE DEF awake
<1>5. WorldBase(r) BY <1>2, SetIdleBase
<1>6. /\ r \in WorldType /\ SameBodies(r, w)
      /\ \A m \in Monster : IdleOrNot(r, w, m, ms, awake)
  BY <1>1, <1>2, SetIdleIs
<1>7. \A m \in Monster : r.targets[m] = w.targets[m]
  BY <1>3, <1>6 DEF IdleOrNot
<1>8. r.targets = w.targets BY <1>1, <1>6, <1>7 DEF WorldType
<1>9. ASSUME NEW m \in Monster, NEW p \in Person,
             Knows(w, m, p), m \in ms \/ Notices(w, m, p), Faces(r, m, p)
      PROVE  p \in r.targets[m] /\ r.creatureCheck[m]
  <2>1. Faces(w, m, p) BY <1>6, <1>9 DEF Faces, SameBodies
  <2>2. p \in w.targets[m] BY <1>9, <2>1 DEF Knows
  <2>3. Alive(w, m) BY <2>1 DEF Faces, Alive
  <2>4. CASE m \in ms
    <3>1. m \in awake BY <1>4, <2>2, <2>4
    <3> QED BY <1>6, <1>8, <2>2, <2>3, <2>4, <3>1 DEF IdleOrNot
  <2>5. CASE m \notin ms
    BY <1>6, <1>8, <1>9, <2>1, <2>2, <2>5 DEF IdleOrNot, Notices
  <2> QED BY <2>4, <2>5
<1> QED BY <1>5, <1>6, <1>8, <1>9 DEF Notices

LEMMA Opponents ==
  ASSUME NEW w \in WorldType, NEW m \in Monster, NEW p \in Person
  PROVE  isOpponent(w, m, p) <=> w.master[m] # p
BY DEF isOpponent

LEMMA UpdateTargetsIs ==
  ASSUME NEW w, WorldBase(w), NEW ms \in SUBSET Monster,
         NEW r, r = updateTargetList(w, ms)
  PROVE  /\ WorldBase(r) /\ SameBodies(r, w)
         /\ r.creatureCheck = w.creatureCheck
         /\ \A m \in Monster \ ms : r.targets[m] = w.targets[m]
         /\ \A m \in ms, p \in Person : Knows(r, m, p)
<1> DEFINE seen(m) ==
             {c \in w.targets[m] : (c \in Monster => w.health[c] > 0)
                                   /\ w.place[m] = w.place[c]}
             \cup {c \in Creature \ {m} : Sees(w, m, c)
                                          /\ isOpponent(w, m, c)}
           t == [m \in Monster |-> IF m \in ms THEN seen(m) ELSE w.targets[m]]
<1>1. w \in WorldType BY DEF WorldBase
<1>2. r = [w EXCEPT !.targets = t] BY <1>1 DEF updateTargetList, WorldType
<1>3. \A m \in Monster : seen(m) \in SUBSET Creature BY <1>1 DEF WorldType
<1>4. ASSUME NEW m \in Monster, NEW p \in Person, Sees(w, m, p),
             w.master[m] # p
      PROVE  p \in seen(m)
  <2>1. isOpponent(w, m, p) BY <1>1, <1>4, Opponents
  <2>2. p \in Creature \ {m} BY MonstersAssumption DEF Creature
  <2> QED BY <1>4, <2>1, <2>2
<1> HIDE DEF seen
<1>5. t \in [Monster -> SUBSET Creature] BY <1>1, <1>3 DEF WorldType
<1>6. /\ \A m \in ms : t[m] = seen(m)
      /\ \A m \in Monster \ ms : t[m] = w.targets[m]
  OBVIOUS
<1> HIDE DEF t
<1>7. /\ r \in WorldType /\ SameBodies(r, w) /\ r.targets = t
      /\ r.creatureCheck = w.creatureCheck /\ r.inVector = w.inVector
  BY <1>1, <1>2, <1>5 DEF WorldType, SameBodies
<1>8. WorldBase(r) BY <1>7 DEF WorldBase, SameBodies
<1>9. ASSUME NEW m \in ms, NEW p \in Person, Faces(r, m, p)
      PROVE  p \in r.targets[m]
  BY <1>4, <1>6, <1>7, <1>9 DEF Faces, SameBodies, Sees
<1> QED BY <1>6, <1>7, <1>8, <1>9 DEF Knows

(* Who looks around notices everybody.                                     *)
LEMMA LookAroundIs ==
  ASSUME NEW w, WorldBase(w), NEW ms \in SUBSET Monster,
         NEW r, r = lookAround(w, ms)
  PROVE  /\ WorldBase(r) /\ SameBodies(r, w)
         /\ \A m \in Monster, p \in Person :
              m \in ms \/ Notices(w, m, p) => Notices(r, m, p)
<1> DEFINE v == updateTargetList(w, ms)
<1>1. /\ WorldBase(v) /\ SameBodies(v, w) /\ v.creatureCheck = w.creatureCheck
      /\ \A m \in Monster \ ms : v.targets[m] = w.targets[m]
      /\ \A m \in ms, p \in Person : Knows(v, m, p)
  <2> HIDE DEF v
  <2>1. v = updateTargetList(w, ms) BY DEF v
  <2> QED BY <2>1, UpdateTargetsIs
<1>2. r = updateIdleStatus(v, ms) BY DEF lookAround
<1> HIDE DEF v
<1>3. /\ WorldBase(r) /\ SameBodies(r, v)
      /\ \A m \in Monster, p \in Person :
           Knows(v, m, p) /\ (m \in ms \/ Notices(v, m, p))
             => Notices(r, m, p)
  BY <1>1, <1>2, UpdateIdleIs
<1>4. ASSUME NEW m \in Monster \ ms, NEW p \in Person, Notices(w, m, p)
      PROVE  Knows(v, m, p) /\ Notices(v, m, p)
  BY <1>1, <1>4 DEF Notices, Knows, Faces, SameBodies
<1> QED BY <1>1, <1>3, <1>4 DEF SameBodies

LEMMA LookAroundSound ==
  ASSUME NEW w, WorldSound(w), NEW ms \in SUBSET Monster
  PROVE  WorldSound(lookAround(w, ms)) /\ SameBodies(lookAround(w, ms), w)
BY LookAroundIs DEF WorldSound

(* Whoever faces nobody may sleep.                                         *)
LEMMA SetIdleSound ==
  ASSUME NEW w, WorldSound(w), NEW ms \in SUBSET Monster, NEW awake,
         \A m \in ms \ awake, p \in Person : ~ Faces(w, m, p)
  PROVE  WorldSound(setIdle(w, ms, awake))
<1> DEFINE r == setIdle(w, ms, awake)
<1>1. w \in WorldType /\ WorldBase(w) BY DEF WorldSound, WorldBase
<1>2. /\ SameBodies(r, w) /\ WorldBase(r)
      /\ \A m \in Monster : IdleOrNot(r, w, m, ms, awake)
  <2>1. r = setIdle(w, ms, awake) OBVIOUS
  <2> HIDE DEF r
  <2> QED BY <1>1, <2>1, SetIdleIs, SetIdleBase
<1> HIDE DEF r
<1>3. ASSUME NEW m \in Monster, NEW p \in Person, Faces(r, m, p)
      PROVE  p \in r.targets[m] /\ r.creatureCheck[m]
  <2>1. Faces(w, m, p) BY <1>2, <1>3 DEF Faces, SameBodies
  <2>2. p \in w.targets[m] /\ w.creatureCheck[m]
    BY <2>1 DEF WorldSound, Notices
  <2>3. ~ (m \in ms /\ m \notin awake) BY <2>1
  <2>4. IdleOrNot(r, w, m, ms, awake) BY <1>2
  <2> QED BY <2>2, <2>3, <2>4 DEF IdleOrNot
<1>4. WorldSound(r) BY <1>2, <1>3 DEF WorldSound, Notices
<1> QED BY <1>4 DEF r

LEMMA UpdateIdleSound ==
  ASSUME NEW w, WorldSound(w), NEW ms \in SUBSET Monster
  PROVE  WorldSound(updateIdleStatus(w, ms))
         /\ SameBodies(updateIdleStatus(w, ms), w)
BY UpdateIdleIs DEF WorldSound, Notices, Knows

(* Whoever moves leaves the sight of some monsters and enters that of      *)
(* others; a monster that moves looks around.                              *)
LEMMA MoveSound ==
  ASSUME NEW w, WorldSound(w), NEW c \in Creature, NEW to \in Place,
         w.place[c] # Null, NEW r, r = moveCreature(w, c, to)
  PROVE  /\ WorldSound(r) /\ r.place = [w.place EXCEPT ![c] = to]
         /\ r.health = w.health /\ r.master = w.master
<1> DEFINE moved == [w EXCEPT !.place[c] = to]
           near == (AtPlace(w, w.place[c]) \cup AtPlace(w, to)) \ {c}
           t == [m \in Monster |->
                  IF m \notin near \/ ~ isOpponent(moved, m, c)
                  THEN moved.targets[m]
                  ELSE IF Sees(moved, m, c) THEN moved.targets[m] \cup {c}
                  ELSE moved.targets[m] \ {c}]
           entered == [moved EXCEPT !.targets = t]
           told == updateIdleStatus(entered, near)
<1>1. r = IF c \in Monster THEN lookAround(told, {c}) ELSE told
  BY DEF moveCreature
<1>2. w \in WorldType /\ WorldBase(w) BY DEF WorldSound, WorldBase
<1>3. to # Null BY MonstersAssumption
<1>4. /\ moved \in WorldType /\ moved.place = [w.place EXCEPT ![c] = to]
      /\ moved.health = w.health /\ moved.master = w.master
      /\ moved.targets = w.targets /\ moved.creatureCheck = w.creatureCheck
      /\ moved.inVector = w.inVector
  BY <1>2 DEF WorldType
<1>5. near \in SUBSET Monster BY DEF AtPlace
<1>6. \A m \in Monster : m # c /\ (w.place[m] = w.place[c] \/ w.place[m] = to)
        => m \in near
  BY DEF AtPlace
<1> HIDE DEF moved, near
<1>7. t \in [Monster -> SUBSET Creature] BY <1>2, <1>4 DEF WorldType
<1>8. \A m \in Monster :
        /\ t[m] \ {c} = w.targets[m] \ {c}
        /\ m \notin near => t[m] = w.targets[m]
        /\ m \in near /\ isOpponent(moved, m, c) /\ Sees(moved, m, c)
             => c \in t[m]
  BY <1>4
<1> HIDE DEF t
<1>9. /\ entered \in WorldType /\ entered.place = moved.place
      /\ entered.health = w.health /\ entered.master = w.master
      /\ entered.targets = t /\ entered.creatureCheck = w.creatureCheck
      /\ entered.inVector = w.inVector
  BY <1>4, <1>7 DEF WorldType
<1> HIDE DEF entered
<1>10. entered.place[c] = to
       /\ \A x \in Creature \ {c} : entered.place[x] = w.place[x]
  BY <1>2, <1>4, <1>9 DEF WorldType
<1>11. WorldBase(entered)
  <2> SUFFICES ASSUME NEW m \in Monster
               PROVE  /\ entered.place[m] # Null /\ entered.health[m] = 0 =>
                           entered.creatureCheck[m]
                      /\ entered.place[m] = Null => ~ entered.creatureCheck[m]
                      /\ entered.creatureCheck[m] => entered.inVector[m]
                      /\ entered.place[m] = Null /\ entered.master[m] # Null =>
                           entered.place[entered.master[m]] = Null
                      /\ entered.place[m] = Null /\ ~ entered.inVector[m] =>
                           entered.health[m] = 1
    BY <1>9 DEF WorldBase
  <2>1. m \in Creature BY DEF Creature
  <2>2. w.master[m] \in Creature \cup {Null} BY <1>2 DEF WorldType
  <2>3. CASE m = c BY <1>2, <1>3, <1>9, <1>10, <2>3 DEF WorldBase
  <2>4. CASE m # c
    <3>1. entered.place[m] = w.place[m] BY <1>10, <2>1, <2>4
    <3>2. ASSUME w.place[m] = Null, w.master[m] # Null
          PROVE  entered.place[w.master[m]] = Null
      <4>1. w.place[w.master[m]] = Null BY <1>2, <3>2 DEF WorldBase
      <4>2. w.master[m] \in Creature \ {c} BY <2>2, <3>2, <4>1
      <4> QED BY <1>10, <4>1, <4>2
    <3> QED BY <1>2, <1>9, <3>1, <3>2 DEF WorldBase
  <2> QED BY <2>3, <2>4
<1>12. /\ WorldBase(told) /\ SameBodies(told, entered)
       /\ \A m \in Monster, p \in Person :
            Knows(entered, m, p) /\ (m \in near \/ Notices(entered, m, p))
              => Notices(told, m, p)
  <2>1. told = updateIdleStatus(entered, near) OBVIOUS
  <2> HIDE DEF told
  <2> QED BY <1>5, <1>11, <2>1, UpdateIdleIs
<1> HIDE DEF told
<1>13. ASSUME NEW m \in Monster \ {c}, NEW p \in Person, Faces(entered, m, p)
       PROVE  /\ p \in entered.targets[m]
              /\ m \in near \/ w.creatureCheck[m]
  <2>1. entered.place[m] = w.place[m] BY <1>10 DEF Creature
  <2>2. CASE p = c
    <3>1. w.place[m] = to /\ m \in near
      BY <1>6, <1>10, <1>13, <2>1, <2>2 DEF Faces
    <3>2. moved.master[m] # c BY <1>4, <1>9, <1>13, <2>2 DEF Faces
    <3>3. isOpponent(moved, m, c) BY <1>4, <2>2, <3>2, Opponents
    <3>4. Sees(moved, m, c) BY <1>9, <1>13, <2>2 DEF Faces, Sees
    <3> QED BY <1>8, <1>9, <2>2, <3>1, <3>3, <3>4
  <2>3. CASE p # c
    <3>1. entered.place[p] = w.place[p] BY <1>10, <2>3 DEF Creature
    <3>2. Faces(w, m, p) BY <1>9, <1>13, <2>1, <3>1 DEF Faces
    <3>3. p \in w.targets[m] /\ w.creatureCheck[m]
      BY <3>2 DEF WorldSound, Notices
    <3> QED BY <1>8, <1>9, <2>3, <3>3
  <2> QED BY <2>2, <2>3
<1>14. \A m \in Monster \ {c}, p \in Person : Notices(told, m, p)
  BY <1>9, <1>12, <1>13 DEF Knows, Notices
<1>15. CASE c \in Monster
  <2>1. r = lookAround(told, {c}) BY <1>1, <1>15
  <2>2. /\ WorldBase(r) /\ SameBodies(r, told)
        /\ \A m \in Monster, p \in Person :
             m \in {c} \/ Notices(told, m, p) => Notices(r, m, p)
    BY <1>12, <1>15, <2>1, LookAroundIs
  <2>3. \A m \in Monster, p \in Person : Notices(r, m, p) BY <1>14, <2>2
  <2> QED BY <1>4, <1>9, <1>12, <2>2, <2>3 DEF WorldSound, SameBodies
<1>16. CASE c \notin Monster
  BY <1>1, <1>4, <1>9, <1>12, <1>14, <1>16 DEF WorldSound, SameBodies
<1> QED BY <1>15, <1>16

(* What loses its health is woken first.                                   *)
LEMMA HealthSound ==
  ASSUME NEW w, WorldSound(w), NEW ms \in SUBSET Monster,
         \A m \in ms : w.place[m] # Null,
         NEW r, r = changeHealth(w, ms)
  PROVE  /\ WorldSound(r) /\ r.place = w.place /\ r.master = w.master
         /\ \A m \in ms : r.health[m] = 0
         /\ \A m \in Monster : w.health[m] = 0 => r.health[m] = 0
<1> DEFINE v == setIdle(w, ms, ms)
           h == [m \in Monster |-> IF m \in ms THEN 0 ELSE v.health[m]]
<1>1. w \in WorldType /\ WorldBase(w) BY DEF WorldSound, WorldBase
<1>2. r = [v EXCEPT !.health = h] BY DEF changeHealth
<1>3. /\ v \in WorldType /\ SameBodies(v, w) /\ WorldBase(v)
      /\ \A m \in Monster : IdleOrNot(v, w, m, ms, ms)
  <2> HIDE DEF v
  <2>1. v = setIdle(w, ms, ms) BY DEF v
  <2> QED BY <1>1, <2>1, SetIdleIs, SetIdleBase
<1> HIDE DEF v
<1>4. h \in [Monster -> {0, 1}] BY <1>3 DEF WorldType
<1>5. /\ \A m \in ms : h[m] = 0
      /\ \A m \in Monster \ ms : h[m] = v.health[m]
  OBVIOUS
<1> HIDE DEF h
<1>6. /\ r \in WorldType /\ r.place = w.place /\ r.master = w.master
      /\ r.health = h /\ r.targets = v.targets
      /\ r.creatureCheck = v.creatureCheck /\ r.inVector = v.inVector
  BY <1>2, <1>3, <1>4 DEF WorldType, SameBodies
<1>7. ASSUME NEW m \in Monster
      PROVE  r.place[m] # Null /\ r.health[m] = 0 => r.creatureCheck[m]
  <2>1. w.health[m] \in {0, 1} BY <1>1 DEF WorldType
  <2>2. w.place[m] # Null /\ w.health[m] > 0 /\ m \in ms =>
          v.creatureCheck[m]
    BY <1>3 DEF IdleOrNot, Alive
  <2> QED BY <1>3, <1>5, <1>6, <2>1, <2>2 DEF WorldBase, SameBodies
<1>8. WorldBase(r) BY <1>3, <1>5, <1>6, <1>7 DEF WorldBase, SameBodies
<1>9. ASSUME NEW m \in Monster, NEW p \in Person, Faces(r, m, p)
      PROVE  p \in r.targets[m] /\ r.creatureCheck[m]
  <2>1. m \notin ms BY <1>5, <1>6, <1>9 DEF Faces
  <2>2. Faces(w, m, p) BY <1>3, <1>5, <1>6, <1>9, <2>1 DEF Faces, SameBodies
  <2>3. IdleOrNot(v, w, m, ms, ms) BY <1>3
  <2> QED BY <1>6, <2>1, <2>2, <2>3 DEF WorldSound, Notices, IdleOrNot
<1> QED BY <1>3, <1>5, <1>6, <1>8, <1>9 DEF WorldSound, Notices, SameBodies

(* Who goes is forgotten, and is no longer checked.                        *)
LEMMA RemoveOneSound ==
  ASSUME NEW w, WorldSound(w), NEW c \in Creature, NEW told,
         NEW r, r = removeOne(w, c, told)
  PROVE  WorldSound(r)
<1> DEFINE free == c \in Monster /\ w.master[c] # Null
                   /\ w.place[w.master[c]] # Null
           ma == IF free THEN [w.master EXCEPT ![c] = Null] ELSE w.master
           left == [w EXCEPT !.master = ma]
           loses(m) == /\ m # c /\ Sees(w, m, c)
                       /\ isOpponent(IF m \in told THEN w ELSE left, m, c)
           t == [m \in Monster |-> IF loses(m) THEN left.targets[m] \ {c}
                                   ELSE left.targets[m]]
           after == [left EXCEPT !.targets = t]
           quiet == {m \in Monster : loses(m) /\ after.targets[m] = {}}
           calm == updateIdleStatus(after, quiet)
           gone == setIdle(calm, {c} \cap Monster, {})
<1>1. onRemoveCreature(w, c, told) = gone BY DEF onRemoveCreature
<1>2. r = [gone EXCEPT !.place[c] = Null,
                       !.creatureCheck[c] = @ /\ ~ gone.inVector[c]]
  <2> HIDE DEF gone
  <2> QED BY <1>1 DEF removeOne
<1>3. w \in WorldType /\ WorldBase(w) BY DEF WorldSound, WorldBase
<1>4. ma \in [Monster -> Creature \cup {Null}] BY <1>3 DEF WorldType
<1>5. /\ \A m \in Monster \ {c} : ma[m] = w.master[m]
      /\ c \in Monster => \/ ma[c] = Null
                          \/ ma[c] = w.master[c] /\ w.place[w.master[c]] = Null
  BY <1>3 DEF WorldType
<1> HIDE DEF ma
<1>6. left.targets = w.targets BY <1>3 DEF WorldType
<1>7. t \in [Monster -> SUBSET Creature] BY <1>3, <1>6 DEF WorldType
<1>8. \A m \in Monster : t[m] = w.targets[m] \/ t[m] = w.targets[m] \ {c}
  BY <1>6
<1> HIDE DEF t
<1>9. /\ after \in WorldType /\ after.place = w.place
      /\ after.health = w.health /\ after.master = ma
      /\ after.targets = t /\ after.creatureCheck = w.creatureCheck
      /\ after.inVector = w.inVector
  BY <1>3, <1>4, <1>7 DEF WorldType
<1> HIDE DEF after
<1>10. quiet \in SUBSET Monster OBVIOUS
<1> HIDE DEF quiet
<1>11. WorldBase(after)
  <2>1. ASSUME NEW m \in Monster, w.place[m] = Null, ma[m] # Null
        PROVE  w.place[ma[m]] = Null
    BY <1>3, <1>5, <2>1 DEF WorldBase
  <2> QED BY <1>3, <1>9, <2>1 DEF WorldBase
<1>12. /\ WorldBase(calm) /\ SameBodies(calm, after)
       /\ \A m \in Monster, p \in Person :
            Knows(after, m, p) /\ (m \in quiet \/ Notices(after, m, p))
              => Notices(calm, m, p)
  <2>1. calm = updateIdleStatus(after, quiet) OBVIOUS
  <2> HIDE DEF calm
  <2> QED BY <1>10, <1>11, <2>1, UpdateIdleIs
<1>13. calm \in WorldType BY <1>12 DEF WorldBase
<1> HIDE DEF calm
<1>14. /\ gone \in WorldType /\ SameBodies(gone, calm) /\ WorldBase(gone)
       /\ \A m \in Monster : IdleOrNot(gone, calm, m, {c} \cap Monster, {})
  <2>1. gone = setIdle(calm, {c} \cap Monster, {}) OBVIOUS
  <2>2. {c} \cap Monster \in SUBSET Monster OBVIOUS
  <2> HIDE DEF gone
  <2> QED BY <1>12, <1>13, <2>1, <2>2, SetIdleIs, SetIdleBase
<1> HIDE DEF gone
<1> DEFINE k == [gone.creatureCheck EXCEPT ![c] = @ /\ ~ gone.inVector[c]]
<1>15. r = [gone EXCEPT !.place = [@ EXCEPT ![c] = Null], !.creatureCheck = k]
  BY <1>2, <1>14 DEF WorldType
<1>16. k \in [Creature -> BOOLEAN] BY <1>14, Zenon DEF WorldType
<1>17. /\ \A x \in Creature \ {c} : k[x] = gone.creatureCheck[x]
       /\ k[c] <=> gone.creatureCheck[c] /\ ~ gone.inVector[c]
  BY <1>14 DEF WorldType
<1> HIDE DEF k
<1> DEFINE pl == [w.place EXCEPT ![c] = Null]
<1>18. /\ r \in WorldType /\ r.place = pl
       /\ r.health = gone.health /\ r.master = gone.master
       /\ r.targets = gone.targets /\ r.creatureCheck = k
       /\ r.inVector = gone.inVector
  <2>1. gone.place = w.place BY <1>9, <1>12, <1>14 DEF SameBodies
  <2>2. pl \in [Creature -> Place \cup {Null}] BY <1>3 DEF WorldType
  <2>3. r = [gone EXCEPT !.place = pl, !.creatureCheck = k] BY <1>15, <2>1
  <2> HIDE DEF pl
  <2> QED BY <1>14, <1>16, <2>2, <2>3 DEF WorldType
<1>19. /\ r.place[c] = Null
       /\ \A x \in Creature \ {c} : r.place[x] = w.place[x]
  BY <1>3, <1>18 DEF WorldType
<1>20. /\ gone.place = w.place /\ gone.health = w.health /\ gone.master = ma
  BY <1>9, <1>12, <1>14 DEF SameBodies
<1>21. WorldBase(r)
  <2> SUFFICES ASSUME NEW m \in Monster
               PROVE  /\ r.place[m] # Null /\ r.health[m] = 0 =>
                           r.creatureCheck[m]
                      /\ r.place[m] = Null => ~ r.creatureCheck[m]
                      /\ r.creatureCheck[m] => r.inVector[m]
                      /\ r.place[m] = Null /\ r.master[m] # Null =>
                           r.place[r.master[m]] = Null
                      /\ r.place[m] = Null /\ ~ r.inVector[m] =>
                           r.health[m] = 1
    BY <1>18 DEF WorldBase
  <2>1. m \in Creature BY DEF Creature
  <2>2. ma[m] \in Creature \cup {Null} BY <1>4
  <2>3. CASE m = c
    <3>1. ~ k[c] BY <1>14, <1>17, <2>3 DEF WorldBase
    <3>2. ma[c] # Null => r.place[ma[c]] = Null
      BY <1>5, <1>19, <2>2, <2>3
    <3>3. ASSUME ~ gone.inVector[m] PROVE gone.health[m] = 1
      <4>1. gone.health[m] \in {0, 1} BY <1>14 DEF WorldType
      <4> QED BY <1>14, <3>3, <4>1 DEF WorldBase
    <3> QED BY <1>18, <1>19, <1>20, <2>3, <3>1, <3>2, <3>3
  <2>4. CASE m # c
    <3>1. r.place[m] = w.place[m] BY <1>19, <2>1, <2>4
    <3>2. k[m] = gone.creatureCheck[m] BY <1>17, <2>1, <2>4
    <3>3. ASSUME w.place[m] = Null, ma[m] # Null PROVE r.place[ma[m]] = Null
      <4>1. w.place[ma[m]] = Null BY <1>14, <1>20, <3>3 DEF WorldBase
      <4> QED BY <1>19, <2>2, <3>3, <4>1
    <3> QED BY <1>14, <1>18, <1>20, <3>1, <3>2, <3>3 DEF WorldBase
  <2> QED BY <2>3, <2>4
<1>22. ASSUME NEW m \in Monster, NEW p \in Person, Faces(r, m, p)
       PROVE  p \in r.targets[m] /\ r.creatureCheck[m]
  <2>1. m # c /\ p # c BY <1>19, <1>22 DEF Faces
  <2>2. r.place[m] = w.place[m] /\ r.place[p] = w.place[p]
    BY <1>19, <2>1 DEF Creature
  <2>3. ma[m] = w.master[m] BY <1>5, <2>1
  <2>4. Faces(w, m, p) BY <1>18, <1>20, <1>22, <2>2, <2>3 DEF Faces
  <2>5. p \in w.targets[m] /\ w.creatureCheck[m]
    BY <2>4 DEF WorldSound, Notices
  <2>6. p \in after.targets[m] /\ after.creatureCheck[m]
    BY <1>8, <1>9, <2>1, <2>5
  <2>7. Notices(calm, m, p) BY <1>12, <2>6 DEF Knows, Notices
  <2>8. Faces(calm, m, p)
    BY <1>9, <1>12, <1>18, <1>20, <1>22, <2>2 DEF Faces, SameBodies
  <2>9. p \in calm.targets[m] /\ calm.creatureCheck[m]
    BY <2>7, <2>8 DEF Notices
  <2>10. p \in gone.targets[m] /\ gone.creatureCheck[m]
    BY <1>14, <2>1, <2>9 DEF IdleOrNot
  <2> QED BY <1>17, <1>18, <2>1, <2>10 DEF Creature
<1> QED BY <1>21, <1>22 DEF WorldSound, Notices

(* One after another, the summons of a set go.                             *)
LEMMA DespawnSound ==
  ASSUME NEW w, WorldSound(w), NEW ms \in SUBSET Monster, NEW told
  PROVE  WorldSound(Despawn(w, ms, told))
<1> DEFINE fold(it) == it = [s \in SUBSET ms |->
             IF s = {} THEN w
             ELSE removeOne(it[s \ {Chosen(s)}], Chosen(s), told)]
           g == [x \in WorldType \X Creature |-> removeOne(x[1], x[2], told)]
           it == CHOOSE f : fold(f)
           S == {s \in SUBSET ms : WorldSound(it[s])}
<1>1. IsFiniteSet(ms) BY FS_Subset, MonstersAssumption
<1>2. \A s \in SUBSET ms : s # {} =>
        /\ Chosen(s) \in s /\ Chosen(s) \in Creature
        /\ s \ {Chosen(s)} \in SUBSET s /\ s \ {Chosen(s)} # s
        /\ s \ {Chosen(s)} \in SUBSET ms
  <2> SUFFICES ASSUME NEW s \in SUBSET ms, s # {} PROVE Chosen(s) \in s
    BY DEF Creature
  <2> QED BY DEF Chosen
<1>3. \E f : fold(f)
  <2>1. PICK f : Folds(f, g, w, ms)
    <3> HIDE DEF g
    <3> QED BY <1>1, FoldExists
  <2> DEFINE T == {s \in SUBSET ms : WorldSound(f[s])}
  <2>2. \A v, x : v \in WorldType /\ x \in Creature =>
          g[<<v, x>>] = removeOne(v, x, told)
    OBVIOUS
  <2>3. \A v : WorldSound(v) => v \in WorldType BY DEF WorldSound, WorldBase
  <2> HIDE DEF g
  <2>4. ASSUME NEW s \in SUBSET ms, \A u \in SUBSET s : u # s => u \in T
        PROVE  s \in T
    <3>1. CASE s = {} BY <2>1, <3>1 DEF Folds
    <3>2. CASE s # {}
      <4>1. WorldSound(f[s \ {Chosen(s)}]) BY <1>2, <2>4, <3>2
      <4>2. f[s] = removeOne(f[s \ {Chosen(s)}], Chosen(s), told)
        BY <1>2, <2>1, <2>2, <2>3, <3>2, <4>1 DEF Folds
      <4> QED BY <1>2, <3>2, <4>1, <4>2, RemoveOneSound
    <3> QED BY <3>1, <3>2
  <2>5. T = SUBSET ms
    <3>1. T \in SUBSET (SUBSET ms) OBVIOUS
    <3> HIDE DEF T
    <3> QED BY <1>1, <2>4, <3>1, FiniteSetInduction
  <2>6. \A s \in SUBSET ms : s # {} => f[s \ {Chosen(s)}] \in WorldType
    BY <1>2, <2>3, <2>5
  <2>7. fold(f)
    <3>1. \A s \in SUBSET ms : s # {} =>
            g[<<f[s \ {Chosen(s)}], Chosen(s)>>] =
              removeOne(f[s \ {Chosen(s)}], Chosen(s), told)
      BY <1>2, <2>2, <2>6
    <3> QED BY <2>1, <3>1 DEF Folds
  <2> HIDE DEF fold
  <2> QED BY <2>7
<1>4. fold(it)
  <2> HIDE DEF fold
  <2> QED BY <1>3
<1>5. Despawn(w, ms, told) = it[ms]
  BY DEF Despawn, FoldSet, MapThenFoldSet, Chosen
<1> HIDE DEF it
<1>6. ASSUME NEW s \in SUBSET ms, \A u \in SUBSET s : u # s => u \in S
      PROVE  s \in S
  <2>1. CASE s = {} BY <1>4, <2>1
  <2>2. CASE s # {}
    <3>1. WorldSound(it[s \ {Chosen(s)}]) BY <1>2, <1>6, <2>2
    <3>2. it[s] = removeOne(it[s \ {Chosen(s)}], Chosen(s), told)
      BY <1>4, <2>2
    <3> QED BY <1>2, <2>2, <3>1, <3>2, RemoveOneSound
  <2> QED BY <2>1, <2>2
<1>7. S = SUBSET ms
  <2>1. S \in SUBSET (SUBSET ms) OBVIOUS
  <2> HIDE DEF S
  <2> QED BY <1>1, <1>6, <2>1, FiniteSetInduction
<1> QED BY <1>5, <1>7

LEMMA RemoveSound ==
  ASSUME NEW w, WorldSound(w), NEW c \in Creature, NEW told
  PROVE  WorldSound(removeCreature(w, c, told))
<1>1. removeCreature(w, c, told) =
        Despawn(removeOne(w, c, told), Summons(w, c), told)
  BY DEF removeCreature, Despawn
<1>2. WorldSound(removeOne(w, c, told)) BY RemoveOneSound
<1>3. Summons(w, c) \in SUBSET Monster BY DEF Summons
<1> QED BY <1>1, <1>2, <1>3, DespawnSound

(* The summons of one that dies or is convinced die.                       *)
LEMMA EndSummonsSound ==
  ASSUME NEW w, WorldSound(w), NEW m \in Monster, NEW r, r = endSummons(w, m)
  PROVE  /\ WorldSound(r) /\ r.place = w.place
         /\ \A s \in Monster : w.health[s] = 0 => r.health[s] = 0
<1> DEFINE ss == Summons(w, m)
           v == changeHealth(w, ss)
           ma == [s \in Monster |-> IF s \in ss THEN Null ELSE v.master[s]]
<1>1. r = [v EXCEPT !.master = ma] BY DEF endSummons
<1>2. ss \in SUBSET Monster /\ \A s \in ss : w.place[s] # Null
  BY DEF Summons
<1> HIDE DEF ss
<1>3. /\ WorldSound(v) /\ v.place = w.place
      /\ \A s \in ss : v.health[s] = 0
      /\ \A s \in Monster : w.health[s] = 0 => v.health[s] = 0
  <2>1. v = changeHealth(w, ss) OBVIOUS
  <2> HIDE DEF v
  <2> QED BY <1>2, <2>1, HealthSound
<1> HIDE DEF v
<1>4. v \in WorldType BY <1>3 DEF WorldSound, WorldBase
<1>5. ma \in [Monster -> Creature \cup {Null}] BY <1>4 DEF WorldType
<1>6. /\ \A s \in ss : ma[s] = Null
      /\ \A s \in Monster \ ss : ma[s] = v.master[s]
  BY <1>2
<1> HIDE DEF ma
<1>7. /\ r \in WorldType /\ r.place = v.place /\ r.master = ma
      /\ r.health = v.health /\ r.targets = v.targets
      /\ r.creatureCheck = v.creatureCheck /\ r.inVector = v.inVector
  BY <1>1, <1>4, <1>5 DEF WorldType
<1>8. WorldBase(r)
  <2>1. \A s \in Monster : ma[s] # Null => ma[s] = v.master[s] BY <1>6
  <2> QED BY <1>3, <1>7, <2>1 DEF WorldSound, WorldBase
<1>9. ASSUME NEW s \in Monster, NEW p \in Person, Faces(r, s, p)
      PROVE  p \in r.targets[s] /\ r.creatureCheck[s]
  <2>1. s \notin ss BY <1>3, <1>7, <1>9 DEF Faces
  <2>2. Faces(v, s, p) BY <1>6, <1>7, <1>9, <2>1 DEF Faces
  <2> QED BY <1>3, <1>7, <2>2 DEF WorldSound, Notices
<1> QED BY <1>3, <1>7, <1>8, <1>9 DEF WorldSound, Notices

-----------------------------------------------------------------------------
(* The steps *)

MonstersIInv == WorldSound(World) /\ burning \subseteq Monster

LEMMA Becomes ==
  ASSUME NEW w \in WorldType, Become(w)
  PROVE  World' = w
BY DEF World, Become, WorldType

LEMMA BecomesSound ==
  ASSUME NEW w, WorldSound(w), Become(w), burning' \subseteq Monster
  PROVE  MonstersIInv'
BY Becomes DEF MonstersIInv, WorldSound, WorldBase

LEMMA WorldIs ==
  /\ World.place = place /\ World.health = health /\ World.master = master
  /\ World.targets = targets /\ World.creatureCheck = creatureCheck
  /\ World.inVector = inVector
BY DEF World

LEMMA HitIInv ==
  ASSUME MonstersIInv, NEW m \in Monster, Hit(m)
  PROVE  MonstersIInv'
<1>1. WorldSound(changeHealth(World, {m}))
  BY HealthSound, WorldIs DEF MonstersIInv, Hit
<1>2. WorldSound(setIdle(World, {m}, {m})) BY SetIdleSound DEF MonstersIInv
<1>3. burning' \subseteq Monster BY DEF MonstersIInv, Hit
<1> QED BY <1>1, <1>2, <1>3, BecomesSound DEF Hit

LEMMA BurnIInv ==
  ASSUME MonstersIInv, NEW m \in Monster, Burn(m)
  PROVE  MonstersIInv'
<1>1. WorldSound(setIdle(World, {m}, {m})) BY SetIdleSound DEF MonstersIInv
<1>2. burning' \subseteq Monster BY DEF MonstersIInv, Burn
<1> QED BY <1>1, <1>2, BecomesSound DEF Burn

LEMMA CoolIInv ==
  ASSUME MonstersIInv, NEW m \in Monster, Cool(m)
  PROVE  MonstersIInv'
<1> DEFINE awake == {s \in {m} : master[m] # Null \/ targets[m] # {}}
<1>1. ASSUME NEW s \in {m} \ awake, NEW p \in Person
      PROVE  ~ Faces(World, s, p)
  BY WorldIs DEF MonstersIInv, WorldSound, Notices
<1>2. WorldSound(setIdle(World, {m}, awake))
  <2> HIDE DEF awake
  <2> QED BY <1>1, SetIdleSound DEF MonstersIInv
<1>3. burning' \subseteq Monster BY DEF MonstersIInv, Cool
<1> QED BY <1>2, <1>3, BecomesSound DEF Cool

LEMMA MoveIInv ==
  ASSUME MonstersIInv, NEW c \in Creature, NEW to \in Place, Move(c, to)
  PROVE  MonstersIInv'
<1>1. PICK far \in SUBSET Summons(World, c), told \in SUBSET Monster :
        Become(Despawn(moveCreature(World, c, to), far, told))
  BY DEF Move
<1>2. WorldSound(moveCreature(World, c, to))
  BY MoveSound, WorldIs DEF MonstersIInv, Move
<1>3. far \in SUBSET Monster BY DEF Summons
<1>4. WorldSound(Despawn(moveCreature(World, c, to), far, told))
  BY <1>2, <1>3, DespawnSound
<1>5. burning' \subseteq Monster BY DEF MonstersIInv, Move
<1> QED BY <1>1, <1>4, <1>5, BecomesSound

LEMMA RemoveIInv ==
  ASSUME MonstersIInv, NEW c \in Creature, Remove(c)
  PROVE  MonstersIInv'
<1>1. PICK told \in SUBSET Monster : Become(removeCreature(World, c, told))
  BY DEF Remove
<1>2. WorldSound(removeCreature(World, c, told))
  BY RemoveSound DEF MonstersIInv
<1>3. burning' \subseteq Monster BY DEF MonstersIInv, Remove
<1> QED BY <1>1, <1>2, <1>3, BecomesSound

LEMMA ThinkIInv ==
  ASSUME MonstersIInv, NEW m \in Monster, creatureCheck[m], Think(m)
  PROVE  MonstersIInv'
<1>1. CASE Become(updateIdleStatus(World, {m})) /\ UNCHANGED burning
  BY <1>1, UpdateIdleSound, BecomesSound DEF MonstersIInv
<1>2. CASE /\ SendsHome /\ place[m] # Home /\ UNCHANGED burning
           /\ Become(setIdle(moveCreature(World, m, Home), {m}, {}))
  <2> DEFINE w == moveCreature(World, m, Home)
  <2>1. m \in Creature BY DEF Creature
  <2>2. place[m] # Null BY WorldIs DEF MonstersIInv, WorldSound, WorldBase
  <2>3. WorldSound(w) /\ w.place = [place EXCEPT ![m] = Home]
    <3>1. w = moveCreature(World, m, Home) OBVIOUS
    <3> HIDE DEF w
    <3> QED BY <2>1, <2>2, <3>1, MoveSound, WorldIs, MonstersAssumption
        DEF MonstersIInv
  <2> HIDE DEF w
  <2>4. w.place[m] = Home
    BY <2>1, <2>3, WorldIs DEF MonstersIInv, WorldSound, WorldBase, WorldType
  <2>5. WorldSound(setIdle(w, {m}, {}))
    BY <1>2, <2>3, <2>4, SetIdleSound DEF Faces
  <2> QED BY <1>2, <2>5, BecomesSound DEF w, MonstersIInv
<1> QED BY <1>1, <1>2 DEF Think

LEMMA DeathIInv ==
  ASSUME MonstersIInv, NEW m \in Monster, onDeath(m)
  PROVE  MonstersIInv'
<1> DEFINE v == endSummons(World, m)
           parted == [v EXCEPT !.targets[m] = {}, !.master[m] = Null]
<1>1. /\ WorldSound(v) /\ v.health[m] = 0
  <2>1. v = endSummons(World, m) OBVIOUS
  <2> HIDE DEF v
  <2> QED BY <2>1, EndSummonsSound, WorldIs DEF MonstersIInv, onDeath
<1>2. PICK told \in SUBSET Monster : Become(removeCreature(parted, m, told))
  BY DEF onDeath
<1> HIDE DEF v
<1>3. v \in WorldType BY <1>1 DEF WorldSound, WorldBase
<1>4. /\ parted \in WorldType /\ parted.place = v.place
      /\ parted.health = v.health /\ parted.creatureCheck = v.creatureCheck
      /\ parted.inVector = v.inVector
      /\ parted.targets = [v.targets EXCEPT ![m] = {}]
      /\ parted.master = [v.master EXCEPT ![m] = Null]
  BY <1>3 DEF WorldType
<1> HIDE DEF parted
<1>5. /\ parted.master[m] = Null
      /\ \A s \in Monster \ {m} : /\ parted.master[s] = v.master[s]
                                  /\ parted.targets[s] = v.targets[s]
  BY <1>3, <1>4 DEF WorldType
<1>6. WorldBase(parted)
  <2>1. \A s \in Monster : parted.master[s] # Null =>
                             parted.master[s] = v.master[s]
    BY <1>5
  <2> QED BY <1>1, <1>4, <2>1 DEF WorldSound, WorldBase
<1>7. ASSUME NEW s \in Monster, NEW p \in Person, Faces(parted, s, p)
      PROVE  p \in parted.targets[s] /\ parted.creatureCheck[s]
  <2>1. s # m BY <1>1, <1>4, <1>7 DEF Faces
  <2>2. Faces(v, s, p) BY <1>4, <1>5, <1>7, <2>1 DEF Faces
  <2> QED BY <1>1, <1>4, <1>5, <2>1, <2>2 DEF WorldSound, Notices
<1>8. WorldSound(parted) BY <1>6, <1>7 DEF WorldSound, Notices
<1>9. WorldSound(removeCreature(parted, m, told))
  BY <1>8, RemoveSound DEF Creature
<1>10. burning' \subseteq Monster BY DEF MonstersIInv, onDeath
<1> QED BY <1>2, <1>9, <1>10, BecomesSound

(* What is placed is told of to who is there, looks around, and is checked *)
(* from then on; a summons gets its master last.                           *)
LEMMA PlaceIInv ==
  ASSUME MonstersIInv, NEW c \in Creature, NEW at \in Place,
         NEW ms \in Creature \cup {Null}, placeCreature(c, at, ms)
  PROVE  MonstersIInv'
<1> DEFINE put == [World EXCEPT !.place[c] = at]
           near == AtPlace(put, at) \ {c}
           t == [m \in Monster |-> IF m \in near /\ isOpponent(put, m, c)
                                   THEN put.targets[m] \cup {c}
                                   ELSE put.targets[m]]
           seen == [put EXCEPT !.targets = t]
           told == updateIdleStatus(seen, near)
           look == IF c \in Monster THEN lookAround(told, {c}) ELSE told
           done == addCreatureCheck(look, c)
           last == [done EXCEPT
                     !.master = IF c \in Monster THEN [@ EXCEPT ![c] = ms]
                                ELSE @]
<1>1. /\ World \in WorldType /\ WorldBase(World) /\ WorldSound(World)
      /\ burning' \subseteq Monster
  BY DEF MonstersIInv, WorldSound, WorldBase, placeCreature
<1>2. /\ place[c] = Null /\ ~ inVector[c]
      /\ \A m \in Monster : c \notin targets[m] /\ master[m] # c
      /\ Become(last)
  <2>1. seen = [put EXCEPT !.targets =
                 [m \in Monster |-> IF m \in near /\ isOpponent(put, m, c)
                                    THEN @[m] \cup {c} ELSE @[m]]]
    BY DEF World
  <2> HIDE DEF seen, near, put
  <2> QED BY <2>1 DEF placeCreature, near, put
<1>3. at # Null BY MonstersAssumption
<1>4. /\ put \in WorldType /\ put.place = [place EXCEPT ![c] = at]
      /\ put.health = health /\ put.master = master /\ put.targets = targets
      /\ put.creatureCheck = creatureCheck /\ put.inVector = inVector
  BY <1>1, WorldIs DEF WorldType
<1>5. /\ put.place[c] = at
      /\ \A x \in Creature \ {c} : put.place[x] = place[x]
  BY <1>1, <1>4, WorldIs DEF WorldType
<1>6. /\ near \in SUBSET Monster
      /\ \A m \in Monster \ {c} : put.place[m] = at => m \in near
  BY DEF AtPlace
<1> HIDE DEF put, near
<1>7. t \in [Monster -> SUBSET Creature] BY <1>4 DEF WorldType
<1>8. \A m \in Monster :
        /\ targets[m] \subseteq t[m]
        /\ m \in near /\ isOpponent(put, m, c) => c \in t[m]
  BY <1>4
<1> HIDE DEF t
<1>9. /\ seen \in WorldType /\ seen.place = put.place
      /\ seen.health = health /\ seen.master = master
      /\ seen.targets = t /\ seen.creatureCheck = creatureCheck
      /\ seen.inVector = inVector
  BY <1>4, <1>7 DEF WorldType
<1> HIDE DEF seen
<1>10. WorldBase(seen)
  <2> SUFFICES ASSUME NEW m \in Monster
               PROVE  /\ seen.place[m] # Null /\ health[m] = 0 =>
                           creatureCheck[m]
                      /\ seen.place[m] = Null => ~ creatureCheck[m]
                      /\ creatureCheck[m] => inVector[m]
                      /\ seen.place[m] = Null /\ master[m] # Null =>
                           seen.place[master[m]] = Null
                      /\ seen.place[m] = Null /\ ~ inVector[m] =>
                           health[m] = 1
    BY <1>9 DEF WorldBase
  <2>1. m \in Creature BY DEF Creature
  <2>2. /\ place[m] # Null /\ health[m] = 0 => creatureCheck[m]
        /\ place[m] = Null => ~ creatureCheck[m]
        /\ creatureCheck[m] => inVector[m]
        /\ place[m] = Null /\ master[m] # Null => place[master[m]] = Null
        /\ place[m] = Null /\ ~ inVector[m] => health[m] = 1
    BY <1>1, WorldIs DEF WorldBase
  <2>3. master[m] \in (Creature \ {c}) \cup {Null}
    BY <1>1, <1>2, WorldIs DEF WorldType
  <2>4. CASE m = c BY <1>2, <1>3, <1>5, <1>9, <2>2, <2>4
  <2>5. CASE m # c BY <1>5, <1>9, <2>1, <2>2, <2>3, <2>5
  <2> QED BY <2>4, <2>5
<1>11. /\ WorldBase(told) /\ SameBodies(told, seen)
       /\ \A m \in Monster, p \in Person :
            Knows(seen, m, p) /\ (m \in near \/ Notices(seen, m, p))
              => Notices(told, m, p)
  <2>1. told = updateIdleStatus(seen, near) OBVIOUS
  <2> HIDE DEF told
  <2> QED BY <1>6, <1>10, <2>1, UpdateIdleIs
<1> HIDE DEF told
<1>12. ASSUME NEW m \in Monster \ {c}, NEW p \in Person, Faces(seen, m, p)
       PROVE  /\ p \in seen.targets[m]
              /\ m \in near \/ creatureCheck[m]
  <2>1. seen.place[m] = place[m] BY <1>5, <1>9 DEF Creature
  <2>2. CASE p = c
    <3>1. m \in near BY <1>5, <1>6, <1>9, <1>12, <2>2 DEF Faces
    <3>2. put.master[m] # p BY <1>4, <1>9, <1>12 DEF Faces
    <3>3. isOpponent(put, m, c) BY <1>4, <2>2, <3>2, Opponents
    <3> QED BY <1>8, <1>9, <2>2, <3>1, <3>3
  <2>3. CASE p # c
    <3>1. seen.place[p] = place[p] BY <1>5, <1>9, <2>3 DEF Creature
    <3>2. Faces(World, m, p) BY <1>9, <1>12, <2>1, <3>1, WorldIs DEF Faces
    <3>3. p \in targets[m] /\ creatureCheck[m]
      BY <1>1, <3>2, WorldIs DEF WorldSound, Notices
    <3> QED BY <1>8, <1>9, <3>3
  <2> QED BY <2>2, <2>3
<1>13. \A m \in Monster \ {c}, p \in Person : Notices(told, m, p)
  BY <1>9, <1>11, <1>12 DEF Knows, Notices
<1>14. WorldSound(look) /\ SameBodies(look, seen)
  <2>1. CASE c \in Monster
    <3>1. look = lookAround(told, {c}) BY <2>1
    <3> HIDE DEF look
    <3>2. /\ WorldBase(look) /\ SameBodies(look, told)
          /\ \A m \in Monster, p \in Person :
               m \in {c} \/ Notices(told, m, p) => Notices(look, m, p)
      BY <1>11, <2>1, <3>1, LookAroundIs
    <3> QED BY <1>11, <1>13, <3>2 DEF WorldSound, SameBodies
  <2>2. CASE c \notin Monster BY <1>11, <1>13, <2>2 DEF WorldSound
  <2> QED BY <2>1, <2>2
<1> HIDE DEF look
<1>15. look \in WorldType BY <1>14 DEF WorldSound, WorldBase
<1> DEFINE k == [look.creatureCheck EXCEPT ![c] = TRUE]
           v == [look.inVector EXCEPT ![c] = TRUE]
<1>16. /\ k \in [Creature -> BOOLEAN] /\ v \in [Creature -> BOOLEAN]
       /\ k[c] /\ v[c]
       /\ \A x \in Creature \ {c} : /\ k[x] = look.creatureCheck[x]
                                    /\ v[x] = look.inVector[x]
  BY <1>15 DEF WorldType
<1>17. /\ done \in WorldType /\ SameBodies(done, look)
       /\ done.targets = look.targets /\ done.creatureCheck = k
       /\ done.inVector = v
  <2>1. done = [look EXCEPT !.creatureCheck = k, !.inVector = v]
    BY <1>15 DEF addCreatureCheck, WorldType
  <2> HIDE DEF k, v, done
  <2> QED BY <1>15, <1>16, <2>1 DEF WorldType, SameBodies
<1> HIDE DEF k, v, done
<1> DEFINE ma == IF c \in Monster THEN [done.master EXCEPT ![c] = ms]
                 ELSE done.master
<1>18. /\ ma \in [Monster -> Creature \cup {Null}]
       /\ \A m \in Monster \ {c} : ma[m] = master[m]
       /\ c \in Monster => ma[c] = ms
  BY <1>9, <1>14, <1>15, <1>17 DEF WorldType, SameBodies
<1>19. last = [done EXCEPT !.master = ma] OBVIOUS
<1> HIDE DEF ma, last
<1>20. /\ last \in WorldType /\ last.place = put.place
       /\ last.health = health /\ last.master = ma
       /\ last.targets = look.targets /\ last.creatureCheck = k
       /\ last.inVector = v
  BY <1>9, <1>14, <1>17, <1>18, <1>19 DEF WorldType, SameBodies
<1>21. /\ look.place = put.place /\ look.health = health
       /\ look.master = master
  BY <1>9, <1>14 DEF SameBodies
<1>22. WorldBase(last)
  <2> SUFFICES ASSUME NEW m \in Monster
               PROVE  /\ put.place[m] # Null /\ health[m] = 0 => k[m]
                      /\ put.place[m] = Null => ~ k[m]
                      /\ k[m] => v[m]
                      /\ put.place[m] = Null /\ ma[m] # Null =>
                           put.place[ma[m]] = Null
                      /\ put.place[m] = Null /\ ~ v[m] => health[m] = 1
    BY <1>20 DEF WorldBase
  <2>1. m \in Creature BY DEF Creature
  <2>2. CASE m = c BY <1>3, <1>5, <1>16, <2>2
  <2>3. CASE m # c
    <3>1. /\ k[m] = look.creatureCheck[m] /\ v[m] = look.inVector[m]
          /\ ma[m] = master[m]
      BY <1>16, <1>18, <2>1, <2>3
    <3> QED BY <1>14, <1>21, <3>1 DEF WorldSound, WorldBase
  <2> QED BY <2>2, <2>3
<1>23. ASSUME NEW m \in Monster, NEW p \in Person, Faces(last, m, p)
       PROVE  p \in last.targets[m] /\ last.creatureCheck[m]
  <2>1. look.master[m] # p
    <3>1. CASE m # c BY <1>18, <1>20, <1>21, <1>23, <3>1 DEF Faces
    <3>2. CASE m = c
      <4>1. p \in Creature \ {c} BY <3>2, MonstersAssumption DEF Creature
      <4>2. place[p] # Null BY <1>5, <1>20, <1>23, <4>1 DEF Faces
      <4>3. master[c] = p => FALSE
        BY <1>1, <1>2, <3>2, <4>1, <4>2, WorldIs, MonstersAssumption
        DEF WorldBase, WorldType
      <4> QED BY <1>21, <3>2, <4>3
    <3> QED BY <3>1, <3>2
  <2>2. Faces(look, m, p) BY <1>20, <1>21, <1>23, <2>1 DEF Faces
  <2>3. p \in look.targets[m] /\ look.creatureCheck[m]
    BY <1>14, <2>2 DEF WorldSound, Notices
  <2> QED BY <1>16, <1>20, <2>3 DEF Creature
<1>24. WorldSound(last) BY <1>22, <1>23 DEF WorldSound, Notices
<1> QED BY <1>1, <1>2, <1>24, BecomesSound

LEMMA ConvinceIInv ==
  ASSUME MonstersIInv, NEW q \in Person, NEW m \in Monster,
         convinceCreature(q, m)
  PROVE  MonstersIInv'
<1> DEFINE won == [World EXCEPT !.master[m] = q]
           parted == lookAround(endSummons(won, m), {m})
           ss == {s \in AtPlace(World, place[q]) : isOpponent(parted, s, m)}
<1>1. World \in WorldType /\ WorldBase(World) /\ WorldSound(World)
  BY DEF MonstersIInv, WorldSound, WorldBase
<1>2. /\ place[m] # Null /\ master[m] \notin Person
      /\ Become(lookAround(parted, ss)) /\ burning' \subseteq Monster
  BY WorldIs DEF convinceCreature, Sees, MonstersIInv
<1>3. ss \in SUBSET Monster BY DEF AtPlace
<1>4. /\ won \in WorldType /\ won.place = place /\ won.health = health
      /\ won.master = [master EXCEPT ![m] = q] /\ won.targets = targets
      /\ won.creatureCheck = creatureCheck /\ won.inVector = inVector
  BY <1>1, WorldIs DEF WorldType, Creature
<1> HIDE DEF won
<1>5. /\ won.master[m] = q
      /\ \A s \in Monster \ {m} : won.master[s] = master[s]
  BY <1>1, <1>4, WorldIs DEF WorldType
<1>6. WorldBase(won) BY <1>1, <1>2, <1>4, <1>5, WorldIs DEF WorldBase
<1>7. ASSUME NEW s \in Monster, NEW p \in Person, Faces(won, s, p)
      PROVE  p \in won.targets[s] /\ won.creatureCheck[s]
  <2>1. Faces(World, s, p) BY <1>2, <1>4, <1>5, <1>7, WorldIs DEF Faces
  <2> QED BY <1>1, <1>4, <2>1, WorldIs DEF WorldSound, Notices
<1>8. WorldSound(won) BY <1>6, <1>7 DEF WorldSound, Notices
<1>9. WorldSound(endSummons(won, m)) BY <1>8, EndSummonsSound
<1>10. WorldSound(parted) BY <1>9, LookAroundSound
<1> HIDE DEF parted, ss
<1>11. WorldSound(lookAround(parted, ss)) BY <1>3, <1>10, LookAroundSound
<1> QED BY <1>2, <1>11, BecomesSound

(* What is no longer checked leaves its list, and is released if it is     *)
(* gone.                                                                   *)
LEMMA CheckIInv ==
  ASSUME MonstersIInv, NEW c \in Creature, checkCreature(c)
  PROVE  MonstersIInv'
<1>1. CASE creatureCheck[c]
  BY <1>1, ThinkIInv, DeathIInv DEF checkCreature
<1>2. CASE ~ creatureCheck[c]
  <2> DEFINE w == World'
  <2>1. World \in WorldType /\ WorldBase(World) /\ WorldSound(World)
    BY DEF MonstersIInv, WorldSound, WorldBase
  <2>2. /\ place' = place /\ creatureCheck' = creatureCheck
        /\ burning' = burning
        /\ inVector' = [inVector EXCEPT ![c] = FALSE]
        /\ IF place[c] = Null /\ c \in Monster
           THEN /\ health' = [health EXCEPT ![c] = 1]
                /\ master' = [master EXCEPT ![c] = Null]
                /\ targets' = [targets EXCEPT ![c] = {}]
           ELSE health' = health /\ master' = master /\ targets' = targets
    BY <1>2 DEF checkCreature
  <2>3. /\ w.place = place /\ w.health = health' /\ w.master = master'
        /\ w.targets = targets' /\ w.creatureCheck = creatureCheck
        /\ w.inVector = inVector'
    BY <2>2 DEF World
  <2>4. World' \in WorldType
    BY <2>1, <2>2, WorldIs DEF World, WorldType
  <2> HIDE DEF w
  <2>5. \A x \in Creature : x # c => inVector'[x] = inVector[x]
    BY <2>1, <2>2, WorldIs DEF WorldType
  <2>6. \A m \in Monster :
          \/ /\ health'[m] = health[m] /\ master'[m] = master[m]
             /\ targets'[m] = targets[m]
          \/ place[m] = Null /\ health'[m] = 1 /\ master'[m] = Null
    BY <2>1, <2>2, WorldIs DEF WorldType
  <2>7. c \in Monster /\ place[c] = Null => health'[c] = 1
    BY <2>1, <2>2, WorldIs DEF WorldType
  <2>8. WorldBase(w)
    <3> SUFFICES ASSUME NEW m \in Monster
                 PROVE  /\ place[m] # Null /\ health'[m] = 0 =>
                             creatureCheck[m]
                        /\ place[m] = Null => ~ creatureCheck[m]
                        /\ creatureCheck[m] => inVector'[m]
                        /\ place[m] = Null /\ master'[m] # Null =>
                             place[master'[m]] = Null
                        /\ place[m] = Null /\ ~ inVector'[m] =>
                             health'[m] = 1
      BY <2>3, <2>4 DEF WorldBase, w
    <3>1. /\ place[m] # Null /\ health[m] = 0 => creatureCheck[m]
          /\ place[m] = Null => ~ creatureCheck[m]
          /\ creatureCheck[m] => inVector[m]
          /\ place[m] = Null /\ master[m] # Null => place[master[m]] = Null
          /\ place[m] = Null /\ ~ inVector[m] => health[m] = 1
      BY <2>1, WorldIs DEF WorldBase
    <3>2. m # c => inVector'[m] = inVector[m] BY <2>5 DEF Creature
    <3> QED BY <1>2, <2>6, <2>7, <3>1, <3>2
  <2>9. ASSUME NEW m \in Monster, NEW p \in Person, Faces(w, m, p)
        PROVE  p \in w.targets[m] /\ w.creatureCheck[m]
    <3>1. place[m] # Null BY <2>3, <2>9 DEF Faces
    <3>2. Faces(World, m, p)
      BY <2>3, <2>6, <2>9, <3>1, WorldIs DEF Faces
    <3> QED BY <2>1, <2>3, <2>6, <3>1, <3>2, WorldIs DEF WorldSound, Notices
  <2>10. WorldSound(World') BY <2>8, <2>9 DEF WorldSound, Notices, w
  <2> QED BY <2>2, <2>10 DEF MonstersIInv
<1> QED BY <1>1, <1>2

LEMMA MonstersInitIInv == MonstersInit => MonstersIInv
<1> SUFFICES ASSUME MonstersInit PROVE MonstersIInv
  OBVIOUS
<1>1. World \in WorldType BY DEF MonstersInit, World, WorldType
<1>2. /\ \A c \in Creature : place[c] = Null /\ ~ creatureCheck[c]
      /\ \A m \in Monster : m \in Creature /\ health[m] = 1 /\ master[m] = Null
  BY DEF MonstersInit, Creature
<1>3. WorldSound(World)
  BY <1>1, <1>2, WorldIs DEF WorldSound, WorldBase, Notices, Faces
<1> QED BY <1>3 DEF MonstersInit, MonstersIInv

LEMMA MonstersNextIInv == MonstersIInv /\ [MonstersNext]_monsterVars
                            => MonstersIInv'
<1> SUFFICES ASSUME MonstersIInv, [MonstersNext]_monsterVars
             PROVE  MonstersIInv'
  OBVIOUS
<1>1. ASSUME NEW c \in Creature, NEW at \in Place, placeCreature(c, at, Null)
      PROVE  MonstersIInv'
  BY <1>1, PlaceIInv
<1>2. ASSUME NEW m \in Monster, NEW c \in Creature, place[c] # Null,
             placeCreature(m, place[c], c)
      PROVE  MonstersIInv'
  <2>1. place[c] \in Place
    BY <1>2, WorldIs DEF MonstersIInv, WorldSound, WorldBase, WorldType
  <2>2. m \in Creature BY DEF Creature
  <2> QED BY <1>2, <2>1, <2>2, PlaceIInv
<1>3. ASSUME NEW c \in Creature, NEW to \in Place, Move(c, to)
      PROVE  MonstersIInv'
  BY <1>3, MoveIInv
<1>4. ASSUME NEW c \in Creature, Remove(c) \/ checkCreature(c)
      PROVE  MonstersIInv'
  BY <1>4, RemoveIInv, CheckIInv
<1>5. ASSUME NEW m \in Monster, Hit(m) \/ Burn(m) \/ Cool(m)
      PROVE  MonstersIInv'
  BY <1>5, HitIInv, BurnIInv, CoolIInv
<1>6. ASSUME NEW p \in Person, NEW m \in Monster, convinceCreature(p, m)
      PROVE  MonstersIInv'
  BY <1>6, ConvinceIInv
<1>7. ASSUME UNCHANGED monsterVars PROVE MonstersIInv'
  BY <1>7 DEF monsterVars, MonstersIInv, World
<1> QED BY <1>1, <1>2, <1>3, <1>4, <1>5, <1>6, <1>7 DEF MonstersNext

LEMMA MonstersIInvSound == MonstersIInv => NothingGoesUnnoticed
<1> SUFFICES ASSUME MonstersIInv PROVE NothingGoesUnnoticed
  OBVIOUS
<1>1. World \in WorldType /\ WorldBase(World) /\ WorldSound(World)
  BY DEF MonstersIInv, WorldSound, WorldBase
<1>2. MonstersTypeOK
  BY <1>1, WorldIs DEF MonstersTypeOK, MonstersIInv, WorldType
<1>3. ASSUME NEW m \in Monster, NEW p \in Person,
             place[m] # Null, place[m] = place[p], health[m] > 0,
             master[m] # p, SendsHome => place[m] # Home
      PROVE  p \in targets[m] /\ creatureCheck[m] /\ inVector[m]
  <2>1. Faces(World, m, p) BY <1>3, WorldIs DEF Faces
  <2> QED BY <1>1, <2>1, WorldIs DEF WorldSound, Notices, WorldBase
<1>4. MonstersNotice BY <1>3 DEF MonstersNotice
<1>5. DeadAreBuried BY <1>1, WorldIs DEF WorldBase, DeadAreBuried
<1> QED BY <1>2, <1>4, <1>5 DEF NothingGoesUnnoticed

(* A monster knows every player in its sight but its master, and is        *)
(* checked; and the dead are removed: whatever comes, moves, dies, is      *)
(* summoned, convinced or taken away, in whichever order (setIdle,         *)
(* updateIdleStatus, onRemoveCreature).                                    *)
THEOREM NothingGoesUnnoticedHolds == MonstersSpec => []NothingGoesUnnoticed
<1>1. MonstersSpec => []MonstersIInv
  BY MonstersInitIInv, MonstersNextIInv, PTL DEF MonstersSpec
<1> QED BY <1>1, MonstersIInvSound, PTL

-----------------------------------------------------------------------------
(* Levels and skills: what the loops end with, and that it adds up *)

(* The least and the greatest of a set, which there are.                   *)
LEMMA LeastIs ==
  ASSUME NEW S \in SUBSET Nat, NEW x \in S
  PROVE  Min(S) \in S /\ \A y \in S : Min(S) <= y
<1> DEFINE above == {n \in Nat : \A y \in S : n <= y}
<1>1. \E n \in S : n \in above
  <2> SUFFICES ASSUME \A n \in S : n \notin above PROVE FALSE
    OBVIOUS
  <2>1. 0 \in above OBVIOUS
  <2>2. ASSUME NEW n \in above PROVE n + 1 \in above
    <3>1. n \in Nat /\ \A y \in S : n <= y /\ y # n
      OBVIOUS
    <3>2. \A y \in S : n + 1 <= y BY <3>1
    <3> QED BY <3>1, <3>2
  <2>3. above = Nat
    <3>1. above \in SUBSET Nat OBVIOUS
    <3> HIDE DEF above
    <3> QED BY <2>1, <2>2, <3>1, NatSetInduction
  <2>4. x + 1 \in above BY <2>3
  <2> QED BY <2>4
<1>2. \E n \in S : \A y \in S : n <= y BY <1>1
<1> QED BY <1>2, Zenon DEF Min

LEMMA GreatestIs ==
  ASSUME NEW n \in Nat, NEW S \in SUBSET (0 .. n), NEW x \in S
  PROVE  Max(S) \in S /\ \A y \in S : Max(S) >= y
<1> DEFINE T == {n - y : y \in S}
<1>1. T \in SUBSET Nat /\ n - x \in T OBVIOUS
<1>2. Min(T) \in T /\ \A z \in T : Min(T) <= z
  <2> HIDE DEF T
  <2> QED BY <1>1, LeastIs
<1>3. PICK m \in S : Min(T) = n - m BY <1>2
<1>4. \A y \in S : n - y \in T OBVIOUS
<1>5. \A y \in S : m >= y
  <2> TAKE y \in S
  <2>1. n - m <= n - y BY <1>2, <1>3, <1>4
  <2> QED BY <2>1
<1> QED BY <1>5 DEF Max

LEMMA MinMax2 ==
  ASSUME NEW a \in Int, NEW b \in Int
  PROVE  /\ Min({a, b}) = IF a <= b THEN a ELSE b
         /\ Max({a, b}) = IF a <= b THEN b ELSE a
BY DEF Min, Max

LEMMA MaxZero ==
  ASSUME NEW a \in Int
  PROVE  Max({0, a}) = IF 0 <= a THEN a ELSE 0
BY DEF Max

(* The recursive function of Taking is one.                                *)
Left(f, number, amounts) ==
  f = [n \in 0 .. Len(amounts) |->
         IF n = 0 THEN number ELSE f[n - 1] - amounts[n]]

LEMMA TakingIs ==
  ASSUME NEW number \in Int, NEW amounts \in Seq(Int)
  PROVE  /\ Taking(number, amounts)[0] = number
         /\ \A n \in 1 .. Len(amounts) :
              Taking(number, amounts)[n] =
                Taking(number, amounts)[n - 1] - amounts[n]
<1> DEFINE step(f, m) ==
             [n \in 0 .. m |-> IF n = 0 THEN number ELSE f[n - 1] - amounts[n]]
           N == {m \in Nat : \E f : f = step(f, m)}
<1>1. 0 \in N
  <2> DEFINE f == [n \in 0 .. 0 |-> number]
  <2>1. f = step(f, 0) OBVIOUS
  <2> QED BY <2>1
<1>2. ASSUME NEW m \in N PROVE m + 1 \in N
  <2>1. PICK f : f = step(f, m) BY <1>2
  <2> DEFINE g == step(f, m + 1)
  <2>2. m \in Nat BY <1>2
  <2>3. ASSUME NEW i \in 0 .. m PROVE g[i] = f[i]
    <3>1. f[i] = IF i = 0 THEN number ELSE f[i - 1] - amounts[i]
      BY <2>1, Zenon
    <3>2. i \in 0 .. m + 1 BY <2>2
    <3> QED BY <3>1, <3>2, Zenon
  <2>4. \A i \in 0 .. m + 1 : i # 0 => i - 1 \in 0 .. m BY <2>2
  <2>5. g = step(g, m + 1) BY <2>3, <2>4
  <2>6. \E h : h = step(h, m + 1)
    <3> HIDE DEF g, step
    <3> QED BY <2>5
  <2>7. m + 1 \in Nat BY <2>2
  <2> HIDE DEF step
  <2> QED BY <2>6, <2>7, Zenon
<1>3. N = Nat
  <2>1. N \in SUBSET Nat OBVIOUS
  <2> HIDE DEF N
  <2> QED BY <1>1, <1>2, <2>1, NatSetInduction
<1>4. PICK f : f = step(f, Len(amounts))
  <2>1. Len(amounts) \in N
    <3> HIDE DEF N
    <3> QED BY <1>3
  <2> QED BY <2>1
<1>5. Left(f, number, amounts) BY <1>4 DEF Left
<1> DEFINE left == CHOOSE h : Left(h, number, amounts)
<1>6. Left(left, number, amounts) BY <1>5
<1>7. Taking(number, amounts) = left BY DEF Taking, Left
<1> HIDE DEF left
<1>8. \A n \in 0 .. Len(amounts) :
        left[n] = IF n = 0 THEN number ELSE left[n - 1] - amounts[n]
  BY <1>6, Zenon DEF Left
<1>9. Len(amounts) \in Nat OBVIOUS
<1>10. 0 \in 0 .. Len(amounts) BY <1>9
<1>11. \A n \in 1 .. Len(amounts) : n \in 0 .. Len(amounts) /\ n # 0
  BY <1>9
<1> QED BY <1>7, <1>8, <1>10, <1>11

(* The tables grow up to their last entry, which the next one repeats.     *)
LEMMA LevelTable ==
  /\ MaxLevel \in Nat \ {0}
  /\ \A l \in 1 .. MaxLevel :
       getExpForLevel(l) = ExpForLevel[l] /\ getExpForLevel(l) \in Nat
  /\ getExpForLevel(1) = 0
  /\ getExpForLevel(MaxLevel + 1) = getExpForLevel(MaxLevel)
  /\ \A l \in 1 .. MaxLevel - 1 : getExpForLevel(l) < getExpForLevel(l + 1)
<1>1. MaxLevel \in Nat \ {0} /\ DOMAIN ExpForLevel = 1 .. MaxLevel
  BY ProgressAssumption DEF MaxLevel
<1>2. \A l \in 1 .. MaxLevel : Min({l, MaxLevel}) = l
  BY <1>1, MinMax2
<1>3. Min({MaxLevel + 1, MaxLevel}) = MaxLevel BY <1>1, MinMax2
<1>4. \A l \in 1 .. MaxLevel : ExpForLevel[l] \in Nat
  BY <1>1, ProgressAssumption
<1>5. 1 \in 1 .. MaxLevel /\ MaxLevel \in 1 .. MaxLevel BY <1>1
<1>6. \A l \in 1 .. MaxLevel - 1 :
        l \in 1 .. MaxLevel /\ l + 1 \in 1 .. MaxLevel
  BY <1>1
<1> QED BY <1>1, <1>2, <1>3, <1>4, <1>5, <1>6, ProgressAssumption
     DEF getExpForLevel

LEMMA SkillTable ==
  /\ MaxSkill \in Nat \ {0}
  /\ \A l \in 1 .. MaxSkill : getReqSkillTries(l) = ReqTries[l]
  /\ \A l \in 0 .. MaxSkill + 1 : getReqSkillTries(l) \in Nat
  /\ getReqSkillTries(MaxSkill + 1) = getReqSkillTries(MaxSkill)
  /\ \A l \in 0 .. MaxSkill - 1 :
       getReqSkillTries(l) < getReqSkillTries(l + 1)
<1>1. MaxSkill \in Nat \ {0} /\ DOMAIN ReqTries = 1 .. MaxSkill
  BY ProgressAssumption DEF MaxSkill
<1>2. \A l \in 1 .. MaxSkill : Min({l, MaxSkill}) = l
  BY <1>1, MinMax2
<1>3. Min({MaxSkill + 1, MaxSkill}) = MaxSkill BY <1>1, MinMax2
<1>4. \A l \in 1 .. MaxSkill : ReqTries[l] \in Nat
  BY <1>1, ProgressAssumption
<1>5. \A l \in 1 .. MaxSkill : getReqSkillTries(l) = ReqTries[l]
  BY <1>2 DEF getReqSkillTries
<1>6. getReqSkillTries(MaxSkill + 1) = ReqTries[MaxSkill]
  BY <1>1, <1>3 DEF getReqSkillTries
<1>7. getReqSkillTries(0) = 0 BY DEF getReqSkillTries
<1>8. 0 .. MaxSkill + 1 = 1 .. MaxSkill \cup {0, MaxSkill + 1} BY <1>1
<1>9. 1 \in 1 .. MaxSkill /\ MaxSkill \in 1 .. MaxSkill BY <1>1
<1>10. \A l \in 0 .. MaxSkill + 1 : getReqSkillTries(l) \in Nat
  BY <1>4, <1>5, <1>6, <1>7, <1>8, <1>9
<1>11. ASSUME NEW l \in 0 .. MaxSkill - 1
       PROVE  getReqSkillTries(l) < getReqSkillTries(l + 1)
  <2>1. CASE l = 0 BY <1>5, <1>7, <1>9, <2>1, ProgressAssumption
  <2>2. CASE l # 0
    <3>1. l \in 1 .. MaxSkill - 1 /\ l \in 1 .. MaxSkill
          /\ l + 1 \in 1 .. MaxSkill
      BY <1>1, <2>2
    <3> QED BY <1>5, <3>1, ProgressAssumption
  <2> QED BY <2>1, <2>2
<1> QED BY <1>1, <1>5, <1>6, <1>9, <1>10, <1>11

LEMMA TriesIs ==
  /\ Tries(0, 0) = 0
  /\ \A s \in 0 .. MaxSkill : Tries(s, 0) \in Nat
  /\ \A s \in 0 .. MaxSkill, t \in Int : Tries(s, t) = Tries(s, 0) + t
  /\ \A s \in 1 .. MaxSkill :
       Tries(s, 0) = Tries(s - 1, 0) + getReqSkillTries(s)
<1>1. MaxSkill \in Nat /\ DOMAIN ReqTries = 1 .. MaxSkill
      /\ \A l \in 1 .. MaxSkill : ReqTries[l] \in Nat
  BY ProgressAssumption DEF MaxSkill
<1>2. ASSUME NEW s \in 0 .. MaxSkill
      PROVE  /\ IsFiniteSet(1 .. s)
             /\ SumFunctionOnSet(ReqTries, 1 .. s) \in Nat
  <2>1. IsFiniteSet(1 .. s) BY FS_Interval
  <2>2. \A l \in 1 .. s : ReqTries[l] \in Nat BY <1>1
  <2> QED BY <2>1, <2>2, SumNat
<1>3. Tries(0, 0) = 0
  <2>1. 1 .. 0 = {} OBVIOUS
  <2> QED BY <2>1, SumEmpty DEF Tries
<1>4. ASSUME NEW s \in 1 .. MaxSkill
      PROVE  Tries(s, 0) = Tries(s - 1, 0) + getReqSkillTries(s)
  <2> DEFINE below == 1 .. s - 1
  <2>1. s \notin below /\ s - 1 \in 0 .. MaxSkill BY <1>1
  <2>2. below \cup {s} = 1 .. s BY <1>1
  <2>3. \A l \in 1 .. s : ReqTries[l] \in Int BY <1>1
  <2>4. getReqSkillTries(s) = ReqTries[s] /\ ReqTries[s] \in Nat
    BY <1>1, SkillTable
  <2>5. IsFiniteSet(below) /\ SumFunctionOnSet(ReqTries, below) \in Nat
    BY <1>2, <2>1
  <2>6. SumFunctionOnSet(ReqTries, below \cup {s}) =
          ReqTries[s] + SumFunctionOnSet(ReqTries, below)
    <3>1. \A l \in below \cup {s} : ReqTries[l] \in Int BY <2>2, <2>3
    <3> HIDE DEF below
    <3> QED BY <2>1, <2>5, <3>1, SumAdds
  <2>7. SumFunctionOnSet(ReqTries, 1 .. s) =
          ReqTries[s] + SumFunctionOnSet(ReqTries, below)
    BY <2>2, <2>6, Zenon
  <2> QED BY <2>4, <2>5, <2>7 DEF Tries
<1> QED BY <1>2, <1>3, <1>4 DEF Tries

(* A skill level asks for all the tries of those below.                    *)
LEMMA TriesGrow ==
  ASSUME NEW s \in 0 .. MaxSkill, NEW u \in 0 .. MaxSkill, s <= u
  PROVE  Tries(s, 0) <= Tries(u, 0)
<1> DEFINE N == {n \in Nat : s + n <= MaxSkill =>
                               Tries(s, 0) <= Tries(s + n, 0)}
<1>1. 0 \in N BY TriesIs
<1>2. ASSUME NEW n \in N PROVE n + 1 \in N
  <2> SUFFICES ASSUME s + (n + 1) <= MaxSkill
               PROVE  Tries(s, 0) <= Tries(s + (n + 1), 0)
    OBVIOUS
  <2>1. /\ s + (n + 1) \in 1 .. MaxSkill /\ (s + (n + 1)) - 1 = s + n
        /\ s + n \in 0 .. MaxSkill /\ s + (n + 1) \in 0 .. MaxSkill + 1
    BY SkillTable
  <2>2. Tries(s, 0) <= Tries(s + n, 0) BY <2>1
  <2> HIDE DEF N
  <2>3. Tries(s + (n + 1), 0) =
          Tries(s + n, 0) + getReqSkillTries(s + (n + 1))
    BY <2>1, TriesIs
  <2>4. getReqSkillTries(s + (n + 1)) \in Nat BY <2>1, SkillTable
  <2> QED BY <2>1, <2>2, <2>3, <2>4, TriesIs
<1>3. N = Nat
  <2>1. N \in SUBSET Nat OBVIOUS
  <2> HIDE DEF N
  <2> QED BY <1>1, <1>2, <2>1, NatSetInduction
<1>4. u - s \in N
  <2> HIDE DEF N
  <2> QED BY <1>3
<1> QED BY <1>4

-----------------------------------------------------------------------------
(* The loops *)

LEMMA LevelUpIs ==
  ASSUME NEW l \in 1 .. MaxLevel, NEW exp \in Nat, getExpForLevel(l) <= exp
  PROVE  /\ LevelUp(l, exp) \in l .. MaxLevel
         /\ getExpForLevel(LevelUp(l, exp)) <= exp
         /\ LevelUp(l, exp) < MaxLevel =>
              exp < getExpForLevel(LevelUp(l, exp) + 1)
<1> DEFINE ends(k) == \/ exp < getExpForLevel(k + 1)
                      \/ getExpForLevel(k) >= getExpForLevel(k + 1)
           S == {k \in l .. MaxLevel : ends(k)}
           up == LevelUp(l, exp)
<1>1. MaxLevel \in Nat /\ MaxLevel \in S BY LevelTable
<1>2. S \in SUBSET Nat BY <1>1
<1>3. up \in S /\ \A k \in S : up <= k
  <2> HIDE DEF S
  <2>1. Min(S) \in S /\ \A k \in S : Min(S) <= k BY <1>1, <1>2, LeastIs
  <2> QED BY <2>1, Zenon DEF LevelUp, S
<1> HIDE DEF up
<1>4. up \in l .. MaxLevel /\ ends(up) BY <1>3
<1>5. getExpForLevel(up) <= exp
  <2>1. CASE up = l BY <2>1
  <2>2. CASE up # l
    <3>1. up - 1 \in l .. MaxLevel /\ up - 1 \notin S /\ (up - 1) + 1 = up
      BY <1>1, <1>3, <1>4, <2>2
    <3>2. ~ ends(up - 1) BY <3>1
    <3>3. ~ (exp < getExpForLevel(up)) BY <3>1, <3>2
    <3>4. getExpForLevel(up) \in Nat BY <1>4, LevelTable
    <3> QED BY <3>3, <3>4
  <2> QED BY <2>1, <2>2
<1>6. up < MaxLevel => exp < getExpForLevel(up + 1)
  <2> SUFFICES ASSUME up < MaxLevel PROVE exp < getExpForLevel(up + 1)
    OBVIOUS
  <2>1. up \in 1 .. MaxLevel - 1 /\ up \in 1 .. MaxLevel
        /\ up + 1 \in 1 .. MaxLevel
    BY <1>1, <1>4
  <2>2. getExpForLevel(up) < getExpForLevel(up + 1)
        /\ getExpForLevel(up) \in Nat /\ getExpForLevel(up + 1) \in Nat
    BY <2>1, LevelTable
  <2> QED BY <1>4, <2>2
<1> QED BY <1>4, <1>5, <1>6 DEF up

LEMMA LevelDownIs ==
  ASSUME NEW l \in 1 .. MaxLevel, NEW exp \in Nat,
         l < MaxLevel => exp < getExpForLevel(l + 1)
  PROVE  /\ LevelDown(l, exp) \in 1 .. l
         /\ getExpForLevel(LevelDown(l, exp)) <= exp
         /\ LevelDown(l, exp) < MaxLevel =>
              exp < getExpForLevel(LevelDown(l, exp) + 1)
<1> DEFINE S == {k \in 1 .. l : k = 1 \/ exp >= getExpForLevel(k)}
           down == LevelDown(l, exp)
<1>1. MaxLevel \in Nat /\ l \in Nat /\ 1 \in S BY LevelTable
<1>2. S \in SUBSET (0 .. l) BY <1>1
<1>3. down \in S /\ \A k \in S : down >= k
  <2> HIDE DEF S
  <2>1. Max(S) \in S /\ \A k \in S : Max(S) >= k BY <1>1, <1>2, GreatestIs
  <2> QED BY <2>1, Zenon DEF LevelDown, S
<1> HIDE DEF down
<1>4. down \in 1 .. l /\ (down = 1 \/ exp >= getExpForLevel(down)) BY <1>3
<1>5. \A k \in 1 .. MaxLevel : getExpForLevel(k) \in Nat BY LevelTable
<1>6. getExpForLevel(down) <= exp
  <2>1. CASE down = 1 BY <2>1, LevelTable
  <2>2. CASE down # 1 BY <1>4, <1>5, <2>2
  <2> QED BY <2>1, <2>2
<1>7. down < MaxLevel => exp < getExpForLevel(down + 1)
  <2> SUFFICES ASSUME down < MaxLevel PROVE exp < getExpForLevel(down + 1)
    OBVIOUS
  <2>1. CASE down = l BY <2>1
  <2>2. CASE down # l
    <3>1. down + 1 \in 1 .. l /\ down + 1 \in 1 .. MaxLevel
          /\ down + 1 \notin S /\ down + 1 # 1
      BY <1>1, <1>3, <1>4, <2>2
    <3>2. ~ (exp >= getExpForLevel(down + 1)) BY <3>1
    <3> QED BY <1>5, <3>1, <3>2
  <2> QED BY <2>1, <2>2
<1> QED BY <1>4, <1>6, <1>7 DEF down

(* No more can be learnt than the last level asks for.                     *)
Capped(n) == Min({n, Tries(MaxSkill, 0)})

LEMMA AdvanceIs ==
  ASSUME NEW s \in 0 .. MaxSkill - 1, NEW t \in Nat, NEW count \in Nat,
         NEW after, after = Advance(s, t, count)
  PROVE  /\ after[1] \in 0 .. MaxSkill /\ after[2] \in Nat
         /\ after[1] < MaxSkill => after[2] < getReqSkillTries(after[1] + 1)
         /\ Tries(after[1], after[2]) =
              Capped(Tries(s, t) + count)
<1> DEFINE next(n) == getReqSkillTries(s + n + 1)
           isLast(n) == getReqSkillTries(s + n) >= next(n)
           amounts == [n \in 1 .. MaxSkill - s |-> getReqSkillTries(s + n)]
           left == Taking(t + count, amounts)
           S == {k \in 0 .. MaxSkill - s : left[k] < next(k) \/ isLast(k)}
           n == Min(S)
<1>0. MaxSkill \in Nat \ {0} /\ s \in Nat /\ MaxSkill - s \in Nat \ {0}
      /\ s < MaxSkill /\ s \in 0 .. MaxSkill
  BY SkillTable
<1>1. /\ \A k \in 0 .. MaxSkill - s :
           next(k) \in Nat /\ getReqSkillTries(s + k) \in Nat
      /\ isLast(MaxSkill - s)
      /\ \A k \in 0 .. MaxSkill - s : isLast(k) => k = MaxSkill - s
  <2>1. ASSUME NEW k \in 0 .. MaxSkill - s
        PROVE  /\ s + k \in 0 .. MaxSkill + 1
               /\ s + k + 1 \in 0 .. MaxSkill + 1
               /\ k # MaxSkill - s => s + k \in 0 .. MaxSkill - 1
    BY <1>0
  <2>2. s + (MaxSkill - s) = MaxSkill
        /\ s + (MaxSkill - s) + 1 = MaxSkill + 1
    BY <1>0
  <2>3. getReqSkillTries(MaxSkill) \in Nat BY <1>0, SkillTable
  <2> QED BY <2>1, <2>2, <2>3, SkillTable
<1>2. amounts \in Seq(Int) /\ Len(amounts) = MaxSkill - s
  <2>1. amounts \in [1 .. MaxSkill - s -> Int]
    <3>1. \A k \in 1 .. MaxSkill - s : k \in 0 .. MaxSkill - s BY <1>0
    <3> QED BY <1>1, <3>1
  <2> HIDE DEF amounts
  <2> QED BY <1>0, <2>1
<1>3. /\ left[0] = t + count
      /\ \A k \in 1 .. MaxSkill - s :
           left[k] = left[k - 1] - getReqSkillTries(s + k)
  <2>1. /\ left[0] = t + count
        /\ \A k \in 1 .. Len(amounts) : left[k] = left[k - 1] - amounts[k]
    <3> HIDE DEF amounts
    <3> QED BY <1>2, TakingIs
  <2>2. \A k \in 1 .. MaxSkill - s : amounts[k] = getReqSkillTries(s + k)
    OBVIOUS
  <2> HIDE DEF left, amounts
  <2> QED BY <1>2, <2>1, <2>2
<1>4. \A k \in 0 .. MaxSkill - s :
        left[k] \in Int
          /\ left[k] + Tries(s + k, 0) = Tries(s, 0) + t + count
  <2> HIDE DEF left
  <2> DEFINE N == {k \in Nat : k <= MaxSkill - s =>
                     left[k] \in Int
                       /\ left[k] + Tries(s + k, 0) = Tries(s, 0) + t + count}
  <2>1. 0 \in N
    <3>1. Tries(s, 0) \in Nat BY <1>0, TriesIs
    <3>2. s + 0 = s BY <1>0
    <3> QED BY <1>3, <3>1, <3>2
  <2>2. ASSUME NEW k \in N PROVE k + 1 \in N
    <3> SUFFICES ASSUME k + 1 <= MaxSkill - s
                 PROVE  /\ left[k + 1] \in Int
                        /\ left[k + 1] + Tries(s + (k + 1), 0) =
                             Tries(s, 0) + t + count
      OBVIOUS
    <3>1. left[k] \in Int
          /\ left[k] + Tries(s + k, 0) = Tries(s, 0) + t + count
      BY <1>0
    <3>2. /\ k + 1 \in 1 .. MaxSkill - s /\ (k + 1) - 1 = k
          /\ s + (k + 1) \in 1 .. MaxSkill /\ (s + (k + 1)) - 1 = s + k
          /\ s + k \in 0 .. MaxSkill /\ k + 1 \in 0 .. MaxSkill - s
      BY <1>0
    <3> HIDE DEF N
    <3>3. left[k + 1] = left[k] - getReqSkillTries(s + (k + 1))
      BY <1>3, <3>2
    <3>4. Tries(s + (k + 1), 0) = Tries(s + k, 0)
                                    + getReqSkillTries(s + (k + 1))
      BY <3>2, TriesIs
    <3>5. getReqSkillTries(s + (k + 1)) \in Nat BY <1>1, <3>2
    <3>6. Tries(s + k, 0) \in Nat /\ Tries(s, 0) \in Nat
      BY <1>0, <3>2, TriesIs
    <3> QED BY <3>1, <3>3, <3>4, <3>5, <3>6
  <2>3. N = Nat
    <3>1. N \in SUBSET Nat OBVIOUS
    <3> HIDE DEF N
    <3> QED BY <2>1, <2>2, <3>1, NatSetInduction
  <2>4. \A k \in 0 .. MaxSkill - s : k \in N
    <3> HIDE DEF N
    <3> QED BY <1>0, <2>3
  <2> QED BY <2>4
<1>5. MaxSkill - s \in S /\ S \in SUBSET Nat BY <1>0, <1>1
<1>6. n \in S /\ \A k \in S : n <= k
  <2> HIDE DEF S
  <2> QED BY <1>5, LeastIs
<1>7. after = <<s + n, IF isLast(n) THEN 0 ELSE left[n]>>
  BY Zenon DEF Advance
<1>8. after[1] = s + n /\ after[2] = IF isLast(n) THEN 0 ELSE left[n]
  <2> HIDE DEF n, isLast, left
  <2> QED BY <1>7
<1> HIDE DEF n, left
<1>9. n \in 0 .. MaxSkill - s /\ (left[n] < next(n) \/ isLast(n)) BY <1>6
<1>10. n = 0 \/ (n - 1 \in 0 .. MaxSkill - s /\ n - 1 \notin S
                   /\ n \in 1 .. MaxSkill - s)
  BY <1>0, <1>6, <1>9
<1>11. left[n] >= 0
  <2>1. CASE n = 0 BY <1>3, <2>1
  <2>2. CASE n # 0
    <3>1. ~ (left[n - 1] < next(n - 1)) BY <1>10, <2>2
    <3>2. left[n - 1] \in Int /\ next(n - 1) \in Nat
      BY <1>1, <1>4, <1>10, <2>2
    <3>3. left[n] = left[n - 1] - getReqSkillTries(s + n)
      BY <1>3, <1>10, <2>2
    <3>4. s + (n - 1) + 1 = s + n BY <1>0, <1>9
    <3> QED BY <3>1, <3>2, <3>3, <3>4
  <2> QED BY <2>1, <2>2
<1>12. Tries(s, t) = Tries(s, 0) + t /\ Tries(s, 0) \in Nat
  BY <1>0, TriesIs
<1>13. s + n \in 0 .. MaxSkill /\ left[n] \in Int
       /\ left[n] + Tries(s + n, 0) = Tries(s, t) + count
       /\ Tries(s + n, 0) \in Nat
  BY <1>0, <1>4, <1>9, <1>12, TriesIs
<1>14. Tries(MaxSkill, 0) \in Nat BY <1>0, TriesIs
<1>15. CASE isLast(n)
  <2>1. n = MaxSkill - s BY <1>1, <1>9, <1>15
  <2>2. after[1] = MaxSkill /\ after[2] = 0 BY <1>0, <1>8, <1>15, <2>1
  <2>3. Tries(MaxSkill, 0) <= Tries(s, t) + count
    <3>1. s + n = MaxSkill BY <1>0, <2>1
    <3> QED BY <1>11, <1>13, <3>1
  <2>4. Capped(Tries(s, t) + count) = Tries(MaxSkill, 0)
    BY <1>12, <1>14, <2>3, MinMax2 DEF Capped
  <2> QED BY <1>0, <2>2, <2>4
<1>16. CASE ~ isLast(n)
  <2>1. left[n] < next(n) BY <1>9, <1>16
  <2>2. n # MaxSkill - s BY <1>1, <1>16
  <2>3. after[1] = s + n /\ after[2] = left[n] BY <1>8, <1>16
  <2>4. /\ s + n + 1 \in 1 .. MaxSkill /\ (s + n + 1) - 1 = s + n
        /\ s + n + 1 \in 0 .. MaxSkill /\ s + n + 1 <= MaxSkill
        /\ MaxSkill \in 0 .. MaxSkill
    BY <1>0, <1>9, <2>2
  <2>5. Tries(s + n + 1, 0) = Tries(s + n, 0) + next(n)
    BY <2>4, TriesIs
  <2>6. Tries(s + n + 1, 0) <= Tries(MaxSkill, 0) BY <2>4, TriesGrow
  <2>7. next(n) \in Nat BY <1>1, <1>9
  <2>8. Tries(s, t) + count <= Tries(MaxSkill, 0)
    BY <1>12, <1>13, <1>14, <2>1, <2>5, <2>6, <2>7
  <2>9. Capped(Tries(s, t) + count) = Tries(s, t) + count
    BY <1>12, <1>14, <2>8, MinMax2 DEF Capped
  <2>10. Tries(s + n, left[n]) = Tries(s, t) + count
    <3>1. Tries(s + n, left[n]) = Tries(s + n, 0) + left[n]
      BY <1>13, TriesIs
    <3> QED BY <1>13, <3>1
  <2>11. after[2] \in Nat BY <1>11, <1>13, <2>3
  <2> HIDE DEF next, isLast
  <2>12. after[2] < getReqSkillTries(after[1] + 1) BY <2>1, <2>3 DEF next
  <2> QED BY <1>13, <2>3, <2>9, <2>10, <2>11, <2>12
<1> QED BY <1>15, <1>16

LEMMA DeclineIs ==
  ASSUME NEW s \in 0 .. MaxSkill, NEW t \in Nat,
         s < MaxSkill => t < getReqSkillTries(s + 1),
         NEW taken \in Nat, taken <= Tries(s, t),
         NEW after, after = Decline(s, t, taken)
  PROVE  /\ after[1] \in 0 .. MaxSkill /\ after[2] \in Nat
         /\ after[1] < MaxSkill => after[2] < getReqSkillTries(after[1] + 1)
         /\ Tries(after[1], after[2]) = Tries(s, t) - taken
<1> DEFINE had == [n \in 1 .. s + 1 |->
                     IF n = 1 THEN t ELSE getReqSkillTries(s - n + 2)]
           left == Taking(taken, had)
           S == {k \in 0 .. s : k = s \/ left[k] <= had[k + 1]}
           n == Min(S)
<1>0. MaxSkill \in Nat \ {0} /\ s \in Nat BY SkillTable
<1>1. /\ had[1] = t
      /\ \A k \in 1 .. s : had[k + 1] = getReqSkillTries(s - k + 1)
      /\ \A k \in 1 .. s + 1 : had[k] \in Nat
  <2>1. 1 \in 1 .. s + 1 BY <1>0
  <2>2. ASSUME NEW k \in 1 .. s
        PROVE  had[k + 1] = getReqSkillTries(s - k + 1)
    <3>1. k + 1 \in 1 .. s + 1 /\ k + 1 # 1 /\ s - (k + 1) + 2 = s - k + 1
      BY <1>0
    <3> QED BY <3>1
  <2>3. ASSUME NEW k \in 1 .. s + 1 PROVE had[k] \in Nat
    <3>1. k # 1 => s - k + 2 \in 0 .. MaxSkill + 1 BY <1>0
    <3> QED BY <3>1, SkillTable
  <2> HIDE DEF had
  <2> QED
    <3>1. had[1] = t BY <2>1 DEF had
    <3> QED BY <2>2, <2>3, <3>1
<1>2. had \in Seq(Int) /\ Len(had) = s + 1
  <2>1. had \in [1 .. s + 1 -> Int]
    <3>1. \A k \in 1 .. s + 1 : had[k] \in Int BY <1>1
    <3>2. DOMAIN had = 1 .. s + 1 /\ had = [k \in DOMAIN had |-> had[k]]
      OBVIOUS
    <3> HIDE DEF had
    <3> QED BY <3>1, <3>2
  <2> HIDE DEF had
  <2> QED BY <1>0, <2>1
<1>3. /\ left[0] = taken
      /\ \A k \in 1 .. s + 1 : left[k] = left[k - 1] - had[k]
  <2>1. /\ left[0] = taken
        /\ \A k \in 1 .. Len(had) : left[k] = left[k - 1] - had[k]
    <3> HIDE DEF had
    <3>1. taken \in Int OBVIOUS
    <3> QED BY <1>2, <3>1, TakingIs
  <2> HIDE DEF left, had
  <2> QED BY <1>2, <2>1
<1> HIDE DEF had, left
<1>4. Tries(s, 0) \in Nat /\ Tries(s, t) = Tries(s, 0) + t BY <1>0, TriesIs
<1>5. \A k \in 0 .. s :
        left[k] \in Int
          /\ (k > 0 => left[k] - taken = Tries(s - k + 1, 0) - Tries(s, t))
  <2> DEFINE N == {k \in Nat : k <= s =>
                left[k] \in Int
                  /\ (k > 0 => left[k] - taken
                                 = Tries(s - k + 1, 0) - Tries(s, t))}
  <2>1. 0 \in N BY <1>3
  <2>2. ASSUME NEW k \in N PROVE k + 1 \in N
    <3> SUFFICES ASSUME k + 1 <= s
                 PROVE  /\ left[k + 1] \in Int
                        /\ left[k + 1] - taken =
                             Tries(s - (k + 1) + 1, 0) - Tries(s, t)
      OBVIOUS
    <3>1. k \in Nat /\ left[k] \in Int
          /\ (k > 0 => left[k] - taken = Tries(s - k + 1, 0) - Tries(s, t))
      BY <1>0
    <3>2. k + 1 \in 1 .. s + 1 /\ (k + 1) - 1 = k
      BY <1>0
    <3> HIDE DEF N
    <3>3. left[k + 1] = left[k] - had[k + 1] /\ had[k + 1] \in Nat
      BY <1>1, <1>3, <3>2
    <3>4. CASE k = 0
      <4>1. s - (k + 1) + 1 = s BY <1>0, <3>4
      <4>2. had[k + 1] = t /\ left[k] = taken BY <1>1, <1>3, <3>4
      <4> QED BY <1>4, <3>3, <4>1, <4>2
    <3>5. CASE k # 0
      <4>1. k \in 1 .. s /\ s - k + 1 \in 1 .. MaxSkill
            /\ (s - k + 1) - 1 = s - (k + 1) + 1
            /\ s - (k + 1) + 1 \in 0 .. MaxSkill
            /\ s - k + 1 \in 0 .. MaxSkill
        BY <1>0, <3>1, <3>5
      <4>2. had[k + 1] = getReqSkillTries(s - k + 1) BY <1>1, <4>1
      <4>3. Tries(s - k + 1, 0) = Tries(s - (k + 1) + 1, 0)
                                    + getReqSkillTries(s - k + 1)
        BY <4>1, TriesIs
      <4>4. Tries(s - k + 1, 0) \in Nat
            /\ Tries(s - (k + 1) + 1, 0) \in Nat
        BY <4>1, TriesIs
      <4> QED BY <1>4, <3>1, <3>3, <3>5, <4>2, <4>3, <4>4
    <3> QED BY <3>4, <3>5
  <2>3. N = Nat
    <3>1. N \in SUBSET Nat OBVIOUS
    <3> HIDE DEF N
    <3> QED BY <2>1, <2>2, <3>1, NatSetInduction
  <2>4. \A k \in 0 .. s : k \in N
    <3> HIDE DEF N
    <3> QED BY <1>0, <2>3
  <2> QED BY <2>4
<1>6. s \in S /\ S \in SUBSET Nat BY <1>0
<1>7. n \in S /\ \A k \in S : n <= k
  <2> HIDE DEF S
  <2> QED BY <1>6, LeastIs
<1>8. after = <<s - n, Max({0, had[n + 1] - left[n]})>>
  BY Zenon DEF Decline, had, left
<1>9. after[1] = s - n /\ after[2] = Max({0, had[n + 1] - left[n]})
  <2> HIDE DEF n
  <2> QED BY <1>8
<1> HIDE DEF n
<1>10. n \in 0 .. s /\ (n = s \/ left[n] <= had[n + 1]) BY <1>7
<1>11. n + 1 \in 1 .. s + 1 /\ had[n + 1] \in Nat /\ left[n] \in Int
       /\ s - n \in 0 .. MaxSkill
  BY <1>0, <1>1, <1>5, <1>10
<1>12. left[n] <= had[n + 1]
  <2> SUFFICES ASSUME n = s PROVE left[n] <= had[n + 1]
    BY <1>10
  <2>1. CASE s = 0
    BY <1>1, <1>3, <1>4, <2>1, TriesIs
  <2>2. CASE s # 0
    <3>1. s \in 1 .. s /\ s - s + 1 = 1 /\ 1 \in 1 .. MaxSkill /\ 1 - 1 = 0
      BY <1>0, <2>2
    <3>2. had[s + 1] = getReqSkillTries(1) BY <1>1, <3>1
    <3>3. Tries(1, 0) = getReqSkillTries(1)
      BY <3>1, SkillTable, TriesIs
    <3>4. left[s] - taken = Tries(1, 0) - Tries(s, t)
      BY <1>0, <1>5, <2>2, <3>1
    <3>5. getReqSkillTries(1) \in Nat BY <3>1, SkillTable
    <3> QED BY <1>4, <1>11, <3>2, <3>3, <3>4, <3>5
  <2> QED BY <2>1, <2>2
<1>13. after[2] = had[n + 1] - left[n] /\ after[2] \in Nat
  <2>1. had[n + 1] - left[n] \in Int /\ 0 <= had[n + 1] - left[n]
    BY <1>11, <1>12
  <2> QED BY <1>9, <2>1, MaxZero
<1>14. CASE n = 0
  <2>1. after[1] = s /\ after[2] = t - taken
    BY <1>0, <1>1, <1>3, <1>9, <1>13, <1>14
  <2>2. t - taken \in Int /\ s \in 0 .. MaxSkill OBVIOUS
  <2>3. Tries(s, t - taken) = Tries(s, 0) + (t - taken) BY <2>2, TriesIs
  <2>4. s < MaxSkill => getReqSkillTries(s + 1) \in Nat
    BY <1>0, SkillTable
  <2> QED BY <1>4, <1>13, <2>1, <2>3, <2>4
<1>15. CASE n # 0
  <2>1. n \in 1 .. s /\ s - n + 1 \in 1 .. MaxSkill
        /\ (s - n + 1) - 1 = s - n
    BY <1>0, <1>10, <1>15
  <2>2. had[n + 1] = getReqSkillTries(s - n + 1) BY <1>1, <2>1
  <2>3. left[n] > 0
    <3>1. n - 1 \in 0 .. s /\ n - 1 # s /\ n - 1 \notin S
          /\ (n - 1) + 1 = n /\ n \in 1 .. s + 1
      BY <1>0, <1>7, <2>1
    <3>2. ~ (left[n - 1] <= had[n]) BY <3>1
    <3>3. left[n] = left[n - 1] - had[n] /\ left[n - 1] \in Int
          /\ had[n] \in Nat
      BY <1>1, <1>3, <1>5, <3>1
    <3> QED BY <3>2, <3>3
  <2>4. left[n] - taken = Tries(s - n + 1, 0) - Tries(s, t)
    BY <1>5, <1>10, <1>15
  <2>5. Tries(s - n + 1, 0) =
          Tries(s - n, 0) + getReqSkillTries(s - n + 1)
    BY <2>1, TriesIs
  <2>6. Tries(after[1], after[2]) = Tries(s - n, 0) + after[2]
    BY <1>9, <1>11, <1>13, TriesIs
  <2>7. Tries(s - n, 0) \in Nat BY <1>11, TriesIs
  <2>8. Tries(after[1], after[2]) = Tries(s, t) - taken
    BY <1>4, <1>11, <1>13, <2>2, <2>4, <2>5, <2>6, <2>7
  <2>9. after[2] < getReqSkillTries(after[1] + 1)
    BY <1>9, <1>11, <1>13, <2>2, <2>3
  <2> QED BY <1>9, <1>11, <1>13, <2>8, <2>9
<1> QED BY <1>14, <1>15

-----------------------------------------------------------------------------

LEMMA HealthFollows ==
  ASSUME ProgressAddsUp, NEW l \in 1 .. MaxLevel, BecomeLevel(l)
  PROVE  level' = l /\ healthMax' = level' * HealthGain /\ healthMax' \in Nat
<1>1. /\ level \in Nat /\ healthMax = level * HealthGain /\ l \in Nat
      /\ HealthGain \in Nat
  BY LevelTable, ProgressAssumption DEF ProgressAddsUp, ProgressTypeOK
<1>2. level' = l
      /\ healthMax' = Max({0, healthMax + (l - level) * HealthGain})
  BY DEF BecomeLevel
<1>3. healthMax + (l - level) * HealthGain = l * HealthGain BY <1>1
<1>4. l * HealthGain \in Nat BY <1>1
<1>5. Max({0, l * HealthGain}) = l * HealthGain
  <2> DEFINE h == l * HealthGain
  <2>1. h \in Int /\ 0 <= h BY <1>4
  <2> HIDE DEF h
  <2>2. Max({0, h}) = h BY <2>1, MaxZero
  <2> QED BY <2>2 DEF h
<1> QED BY <1>2, <1>3, <1>4, <1>5

(* Level, health and experience go together, and so do skill and tries.    *)
LevelAddsUp ==
  /\ level \in 1 .. MaxLevel /\ experience \in Nat /\ healthMax \in Nat
  /\ getExpForLevel(level) <= experience
  /\ level < MaxLevel => experience < getExpForLevel(level + 1)
  /\ healthMax = level * HealthGain

SkillAddsUp ==
  /\ skill \in 0 .. MaxSkill /\ tries \in Nat /\ learnt \in Nat
  /\ Tries(skill, tries) = learnt
  /\ skill < MaxSkill => tries < getReqSkillTries(skill + 1)

LEMMA ProgressAddsUpIs == ProgressAddsUp <=> LevelAddsUp /\ SkillAddsUp
  BY DEF ProgressAddsUp, ProgressTypeOK, LevelAddsUp, SkillAddsUp

LEMMA ProgressInitAddsUp == ProgressInit => ProgressAddsUp
<1> SUFFICES ASSUME ProgressInit PROVE ProgressAddsUp
  OBVIOUS
<1>1. LevelAddsUp
  <2>1. 1 \in 1 .. MaxLevel /\ (1 < MaxLevel => 1 \in 1 .. MaxLevel - 1)
    BY LevelTable
  <2> QED BY <2>1, LevelTable, ProgressAssumption
       DEF ProgressInit, LevelAddsUp
<1>2. SkillAddsUp
  <2>1. 0 \in 0 .. MaxSkill - 1 /\ 0 \in 0 .. MaxSkill BY SkillTable
  <2>2. getReqSkillTries(0) = 0 BY DEF getReqSkillTries
  <2> QED BY <2>1, <2>2, SkillTable, TriesIs DEF ProgressInit, SkillAddsUp
<1> QED BY <1>1, <1>2, ProgressAddsUpIs

LEMMA ProgressNextAddsUp ==
  ProgressAddsUp /\ [ProgressNext]_progressVars => ProgressAddsUp'
<1> SUFFICES ASSUME ProgressAddsUp, [ProgressNext]_progressVars
             PROVE  LevelAddsUp' /\ SkillAddsUp'
  BY DEF ProgressAddsUp, ProgressTypeOK, LevelAddsUp, SkillAddsUp
<1>1. LevelAddsUp /\ SkillAddsUp BY ProgressAddsUpIs
<1>2. ASSUME UNCHANGED <<skill, tries, learnt>> PROVE SkillAddsUp'
  BY <1>1, <1>2 DEF SkillAddsUp, Tries
<1>3. ASSUME UNCHANGED <<level, experience, healthMax>> PROVE LevelAddsUp'
  BY <1>1, <1>3 DEF LevelAddsUp
<1>4. ASSUME NEW e \in Nat, experience' = e, e <= experience,
             BecomeLevel(LevelDown(level, e))
      PROVE  LevelAddsUp'
  <2>1. level < MaxLevel => e < getExpForLevel(level + 1)
    <3> SUFFICES ASSUME level < MaxLevel
                 PROVE  e < getExpForLevel(level + 1)
      OBVIOUS
    <3>1. level + 1 \in 1 .. MaxLevel
      BY <1>1, LevelTable DEF LevelAddsUp
    <3>2. getExpForLevel(level + 1) \in Nat BY <3>1, LevelTable
    <3> QED BY <1>1, <1>4, <3>2 DEF LevelAddsUp
  <2> DEFINE l == LevelDown(level, e)
  <2>2. level \in 1 .. MaxLevel BY <1>1 DEF LevelAddsUp
  <2>3. /\ l \in 1 .. level /\ getExpForLevel(l) <= e
        /\ l < MaxLevel => e < getExpForLevel(l + 1)
    BY <2>1, <2>2, LevelDownIs
  <2>4. l \in 1 .. MaxLevel BY <2>2, <2>3, LevelTable
  <2> HIDE DEF l
  <2>5. BecomeLevel(l) BY <1>4 DEF l
  <2>6. level' = l /\ healthMax' = level' * HealthGain /\ healthMax' \in Nat
    BY <2>4, <2>5, HealthFollows
  <2> QED BY <1>4, <2>3, <2>4, <2>6 DEF LevelAddsUp
<1>5. ASSUME NEW k \in Gain, addExperience(k)
      PROVE  LevelAddsUp' /\ SkillAddsUp'
  <2>1. k \in Nat BY ProgressAssumption
  <2> DEFINE e == experience + k
             l == LevelUp(level, e)
  <2>2. level \in 1 .. MaxLevel /\ experience \in Nat /\ e \in Nat
        /\ getExpForLevel(level) <= e
    <3>1. level \in 1 .. MaxLevel /\ experience \in Nat
          /\ getExpForLevel(level) <= experience
      BY <1>1 DEF LevelAddsUp
    <3>2. getExpForLevel(level) \in Nat BY <3>1, LevelTable
    <3> QED BY <2>1, <3>1, <3>2
  <2> HIDE DEF e
  <2>3. /\ l \in level .. MaxLevel /\ getExpForLevel(l) <= e
        /\ l < MaxLevel => e < getExpForLevel(l + 1)
    BY <2>2, LevelUpIs
  <2>4. l \in 1 .. MaxLevel BY <2>2, <2>3, LevelTable
  <2> HIDE DEF l
  <2>5. BecomeLevel(l) /\ experience' = e BY <1>5 DEF addExperience, e, l
  <2>6. level' = l /\ healthMax' = level' * HealthGain /\ healthMax' \in Nat
    BY <2>4, <2>5, HealthFollows
  <2>7. LevelAddsUp' BY <2>2, <2>3, <2>4, <2>5, <2>6 DEF LevelAddsUp
  <2>8. UNCHANGED <<skill, tries, learnt>> BY <1>5 DEF addExperience
  <2> QED BY <1>2, <2>7, <2>8
<1>6. ASSUME NEW k \in Gain, removeExperience(k)
      PROVE  LevelAddsUp' /\ SkillAddsUp'
  <2>1. k \in Nat /\ experience \in Nat
    BY <1>1, ProgressAssumption DEF LevelAddsUp
  <2>2. Max({0, experience - k}) \in Nat
        /\ Max({0, experience - k}) <= experience
    <3>1. experience - k \in Int /\ experience - k <= experience BY <2>1
    <3> QED BY <2>1, <3>1, MaxZero
  <2>3. LevelAddsUp' BY <1>4, <1>6, <2>2 DEF removeExperience
  <2>4. UNCHANGED <<skill, tries, learnt>> BY <1>6 DEF removeExperience
  <2> QED BY <1>2, <2>3, <2>4
<1>7. ASSUME NEW k \in Gain, addSkillAdvance(k)
      PROVE  LevelAddsUp' /\ SkillAddsUp'
  <2>1. k \in Nat /\ skill \in 0 .. MaxSkill /\ tries \in Nat
        /\ learnt \in Nat /\ Tries(skill, tries) = learnt
    BY <1>1, ProgressAssumption DEF SkillAddsUp
  <2>2. getReqSkillTries(skill) < getReqSkillTries(skill + 1)
    BY <1>7 DEF addSkillAdvance
  <2>3. skill \in 0 .. MaxSkill - 1
    <3>1. skill # MaxSkill
      <4>1. getReqSkillTries(MaxSkill) \in Nat BY SkillTable
      <4> QED BY <2>2, <4>1, SkillTable
    <3> QED BY <2>1, <3>1, SkillTable
  <2> DEFINE after == Advance(skill, tries, k)
  <2>4. /\ after[1] \in 0 .. MaxSkill /\ after[2] \in Nat
        /\ after[1] < MaxSkill => after[2] < getReqSkillTries(after[1] + 1)
        /\ Tries(after[1], after[2]) =
             Capped(Tries(skill, tries) + k)
    <3>1. after = Advance(skill, tries, k) OBVIOUS
    <3>2. tries \in Nat /\ k \in Nat BY <2>1
    <3> HIDE DEF after
    <3> QED BY <2>3, <3>1, <3>2, AdvanceIs
  <2> HIDE DEF after
  <2>5. skill' = after[1] /\ tries' = after[2]
    BY <1>7 DEF addSkillAdvance, after
  <2>6. learnt' = Capped(learnt + k) BY <1>7 DEF addSkillAdvance, Capped
  <2>7. learnt' \in Nat
    <3>1. MaxSkill \in 0 .. MaxSkill BY SkillTable
    <3>2. Tries(MaxSkill, 0) \in Nat BY <3>1, TriesIs
    <3> QED BY <2>1, <2>6, <3>2, MinMax2 DEF Capped
  <2>8. Tries(skill, tries)' = Tries(after[1], after[2])
    BY <2>5 DEF Tries
  <2>9. SkillAddsUp' BY <2>1, <2>4, <2>5, <2>6, <2>7, <2>8 DEF SkillAddsUp
  <2>10. UNCHANGED <<level, experience, healthMax>>
    BY <1>7 DEF addSkillAdvance
  <2> QED BY <1>3, <2>9, <2>10
<1>8. ASSUME death PROVE LevelAddsUp' /\ SkillAddsUp'
  <2>1. skill \in 0 .. MaxSkill /\ tries \in Nat
        /\ learnt \in Nat /\ Tries(skill, tries) = learnt
        /\ (skill < MaxSkill => tries < getReqSkillTries(skill + 1))
        /\ experience \in Nat
    BY <1>1 DEF SkillAddsUp, LevelAddsUp
  <2>2. PICK taken \in 0 .. Tries(skill, tries), exp \in 0 .. experience :
          /\ LET after == Decline(skill, tries, taken)
             IN skill' = after[1] /\ tries' = after[2]
          /\ learnt' = learnt - taken
          /\ experience' = experience - (IF level > 1 THEN exp ELSE 0)
          /\ BecomeLevel(LevelDown(level, experience'))
    BY <1>8 DEF death
  <2> DEFINE after == Decline(skill, tries, taken)
  <2>3. taken \in Nat /\ taken <= Tries(skill, tries) BY <2>1
  <2>4. /\ after[1] \in 0 .. MaxSkill /\ after[2] \in Nat
        /\ after[1] < MaxSkill => after[2] < getReqSkillTries(after[1] + 1)
        /\ Tries(after[1], after[2]) = Tries(skill, tries) - taken
    BY <2>1, <2>3, DeclineIs
  <2> HIDE DEF after
  <2>5. skill' = after[1] /\ tries' = after[2] BY <2>2 DEF after
  <2>6. Tries(skill, tries)' = Tries(after[1], after[2])
    BY <2>5 DEF Tries
  <2>7. learnt' \in Nat /\ learnt' = Tries(skill, tries) - taken
    BY <2>1, <2>2, <2>3
  <2>8. SkillAddsUp' BY <2>4, <2>5, <2>6, <2>7 DEF SkillAddsUp
  <2>9. experience' \in Nat /\ experience' <= experience BY <2>1, <2>2
  <2>10. LevelAddsUp' BY <1>4, <2>2, <2>9
  <2> QED BY <2>8, <2>10
<1>9. CASE UNCHANGED progressVars BY <1>2, <1>3, <1>9 DEF progressVars
<1> QED BY <1>5, <1>6, <1>7, <1>8, <1>9 DEF ProgressNext

(* Level and health are those of the experience, and the skill and what is *)
(* over that of the tries that were learnt and not taken, whatever is       *)
(* gained and taken, in any pieces (addExperience, removeExperience,        *)
(* addSkillAdvance, death).                                                *)
THEOREM ProgressAddsUpHolds == ProgressSpec => []ProgressAddsUp
<1>1. ProgressInit => ProgressAddsUp BY ProgressInitAddsUp
<1>2. ProgressAddsUp /\ [ProgressNext]_progressVars => ProgressAddsUp'
  BY ProgressNextAddsUp
<1> QED BY <1>1, <1>2, PTL DEF ProgressSpec
-----------------------------------------------------------------------------
(* Items that decay: how often an item is in a list *)

(* The occurrences of i after the first n entries.                         *)
Coming(s, n, i) == Cardinality({k \in n + 1 .. Len(s) : s[k] = i})

LEMMA ComingIs ==
  ASSUME NEW s \in Seq(Item), NEW i \in Item
  PROVE  /\ \A n \in 0 .. Len(s) : Coming(s, n, i) \in Nat
         /\ Coming(s, 0, i) = Count(s, i)
         /\ Coming(s, Len(s), i) = 0
         /\ \A n \in 1 .. Len(s) :
              Coming(s, n - 1, i) =
                Coming(s, n, i) + (IF s[n] = i THEN 1 ELSE 0)
<1> DEFINE at(n) == {k \in n + 1 .. Len(s) : s[k] = i}
<1>1. \A n \in Nat : IsFiniteSet(at(n))
  <2> TAKE n \in Nat
  <2>1. IsFiniteSet(n + 1 .. Len(s)) BY FS_Interval
  <2>2. at(n) \subseteq n + 1 .. Len(s) OBVIOUS
  <2> HIDE DEF at
  <2> QED BY <2>1, <2>2, FS_Subset
<1>2. \A n \in Nat : Cardinality(at(n)) \in Nat
  BY <1>1, FS_CardinalityType
<1>3. {n \in DOMAIN s : s[n] = i} = at(0) OBVIOUS
<1>4. at(Len(s)) = {} OBVIOUS
<1>5. ASSUME NEW n \in 1 .. Len(s)
      PROVE  Cardinality(at(n - 1)) =
               Cardinality(at(n)) + (IF s[n] = i THEN 1 ELSE 0)
  <2>1. n \notin at(n) OBVIOUS
  <2>2. CASE s[n] = i
    <3>1. at(n - 1) = at(n) \cup {n} BY <2>2
    <3> HIDE DEF at
    <3> QED BY <1>1, <1>2, <2>1, <2>2, <3>1, FS_AddElement
  <2>3. CASE s[n] # i
    <3>1. at(n - 1) = at(n) BY <2>3
    <3> HIDE DEF at
    <3> QED BY <1>2, <2>3, <3>1
  <2> QED BY <2>2, <2>3
<1> HIDE DEF at
<1>6. \A n \in Nat : Coming(s, n, i) = Cardinality(at(n))
  BY DEF Coming, at
<1>7. Count(s, i) = Cardinality(at(0)) BY <1>3 DEF Count
<1>8. Cardinality({}) = 0 BY FS_EmptySet
<1>9. Len(s) \in Nat OBVIOUS
<1>10. \A n \in 0 .. Len(s) : n \in Nat OBVIOUS
<1>11. \A n \in 1 .. Len(s) : n \in Nat /\ n - 1 \in Nat OBVIOUS
<1> QED BY <1>2, <1>4, <1>5, <1>6, <1>7, <1>8, <1>9, <1>10, <1>11

LEMMA CountIs ==
  ASSUME NEW s \in Seq(Item), NEW i \in Item
  PROVE  /\ Count(s, i) \in Nat
         /\ Count(<<>>, i) = 0
         /\ \A n \in DOMAIN s : s[n] = i => Count(s, i) > 0
<1> DEFINE at == {n \in DOMAIN s : s[n] = i}
<1>1. at \subseteq 1 .. Len(s) OBVIOUS
<1>2. IsFiniteSet(at) BY <1>1, FS_Interval, FS_Subset
<1>3. Cardinality(at) \in Nat /\ (Cardinality(at) = 0 <=> at = {})
  <2> HIDE DEF at
  <2> QED BY <1>2, FS_CardinalityType, FS_EmptySet
<1>4. {n \in DOMAIN <<>> : <<>>[n] = i} = {} OBVIOUS
<1>5. Count(<<>>, i) = 0 BY <1>4, FS_EmptySet DEF Count
<1>6. \A n \in DOMAIN s : s[n] = i => at # {} OBVIOUS
<1>7. Count(s, i) = Cardinality(at) BY DEF Count
<1> HIDE DEF at
<1> QED BY <1>3, <1>5, <1>6, <1>7

LEMMA CountAppend ==
  ASSUME NEW s \in Seq(Item), NEW x \in Item, NEW i \in Item
  PROVE  Count(Append(s, x), i) = Count(s, i) + (IF x = i THEN 1 ELSE 0)
<1> DEFINE t == Append(s, x)
           at == {n \in DOMAIN s : s[n] = i}
           att == {n \in DOMAIN t : t[n] = i}
           new == Len(s) + 1
<1>1. at \subseteq 1 .. Len(s) OBVIOUS
<1>2. IsFiniteSet(at) BY <1>1, FS_Interval, FS_Subset
<1>3. new \notin at OBVIOUS
<1>4. att = IF x = i THEN at \cup {new} ELSE at
  <2>1. DOMAIN t = DOMAIN s \cup {new} OBVIOUS
  <2>2. t[new] = x OBVIOUS
  <2>3. \A n \in DOMAIN s : t[n] = s[n] OBVIOUS
  <2> HIDE DEF t
  <2> QED BY <2>1, <2>2, <2>3
<1>5. Cardinality(at) \in Nat BY <1>2, FS_CardinalityType
<1> HIDE DEF new, at
<1>6. Cardinality(at \cup {new}) = Cardinality(at) + 1
  BY <1>2, <1>3, FS_AddElement
<1>7. Count(t, i) = Cardinality(att) /\ Count(s, i) = Cardinality(at)
  BY DEF Count, at
<1> HIDE DEF t, att
<1>8. Count(t, i) = Count(s, i) + (IF x = i THEN 1 ELSE 0)
  BY <1>4, <1>5, <1>6, <1>7
<1> QED BY <1>8 DEF t

LEMMA CountPut ==
  ASSUME NEW s \in Seq(Item), NEW x \in Item, NEW i \in Item
  PROVE  /\ <<x>> \o s \in Seq(Item)
         /\ Count(<<x>> \o s, i) = Count(s, i) + (IF x = i THEN 1 ELSE 0)
<1> DEFINE t == <<x>> \o s
           at == {n \in DOMAIN s : s[n] = i}
           up == {n \in 2 .. Len(s) + 1 : s[n - 1] = i}
           att == {n \in DOMAIN t : t[n] = i}
           f == [n \in at |-> n + 1]
<1>1. at \subseteq 1 .. Len(s) OBVIOUS
<1>2. IsFiniteSet(at) BY <1>1, FS_Interval, FS_Subset
<1>3. f \in [at -> up] OBVIOUS
<1>4. \A m, n \in at : f[m] = f[n] => m = n OBVIOUS
<1>5. ASSUME NEW n \in up PROVE \E m \in at : f[m] = n
  <2>1. n - 1 \in at OBVIOUS
  <2>2. f[n - 1] = n BY <2>1
  <2> QED BY <2>1, <2>2
<1>6. f \in Bijection(at, up)
  <2> HIDE DEF at, up, f
  <2> QED BY <1>3, <1>4, <1>5
      DEF Bijection, Injection, Surjection, IsInjective
<1>7. IsFiniteSet(up) /\ Cardinality(up) = Cardinality(at)
  <2> HIDE DEF at, up, f
  <2> QED BY <1>2, <1>6, FS_Bijection DEF ExistsBijection
<1>8. att = IF x = i THEN up \cup {1} ELSE up
  <2>1. t \in Seq(Item) /\ DOMAIN t = 1 .. Len(s) + 1 /\ t[1] = x OBVIOUS
  <2>2. \A n \in 2 .. Len(s) + 1 : t[n] = s[n - 1] OBVIOUS
  <2>3. 1 .. Len(s) + 1 = {1} \cup 2 .. Len(s) + 1 OBVIOUS
  <2> HIDE DEF t
  <2> QED BY <2>1, <2>2, <2>3
<1>9. 1 \notin up OBVIOUS
<1>10. Cardinality(at) \in Nat BY <1>2, FS_CardinalityType
<1>11. t \in Seq(Item) OBVIOUS
<1>12. Count(t, i) = Cardinality(att) /\ Count(s, i) = Cardinality(at)
  BY DEF Count
<1> HIDE DEF at, up, att, f, t
<1>13. Cardinality(up \cup {1}) = Cardinality(at) + 1
  BY <1>7, <1>9, FS_AddElement
<1>14. Count(t, i) = Count(s, i) + (IF x = i THEN 1 ELSE 0)
  BY <1>7, <1>8, <1>10, <1>12, <1>13
<1> QED BY <1>11, <1>14 DEF t

-----------------------------------------------------------------------------
(* and in the buckets *)

InWheel(wh, i) == SumFunction([b \in Bucket |-> Count(wh[b], i)])

LEMMA BucketsAre ==
  IsFiniteSet(Bucket) /\ Bucket = {0, 1, 2, 3}
<1>1. Bucket = {0, 1, 2, 3} BY DEF Bucket, Buckets
<1>2. \A n \in Nat : IsFiniteSet(0 .. n) BY FS_Interval
<1>3. Bucket = 0 .. 3 BY DEF Bucket, Buckets
<1> QED BY <1>1, <1>2, <1>3

LEMMA InWheelIs ==
  ASSUME NEW wh \in [Bucket -> Seq(Item)], NEW i \in Item
  PROVE  /\ InWheel(wh, i) \in Nat
         /\ \A b \in Bucket :
              /\ Count(wh[b], i) \in Nat
              /\ Count(wh[b], i) <= InWheel(wh, i)
         /\ InWheel(wh, i) > 0 => \E b \in Bucket : Count(wh[b], i) > 0
         /\ \A b, c \in Bucket :
              b # c => Count(wh[b], i) + Count(wh[c], i) <= InWheel(wh, i)
<1> DEFINE f == [b \in Bucket |-> Count(wh[b], i)]
           Sum(S) == SumFunctionOnSet(f, S)
<1>1. \A b \in Bucket : f[b] = Count(wh[b], i) /\ f[b] \in Nat
  BY CountIs
<1>2. InWheel(wh, i) = Sum(Bucket) BY DEF InWheel, SumFunction
<1> HIDE DEF f
<1>3. \A S \in SUBSET Bucket : IsFiniteSet(S) /\ Sum(S) \in Nat
  <2> TAKE S \in SUBSET Bucket
  <2>1. IsFiniteSet(S) BY BucketsAre, FS_Subset
  <2>2. \A b \in S : f[b] \in Nat BY <1>1
  <2> QED BY <2>1, <2>2, SumNat
<1>4. \A S \in SUBSET Bucket : \A b \in S : Sum(S) = f[b] + Sum(S \ {b})
  <2> TAKE S \in SUBSET Bucket
  <2> TAKE b \in S
  <2>1. \A c \in S : f[c] \in Int BY <1>1
  <2>2. IsFiniteSet(S) BY <1>3
  <2> HIDE DEF Sum
  <2>3. SumFunctionOnSet(f, S) = f[b] + SumFunctionOnSet(f, S \ {b})
    BY <2>1, <2>2, SumTakes
  <2> QED BY <2>3 DEF Sum
<1>5. InWheel(wh, i) > 0 => \E b \in Bucket : f[b] > 0
  <2> SUFFICES ASSUME \A b \in Bucket : ~ f[b] > 0
               PROVE  ~ InWheel(wh, i) > 0
    OBVIOUS
  <2>1. \A b \in Bucket : f[b] = 0 BY <1>1
  <2>2. Sum(Bucket) = 0 BY <2>1, BucketsAre, SumZero
  <2> QED BY <1>2, <2>2
<1> HIDE DEF Sum
<1>6. ASSUME NEW b \in Bucket PROVE f[b] <= Sum(Bucket)
  <2>1. Sum(Bucket) = f[b] + Sum(Bucket \ {b}) BY <1>4
  <2>2. Sum(Bucket \ {b}) \in Nat BY <1>3
  <2> QED BY <1>1, <2>1, <2>2
<1>7. ASSUME NEW b \in Bucket, NEW c \in Bucket, b # c
      PROVE  f[b] + f[c] <= Sum(Bucket)
  <2> DEFINE rest == Bucket \ {b}
  <2>1. c \in rest /\ rest \in SUBSET Bucket BY <1>7
  <2>2. Sum(Bucket) = f[b] + Sum(rest) BY <1>4
  <2> HIDE DEF rest
  <2>3. Sum(rest) = f[c] + Sum(rest \ {c}) BY <1>4, <2>1
  <2>4. Sum(rest \ {c}) \in Nat BY <1>3, <2>1
  <2> QED BY <1>1, <2>2, <2>3, <2>4
<1> QED BY <1>1, <1>2, <1>3, <1>5, <1>6, <1>7

PutIn(wh, b, s) == [wh EXCEPT ![b] = s]

LEMMA WheelChanges ==
  ASSUME NEW wh \in [Bucket -> Seq(Item)], NEW b \in Bucket,
         NEW s \in Seq(Item), NEW i \in Item,
         NEW v, v = PutIn(wh, b, s)
  PROVE  InWheel(v, i) =
           InWheel(wh, i) + (Count(s, i) - Count(wh[b], i))
<1> DEFINE f == [c \in Bucket |-> Count(wh[c], i)]
           g == [c \in Bucket |-> Count(v[c], i)]
<1>1. v[b] = s /\ \A c \in Bucket \ {b} : v[c] = wh[c] BY DEF PutIn
<1>2. v \in [Bucket -> Seq(Item)] BY DEF PutIn
<1>3. \A c \in Bucket : f[c] \in Int /\ g[c] \in Int
  BY <1>2, CountIs
<1>4. \A c \in Bucket \ {b} : g[c] = f[c] BY <1>1
<1>5. f[b] = Count(wh[b], i) /\ g[b] = Count(s, i) BY <1>1
<1>6. /\ InWheel(wh, i) = SumFunctionOnSet(f, Bucket)
      /\ InWheel(v, i) = SumFunctionOnSet(g, Bucket)
  BY DEF InWheel, SumFunction
<1> HIDE DEF f, g
<1>7. SumFunctionOnSet(g, Bucket) =
        SumFunctionOnSet(f, Bucket) + (g[b] - f[b])
  <2>1. IsFiniteSet(Bucket) BY BucketsAre
  <2> HIDE DEF Bucket
  <2> QED BY <1>3, <1>4, <2>1, SumChanges
<1> QED BY <1>5, <1>6, <1>7

LEMMA WheelGrows ==
  ASSUME NEW wh \in [Bucket -> Seq(Item)], NEW b \in Bucket,
         NEW x \in Item, NEW i \in Item,
         NEW v, v = PutIn(wh, b, Append(wh[b], x))
  PROVE  /\ v \in [Bucket -> Seq(Item)]
         /\ InWheel(v, i) = InWheel(wh, i) + (IF x = i THEN 1 ELSE 0)
         /\ \A c \in Bucket : Count(v[c], i) >= Count(wh[c], i)
         /\ x = i => Count(v[b], i) > 0
<1> DEFINE s == Append(wh[b], x)
           one == IF x = i THEN 1 ELSE 0
<1>1. wh[b] \in Seq(Item) /\ s \in Seq(Item) OBVIOUS
<1>2. Count(s, i) = Count(wh[b], i) + one BY <1>1, CountAppend
<1>3. Count(wh[b], i) \in Nat /\ one \in {0, 1} BY <1>1, CountIs
<1> HIDE DEF s, one
<1>4. InWheel(v, i) = InWheel(wh, i) + (Count(s, i) - Count(wh[b], i))
  BY <1>1, WheelChanges DEF s
<1>5. InWheel(v, i) = InWheel(wh, i) + one
  <2>1. Count(s, i) - Count(wh[b], i) = one BY <1>2, <1>3
  <2> QED BY <1>4, <2>1
<1>6. v \in [Bucket -> Seq(Item)] /\ v[b] = s
      /\ \A c \in Bucket : c # b => v[c] = wh[c]
  BY <1>1 DEF PutIn, s
<1>7. Count(v[b], i) = Count(wh[b], i) + one BY <1>2, <1>6
<1>8. ASSUME NEW c \in Bucket PROVE Count(v[c], i) >= Count(wh[c], i)
  <2>1. CASE c = b
    <3>1. Count(v[c], i) = Count(v[b], i) /\
          Count(wh[c], i) = Count(wh[b], i)
      BY <2>1
    <3> QED BY <1>3, <1>7, <3>1
  <2>2. CASE c # b
    <3>1. Count(v[c], i) = Count(wh[c], i) BY <1>6, <2>2
    <3>2. Count(wh[c], i) \in Nat BY InWheelIs
    <3> QED BY <3>1, <3>2
  <2> QED BY <2>1, <2>2
<1>9. x = i => Count(v[b], i) > 0 BY <1>3, <1>7 DEF one
<1> QED BY <1>5, <1>6, <1>8, <1>9 DEF one

-----------------------------------------------------------------------------
(* What is true of one item *)

Records ==
  [kind : [Item -> Kind], inWorld : [Item -> BOOLEAN],
   duration : [Item -> Nat], decaying : [Item -> BOOLEAN],
   toDecay : Seq(Item), wheel : [Bucket -> Seq(Item)], pending : Seq(Item),
   refs : [Item -> Int], timeLeft : [Item -> Int]]

EntriesOf(w, i) == Count(w.toDecay, i) + InWheel(w.wheel, i)

(* Every reference is one of the world, of an entry (some of which may be  *)
(* put aside, to be checked) or of what is to be released.                 *)
Referred(w, i, aside) ==
  w.refs[i] = (IF w.inWorld[i] THEN 1 ELSE 0) + EntriesOf(w, i) + aside
              + Count(w.pending, i)

UnderWay(w, i, aside) ==
  w.inWorld[i] /\ (w.decaying[i] \/ decayTo[w.kind[i]] # Never) =>
    EntriesOf(w, i) + aside > 0

HasTime(w, i) ==
  w.inWorld[i] =>
    \/ w.duration[i] >= Interval
    \/ w.duration[i] = 0 /\ decayTo[w.kind[i]] = Never

DecaySound(w, i, aside) ==
  Referred(w, i, aside) /\ UnderWay(w, i, aside) /\ HasTime(w, i)

(* The turns until that of a bucket, and the time that is left then.       *)
Ahead(c, last) == ((c + Buckets - last - 1) % Buckets) + 1

InTime(dur, time, turns) ==
  IF dur < Second THEN turns = 1 /\ time \in 0 .. Second - 1
  ELSE time \in dur - Second + (turns - 1) * Interval
                .. dur - Second + turns * Interval

(* Its entry is where it has to be.  What waits for a bucket may be late   *)
(* by the interval that has just passed.                                   *)
Timed(w, i, last, late) ==
  w.inWorld[i] /\ w.decaying[i] =>
    \/ /\ Count(w.toDecay, i) > 0
       /\ w.duration[i] >= Interval
       /\ w.timeLeft[i] \in w.duration[i] - late .. w.duration[i]
    \/ \E c \in Bucket :
         /\ Count(w.wheel[c], i) > 0
         /\ InTime(w.duration[i], w.timeLeft[i], Ahead(c, last))

(* Two states are the same for j.                                          *)
SameItem(v, w, j) ==
  /\ v.kind[j] = w.kind[j] /\ v.inWorld[j] = w.inWorld[j]
  /\ v.duration[j] = w.duration[j] /\ v.decaying[j] = w.decaying[j]
  /\ v.refs[j] = w.refs[j] /\ v.timeLeft[j] = w.timeLeft[j]
  /\ Count(v.toDecay, j) = Count(w.toDecay, j)
  /\ Count(v.pending, j) = Count(w.pending, j)
  /\ \A b \in Bucket : Count(v.wheel[b], j) = Count(w.wheel[b], j)

LEMMA SameItemKeeps ==
  ASSUME NEW v, NEW w, NEW j, SameItem(v, w, j)
  PROVE  /\ EntriesOf(v, j) = EntriesOf(w, j)
         /\ \A a : DecaySound(w, j, a) => DecaySound(v, j, a)
         /\ \A last, late : Timed(w, j, last, late) => Timed(v, j, last, late)
<1>1. [b \in Bucket |-> Count(v.wheel[b], j)]
        = [b \in Bucket |-> Count(w.wheel[b], j)]
  BY DEF SameItem
<1>2. EntriesOf(v, j) = EntriesOf(w, j)
  BY <1>1, Zenon DEF SameItem, EntriesOf, InWheel
<1>3. ASSUME NEW a, DecaySound(w, j, a) PROVE DecaySound(v, j, a)
  BY <1>2, <1>3
  DEF SameItem, DecaySound, Referred, UnderWay, HasTime
<1>4. ASSUME NEW last, NEW late, Timed(w, j, last, late)
      PROVE  Timed(v, j, last, late)
  BY <1>4 DEF SameItem, Timed
<1> QED BY <1>2, <1>3, <1>4

LEMMA SameItemJoins ==
  ASSUME NEW u, NEW v, NEW w, NEW j, SameItem(u, v, j), SameItem(v, w, j)
  PROVE  SameItem(u, w, j)
BY DEF SameItem

LEMMA EntriesAre ==
  ASSUME NEW w \in Records, NEW i \in Item
  PROVE  /\ EntriesOf(w, i) \in Nat /\ Count(w.toDecay, i) \in Nat
         /\ Count(w.pending, i) \in Nat /\ InWheel(w.wheel, i) \in Nat
         /\ \A b \in Bucket : Count(w.wheel[b], i) \in Nat
<1>1. /\ w.toDecay \in Seq(Item) /\ w.pending \in Seq(Item)
      /\ w.wheel \in [Bucket -> Seq(Item)]
  BY DEF Records
<1>2. /\ Count(w.toDecay, i) \in Nat /\ Count(w.pending, i) \in Nat
  BY <1>1, CountIs
<1>3. /\ InWheel(w.wheel, i) \in Nat
      /\ \A b \in Bucket : Count(w.wheel[b], i) \in Nat
  BY <1>1, InWheelIs
<1> QED BY <1>2, <1>3 DEF EntriesOf

-----------------------------------------------------------------------------
(* What the steps do to items *)

LEMMA TransformIs ==
  ASSUME NEW w \in Records, NEW i \in Item, NEW k \in Kind,
         NEW v, v = transformItem(w, i, k)
  PROVE  /\ v \in Records
         /\ v.inWorld = w.inWorld /\ v.toDecay = w.toDecay
         /\ v.wheel = w.wheel /\ v.pending = w.pending /\ v.refs = w.refs
         /\ v.timeLeft = w.timeLeft
         /\ \A j \in Item \ {i} :
              /\ v.kind[j] = w.kind[j] /\ v.duration[j] = w.duration[j]
              /\ v.decaying[j] = w.decaying[j]
         /\ \/ v = w /\ (w.inWorld[i] => w.kind[i] = k)
            \/ /\ v.kind[i] = k /\ w.kind[i] # k
               /\ \/ /\ v.duration[i] = 0 /\ ~ v.decaying[i]
                     /\ decayTo[k] = Never
                  \/ v.duration[i] >= Interval /\ ~ v.decaying[i]
                  \/ /\ v.duration[i] = w.duration[i]
                     /\ v.decaying[i] = w.decaying[i]
                     /\ \/ stopTime[k] /\ decayTo[k] = Never
                        \/ stopTime[w.kind[i]] /\ w.duration[i] # 0
<1>1. /\ w.kind \in [Item -> Kind] /\ w.inWorld \in [Item -> BOOLEAN]
      /\ w.duration \in [Item -> Nat] /\ w.decaying \in [Item -> BOOLEAN]
  BY DEF Records
<1>2. CASE ~ w.inWorld[i] \/ w.kind[i] = k
  BY <1>2 DEF transformItem
<1>3. CASE ~ (~ w.inWorld[i] \/ w.kind[i] = k)
  <2> DEFINE clear == decayTime[k] = 0 /\ ~ stopTime[k] /\ decayTo[k] = Never
             kept == w.duration[i] # 0
             anew == decayTime[k] > 0 /\ (~ stopTime[w.kind[i]] \/ ~ kept)
             dec == w.decaying[i] /\ ~ clear /\ ~ anew
             dur == IF clear THEN 0 ELSE IF anew THEN decayTime[k]
                    ELSE w.duration[i]
  <2>1. v = [w EXCEPT !.kind[i] = k, !.decaying[i] = dec,
                      !.duration[i] = dur]
    BY <1>3 DEF transformItem
  <2>2. dec \in BOOLEAN OBVIOUS
  <2>3. dur \in Nat
    BY <1>1, DecayAssumption DEF DecayAssumption
  <2>4. \/ dur = 0 /\ ~ dec /\ decayTo[k] = Never
        \/ dur >= Interval /\ ~ dec
        \/ /\ dur = w.duration[i] /\ dec = w.decaying[i]
           /\ \/ stopTime[k] /\ decayTo[k] = Never
              \/ stopTime[w.kind[i]] /\ w.duration[i] # 0
    <3>1. CASE clear BY <3>1
    <3>2. CASE ~ clear /\ anew BY <3>2, DecayAssumption DEF DecayAssumption
    <3>3. CASE ~ clear /\ ~ anew
      <4>1. decayTime[k] = 0 =>
              decayTo[k] = Never /\ stopTime[k]
        BY <3>3, DecayAssumption DEF DecayAssumption
      <4>2. decayTime[k] \in Nat BY DecayAssumption DEF DecayAssumption
      <4>3. dur = w.duration[i] /\ dec = w.decaying[i] BY <1>1, <3>3
      <4> QED BY <3>3, <4>1, <4>2, <4>3
    <3> QED BY <3>1, <3>2, <3>3
  <2> HIDE DEF clear, kept, anew, dec, dur
  <2>5. v \in Records
    <3>1. /\ [w.kind EXCEPT ![i] = k] \in [Item -> Kind]
          /\ [w.decaying EXCEPT ![i] = dec] \in [Item -> BOOLEAN]
          /\ [w.duration EXCEPT ![i] = dur] \in [Item -> Nat]
      BY <1>1, <2>2, <2>3
    <3>2. v = [w EXCEPT !.kind = [w.kind EXCEPT ![i] = k],
                        !.decaying = [w.decaying EXCEPT ![i] = dec],
                        !.duration = [w.duration EXCEPT ![i] = dur]]
      BY <2>1 DEF Records
    <3> QED BY <3>1, <3>2 DEF Records
  <2>6. /\ v.inWorld = w.inWorld /\ v.toDecay = w.toDecay
        /\ v.wheel = w.wheel /\ v.pending = w.pending /\ v.refs = w.refs
        /\ v.timeLeft = w.timeLeft
    BY <2>1 DEF Records
  <2>7. /\ v.kind[i] = k /\ v.duration[i] = dur /\ v.decaying[i] = dec
        /\ \A j \in Item \ {i} :
              /\ v.kind[j] = w.kind[j] /\ v.duration[j] = w.duration[j]
              /\ v.decaying[j] = w.decaying[j]
    BY <1>1, <2>1 DEF Records
  <2> QED BY <1>3, <2>4, <2>5, <2>6, <2>7
<1> QED BY <1>2, <1>3

LEMMA StartDecayIs ==
  ASSUME NEW w \in Records, NEW i \in Item,
         NEW v, v = startDecay(w, i)
  PROVE  /\ v \in Records
         /\ v.kind = w.kind /\ v.inWorld = w.inWorld
         /\ v.duration = w.duration /\ v.wheel = w.wheel
         /\ v.pending = w.pending
         /\ \A j \in Item \ {i} : SameItem(v, w, j)
         /\ IF w.inWorld[i] /\ decayTo[w.kind[i]] # Never /\ ~ w.decaying[i]
            THEN /\ v.refs[i] = w.refs[i] + 1
                 /\ v.decaying[i] /\ v.timeLeft[i] = w.duration[i]
                 /\ Count(v.toDecay, i) = Count(w.toDecay, i) + 1
            ELSE v = w
<1>1. canDecay(w, i) <=> w.inWorld[i] /\ decayTo[w.kind[i]] # Never
  <2>1. w.kind[i] \in Kind BY DEF Records
  <2> QED BY <2>1, DecayAssumption DEF canDecay, DecayAssumption
<1>2. CASE ~ canDecay(w, i) \/ w.decaying[i]
  <2>1. v = w BY <1>2 DEF startDecay
  <2>2. \A j : SameItem(w, w, j) BY DEF SameItem
  <2> QED BY <1>1, <1>2, <2>1, <2>2
<1>3. CASE ~ (~ canDecay(w, i) \/ w.decaying[i])
  <2>1. v = [w EXCEPT !.refs[i] = @ + 1, !.decaying[i] = TRUE,
                      !.toDecay = <<i>> \o @,
                      !.timeLeft[i] = w.duration[i]]
    BY <1>3 DEF startDecay
  <2>2. <<i>> \o w.toDecay \in Seq(Item) BY DEF Records
  <2>3. v \in Records
    <3> DEFINE r == [w.refs EXCEPT ![i] = @ + 1]
               d == [w.decaying EXCEPT ![i] = TRUE]
               t == [w.timeLeft EXCEPT ![i] = w.duration[i]]
               q == <<i>> \o w.toDecay
    <3>1. r \in [Item -> Int] BY DEF Records
    <3>2. d \in [Item -> BOOLEAN] BY DEF Records
    <3>3. t \in [Item -> Int] BY DEF Records
    <3>4. v = [w EXCEPT !.refs = r, !.decaying = d, !.toDecay = q,
                        !.timeLeft = t]
      BY <2>1 DEF Records
    <3>5. q \in Seq(Item) BY <2>2
    <3> HIDE DEF r, d, t, q
    <3> QED BY <3>1, <3>2, <3>3, <3>4, <3>5 DEF Records
  <2>4. /\ v.kind = w.kind /\ v.inWorld = w.inWorld
        /\ v.duration = w.duration /\ v.wheel = w.wheel
        /\ v.pending = w.pending /\ v.toDecay = <<i>> \o w.toDecay
    BY <2>1 DEF Records
  <2>5. /\ v.refs[i] = w.refs[i] + 1 /\ v.decaying[i]
        /\ v.timeLeft[i] = w.duration[i]
        /\ \A j \in Item \ {i} :
             /\ v.refs[j] = w.refs[j] /\ v.decaying[j] = w.decaying[j]
             /\ v.timeLeft[j] = w.timeLeft[j]
    BY <2>1 DEF Records
  <2>6. \A j \in Item : Count(<<i>> \o w.toDecay, j) =
                          Count(w.toDecay, j) + (IF i = j THEN 1 ELSE 0)
    <3>1. w.toDecay \in Seq(Item) BY DEF Records
    <3> QED BY <3>1, CountPut
  <2>7. \A j \in Item : Count(w.toDecay, j) \in Nat BY EntriesAre
  <2>8. ASSUME NEW j \in Item \ {i} PROVE SameItem(v, w, j)
    <3>1. Count(v.toDecay, j) = Count(w.toDecay, j)
      BY <2>4, <2>6, <2>7
    <3> QED BY <2>4, <2>5, <3>1 DEF SameItem
  <2> QED BY <1>1, <1>3, <2>3, <2>4, <2>5, <2>6, <2>8
<1> QED BY <1>2, <1>3

(* Using an item, or putting it on or off. *)
LEMMA UseKeeps ==
  ASSUME NEW w \in Records, NEW i \in Item, NEW k \in Kind,
         DecaySound(w, i, 0), NEW v,
         v = startDecay(transformItem(w, i, k), i)
  PROVE  /\ v \in Records /\ DecaySound(v, i, 0)
         /\ \A j \in Item \ {i} : SameItem(v, w, j)
         /\ w.inWorld[i] /\ EntriesOf(w, i) = 0 =>
              /\ EntriesOf(v, i) <= 1
              /\ \A last : Timed(v, i, last, 0)
<1> DEFINE u == transformItem(w, i, k)
<1>1. /\ u \in Records
      /\ u.inWorld = w.inWorld /\ u.toDecay = w.toDecay
      /\ u.wheel = w.wheel /\ u.pending = w.pending /\ u.refs = w.refs
      /\ u.timeLeft = w.timeLeft
      /\ \A j \in Item \ {i} :
           /\ u.kind[j] = w.kind[j] /\ u.duration[j] = w.duration[j]
           /\ u.decaying[j] = w.decaying[j]
  BY TransformIs
<1>2. \/ u = w /\ (w.inWorld[i] => w.kind[i] = k)
      \/ /\ u.kind[i] = k /\ w.kind[i] # k
         /\ \/ /\ u.duration[i] = 0 /\ ~ u.decaying[i]
               /\ decayTo[k] = Never
            \/ u.duration[i] >= Interval /\ ~ u.decaying[i]
            \/ /\ u.duration[i] = w.duration[i]
               /\ u.decaying[i] = w.decaying[i]
               /\ \/ stopTime[k] /\ decayTo[k] = Never
                  \/ stopTime[w.kind[i]] /\ w.duration[i] # 0
  BY TransformIs
<1>3. v = startDecay(u, i) OBVIOUS
<1> HIDE DEF u
<1>4. /\ v \in Records
      /\ v.kind = u.kind /\ v.inWorld = u.inWorld
      /\ v.duration = u.duration /\ v.wheel = u.wheel
      /\ v.pending = u.pending
      /\ \A j \in Item \ {i} : SameItem(v, u, j)
      /\ IF u.inWorld[i] /\ decayTo[u.kind[i]] # Never /\ ~ u.decaying[i]
         THEN /\ v.refs[i] = u.refs[i] + 1
              /\ v.decaying[i] /\ v.timeLeft[i] = u.duration[i]
              /\ Count(v.toDecay, i) = Count(u.toDecay, i) + 1
         ELSE v = u
  BY <1>1, <1>3, StartDecayIs
<1>5. \A j \in Item \ {i} : SameItem(v, w, j)
  <2> TAKE j \in Item \ {i}
  <2>1. SameItem(u, w, j) BY <1>1 DEF SameItem
  <2> QED BY <1>4, <2>1, SameItemJoins
<1>6. /\ EntriesOf(u, i) = EntriesOf(w, i)
      /\ EntriesOf(v, i) = Count(v.toDecay, i) + InWheel(u.wheel, i)
      /\ EntriesOf(u, i) = Count(u.toDecay, i) + InWheel(u.wheel, i)
  BY <1>1, <1>4 DEF EntriesOf
<1>7. /\ EntriesOf(w, i) \in Nat /\ Count(u.toDecay, i) \in Nat
      /\ InWheel(u.wheel, i) \in Nat /\ Count(w.pending, i) \in Nat
  BY <1>1, EntriesAre
<1>8. /\ w.inWorld[i] \in BOOLEAN /\ w.decaying[i] \in BOOLEAN
      /\ w.duration[i] \in Nat /\ w.kind[i] \in Kind /\ w.refs[i] \in Int
      /\ u.decaying[i] \in BOOLEAN /\ u.kind[i] \in Kind
      /\ u.duration[i] \in Nat /\ Interval \in Nat \ {0}
  BY <1>1, DecayAssumption DEF Records, DecayAssumption
<1>9. HasTime(u, i)
  <2>1. HasTime(w, i) BY DEF DecaySound
  <2> QED BY <1>1, <1>2, <1>8, <2>1 DEF HasTime
<1>10. u.inWorld[i] /\ u.decaying[i] => EntriesOf(u, i) > 0
  <2>1. UnderWay(w, i, 0) BY DEF DecaySound
  <2>2. u.decaying[i] => w.decaying[i] BY <1>2
  <2> QED BY <1>1, <1>6, <1>7, <2>1, <2>2 DEF UnderWay
<1>11. u.refs[i] = (IF u.inWorld[i] THEN 1 ELSE 0) + EntriesOf(u, i)
                   + Count(u.pending, i)
  <2> DEFINE here == IF w.inWorld[i] THEN 1 ELSE 0
  <2>1. w.refs[i] = here + EntriesOf(w, i) + 0 + Count(w.pending, i)
    BY DEF DecaySound, Referred
  <2>2. u.refs[i] = w.refs[i] /\ Count(u.pending, i) = Count(w.pending, i)
        /\ here = IF u.inWorld[i] THEN 1 ELSE 0
    BY <1>1
  <2>3. here \in Int OBVIOUS
  <2> HIDE DEF here
  <2>4. u.refs[i] = here + EntriesOf(u, i) + Count(u.pending, i)
    <3>1. Count(w.pending, i) \in Int /\ EntriesOf(w, i) \in Int BY <1>7
    <3>2. EntriesOf(u, i) = EntriesOf(w, i) BY <1>6
    <3>3. u.refs[i] = here + EntriesOf(w, i) + Count(w.pending, i)
      BY <2>1, <2>2, <2>3, <3>1
    <3> QED BY <2>2, <3>2, <3>3
  <2> QED BY <2>2, <2>4
<1>12. CASE u.inWorld[i] /\ decayTo[u.kind[i]] # Never /\ ~ u.decaying[i]
  <2>1. /\ v.refs[i] = u.refs[i] + 1
        /\ v.decaying[i] /\ v.timeLeft[i] = u.duration[i]
        /\ Count(v.toDecay, i) = Count(u.toDecay, i) + 1
    BY <1>4, <1>12
  <2>2. EntriesOf(v, i) = EntriesOf(w, i) + 1
    BY <1>6, <1>7, <2>1
  <2>3. Referred(v, i, 0)
    BY <1>1, <1>4, <1>6, <1>7, <1>8, <1>11, <2>1, <2>2 DEF Referred
  <2>4. UnderWay(v, i, 0) BY <1>7, <2>2 DEF UnderWay
  <2>5. HasTime(v, i) BY <1>4, <1>9 DEF HasTime
  <2>6. \A last : Timed(v, i, last, 0)
    <3>1. Count(v.toDecay, i) > 0 BY <1>7, <2>1
    <3>2. v.duration[i] >= Interval
      BY <1>4, <1>9, <1>12 DEF HasTime
    <3>3. v.timeLeft[i] \in v.duration[i] - 0 .. v.duration[i]
      BY <1>4, <1>8, <2>1
    <3> QED BY <3>1, <3>2, <3>3 DEF Timed
  <2> QED BY <1>4, <1>5, <2>2, <2>3, <2>4, <2>5, <2>6 DEF DecaySound
<1>13. CASE ~ (u.inWorld[i] /\ decayTo[u.kind[i]] # Never
               /\ ~ u.decaying[i])
  <2>1. v = u BY <1>4, <1>13
  <2>2. Referred(v, i, 0) BY <1>7, <1>6, <1>11, <2>1 DEF Referred
  <2>3. UnderWay(v, i, 0)
    BY <1>6, <1>7, <1>10, <1>13, <2>1 DEF UnderWay
  <2>4. EntriesOf(w, i) = 0 => \A last : Timed(v, i, last, 0)
    <3> SUFFICES ASSUME EntriesOf(w, i) = 0
                 PROVE  ~ (v.inWorld[i] /\ v.decaying[i])
      BY Zenon DEF Timed
    <3> QED BY <1>6, <1>10, <2>1
  <2> QED BY <1>4, <1>5, <1>6, <1>9, <2>1, <2>2, <2>3, <2>4 DEF DecaySound
<1> QED BY <1>12, <1>13

LEMMA ReleaseIs ==
  ASSUME NEW w \in Records, NEW i \in Item, NEW v, v = ReleaseItem(w, i)
  PROVE  /\ v \in Records
         /\ v.kind = w.kind /\ v.inWorld = w.inWorld
         /\ v.duration = w.duration /\ v.decaying = w.decaying
         /\ v.toDecay = w.toDecay /\ v.wheel = w.wheel
         /\ v.refs = w.refs /\ v.timeLeft = w.timeLeft
         /\ Count(v.pending, i) = Count(w.pending, i) + 1
         /\ \A j \in Item \ {i} : SameItem(v, w, j)
<1> DEFINE q == Append(w.pending, i)
<1>1. w.pending \in Seq(Item) BY DEF Records
<1>2. q \in Seq(Item) BY <1>1
<1>3. \A j \in Item : Count(q, j) =
                        Count(w.pending, j) + (IF i = j THEN 1 ELSE 0)
  BY <1>1, CountAppend
<1>4. v = [w EXCEPT !.pending = q] BY DEF ReleaseItem
<1> HIDE DEF q
<1>5. /\ v \in Records /\ v.pending = q
      /\ v.kind = w.kind /\ v.inWorld = w.inWorld
      /\ v.duration = w.duration /\ v.decaying = w.decaying
      /\ v.toDecay = w.toDecay /\ v.wheel = w.wheel
      /\ v.refs = w.refs /\ v.timeLeft = w.timeLeft
  BY <1>2, <1>4 DEF Records
<1>6. \A j \in Item : Count(w.pending, j) \in Nat BY EntriesAre
<1>7. \A j \in Item \ {i} : Count(v.pending, j) = Count(w.pending, j)
  BY <1>3, <1>5, <1>6
<1> QED BY <1>3, <1>5, <1>7 DEF SameItem

LEMMA RemoveIs ==
  ASSUME NEW w \in Records, NEW i \in Item, NEW v,
         v = internalRemoveItem(w, i)
  PROVE  /\ v \in Records /\ ~ v.inWorld[i]
         /\ v.toDecay = w.toDecay /\ v.wheel = w.wheel
         /\ v.refs = w.refs
         /\ Count(v.pending, i) = Count(w.pending, i) + 1
         /\ \A j \in Item \ {i} : SameItem(v, w, j)
<1> DEFINE u == [w EXCEPT !.inWorld[i] = FALSE]
           f == [w.inWorld EXCEPT ![i] = FALSE]
<1>1. f \in [Item -> BOOLEAN] /\ ~ f[i]
      /\ \A j \in Item \ {i} : f[j] = w.inWorld[j]
  BY DEF Records
<1>2. u = [w EXCEPT !.inWorld = f] BY DEF Records
<1>3. v = ReleaseItem(u, i) BY DEF internalRemoveItem
<1> HIDE DEF u, f
<1>4. /\ u \in Records /\ u.inWorld = f
      /\ u.kind = w.kind /\ u.duration = w.duration
      /\ u.decaying = w.decaying /\ u.toDecay = w.toDecay
      /\ u.wheel = w.wheel /\ u.refs = w.refs /\ u.timeLeft = w.timeLeft
      /\ u.pending = w.pending
  BY <1>1, <1>2 DEF Records
<1>5. /\ v \in Records /\ v.inWorld = u.inWorld
      /\ v.toDecay = u.toDecay /\ v.wheel = u.wheel /\ v.refs = u.refs
      /\ Count(v.pending, i) = Count(u.pending, i) + 1
      /\ \A j \in Item \ {i} : SameItem(v, u, j)
  BY <1>3, <1>4, ReleaseIs
<1>6. \A j \in Item \ {i} : SameItem(u, w, j)
  BY <1>1, <1>4 DEF SameItem
<1>7. \A j \in Item \ {i} : SameItem(v, w, j)
  BY <1>5, <1>6, SameItemJoins
<1> QED BY <1>1, <1>4, <1>5, <1>7

-----------------------------------------------------------------------------
(* What the check of a bucket does to one of its items *)

LEMMA TimesAre ==
  /\ Interval \in Nat \ {0} /\ Second = 4 * Interval /\ Buckets = 4
  /\ Interval \div 2 \in Nat /\ 2 * (Interval \div 2) <= Interval
BY DecayAssumption DEF DecayAssumption, Second, Buckets

LEMMA QuotientIs ==
  ASSUME NEW m \in Nat \ {0}, NEW x \in Nat, x < 2 * m
  PROVE  x \div m = IF x < m THEN 0 ELSE 1
<1> DEFINE q == x \div m
           r == x % m
<1>1. x = m * q + r /\ q \in Nat /\ r \in 0 .. m - 1 OBVIOUS
<1> HIDE DEF q, r
<1>2. CASE q = 0 BY <1>1, <1>2 DEF q
<1>3. CASE q = 1 BY <1>1, <1>3 DEF q
<1>4. CASE q >= 2
  <2>1. PICK n \in Nat : q = n + 2
    <3>1. q - 2 \in Nat /\ q = (q - 2) + 2 BY <1>1, <1>4
    <3> QED BY <3>1
  <2>2. m * q = m * n + 2 * m BY <2>1
  <2>3. m * n \in Nat OBVIOUS
  <2> QED BY <1>1, <2>2, <2>3
<1> QED BY <1>1, <1>2, <1>3, <1>4

LEMMA TurnIs ==
  ASSUME NEW b \in Bucket, NEW rest \in Nat, rest < Second, NEW to,
         to = (b + (rest + Interval \div 2) \div Second) % Buckets
  PROVE  /\ to \in Bucket
         /\ to # b => rest >= Interval /\ Ahead(to, b) = 1
<1> DEFINE x == rest + Interval \div 2
           q == x \div Second
<1>1. x \in Nat /\ x < 2 * Second /\ Second \in Nat \ {0} BY TimesAre
<1>2. x >= Second => rest >= Interval BY TimesAre
<1>3. q = IF x < Second THEN 0 ELSE 1
  <2> HIDE DEF x
  <2> QED BY <1>1, QuotientIs
<1>4. to = (b + q) % 4 BY TimesAre
<1> HIDE DEF q, x
<1>5. b \in {0, 1, 2, 3} BY BucketsAre
<1>6. q \in {0, 1} /\ (q = 1 => rest >= Interval) BY <1>1, <1>2, <1>3
<1>7. to \in Bucket /\ (q = 0 => to = b) BY <1>4, <1>5, <1>6, BucketsAre
<1>8. q = 1 => Ahead(to, b) = 1
  BY <1>4, <1>5, TimesAre DEF Ahead
<1> QED BY <1>6, <1>7, <1>8

(* An entry is put into a bucket, with the time that is left.              *)
EntryPut(w, i, rest, c) ==
  [w EXCEPT !.duration[i] = rest, !.wheel[c] = Append(@, i)]

LEMMA EntryPutIs ==
  ASSUME NEW w \in Records, NEW i \in Item, NEW rest \in Nat,
         NEW c \in Bucket, NEW v, v = EntryPut(w, i, rest, c)
  PROVE  /\ v \in Records
         /\ v.kind = w.kind /\ v.inWorld = w.inWorld
         /\ v.decaying = w.decaying /\ v.toDecay = w.toDecay
         /\ v.pending = w.pending /\ v.refs = w.refs
         /\ v.timeLeft = w.timeLeft /\ v.duration[i] = rest
         /\ EntriesOf(v, i) = EntriesOf(w, i) + 1
         /\ Count(v.wheel[c], i) > 0
         /\ \A j \in Item \ {i} : SameItem(v, w, j)
<1> DEFINE d == [w.duration EXCEPT ![i] = rest]
           q == Append(w.wheel[c], i)
           wh == [w.wheel EXCEPT ![c] = q]
<1>1. w.wheel \in [Bucket -> Seq(Item)] BY DEF Records
<1>2. q \in Seq(Item) BY <1>1
<1>3. wh \in [Bucket -> Seq(Item)] BY <1>1, <1>2
<1>4. d \in [Item -> Nat] /\ d[i] = rest
      /\ \A j \in Item \ {i} : d[j] = w.duration[j]
  BY DEF Records
<1>5. v = [w EXCEPT !.duration = d, !.wheel = wh]
  BY DEF Records, EntryPut
<1>6. \A j \in Item : /\ Count(w.wheel[c], j) \in Nat
                      /\ Count(q, j) = Count(w.wheel[c], j)
                                       + (IF i = j THEN 1 ELSE 0)
  BY <1>1, CountAppend, CountIs
<1>7. \A j \in Item : InWheel(wh, j) =
                        InWheel(w.wheel, j) + (Count(q, j)
                                               - Count(w.wheel[c], j))
  BY <1>1, <1>2, WheelChanges DEF PutIn
<1>8. wh[c] = q /\ \A b \in Bucket \ {c} : wh[b] = w.wheel[b] BY <1>1
<1> HIDE DEF d, q, wh
<1>9. /\ v \in Records /\ v.duration = d /\ v.wheel = wh
      /\ v.kind = w.kind /\ v.inWorld = w.inWorld
      /\ v.decaying = w.decaying /\ v.toDecay = w.toDecay
      /\ v.pending = w.pending /\ v.refs = w.refs
      /\ v.timeLeft = w.timeLeft
  BY <1>3, <1>4, <1>5 DEF Records
<1>10. EntriesOf(v, i) = EntriesOf(w, i) + 1
  <2>1. Count(q, i) - Count(w.wheel[c], i) = 1 BY <1>6
  <2>2. InWheel(wh, i) = InWheel(w.wheel, i) + 1 BY <1>7, <2>1
  <2>3. Count(w.toDecay, i) \in Nat /\ InWheel(w.wheel, i) \in Nat
    BY EntriesAre
  <2>4. EntriesOf(w, i) = Count(w.toDecay, i) + InWheel(w.wheel, i)
    BY DEF EntriesOf
  <2>5. EntriesOf(v, i) = Count(w.toDecay, i) + InWheel(wh, i)
    BY <1>9 DEF EntriesOf
  <2> QED BY <2>2, <2>3, <2>4, <2>5
<1>11. Count(v.wheel[c], i) > 0
  <2>1. Count(q, i) = Count(w.wheel[c], i) + 1 BY <1>6
  <2>2. Count(w.wheel[c], i) \in Nat BY <1>6
  <2>3. v.wheel[c] = q BY <1>8, <1>9
  <2>4. Count(q, i) > 0 BY <2>1, <2>2
  <2> QED BY <2>3, <2>4, Zenon
<1>12. ASSUME NEW j \in Item \ {i} PROVE SameItem(v, w, j)
  <2>1. Count(q, j) = Count(w.wheel[c], j) BY <1>6
  <2>2. \A b \in Bucket : Count(v.wheel[b], j) = Count(w.wheel[b], j)
    BY <1>8, <1>9, <2>1
  <2> QED BY <1>4, <1>9, <2>2 DEF SameItem
<1> QED BY <1>4, <1>9, <1>10, <1>11, <1>12

(* It is gone, or it becomes what does not keep the time: its decay starts *)
(* anew, or it does not decay any more.                                    *)
LEMMA DecaysIs ==
  ASSUME NEW w \in Records, NEW i \in Item, NEW a \in Nat, w.inWorld[i],
         decayTo[w.kind[i]] # Never, Referred(w, i, a + 1),
         NEW v, v = ReleaseItem(internalDecayItem(w, i), i)
  PROVE  /\ v \in Records /\ DecaySound(v, i, a)
         /\ \A j \in Item \ {i} : SameItem(v, w, j)
         /\ EntriesOf(v, i) <= EntriesOf(w, i) + 1
         /\ \A last : Timed(v, i, last, Interval)
<1> DEFINE k == decayTo[w.kind[i]]
           e == EntriesOf(w, i)
           p == Count(w.pending, i)
           x == internalDecayItem(w, i)
<1>1. e \in Nat /\ p \in Nat BY EntriesAre
<1>2. w.refs[i] = 1 + e + (a + 1) + p BY DEF Referred
<1>3. w.kind[i] \in Kind BY DEF Records
<1>4. v = ReleaseItem(x, i) OBVIOUS
<1>5. CASE k = Gone
  <2>1. x = internalRemoveItem(w, i) BY <1>5 DEF internalDecayItem
  <2> HIDE DEF k, e, p, x
  <2>2. /\ x \in Records /\ ~ x.inWorld[i]
        /\ x.toDecay = w.toDecay /\ x.wheel = w.wheel
        /\ x.refs = w.refs
        /\ Count(x.pending, i) = Count(w.pending, i) + 1
        /\ \A j \in Item \ {i} : SameItem(x, w, j)
    BY <2>1, RemoveIs
  <2>3. /\ v \in Records /\ v.inWorld = x.inWorld
        /\ v.toDecay = x.toDecay /\ v.wheel = x.wheel
        /\ v.refs = x.refs
        /\ Count(v.pending, i) = Count(x.pending, i) + 1
        /\ \A j \in Item \ {i} : SameItem(v, x, j)
    BY <1>4, <2>2, ReleaseIs
  <2>4. EntriesOf(v, i) = e BY <2>2, <2>3 DEF EntriesOf, e
  <2>5. Count(v.pending, i) = p + 2 BY <1>1, <2>2, <2>3 DEF p
  <2>6. ~ v.inWorld[i] BY <2>2, <2>3
  <2>7. v.refs[i] = 0 + e + a + (p + 2)
    <3>1. v.refs[i] = 1 + e + (a + 1) + p BY <1>2, <2>2, <2>3
    <3> QED BY <1>1, <3>1
  <2>8. Referred(v, i, a) BY <2>4, <2>5, <2>6, <2>7 DEF Referred
  <2>9. DecaySound(v, i, a)
    BY <2>6, <2>8 DEF DecaySound, UnderWay, HasTime
  <2>10. \A last : Timed(v, i, last, Interval) BY <2>6, Zenon DEF Timed
  <2>11. \A j \in Item \ {i} : SameItem(v, w, j)
    BY <2>2, <2>3, SameItemJoins
  <2>12. EntriesOf(v, i) <= e + 1 BY <1>1, <2>4
  <2> QED BY <2>3, <2>9, <2>10, <2>11, <2>12 DEF e
<1>6. CASE k # Gone
  <2> DEFINE u == transformItem(w, i, k)
  <2>1. k \in Kind /\ ~ stopTime[w.kind[i]] /\ k # w.kind[i]
        /\ ~ stopTime[k]
    BY <1>3, <1>6, DecayAssumption DEF DecayAssumption
  <2>2. x = startDecay(u, i) BY <1>6 DEF internalDecayItem
  <2> HIDE DEF k, e, p, x
  <2>3. /\ u \in Records
        /\ u.inWorld = w.inWorld /\ u.toDecay = w.toDecay
        /\ u.wheel = w.wheel /\ u.pending = w.pending /\ u.refs = w.refs
        /\ u.timeLeft = w.timeLeft
        /\ \A j \in Item \ {i} :
             /\ u.kind[j] = w.kind[j] /\ u.duration[j] = w.duration[j]
             /\ u.decaying[j] = w.decaying[j]
    BY <2>1, TransformIs
  <2>4. /\ u.kind[i] = k /\ ~ u.decaying[i]
        /\ \/ u.duration[i] = 0 /\ decayTo[k] = Never
           \/ u.duration[i] >= Interval
    <3>1. \/ u = w /\ (w.inWorld[i] => w.kind[i] = k)
          \/ /\ u.kind[i] = k /\ w.kind[i] # k
             /\ \/ /\ u.duration[i] = 0 /\ ~ u.decaying[i]
                   /\ decayTo[k] = Never
                \/ u.duration[i] >= Interval /\ ~ u.decaying[i]
                \/ /\ u.duration[i] = w.duration[i]
                   /\ u.decaying[i] = w.decaying[i]
                   /\ \/ stopTime[k] /\ decayTo[k] = Never
                      \/ stopTime[w.kind[i]] /\ w.duration[i] # 0
      BY <2>1, TransformIs
    <3> HIDE DEF u
    <3> QED BY <2>1, <3>1
  <2> HIDE DEF u
  <2>5. /\ x \in Records
        /\ x.kind = u.kind /\ x.inWorld = u.inWorld
        /\ x.duration = u.duration /\ x.wheel = u.wheel
        /\ x.pending = u.pending
        /\ \A j \in Item \ {i} : SameItem(x, u, j)
        /\ IF u.inWorld[i] /\ decayTo[u.kind[i]] # Never /\ ~ u.decaying[i]
           THEN /\ x.refs[i] = u.refs[i] + 1
                /\ x.decaying[i] /\ x.timeLeft[i] = u.duration[i]
                /\ Count(x.toDecay, i) = Count(u.toDecay, i) + 1
           ELSE x = u
    BY <2>2, <2>3, StartDecayIs
  <2>6. /\ v \in Records
        /\ v.kind = x.kind /\ v.inWorld = x.inWorld
        /\ v.duration = x.duration /\ v.decaying = x.decaying
        /\ v.toDecay = x.toDecay /\ v.wheel = x.wheel
        /\ v.refs = x.refs /\ v.timeLeft = x.timeLeft
        /\ Count(v.pending, i) = Count(x.pending, i) + 1
        /\ \A j \in Item \ {i} : SameItem(v, x, j)
    BY <1>4, <2>5, ReleaseIs
  <2>7. \A j \in Item \ {i} : SameItem(v, w, j)
    <3> TAKE j \in Item \ {i}
    <3>1. SameItem(u, w, j) BY <2>3 DEF SameItem
    <3>2. SameItem(x, w, j) BY <2>5, <3>1, SameItemJoins
    <3> QED BY <2>6, <3>2, SameItemJoins
  <2>8. /\ v.inWorld[i] /\ v.kind[i] = k /\ v.duration[i] = u.duration[i]
    BY <2>3, <2>4, <2>5, <2>6
  <2>9. Count(v.pending, i) = p + 1 BY <2>3, <2>5, <2>6 DEF p
  <2>10. HasTime(v, i) BY <2>4, <2>8 DEF HasTime
  <2>11. u.duration[i] \in Nat /\ u.refs[i] = 1 + e + (a + 1) + p
    BY <1>2, <2>3 DEF Records
  <2>12. CASE decayTo[k] # Never
    <3>1. /\ x.refs[i] = u.refs[i] + 1
          /\ x.decaying[i] /\ x.timeLeft[i] = u.duration[i]
          /\ Count(x.toDecay, i) = Count(w.toDecay, i) + 1
      BY <2>3, <2>4, <2>5, <2>12
    <3>2. EntriesOf(v, i) = e + 1
      <4>1. Count(w.toDecay, i) \in Nat /\ InWheel(w.wheel, i) \in Nat
        BY EntriesAre
      <4>2. e = Count(w.toDecay, i) + InWheel(w.wheel, i)
        BY DEF e, EntriesOf
      <4>3. EntriesOf(v, i) = Count(x.toDecay, i) + InWheel(w.wheel, i)
        BY <2>3, <2>5, <2>6 DEF EntriesOf
      <4> QED BY <3>1, <4>1, <4>2, <4>3
    <3>3. v.refs[i] = 1 + (e + 1) + a + (p + 1)
      <4>1. v.refs[i] = (1 + e + (a + 1) + p) + 1
        BY <2>6, <2>11, <3>1
      <4> QED BY <1>1, <4>1
    <3>4. Referred(v, i, a) BY <2>8, <2>9, <3>2, <3>3 DEF Referred
    <3>5. UnderWay(v, i, a) BY <1>1, <3>2 DEF UnderWay
    <3>6. \A last : Timed(v, i, last, Interval)
      <4>1. Count(v.toDecay, i) > 0
        <5>1. Count(w.toDecay, i) \in Nat BY EntriesAre
        <5> QED BY <2>6, <3>1, <5>1
      <4>2. v.duration[i] >= Interval BY <2>4, <2>8, <2>12
      <4>3. v.timeLeft[i] \in v.duration[i] - Interval .. v.duration[i]
        BY <2>6, <2>8, <2>11, <3>1, TimesAre
      <4> QED BY <4>1, <4>2, <4>3 DEF Timed
    <3> QED BY <2>6, <2>7, <2>10, <1>1, <3>2, <3>4, <3>5, <3>6
        DEF DecaySound, e
  <2>13. CASE decayTo[k] = Never
    <3>1. x = u BY <2>4, <2>5, <2>13
    <3>2. EntriesOf(v, i) = e BY <2>3, <2>6, <3>1 DEF EntriesOf, e
    <3>3. v.refs[i] = 1 + e + a + (p + 1)
      <4>1. v.refs[i] = 1 + e + (a + 1) + p BY <2>6, <2>11, <3>1
      <4> QED BY <1>1, <4>1
    <3>4. Referred(v, i, a) BY <2>8, <2>9, <3>2, <3>3 DEF Referred
    <3>5. ~ v.decaying[i] BY <2>4, <2>6, <3>1
    <3>6. UnderWay(v, i, a) BY <2>8, <2>13, <3>5 DEF UnderWay
    <3>7. \A last : Timed(v, i, last, Interval) BY <3>5, Zenon DEF Timed
    <3> QED BY <2>6, <2>7, <2>10, <1>1, <3>2, <3>4, <3>6, <3>7
        DEF DecaySound, e
  <2> QED BY <2>12, <2>13
<1> QED BY <1>5, <1>6

LEMMA EntryChecked ==
  ASSUME NEW w \in Records, NEW i \in Item, NEW b \in Bucket, NEW a \in Nat,
         DecaySound(w, i, a + 1), NEW v, v = checkEntry(w, b, i)
  PROVE  /\ v \in Records /\ DecaySound(v, i, a)
         /\ \A j \in Item \ {i} : SameItem(v, w, j)
         /\ EntriesOf(v, i) <= EntriesOf(w, i) + 1
         /\ (w.inWorld[i] /\ w.decaying[i] =>
               InTime(w.duration[i], w.timeLeft[i] + Interval, 1)) =>
              /\ Timed(v, i, b, Interval)
              /\ w.decaying[i]
                   /\ (v.kind[i] # w.kind[i] \/ v.inWorld[i] # w.inWorld[i])
                 => w.timeLeft[i] \in - Interval .. Second - 1
<1> DEFINE time == w.inWorld[i] /\ w.decaying[i] =>
                     InTime(w.duration[i], w.timeLeft[i] + Interval, 1)
           e == EntriesOf(w, i)
           p == Count(w.pending, i)
           here == IF w.inWorld[i] THEN 1 ELSE 0
           decrease == IF w.duration[i] < Second THEN w.duration[i]
                       ELSE Second
           rest == w.duration[i] - decrease
           less == [w EXCEPT !.duration[i] = rest]
           to == (b + (rest + Interval \div 2) \div Second) % Buckets
<1>1. /\ w.kind[i] \in Kind /\ w.duration[i] \in Nat
      /\ w.timeLeft[i] \in Int
      /\ w.inWorld[i] \in BOOLEAN /\ w.decaying[i] \in BOOLEAN
  BY DEF Records
<1>2. e \in Nat /\ p \in Nat /\ here \in Int BY EntriesAre
<1>3. w.refs[i] = here + e + (a + 1) + p BY DEF DecaySound, Referred
<1>4. canDecay(w, i) <=> w.inWorld[i] /\ decayTo[w.kind[i]] # Never
  BY <1>1, DecayAssumption DEF canDecay, DecayAssumption
<1>5. HasTime(w, i) BY DEF DecaySound
<1>6. CASE ~ canDecay(w, i)
  <2> DEFINE u == [w EXCEPT !.decaying[i] = FALSE]
             d == [w.decaying EXCEPT ![i] = FALSE]
  <2>1. v = ReleaseItem(u, i) BY <1>6 DEF checkEntry
  <2>2. /\ d \in [Item -> BOOLEAN] /\ ~ d[i]
        /\ \A j \in Item \ {i} : d[j] = w.decaying[j]
    BY DEF Records
  <2>3. u = [w EXCEPT !.decaying = d] BY DEF Records
  <2> HIDE DEF time, e, p, here, decrease, rest, less, to, u, d
  <2>4. /\ u \in Records /\ u.decaying = d
        /\ u.kind = w.kind /\ u.inWorld = w.inWorld
        /\ u.duration = w.duration /\ u.toDecay = w.toDecay
        /\ u.wheel = w.wheel /\ u.pending = w.pending
        /\ u.refs = w.refs /\ u.timeLeft = w.timeLeft
    BY <2>2, <2>3 DEF Records
  <2>5. /\ v \in Records
        /\ v.kind = u.kind /\ v.inWorld = u.inWorld
        /\ v.duration = u.duration /\ v.decaying = u.decaying
        /\ v.toDecay = u.toDecay /\ v.wheel = u.wheel
        /\ v.refs = u.refs /\ v.timeLeft = u.timeLeft
        /\ Count(v.pending, i) = Count(u.pending, i) + 1
        /\ \A j \in Item \ {i} : SameItem(v, u, j)
    BY <2>1, <2>4, ReleaseIs
  <2>6. \A j \in Item \ {i} : SameItem(v, w, j)
    <3> TAKE j \in Item \ {i}
    <3>1. SameItem(u, w, j) BY <2>2, <2>4 DEF SameItem
    <3> QED BY <2>5, <3>1, SameItemJoins
  <2>7. EntriesOf(v, i) = e BY <2>4, <2>5 DEF EntriesOf, e
  <2>8. Count(v.pending, i) = p + 1 BY <2>4, <2>5 DEF p
  <2>9. v.refs[i] = here + e + a + (p + 1)
    <3>1. v.refs[i] = here + e + (a + 1) + p BY <1>3, <2>4, <2>5
    <3> QED BY <1>2, <3>1
  <2>10. here = IF v.inWorld[i] THEN 1 ELSE 0 BY <2>4, <2>5 DEF here
  <2>11. Referred(v, i, a) BY <2>7, <2>8, <2>9, <2>10 DEF Referred
  <2>12. ~ v.decaying[i] /\ v.kind[i] = w.kind[i]
         /\ v.inWorld[i] = w.inWorld[i]
    BY <2>2, <2>4, <2>5
  <2>13. UnderWay(v, i, a) BY <1>4, <1>6, <2>12 DEF UnderWay
  <2>14. HasTime(v, i) BY <1>5, <2>4, <2>5 DEF HasTime
  <2>15. Timed(v, i, b, Interval) BY <2>12, Zenon DEF Timed
  <2>16. EntriesOf(v, i) <= e + 1 BY <1>2, <2>7
  <2> QED BY <2>5, <2>6, <2>11, <2>12, <2>13, <2>14, <2>15, <2>16
      DEF DecaySound, e
<1>7. rest \in Nat /\ Second \in Nat /\ Interval \in Nat \ {0}
      /\ Second = 4 * Interval
      /\ (w.duration[i] < Second => rest = 0)
      /\ (w.duration[i] >= Second => rest = w.duration[i] - Second)
  BY <1>1, TimesAre
<1>8. ASSUME canDecay(w, i), time, w.decaying[i]
      PROVE  /\ rest = 0 /\ w.duration[i] < Second =>
                  w.timeLeft[i] \in - Interval .. Second - 1 - Interval
             /\ w.duration[i] >= Second =>
                  w.timeLeft[i] \in rest - Interval .. rest
  <2>1. InTime(w.duration[i], w.timeLeft[i] + Interval, 1)
    BY <1>4, <1>8
  <2> HIDE DEF time, e, p, here, decrease, rest, less, to
  <2>2. CASE w.duration[i] < Second
    <3>1. w.timeLeft[i] + Interval \in 0 .. Second - 1
      BY <2>1, <2>2 DEF InTime
    <3> QED BY <1>1, <1>7, <2>2, <3>1
  <2>3. CASE ~ w.duration[i] < Second
    <3>1. w.timeLeft[i] + Interval
            \in w.duration[i] - Second + (1 - 1) * Interval
                .. w.duration[i] - Second + 1 * Interval
      BY <2>1, <2>3 DEF InTime
    <3>2. (1 - 1) * Interval = 0 /\ 1 * Interval = Interval BY <1>7
    <3> QED BY <1>1, <1>7, <2>3, <3>1, <3>2
  <2> QED BY <2>2, <2>3
(* It stays in its bucket or goes to the next.                             *)
<1>9. ASSUME canDecay(w, i), NEW c \in Bucket, rest >= Interval,
             v = [less EXCEPT !.wheel[c] = Append(@, i)],
             time /\ w.decaying[i] =>
               InTime(rest, w.timeLeft[i], Ahead(c, b))
      PROVE  /\ v \in Records /\ DecaySound(v, i, a)
             /\ \A j \in Item \ {i} : SameItem(v, w, j)
             /\ EntriesOf(v, i) <= e + 1
             /\ time => Timed(v, i, b, Interval)
             /\ v.kind = w.kind /\ v.inWorld = w.inWorld
  <2>1. v = EntryPut(w, i, rest, c)
    BY <1>9 DEF Records, EntryPut
  <2> HIDE DEF time, e, p, here, decrease, rest, less, to
  <2>2. /\ v \in Records
        /\ v.kind = w.kind /\ v.inWorld = w.inWorld
        /\ v.decaying = w.decaying /\ v.toDecay = w.toDecay
        /\ v.pending = w.pending /\ v.refs = w.refs
        /\ v.timeLeft = w.timeLeft /\ v.duration[i] = rest
        /\ EntriesOf(v, i) = EntriesOf(w, i) + 1
        /\ Count(v.wheel[c], i) > 0
        /\ \A j \in Item \ {i} : SameItem(v, w, j)
    <3>1. rest \in Nat /\ c \in Bucket BY <1>7, <1>9
    <3> QED BY <2>1, <3>1, EntryPutIs
  <2>3. EntriesOf(v, i) = e + 1 BY <2>2 DEF e
  <2>4. v.refs[i] = here + (e + 1) + a + p
    <3>1. v.refs[i] = here + e + (a + 1) + p BY <1>3, <2>2
    <3> QED BY <1>2, <3>1
  <2>5. Count(v.pending, i) = p BY <2>2 DEF p
  <2>6. here = IF v.inWorld[i] THEN 1 ELSE 0 BY <2>2 DEF here
  <2>7. Referred(v, i, a) BY <2>3, <2>4, <2>5, <2>6 DEF Referred
  <2>8. UnderWay(v, i, a) BY <1>2, <2>3 DEF UnderWay
  <2>9. HasTime(v, i) BY <1>9, <2>2 DEF HasTime
  <2>10. time => Timed(v, i, b, Interval)
    <3> SUFFICES ASSUME time, v.decaying[i]
                 PROVE  \E n \in Bucket :
                          /\ Count(v.wheel[n], i) > 0
                          /\ InTime(v.duration[i], v.timeLeft[i],
                                    Ahead(n, b))
      BY Zenon DEF Timed
    <3>1. InTime(v.duration[i], v.timeLeft[i], Ahead(c, b))
      BY <1>9, <2>2
    <3> QED BY <2>2, <3>1
  <2>11. EntriesOf(v, i) <= e + 1 BY <1>2, <2>3
  <2> QED BY <2>2, <2>7, <2>8, <2>9, <2>10, <2>11 DEF DecaySound
<1>10. CASE canDecay(w, i) /\ rest >= Second
  <2>1. v = [less EXCEPT !.wheel[b] = Append(@, i)]
    BY <1>10 DEF checkEntry
  <2>2. rest >= Interval BY <1>7, <1>10
  <2>3. time /\ w.decaying[i] => InTime(rest, w.timeLeft[i], Ahead(b, b))
    <3> SUFFICES ASSUME time, w.decaying[i]
                 PROVE  InTime(rest, w.timeLeft[i], Ahead(b, b))
      OBVIOUS
    <3>1. w.duration[i] >= Second BY <1>1, <1>7, <1>10
    <3>2. w.timeLeft[i] \in rest - Interval .. rest
      BY <1>8, <1>10, <3>1
    <3> HIDE DEF time, e, p, here, decrease, rest, less, to
    <3>3. Ahead(b, b) = 4
      <4>1. b \in Nat BY BucketsAre
      <4>2. b + 4 - b - 1 = 3 BY <4>1
      <4>3. 3 % 4 = 3 OBVIOUS
      <4> QED BY <4>2, <4>3, TimesAre DEF Ahead
    <3>4. rest - Second + (4 - 1) * Interval = rest - Interval
          /\ rest - Second + 4 * Interval = rest
      BY <1>7
    <3>5. ~ rest < Second BY <1>7, <1>10
    <3> QED BY <3>2, <3>3, <3>4, <3>5 DEF InTime
  <2> HIDE DEF time, rest, less, to, e
  <2> QED BY <1>9, <1>10, <2>1, <2>2, <2>3 DEF time, e
<1>11. CASE canDecay(w, i) /\ ~ rest >= Second /\ ~ (rest = 0 \/ to = b)
  <2>1. v = [less EXCEPT !.wheel[to] = Append(@, i)]
    BY <1>11 DEF checkEntry
  <2>2. rest < Second BY <1>7, <1>11
  <2>3. to \in Bucket /\ rest >= Interval /\ Ahead(to, b) = 1
    <3>1. to = (b + (rest + Interval \div 2) \div Second) % Buckets
      OBVIOUS
    <3> HIDE DEF rest, to
    <3> QED BY <1>7, <1>11, <2>2, <3>1, TurnIs
  <2>4. time /\ w.decaying[i] => InTime(rest, w.timeLeft[i], Ahead(to, b))
    <3> SUFFICES ASSUME time, w.decaying[i]
                 PROVE  InTime(rest, w.timeLeft[i], Ahead(to, b))
      OBVIOUS
    <3>1. w.duration[i] >= Second BY <1>1, <1>7, <1>11
    <3>2. w.timeLeft[i] \in rest - Interval .. rest
      BY <1>8, <1>11, <3>1
    <3> HIDE DEF time, e, p, here, decrease, rest, less, to
    <3>3. w.timeLeft[i] \in 0 .. Second - 1
      BY <1>1, <1>7, <2>2, <2>3, <3>2
    <3> QED BY <2>2, <2>3, <3>3 DEF InTime
  <2> HIDE DEF time, rest, less, to, e
  <2> QED BY <1>9, <1>11, <2>1, <2>3, <2>4 DEF time, e
<1>12. CASE canDecay(w, i) /\ ~ rest >= Second /\ (rest = 0 \/ to = b)
  <2>1. v = ReleaseItem(internalDecayItem(less, i), i)
    BY <1>12 DEF checkEntry
  <2> DEFINE d == [w.duration EXCEPT ![i] = rest]
  <2>2. d \in [Item -> Nat]
        /\ \A j \in Item \ {i} : d[j] = w.duration[j]
    BY <1>7 DEF Records
  <2>3. less = [w EXCEPT !.duration = d] BY DEF Records
  <2>4. time /\ w.decaying[i] =>
          w.timeLeft[i] \in - Interval .. Second - 1
    <3> SUFFICES ASSUME time, w.decaying[i]
                 PROVE  w.timeLeft[i] \in - Interval .. Second - 1
      OBVIOUS
    <3>1. CASE w.duration[i] < Second
      <4>1. w.timeLeft[i] \in - Interval .. Second - 1 - Interval
        BY <1>7, <1>8, <1>12, <3>1
      <4> HIDE DEF time, e, p, here, decrease, rest, less, to
      <4> QED BY <1>1, <1>7, <4>1
    <3>2. CASE ~ w.duration[i] < Second
      <4>1. w.duration[i] >= Second BY <1>1, <1>7, <3>2
      <4>2. w.timeLeft[i] \in rest - Interval .. rest
        BY <1>8, <1>12, <4>1
      <4> HIDE DEF time, e, p, here, decrease, rest, less, to
      <4> QED BY <1>1, <1>7, <1>12, <4>2
    <3> QED BY <3>1, <3>2
  <2> HIDE DEF time, e, p, here, decrease, rest, less, to, d
  <2>5. /\ less \in Records /\ less.kind = w.kind
        /\ less.inWorld = w.inWorld /\ less.decaying = w.decaying
        /\ less.toDecay = w.toDecay /\ less.wheel = w.wheel
        /\ less.pending = w.pending /\ less.refs = w.refs
        /\ less.timeLeft = w.timeLeft /\ less.duration = d
    BY <2>2, <2>3 DEF Records
  <2>6. EntriesOf(less, i) = e BY <2>5 DEF EntriesOf, e
  <2>7. Referred(less, i, a + 1)
    <3>1. Count(less.pending, i) = p BY <2>5 DEF p
    <3>2. here = IF less.inWorld[i] THEN 1 ELSE 0 BY <2>5 DEF here
    <3>3. less.refs[i] = here + e + (a + 1) + p BY <1>3, <2>5
    <3> QED BY <2>6, <3>1, <3>2, <3>3 DEF Referred
  <2>8. less.inWorld[i] /\ decayTo[less.kind[i]] # Never
    BY <1>4, <1>12, <2>5
  <2>9. /\ v \in Records /\ DecaySound(v, i, a)
        /\ \A j \in Item \ {i} : SameItem(v, less, j)
        /\ EntriesOf(v, i) <= EntriesOf(less, i) + 1
        /\ \A last : Timed(v, i, last, Interval)
    BY <2>1, <2>5, <2>7, <2>8, DecaysIs
  <2>10. \A j \in Item \ {i} : SameItem(v, w, j)
    <3> TAKE j \in Item \ {i}
    <3>1. SameItem(less, w, j) BY <2>2, <2>5 DEF SameItem
    <3> QED BY <2>9, <3>1, SameItemJoins
  <2> QED BY <2>4, <2>6, <2>9, <2>10 DEF time, e
<1> QED BY <1>6, <1>10, <1>11, <1>12

-----------------------------------------------------------------------------
(* Releasing what is to be released, and sorting what waits for a bucket *)

Sorting(f, w, last, m) ==
  f = [n \in 0 .. m |->
         IF n = 0 THEN w.wheel
         ELSE [f[n - 1] EXCEPT ![bucketOf(w, w.toDecay[n], last)] =
                 Append(@, w.toDecay[n])]]

LEMMA SortingExists ==
  ASSUME NEW w, NEW last, NEW m \in Nat
  PROVE  \E f : Sorting(f, w, last, m)
<1> DEFINE step(f, k) ==
             [n \in 0 .. k |->
                IF n = 0 THEN w.wheel
                ELSE [f[n - 1] EXCEPT ![bucketOf(w, w.toDecay[n], last)] =
                        Append(@, w.toDecay[n])]]
           N == {k \in Nat : \E f : f = step(f, k)}
<1>1. 0 \in N
  <2> DEFINE f == [n \in 0 .. 0 |-> w.wheel]
  <2>1. f = step(f, 0) OBVIOUS
  <2> QED BY <2>1
<1>2. ASSUME NEW k \in N PROVE k + 1 \in N
  <2>1. PICK f : f = step(f, k) BY <1>2
  <2> DEFINE g == step(f, k + 1)
  <2>2. k \in Nat BY <1>2
  <2>3. ASSUME NEW n \in 0 .. k PROVE g[n] = f[n]
    <3>1. f[n] = IF n = 0 THEN w.wheel
                 ELSE [f[n - 1] EXCEPT ![bucketOf(w, w.toDecay[n], last)] =
                         Append(@, w.toDecay[n])]
      BY <2>1, Zenon
    <3>2. n \in 0 .. k + 1 BY <2>2
    <3> QED BY <3>1, <3>2, Zenon
  <2>4. \A n \in 0 .. k + 1 : n # 0 => n - 1 \in 0 .. k BY <2>2
  <2>5. g = step(g, k + 1)
    <3>1. \A n \in 0 .. k + 1 : n # 0 => g[n - 1] = f[n - 1]
      BY <2>3, <2>4, Zenon
    <3>2. ASSUME NEW n \in 0 .. k + 1 PROVE step(f, k + 1)[n] =
                                             step(g, k + 1)[n]
      <4>1. CASE n = 0 BY <4>1, Zenon
      <4>2. CASE n # 0
        <5>1. g[n - 1] = f[n - 1] BY <3>1, <4>2, Zenon
        <5> HIDE DEF g
        <5> QED BY <5>1, Zenon
      <4> QED BY <4>1, <4>2
    <3> HIDE DEF g
    <3>3. step(f, k + 1) = step(g, k + 1) BY <3>2, Zenon
    <3> QED BY <3>3 DEF g
  <2>6. \E h : h = step(h, k + 1)
    <3> HIDE DEF g, step
    <3> QED BY <2>5
  <2>7. k + 1 \in Nat BY <2>2
  <2> HIDE DEF step
  <2> QED BY <2>6, <2>7, Zenon
<1>3. N = Nat
  <2>1. N \in SUBSET Nat OBVIOUS
  <2> HIDE DEF N
  <2> QED BY <1>1, <1>2, <2>1, NatSetInduction
<1>4. m \in N
  <2> HIDE DEF N
  <2> QED BY <1>3
<1> QED BY <1>4 DEF Sorting

SortsAll(f, w, last) ==
  /\ f[0] = w.wheel
  /\ \A n \in 1 .. Len(w.toDecay) :
       f[n] = [f[n - 1] EXCEPT ![bucketOf(w, w.toDecay[n], last)] =
                 Append(@, w.toDecay[n])]

LEMMA CleanupIs ==
  ASSUME NEW w \in Records, NEW last
  PROVE  \E f :
           /\ cleanup(w, last) =
                [w EXCEPT
                   !.refs = [i \in Item |-> w.refs[i] - Count(w.pending, i)],
                   !.pending = <<>>, !.toDecay = <<>>,
                   !.wheel = f[Len(w.toDecay)]]
           /\ SortsAll(f, w, last)
<1>1. w.toDecay \in Seq(Item) BY DEF Records
<1>2. Len(w.toDecay) \in Nat BY <1>1
<1>3. \E h : Sorting(h, w, last, Len(w.toDecay)) BY <1>2, SortingExists
<1> DEFINE f == CHOOSE h : Sorting(h, w, last, Len(w.toDecay))
<1>4. Sorting(f, w, last, Len(w.toDecay)) BY <1>3
<1>5. cleanup(w, last) =
        [w EXCEPT
           !.refs = [i \in Item |-> w.refs[i] - Count(w.pending, i)],
           !.pending = <<>>, !.toDecay = <<>>,
           !.wheel = f[Len(w.toDecay)]]
  BY DEF cleanup, Sorting
<1> HIDE DEF f
<1>6. \A n \in 0 .. Len(w.toDecay) :
        f[n] = IF n = 0 THEN w.wheel
               ELSE [f[n - 1] EXCEPT ![bucketOf(w, w.toDecay[n], last)] =
                       Append(@, w.toDecay[n])]
  BY <1>4, Zenon DEF Sorting
<1>7. 0 \in 0 .. Len(w.toDecay)
      /\ \A n \in 1 .. Len(w.toDecay) : n \in 0 .. Len(w.toDecay) /\ n # 0
  BY <1>2
<1>8. f[0] = w.wheel BY <1>6, <1>7, Zenon
<1>9. \A n \in 1 .. Len(w.toDecay) :
        f[n] = [f[n - 1] EXCEPT ![bucketOf(w, w.toDecay[n], last)] =
                  Append(@, w.toDecay[n])]
  BY <1>6, <1>7, Zenon
<1>10. SortsAll(f, w, last) BY <1>8, <1>9, Zenon DEF SortsAll
<1> QED BY <1>5, <1>10, Zenon

LEMMA BucketOfIs ==
  ASSUME NEW w \in Records, NEW i \in Item, NEW last \in Bucket
  PROVE  /\ bucketOf(w, i, last) \in Bucket
         /\ w.duration[i] >= Second =>
              Ahead(bucketOf(w, i, last), last) = 4
         /\ w.duration[i] < Second =>
              Ahead(bucketOf(w, i, last), last) = 1
<1>1. w.duration[i] \in Nat BY DEF Records
<1>2. last \in {0, 1, 2, 3} BY BucketsAre
<1>3. CASE w.duration[i] >= Second
  <2>1. bucketOf(w, i, last) = last BY <1>3 DEF bucketOf
  <2>2. last + 4 - last - 1 = 3 BY <1>2
  <2>3. 3 % 4 = 3 OBVIOUS
  <2>4. Ahead(last, last) = 4 BY <2>2, <2>3, TimesAre DEF Ahead
  <2> QED BY <1>1, <1>3, <2>1, <2>4, TimesAre
<1>4. CASE ~ w.duration[i] >= Second
  <2>1. w.duration[i] < Second /\ Second \in Nat \ {0}
    BY <1>1, <1>4, TimesAre
  <2>2. w.duration[i] \div Second = 0
    <3>1. w.duration[i] < 2 * Second BY <1>1, <2>1
    <3> QED BY <1>1, <2>1, <3>1, QuotientIs
  <2>3. bucketOf(w, i, last) = (last + 1 + 0) % 4
    BY <1>4, <2>2, TimesAre DEF bucketOf
  <2> DEFINE to == bucketOf(w, i, last)
  <2>4. to \in Bucket
    BY <1>2, <2>3, BucketsAre
  <2>5. Ahead(to, last) = 1
    BY <1>2, <2>3, TimesAre DEF Ahead
  <2> QED BY <1>4, <2>4, <2>5
<1> QED BY <1>3, <1>4

(* Of the buckets wh, those of u have what the list q held up to k.        *)
SortedUpTo(u, wh, q, k, i, to) ==
  /\ InWheel(u, i) + Coming(q, k, i) = InWheel(wh, i) + Count(q, i)
  /\ \A c \in Bucket : Count(u[c], i) >= Count(wh[c], i)
  /\ Coming(q, k, i) < Count(q, i) => Count(u[to], i) > 0

LEMMA SortStep ==
  ASSUME NEW q \in Seq(Item), NEW n \in 0 .. Len(q) - 1,
         NEW u \in [Bucket -> Seq(Item)], NEW wh \in [Bucket -> Seq(Item)],
         NEW b \in Bucket, NEW i \in Item, NEW to \in Bucket,
         q[n + 1] = i => b = to, SortedUpTo(u, wh, q, n, i, to),
         NEW v, v = PutIn(u, b, Append(u[b], q[n + 1]))
  PROVE  SortedUpTo(v, wh, q, n + 1, i, to)
<1> DEFINE x == q[n + 1]
           one == IF x = i THEN 1 ELSE 0
<1>1. x \in Item /\ n \in 0 .. Len(q) /\ n + 1 \in 0 .. Len(q)
      /\ n + 1 \in 1 .. Len(q) /\ (n + 1) - 1 = n
  OBVIOUS
<1>2. /\ Coming(q, n, i) \in Nat /\ Coming(q, n + 1, i) \in Nat
      /\ Coming(q, n, i) = Coming(q, n + 1, i) + one
  <2>1. /\ \A k \in 0 .. Len(q) : Coming(q, k, i) \in Nat
        /\ \A k \in 1 .. Len(q) :
             Coming(q, k - 1, i) =
               Coming(q, k, i) + (IF q[k] = i THEN 1 ELSE 0)
    BY ComingIs
  <2> QED BY <1>1, <2>1
<1>3. one \in {0, 1} /\ (x = i => one = 1 /\ b = to)
      /\ (x # i => one = 0)
  OBVIOUS
<1>4. v = PutIn(u, b, Append(u[b], x)) OBVIOUS
<1> HIDE DEF x, one
<1>5. /\ v \in [Bucket -> Seq(Item)]
      /\ InWheel(v, i) = InWheel(u, i) + one
      /\ \A c \in Bucket : Count(v[c], i) >= Count(u[c], i)
      /\ x = i => Count(v[b], i) > 0
  BY <1>1, <1>4, WheelGrows DEF one
<1>6. /\ InWheel(u, i) \in Nat
      /\ \A c \in Bucket : Count(u[c], i) \in Nat
  BY InWheelIs
<1>7. \A c \in Bucket : Count(v[c], i) \in Nat BY <1>5, InWheelIs
<1>8. /\ InWheel(wh, i) \in Nat /\ Count(q, i) \in Nat
      /\ \A c \in Bucket : Count(wh[c], i) \in Nat
  BY InWheelIs, CountIs
<1>9. InWheel(v, i) + Coming(q, n + 1, i) = InWheel(wh, i) + Count(q, i)
  <2>1. InWheel(u, i) + Coming(q, n, i) = InWheel(wh, i) + Count(q, i)
    BY DEF SortedUpTo
  <2> QED BY <1>2, <1>3, <1>5, <1>6, <1>8, <2>1
<1>10. ASSUME NEW c \in Bucket PROVE Count(v[c], i) >= Count(wh[c], i)
  <2>1. Count(v[c], i) >= Count(u[c], i) BY <1>5
  <2>2. Count(u[c], i) >= Count(wh[c], i) BY DEF SortedUpTo
  <2>3. /\ Count(u[c], i) \in Nat /\ Count(v[c], i) \in Nat
        /\ Count(wh[c], i) \in Nat
    BY <1>6, <1>7, <1>8
  <2> QED BY <2>1, <2>2, <2>3
<1>11. Coming(q, n + 1, i) < Count(q, i) => Count(v[to], i) > 0
  <2>1. CASE x = i BY <1>3, <1>5, <2>1
  <2>2. CASE x # i
    <3>1. Coming(q, n, i) = Coming(q, n + 1, i) BY <1>2, <1>3, <2>2
    <3>2. Coming(q, n, i) < Count(q, i) => Count(u[to], i) > 0
      BY DEF SortedUpTo
    <3>3. Count(v[to], i) >= Count(u[to], i) BY <1>5
    <3>4. Count(v[to], i) \in Nat /\ Count(u[to], i) \in Nat
      BY <1>6, <1>7
    <3> QED BY <3>1, <3>2, <3>3, <3>4
  <2> QED BY <2>1, <2>2
<1> QED BY <1>9, <1>10, <1>11 DEF SortedUpTo

LEMMA SortedIs ==
  ASSUME NEW w \in Records, NEW last \in Bucket, NEW f, SortsAll(f, w, last),
         NEW wh, wh = f[Len(w.toDecay)]
  PROVE  /\ wh \in [Bucket -> Seq(Item)]
         /\ \A i \in Item :
              /\ InWheel(wh, i) = InWheel(w.wheel, i) + Count(w.toDecay, i)
              /\ \A c \in Bucket : Count(wh[c], i) >= Count(w.wheel[c], i)
              /\ Count(w.toDecay, i) > 0 =>
                   Count(wh[bucketOf(w, i, last)], i) > 0
<1> DEFINE q == w.toDecay
           to(i) == bucketOf(w, i, last)
           P(n) == /\ f[n] \in [Bucket -> Seq(Item)]
                   /\ \A i \in Item :
                        SortedUpTo(f[n], w.wheel, q, n, i, to(i))
           N == {n \in Nat : n <= Len(q) => P(n)}
<1>1. q \in Seq(Item) /\ w.wheel \in [Bucket -> Seq(Item)] BY DEF Records
<1>2. \A i \in Item : to(i) \in Bucket BY BucketOfIs
<1>3. f[0] = w.wheel BY DEF SortsAll
<1>4. \A n \in 1 .. Len(q) :
        f[n] = PutIn(f[n - 1], to(q[n]), Append(f[n - 1][to(q[n])], q[n]))
  BY Zenon DEF SortsAll, PutIn
<1>5. Len(q) \in Nat BY <1>1
<1> HIDE DEF q, to
<1>6. 0 \in N
  <2>1. f[0] \in [Bucket -> Seq(Item)] BY <1>1, <1>3
  <2>2. ASSUME NEW i \in Item
        PROVE  SortedUpTo(f[0], w.wheel, q, 0, i, to(i))
    <3>1. Coming(q, 0, i) = Count(q, i) BY <1>1, ComingIs
    <3>2. Count(q, i) \in Nat BY <1>1, CountIs
    <3>3. \A c \in Bucket : Count(w.wheel[c], i) \in Nat
      BY <1>1, InWheelIs
    <3> QED BY <1>3, <3>1, <3>2, <3>3 DEF SortedUpTo
  <2> QED BY <2>1, <2>2
<1>7. ASSUME NEW n \in N PROVE n + 1 \in N
  <2>1. n \in Nat /\ (n <= Len(q) => P(n)) BY <1>7
  <2> HIDE DEF P
  <2> SUFFICES ASSUME n + 1 <= Len(q) PROVE P(n + 1)
    BY <2>1
  <2> HIDE DEF N
  <2>2. n \in 0 .. Len(q) - 1 /\ n + 1 \in 1 .. Len(q) /\ (n + 1) - 1 = n
        /\ n <= Len(q)
    BY <1>5, <2>1
  <2>3. /\ f[n] \in [Bucket -> Seq(Item)]
        /\ \A i \in Item : SortedUpTo(f[n], w.wheel, q, n, i, to(i))
    BY <2>1, <2>2 DEF P
  <2>4. q[n + 1] \in Item /\ to(q[n + 1]) \in Bucket
    BY <1>1, <1>2, <2>2
  <2>5. f[n + 1] = PutIn(f[n], to(q[n + 1]),
                         Append(f[n][to(q[n + 1])], q[n + 1]))
    <3>1. \A k \in 1 .. Len(q) : k - 1 = n =>
            f[k] = PutIn(f[n], to(q[k]), Append(f[n][to(q[k])], q[k]))
      BY <1>4
    <3> QED BY <2>2, <3>1
  <2>6. ASSUME NEW i \in Item
        PROVE  SortedUpTo(f[n + 1], w.wheel, q, n + 1, i, to(i))
    <3>1. SortedUpTo(f[n], w.wheel, q, n, i, to(i)) BY <2>3
    <3>2. q[n + 1] = i => to(q[n + 1]) = to(i) OBVIOUS
    <3>3. to(i) \in Bucket BY <1>2
    <3> QED BY <1>1, <2>2, <2>3, <2>4, <2>5, <3>1, <3>2, <3>3, SortStep
  <2>7. f[n + 1] \in [Bucket -> Seq(Item)]
    BY <2>3, <2>4, <2>5 DEF PutIn
  <2> QED BY <2>6, <2>7 DEF P
<1>8. N = Nat
  <2>1. N \in SUBSET Nat OBVIOUS
  <2> HIDE DEF N
  <2> QED BY <1>6, <1>7, <2>1, NatSetInduction
<1>9. P(Len(q))
  <2>1. Len(q) \in N
    <3> HIDE DEF N
    <3> QED BY <1>5, <1>8
  <2> HIDE DEF P
  <2> QED BY <1>5, <2>1
<1>10. wh = f[Len(q)] BY DEF q
<1>11. wh \in [Bucket -> Seq(Item)] BY <1>9, <1>10
<1>12. ASSUME NEW i \in Item
       PROVE  /\ InWheel(wh, i) = InWheel(w.wheel, i) + Count(w.toDecay, i)
              /\ \A c \in Bucket : Count(wh[c], i) >= Count(w.wheel[c], i)
              /\ Count(w.toDecay, i) > 0 =>
                   Count(wh[bucketOf(w, i, last)], i) > 0
  <2>1. SortedUpTo(wh, w.wheel, q, Len(q), i, to(i)) BY <1>9, <1>10
  <2>2. Coming(q, Len(q), i) = 0 BY <1>1, ComingIs
  <2>3. InWheel(wh, i) \in Nat BY <1>11, InWheelIs
  <2>4. InWheel(wh, i) + 0 = InWheel(w.wheel, i) + Count(q, i)
    BY <2>1, <2>2 DEF SortedUpTo
  <2>5. Count(q, i) \in Nat BY <1>1, CountIs
  <2>6. 0 < Count(q, i) => Count(wh[to(i)], i) > 0
    BY <2>1, <2>2 DEF SortedUpTo
  <2>7. \A c \in Bucket : Count(wh[c], i) >= Count(w.wheel[c], i)
    BY <2>1 DEF SortedUpTo
  <2> QED BY <2>3, <2>4, <2>5, <2>6, <2>7 DEF q, to
<1> QED BY <1>11, <1>12

LEMMA CleanupKeeps ==
  ASSUME NEW w \in Records, NEW last \in Bucket, NEW v,
         v = cleanup(w, last)
  PROVE  /\ v \in Records
         /\ v.kind = w.kind /\ v.inWorld = w.inWorld
         /\ v.decaying = w.decaying /\ v.duration = w.duration
         /\ v.timeLeft = w.timeLeft
         /\ \A i \in Item :
              /\ EntriesOf(v, i) = EntriesOf(w, i)
              /\ DecaySound(w, i, 0) => DecaySound(v, i, 0)
              /\ \A late \in {0, Interval} :
                   Timed(w, i, last, late) => Timed(v, i, last, 0)
<1>1. PICK f :
        /\ cleanup(w, last) =
             [w EXCEPT
                !.refs = [i \in Item |-> w.refs[i] - Count(w.pending, i)],
                !.pending = <<>>, !.toDecay = <<>>,
                !.wheel = f[Len(w.toDecay)]]
        /\ SortsAll(f, w, last)
  BY CleanupIs, Zenon
<1> DEFINE wh == f[Len(w.toDecay)]
           r == [i \in Item |-> w.refs[i] - Count(w.pending, i)]
           none == <<>>
<1>2. /\ wh \in [Bucket -> Seq(Item)]
      /\ \A i \in Item :
           /\ InWheel(wh, i) = InWheel(w.wheel, i) + Count(w.toDecay, i)
           /\ \A c \in Bucket : Count(wh[c], i) >= Count(w.wheel[c], i)
           /\ Count(w.toDecay, i) > 0 =>
                Count(wh[bucketOf(w, i, last)], i) > 0
  BY <1>1, SortedIs, Zenon
<1>3. \A i \in Item : w.refs[i] \in Int /\ Count(w.pending, i) \in Nat
  <2> TAKE i \in Item
  <2>1. Count(w.pending, i) \in Nat BY EntriesAre
  <2> QED BY <2>1 DEF Records
<1>4. r \in [Item -> Int] BY <1>3
<1>5. \A i \in Item : r[i] = w.refs[i] - Count(w.pending, i) OBVIOUS
<1>6. v = [w EXCEPT !.refs = r, !.pending = none, !.toDecay = none,
                    !.wheel = wh]
  BY <1>1
<1>0. none \in Seq(Item) OBVIOUS
<1> HIDE DEF wh, r, none
<1>7. /\ v \in Records
      /\ v.kind = w.kind /\ v.inWorld = w.inWorld
      /\ v.decaying = w.decaying /\ v.duration = w.duration
      /\ v.timeLeft = w.timeLeft /\ v.refs = r /\ v.pending = none
      /\ v.toDecay = none /\ v.wheel = wh
  BY <1>0, <1>2, <1>4, <1>6 DEF Records
<1>8. ASSUME NEW i \in Item
      PROVE  /\ EntriesOf(v, i) = EntriesOf(w, i)
             /\ DecaySound(w, i, 0) => DecaySound(v, i, 0)
             /\ \A late \in {0, Interval} :
                  Timed(w, i, last, late) => Timed(v, i, last, 0)
  <2>1. Count(<<>>, i) = 0
    <3>1. w.pending \in Seq(Item) BY DEF Records
    <3> QED BY <3>1, CountIs
  <2>2. Count(v.toDecay, i) = 0 /\ Count(v.pending, i) = 0
    BY <1>7, <2>1 DEF none
  <2>3. /\ Count(w.toDecay, i) \in Nat /\ InWheel(w.wheel, i) \in Nat
        /\ EntriesOf(w, i) \in Nat /\ Count(w.pending, i) \in Nat
    BY EntriesAre
  <2>4. EntriesOf(v, i) = EntriesOf(w, i)
    <3>1. InWheel(v.wheel, i) = InWheel(w.wheel, i) + Count(w.toDecay, i)
      BY <1>2, <1>7
    <3> QED BY <2>2, <2>3, <3>1 DEF EntriesOf
  <2>5. ASSUME DecaySound(w, i, 0) PROVE DecaySound(v, i, 0)
    <3> DEFINE here == IF w.inWorld[i] THEN 1 ELSE 0
    <3>1. w.refs[i] = here + EntriesOf(w, i) + 0 + Count(w.pending, i)
      BY <2>5 DEF DecaySound, Referred
    <3>2. here \in Int /\ here = IF v.inWorld[i] THEN 1 ELSE 0 BY <1>7
    <3> HIDE DEF here
    <3>3. v.refs[i] = w.refs[i] - Count(w.pending, i) BY <1>5, <1>7
    <3>4. v.refs[i] = here + EntriesOf(w, i) + 0 + 0
      BY <2>3, <3>1, <3>2, <3>3
    <3>5. Referred(v, i, 0) BY <2>2, <2>4, <3>2, <3>4 DEF Referred
    <3>6. UnderWay(v, i, 0)
      BY <1>7, <2>4, <2>5 DEF UnderWay, DecaySound
    <3>7. HasTime(v, i) BY <1>7, <2>5 DEF HasTime, DecaySound
    <3> QED BY <3>5, <3>6, <3>7 DEF DecaySound
  <2>6. ASSUME NEW late \in {0, Interval}, Timed(w, i, last, late)
        PROVE  Timed(v, i, last, 0)
    <3> SUFFICES ASSUME v.inWorld[i], v.decaying[i]
                 PROVE  \E c \in Bucket :
                          /\ Count(v.wheel[c], i) > 0
                          /\ InTime(v.duration[i], v.timeLeft[i],
                                    Ahead(c, last))
      BY Zenon DEF Timed
    <3>1. w.inWorld[i] /\ w.decaying[i] BY <1>7
    <3>2. w.duration[i] \in Nat /\ w.timeLeft[i] \in Int BY DEF Records
    <3>3. \A c \in Bucket : Count(w.wheel[c], i) \in Nat
                            /\ Count(wh[c], i) \in Nat
      <4>1. w.wheel \in [Bucket -> Seq(Item)] BY DEF Records
      <4> QED BY <1>2, <4>1, InWheelIs
    <3>4. CASE /\ Count(w.toDecay, i) > 0
               /\ w.duration[i] >= Interval
               /\ w.timeLeft[i] \in w.duration[i] - late .. w.duration[i]
      <4> DEFINE to == bucketOf(w, i, last)
      <4>1. to \in Bucket /\ Count(v.wheel[to], i) > 0
        BY <1>2, <1>7, <3>4, BucketOfIs
      <4>2. w.timeLeft[i] \in w.duration[i] - Interval .. w.duration[i]
        BY <3>2, <3>4, TimesAre
      <4>3. /\ w.duration[i] >= Second => Ahead(to, last) = 4
            /\ w.duration[i] < Second => Ahead(to, last) = 1
        BY BucketOfIs
      <4> HIDE DEF to
      <4>4. InTime(w.duration[i], w.timeLeft[i], Ahead(to, last))
        <5>1. CASE w.duration[i] < Second
          <6>1. w.timeLeft[i] \in 0 .. Second - 1
            BY <3>2, <3>4, <4>2, <5>1, TimesAre
          <6> QED BY <4>3, <5>1, <6>1 DEF InTime
        <5>2. CASE ~ w.duration[i] < Second
          <6>1. Ahead(to, last) = 4 BY <3>2, <4>3, <5>2, TimesAre
          <6>2. /\ w.duration[i] - Second + (4 - 1) * Interval
                     = w.duration[i] - Interval
                /\ w.duration[i] - Second + 4 * Interval = w.duration[i]
            BY <3>2, TimesAre
          <6> QED BY <4>2, <5>2, <6>1, <6>2 DEF InTime
        <5> QED BY <5>1, <5>2
      <4> QED BY <1>7, <4>1, <4>4
    <3>5. CASE \E c \in Bucket :
                 /\ Count(w.wheel[c], i) > 0
                 /\ InTime(w.duration[i], w.timeLeft[i], Ahead(c, last))
      <4>1. PICK c \in Bucket :
              /\ Count(w.wheel[c], i) > 0
              /\ InTime(w.duration[i], w.timeLeft[i], Ahead(c, last))
        BY <3>5
      <4>2. Count(wh[c], i) >= Count(w.wheel[c], i) BY <1>2
      <4>3. Count(w.wheel[c], i) \in Nat /\ Count(wh[c], i) \in Nat
        BY <3>3
      <4>4. Count(wh[c], i) > 0 BY <4>1, <4>2, <4>3
      <4> QED BY <1>7, <4>1, <4>4
    <3> QED BY <2>6, <3>1, <3>4, <3>5, Zenon DEF Timed
  <2> QED BY <2>4, <2>5, <2>6
<1> QED BY <1>7, <1>8

-----------------------------------------------------------------------------
(* Checking the entries of a bucket, one after the other *)

Checking(f, w, b, s, m) ==
  f = [n \in 0 .. m |->
         IF n = 0 THEN w ELSE checkEntry(f[n - 1], b, s[n])]

LEMMA CheckingExists ==
  ASSUME NEW w, NEW b, NEW s, NEW m \in Nat
  PROVE  \E f : Checking(f, w, b, s, m)
<1> DEFINE step(f, k) ==
             [n \in 0 .. k |->
                IF n = 0 THEN w ELSE checkEntry(f[n - 1], b, s[n])]
           N == {k \in Nat : \E f : f = step(f, k)}
<1>1. 0 \in N
  <2> DEFINE f == [n \in 0 .. 0 |-> w]
  <2>1. f = step(f, 0) OBVIOUS
  <2> QED BY <2>1
<1>2. ASSUME NEW k \in N PROVE k + 1 \in N
  <2>1. PICK f : f = step(f, k) BY <1>2
  <2> DEFINE g == step(f, k + 1)
  <2>2. k \in Nat BY <1>2
  <2>3. ASSUME NEW n \in 0 .. k PROVE g[n] = f[n]
    <3>1. f[n] = IF n = 0 THEN w ELSE checkEntry(f[n - 1], b, s[n])
      BY <2>1, Zenon
    <3>2. n \in 0 .. k + 1 BY <2>2
    <3> QED BY <3>1, <3>2, Zenon
  <2>4. \A n \in 0 .. k + 1 : n # 0 => n - 1 \in 0 .. k BY <2>2
  <2>5. g = step(g, k + 1)
    <3>1. \A n \in 0 .. k + 1 : n # 0 => g[n - 1] = f[n - 1]
      BY <2>3, <2>4, Zenon
    <3>2. ASSUME NEW n \in 0 .. k + 1 PROVE step(f, k + 1)[n] =
                                             step(g, k + 1)[n]
      <4>1. CASE n = 0 BY <4>1, Zenon
      <4>2. CASE n # 0
        <5>1. g[n - 1] = f[n - 1] BY <3>1, <4>2, Zenon
        <5> HIDE DEF g
        <5> QED BY <5>1, Zenon
      <4> QED BY <4>1, <4>2
    <3> HIDE DEF g
    <3>3. step(f, k + 1) = step(g, k + 1) BY <3>2, Zenon
    <3> QED BY <3>3 DEF g
  <2>6. \E h : h = step(h, k + 1)
    <3> HIDE DEF g, step
    <3> QED BY <2>5
  <2>7. k + 1 \in Nat BY <2>2
  <2> HIDE DEF step
  <2> QED BY <2>6, <2>7, Zenon
<1>3. N = Nat
  <2>1. N \in SUBSET Nat OBVIOUS
  <2> HIDE DEF N
  <2> QED BY <1>1, <1>2, <2>1, NatSetInduction
<1>4. m \in N
  <2> HIDE DEF N
  <2> QED BY <1>3
<1> QED BY <1>4 DEF Checking

ChecksAll(f, w, b, s) ==
  /\ f[0] = w
  /\ \A n \in 1 .. Len(s) : f[n] = checkEntry(f[n - 1], b, s[n])

(* What is true of an item used by nobody, before and after its turn; the  *)
(* check began with the items as in was.                                   *)
AloneUpTo(w, was, b, s, n, i) ==
  /\ EntriesOf(w, i) + Coming(s, n, i) <= 1
  /\ Coming(s, n, i) > 0 =>
       /\ w.kind[i] = was.kind[i] /\ w.inWorld[i] = was.inWorld[i]
       /\ w.decaying[i] = was.decaying[i]
       /\ w.timeLeft[i] = was.timeLeft[i]
       /\ w.inWorld[i] /\ w.decaying[i] =>
            InTime(w.duration[i], w.timeLeft[i] + Interval, 1)
  /\ Coming(s, n, i) = 0 => Timed(w, i, b, Interval)
  /\ was.decaying[i] /\ (w.kind[i] # was.kind[i]
                         \/ w.inWorld[i] # was.inWorld[i]) =>
       was.timeLeft[i] \in - Interval .. Second - 1

LEMMA CheckStep ==
  ASSUME NEW w \in Records, NEW b \in Bucket, NEW s \in Seq(Item),
         NEW n \in 0 .. Len(s) - 1,
         \A i \in Item : DecaySound(w, i, Coming(s, n, i)),
         NEW v, v = checkEntry(w, b, s[n + 1])
  PROVE  /\ v \in Records
         /\ \A i \in Item :
              /\ DecaySound(v, i, Coming(s, n + 1, i))
              /\ \A was : AloneUpTo(w, was, b, s, n, i) =>
                            AloneUpTo(v, was, b, s, n + 1, i)
<1> DEFINE x == s[n + 1]
           a == Coming(s, n + 1, x)
<1>1. x \in Item /\ n \in 0 .. Len(s) /\ n + 1 \in 0 .. Len(s)
      /\ n + 1 \in 1 .. Len(s) /\ (n + 1) - 1 = n
  OBVIOUS
<1>2. \A i \in Item :
        /\ Coming(s, n, i) \in Nat /\ Coming(s, n + 1, i) \in Nat
        /\ Coming(s, n, i) =
             Coming(s, n + 1, i) + (IF x = i THEN 1 ELSE 0)
  <2> TAKE i \in Item
  <2>1. /\ \A k \in 0 .. Len(s) : Coming(s, k, i) \in Nat
        /\ \A k \in 1 .. Len(s) :
             Coming(s, k - 1, i) =
               Coming(s, k, i) + (IF s[k] = i THEN 1 ELSE 0)
    BY ComingIs
  <2> QED BY <1>1, <2>1
<1>3. v = checkEntry(w, b, x) OBVIOUS
<1> HIDE DEF x
<1>4. a \in Nat /\ Coming(s, n, x) = a + 1 BY <1>1, <1>2
<1>5. DecaySound(w, x, a + 1) BY <1>1, <1>4
<1> HIDE DEF a
<1>6. /\ v \in Records /\ DecaySound(v, x, a)
      /\ \A j \in Item \ {x} : SameItem(v, w, j)
      /\ EntriesOf(v, x) <= EntriesOf(w, x) + 1
      /\ (w.inWorld[x] /\ w.decaying[x] =>
            InTime(w.duration[x], w.timeLeft[x] + Interval, 1)) =>
           /\ Timed(v, x, b, Interval)
           /\ w.decaying[x]
                /\ (v.kind[x] # w.kind[x] \/ v.inWorld[x] # w.inWorld[x])
              => w.timeLeft[x] \in - Interval .. Second - 1
  BY <1>1, <1>3, <1>4, <1>5, EntryChecked
<1>7. ASSUME NEW i \in Item, i # x
      PROVE  /\ DecaySound(v, i, Coming(s, n + 1, i))
             /\ \A was : AloneUpTo(w, was, b, s, n, i) =>
                           AloneUpTo(v, was, b, s, n + 1, i)
  <2>1. Coming(s, n + 1, i) = Coming(s, n, i) BY <1>2, <1>7
  <2>2. SameItem(v, w, i) BY <1>6, <1>7
  <2>3. /\ EntriesOf(v, i) = EntriesOf(w, i)
        /\ \A n2 : DecaySound(w, i, n2) => DecaySound(v, i, n2)
        /\ \A last, late : Timed(w, i, last, late) => Timed(v, i, last, late)
    BY <2>2, SameItemKeeps
  <2>4. DecaySound(v, i, Coming(s, n + 1, i)) BY <2>1, <2>3
  <2>5. ASSUME NEW was, AloneUpTo(w, was, b, s, n, i)
        PROVE  AloneUpTo(v, was, b, s, n + 1, i)
    <3>1. /\ v.kind[i] = w.kind[i] /\ v.inWorld[i] = w.inWorld[i]
          /\ v.duration[i] = w.duration[i] /\ v.decaying[i] = w.decaying[i]
          /\ v.timeLeft[i] = w.timeLeft[i]
      BY <2>2 DEF SameItem
    <3> QED BY <2>1, <2>3, <2>5, <3>1 DEF AloneUpTo
  <2> QED BY <2>4, <2>5
<1>8. ASSUME NEW was, AloneUpTo(w, was, b, s, n, x)
      PROVE  AloneUpTo(v, was, b, s, n + 1, x)
  <2>1. EntriesOf(w, x) + (a + 1) <= 1 /\ EntriesOf(w, x) \in Nat
    BY <1>1, <1>4, <1>8, EntriesAre DEF AloneUpTo
  <2>2. a = 0 /\ EntriesOf(w, x) = 0 BY <1>4, <2>1
  <2>3. EntriesOf(v, x) \in Nat BY <1>1, <1>6, EntriesAre
  <2>4. EntriesOf(v, x) + 0 <= 1 BY <1>6, <2>2, <2>3
  <2>5. Coming(s, n + 1, x) = 0 BY <2>2 DEF a
  <2>6. Coming(s, n, x) > 0 BY <1>4
  <2>7. /\ w.kind[x] = was.kind[x] /\ w.inWorld[x] = was.inWorld[x]
        /\ w.decaying[x] = was.decaying[x]
        /\ w.timeLeft[x] = was.timeLeft[x]
        /\ w.inWorld[x] /\ w.decaying[x] =>
             InTime(w.duration[x], w.timeLeft[x] + Interval, 1)
    BY <1>8, <2>6 DEF AloneUpTo
  <2>8. /\ Timed(v, x, b, Interval)
        /\ w.decaying[x]
             /\ (v.kind[x] # w.kind[x] \/ v.inWorld[x] # w.inWorld[x])
           => w.timeLeft[x] \in - Interval .. Second - 1
    BY <1>6, <2>7
  <2>9. was.decaying[x] /\ (v.kind[x] # was.kind[x]
                            \/ v.inWorld[x] # was.inWorld[x]) =>
          was.timeLeft[x] \in - Interval .. Second - 1
    BY <2>7, <2>8
  <2> QED BY <2>4, <2>5, <2>8, <2>9 DEF AloneUpTo
<1>9. DecaySound(v, x, Coming(s, n + 1, x)) BY <1>6 DEF a
<1> QED BY <1>6, <1>7, <1>8, <1>9

LEMMA ChecksAllKeep ==
  ASSUME NEW w \in Records, NEW b \in Bucket, NEW s \in Seq(Item),
         \A i \in Item : DecaySound(w, i, Count(s, i)),
         NEW f, ChecksAll(f, w, b, s), NEW v, v = f[Len(s)]
  PROVE  /\ v \in Records
         /\ \A i \in Item :
              /\ DecaySound(v, i, 0)
              /\ AloneUpTo(w, w, b, s, 0, i) =>
                   AloneUpTo(v, w, b, s, Len(s), i)
<1> DEFINE P(n) == /\ f[n] \in Records
                   /\ \A i \in Item :
                        /\ DecaySound(f[n], i, Coming(s, n, i))
                        /\ AloneUpTo(w, w, b, s, 0, i) =>
                             AloneUpTo(f[n], w, b, s, n, i)
           N == {n \in Nat : n <= Len(s) => P(n)}
<1>1. Len(s) \in Nat OBVIOUS
<1>2. f[0] = w BY DEF ChecksAll
<1>3. \A n \in 1 .. Len(s) : f[n] = checkEntry(f[n - 1], b, s[n])
  BY Zenon DEF ChecksAll
<1>4. \A i \in Item : Coming(s, 0, i) = Count(s, i)
                      /\ Coming(s, Len(s), i) = 0
  BY ComingIs
<1>5. 0 \in N BY <1>2, <1>4
<1>6. ASSUME NEW n \in N PROVE n + 1 \in N
  <2>1. n \in Nat /\ (n <= Len(s) => P(n)) BY <1>6
  <2> HIDE DEF P
  <2> SUFFICES ASSUME n + 1 <= Len(s) PROVE P(n + 1)
    BY <2>1
  <2> HIDE DEF N
  <2>2. n \in 0 .. Len(s) - 1 /\ n + 1 \in 1 .. Len(s) /\ (n + 1) - 1 = n
        /\ n <= Len(s)
    BY <1>1, <2>1
  <2> DEFINE u == f[n]
             x == f[n + 1]
  <2>3. /\ u \in Records
        /\ \A i \in Item :
             /\ DecaySound(u, i, Coming(s, n, i))
             /\ AloneUpTo(w, w, b, s, 0, i) => AloneUpTo(u, w, b, s, n, i)
    BY <2>1, <2>2 DEF P
  <2>4. x = checkEntry(u, b, s[n + 1])
    <3>1. \A k \in 1 .. Len(s) : k - 1 = n =>
            f[k] = checkEntry(u, b, s[k])
      BY <1>3
    <3> QED BY <2>2, <3>1
  <2> HIDE DEF u, x
  <2>5. /\ x \in Records
        /\ \A i \in Item :
             /\ DecaySound(x, i, Coming(s, n + 1, i))
             /\ \A was : AloneUpTo(u, was, b, s, n, i) =>
                           AloneUpTo(x, was, b, s, n + 1, i)
    BY <2>2, <2>3, <2>4, CheckStep
  <2>6. \A i \in Item : AloneUpTo(w, w, b, s, 0, i) =>
                          AloneUpTo(x, w, b, s, n + 1, i)
    BY <2>3, <2>5
  <2> QED BY <2>5, <2>6 DEF P, x
<1>7. N = Nat
  <2>1. N \in SUBSET Nat OBVIOUS
  <2> HIDE DEF N
  <2> QED BY <1>5, <1>6, <2>1, NatSetInduction
<1>8. P(Len(s))
  <2>1. Len(s) \in N
    <3> HIDE DEF N
    <3> QED BY <1>1, <1>7
  <2> HIDE DEF P
  <2> QED BY <1>1, <2>1
<1> QED BY <1>4, <1>8

-----------------------------------------------------------------------------
(* The invariant, and the steps *)

DecayIInv ==
  /\ ItemsNow \in Records /\ lastBucket \in Bucket /\ alone \subseteq Item
  /\ \A i \in Item : DecaySound(ItemsNow, i, 0)
  /\ \A i \in alone :
       EntriesOf(ItemsNow, i) <= 1 /\ Timed(ItemsNow, i, lastBucket, 0)

LEMMA NowIs ==
  /\ ItemsNow.kind = kind /\ ItemsNow.inWorld = inWorld
  /\ ItemsNow.duration = duration /\ ItemsNow.decaying = decaying
  /\ ItemsNow.toDecay = toDecay /\ ItemsNow.wheel = wheel
  /\ ItemsNow.pending = pending /\ ItemsNow.refs = refs
  /\ ItemsNow.timeLeft = timeLeft
BY DEF ItemsNow

LEMMA BecomesNow ==
  ASSUME NEW w \in Records, BecomeItems(w)
  PROVE  ItemsNow' = w
BY DEF Records, BecomeItems, ItemsNow

LEMMA DecayInitIInv == DecayInit => DecayIInv
<1> SUFFICES ASSUME DecayInit PROVE DecayIInv OBVIOUS
<1> DEFINE none == <<>>
<1>1. none \in Seq(Item) OBVIOUS
<1>2. /\ toDecay = none /\ pending = none
      /\ wheel \in [Bucket -> Seq(Item)] /\ \A b \in Bucket : wheel[b] = none
  BY DEF DecayInit
<1>3. \A i \in Item : Count(none, i) = 0 BY <1>1, CountIs
<1> HIDE DEF none
<1>4. ItemsNow \in Records
  <2>1. kind \in [Item -> Kind] BY DEF DecayInit
  <2>2. /\ inWorld \in [Item -> BOOLEAN] /\ duration \in [Item -> Nat]
        /\ decaying \in [Item -> BOOLEAN] /\ refs \in [Item -> Int]
        /\ timeLeft \in [Item -> Int]
    BY DEF DecayInit
  <2> QED BY <1>1, <1>2, <2>1, <2>2 DEF ItemsNow, Records
<1>5. lastBucket \in Bucket /\ alone \subseteq Item
  BY BucketsAre DEF DecayInit
<1>6. ASSUME NEW i \in Item
      PROVE  /\ DecaySound(ItemsNow, i, 0) /\ EntriesOf(ItemsNow, i) <= 1
             /\ Timed(ItemsNow, i, lastBucket, 0)
  <2>1. /\ inWorld[i] /\ duration[i] = 0 /\ ~ decaying[i] /\ refs[i] = 1
        /\ decayTo[kind[i]] = Never
    BY DEF DecayInit
  <2>2. InWheel(wheel, i) = 0
    <3>1. InWheel(wheel, i) \in Nat
          /\ (InWheel(wheel, i) > 0 =>
                \E b \in Bucket : Count(wheel[b], i) > 0)
      BY <1>2, InWheelIs
    <3>2. \A b \in Bucket : ~ Count(wheel[b], i) > 0 BY <1>2, <1>3
    <3> QED BY <3>1, <3>2
  <2>3. EntriesOf(ItemsNow, i) = 0
    BY <1>2, <1>3, <2>2, NowIs DEF EntriesOf
  <2>4. Referred(ItemsNow, i, 0)
    BY <1>2, <1>3, <2>1, <2>3, NowIs DEF Referred
  <2>5. UnderWay(ItemsNow, i, 0) BY <2>1, NowIs DEF UnderWay
  <2>6. HasTime(ItemsNow, i) BY <2>1, NowIs DEF HasTime
  <2>7. Timed(ItemsNow, i, lastBucket, 0)
    <3>1. ~ ItemsNow.decaying[i] BY <2>1, NowIs
    <3> QED BY <3>1, Zenon DEF Timed
  <2> QED BY <2>3, <2>4, <2>5, <2>6, <2>7 DEF DecaySound
<1> QED BY <1>4, <1>5, <1>6 DEF DecayIInv

(* A step that changes every item. *)
LEMMA DecayBecomes ==
  ASSUME NEW w \in Records, BecomeItems(w), alone' \subseteq Item,
         NEW last \in Bucket, lastBucket' = last,
         \A i \in Item : DecaySound(w, i, 0),
         \A i \in alone' : EntriesOf(w, i) <= 1 /\ Timed(w, i, last, 0)
  PROVE  DecayIInv'
<1>1. ItemsNow' = w BY BecomesNow
<1>2. (ItemsNow \in Records)' BY <1>1
<1>3. (lastBucket \in Bucket)' OBVIOUS
<1>4. \A i \in Item : DecaySound(ItemsNow', i, 0) BY <1>1
<1>5. \A i \in alone' : EntriesOf(ItemsNow', i) <= 1
                        /\ Timed(ItemsNow', i, lastBucket', 0)
  BY <1>1
<1>6. \A i \in Item : DecaySound(ItemsNow, i, 0)'
  BY <1>4 DEF DecaySound, Referred, UnderWay, HasTime, EntriesOf, Count,
              InWheel, Bucket, Buckets
<1>7. \A i \in alone' : (EntriesOf(ItemsNow, i) <= 1)'
                        /\ Timed(ItemsNow, i, lastBucket, 0)'
  BY <1>5 DEF Timed, EntriesOf, Count, InTime, Ahead, Second,
              InWheel, Bucket, Buckets
<1> QED BY <1>2, <1>3, <1>6, <1>7 DEF DecayIInv

(* A step that leaves the bucket, and others' items as they were.          *)
LEMMA DecayKept ==
  ASSUME DecayIInv, NEW w \in Records, BecomeItems(w), NEW i \in Item,
         \A j \in Item \ {i} : SameItem(w, ItemsNow, j),
         DecaySound(w, i, 0), lastBucket' = lastBucket,
         alone' \subseteq alone \cup {i},
         i \in alone' =>
           EntriesOf(w, i) <= 1 /\ Timed(w, i, lastBucket, 0)
  PROVE  DecayIInv'
<1>1. \A j \in Item \ {i} :
        /\ EntriesOf(w, j) = EntriesOf(ItemsNow, j)
        /\ \A a : DecaySound(ItemsNow, j, a) => DecaySound(w, j, a)
        /\ \A last, late : Timed(ItemsNow, j, last, late) =>
                             Timed(w, j, last, late)
  BY SameItemKeeps
<1>2. \A j \in Item : DecaySound(w, j, 0)
  <2> TAKE j \in Item
  <2>1. CASE j = i BY <2>1
  <2>2. CASE j # i BY <1>1, <2>2 DEF DecayIInv
  <2> QED BY <2>1, <2>2
<1>3. alone' \subseteq Item /\ lastBucket \in Bucket BY DEF DecayIInv
<1>4. \A j \in alone' : EntriesOf(w, j) <= 1 /\ Timed(w, j, lastBucket, 0)
  <2> TAKE j \in alone'
  <2>1. CASE j = i BY <2>1
  <2>2. CASE j # i
    <3>1. j \in alone /\ j \in Item \ {i} BY <1>3, <2>2
    <3> QED BY <1>1, <3>1 DEF DecayIInv
  <2> QED BY <2>1, <2>2
<1> QED BY <1>2, <1>3, <1>4, DecayBecomes

LEMMA DecayUse ==
  ASSUME DecayIInv, NEW i \in Item, Use(i)
  PROVE  DecayIInv'
<1> DEFINE k == useTo[kind[i]]
           v == startDecay(transformItem(ItemsNow, i, k), i)
<1>1. ItemsNow \in Records /\ DecaySound(ItemsNow, i, 0) BY DEF DecayIInv
<1>2. kind[i] \in Kind BY <1>1, NowIs DEF Records
<1>3. k \in Kind BY <1>2, DecayAssumption DEF Use, DecayAssumption
<1>4. /\ v \in Records /\ DecaySound(v, i, 0)
      /\ \A j \in Item \ {i} : SameItem(v, ItemsNow, j)
      /\ ItemsNow.inWorld[i] /\ EntriesOf(ItemsNow, i) = 0 =>
           /\ EntriesOf(v, i) <= 1
           /\ \A last : Timed(v, i, last, 0)
  <2> HIDE DEF k
  <2> QED BY <1>1, <1>3, UseKeeps
<1>5. BecomeItems(v) /\ lastBucket' = lastBucket BY DEF Use
<1>6. alone' \subseteq alone \cup {i} BY DEF Use
<1>7. ASSUME i \in alone' PROVE EntriesOf(ItemsNow, i) = 0
  <2>1. Count(toDecay, i) = 0 /\ \A b \in Bucket : Count(wheel[b], i) = 0
    BY <1>7 DEF Use
  <2>2. wheel \in [Bucket -> Seq(Item)] BY <1>1, NowIs DEF Records
  <2>3. InWheel(wheel, i) \in Nat
        /\ (InWheel(wheel, i) > 0 =>
              \E b \in Bucket : Count(wheel[b], i) > 0)
    BY <2>2, InWheelIs
  <2>4. InWheel(wheel, i) = 0 BY <2>1, <2>3
  <2> QED BY <2>1, <2>4, NowIs DEF EntriesOf
<1>8. ItemsNow.inWorld[i] BY NowIs DEF Use
<1> HIDE DEF v
<1> QED BY <1>4, <1>5, <1>6, <1>7, <1>8, DecayKept

LEMMA DecayRemove ==
  ASSUME DecayIInv, NEW i \in Item, RemoveItem(i)
  PROVE  DecayIInv'
<1> DEFINE v == internalRemoveItem(ItemsNow, i)
           e == EntriesOf(ItemsNow, i)
           p == Count(pending, i)
<1>1. ItemsNow \in Records /\ DecaySound(ItemsNow, i, 0) BY DEF DecayIInv
<1>2. /\ v \in Records /\ ~ v.inWorld[i]
      /\ v.toDecay = ItemsNow.toDecay /\ v.wheel = ItemsNow.wheel
      /\ v.refs = ItemsNow.refs
      /\ Count(v.pending, i) = Count(ItemsNow.pending, i) + 1
      /\ \A j \in Item \ {i} : SameItem(v, ItemsNow, j)
  BY <1>1, RemoveIs
<1>3. BecomeItems(v) /\ lastBucket' = lastBucket /\ alone' = alone
  BY DEF RemoveItem
<1>4. EntriesOf(v, i) = e BY <1>2 DEF EntriesOf
<1>5. e \in Nat /\ p \in Nat BY <1>1, EntriesAre, NowIs
<1>6. DecaySound(v, i, 0)
  <2>1. ItemsNow.refs[i] = 1 + e + 0 + p
    BY <1>1, NowIs DEF DecaySound, Referred, RemoveItem
  <2>2. Count(v.pending, i) = p + 1 BY <1>2, NowIs
  <2> HIDE DEF v, e, p
  <2>3. v.refs[i] = 0 + e + 0 + (p + 1) BY <1>2, <1>5, <2>1
  <2>4. Referred(v, i, 0) BY <1>2, <1>4, <2>2, <2>3 DEF Referred
  <2> QED BY <1>2, <2>4 DEF DecaySound, UnderWay, HasTime
<1> HIDE DEF v
<1>7. Timed(v, i, lastBucket, 0) BY <1>2, Zenon DEF Timed
<1>8. i \in alone' => EntriesOf(v, i) <= 1
  BY <1>3, <1>4 DEF DecayIInv
<1>9. alone' \subseteq alone \cup {i} BY <1>3
<1> QED BY <1>2, <1>3, <1>6, <1>7, <1>8, <1>9, DecayKept


LEMMA DecayCleanup ==
  ASSUME DecayIInv, Cleanup
  PROVE  DecayIInv'
<1> DEFINE v == cleanup(ItemsNow, lastBucket)
<1>1. /\ ItemsNow \in Records /\ lastBucket \in Bucket
      /\ alone \subseteq Item
      /\ \A i \in Item : DecaySound(ItemsNow, i, 0)
      /\ \A i \in alone :
           EntriesOf(ItemsNow, i) <= 1 /\ Timed(ItemsNow, i, lastBucket, 0)
  BY DEF DecayIInv
<1>2. BecomeItems(v) /\ lastBucket' = lastBucket /\ alone' = alone
  BY DEF Cleanup
<1>3. v = cleanup(ItemsNow, lastBucket) OBVIOUS
<1> HIDE DEF v
<1>4. /\ v \in Records
      /\ \A i \in Item :
           /\ EntriesOf(v, i) = EntriesOf(ItemsNow, i)
           /\ DecaySound(ItemsNow, i, 0) => DecaySound(v, i, 0)
           /\ \A late \in {0, Interval} :
                Timed(ItemsNow, i, lastBucket, late) =>
                  Timed(v, i, lastBucket, 0)
  BY <1>1, <1>3, CleanupKeeps
<1>5. \A i \in Item : DecaySound(v, i, 0) BY <1>1, <1>4
<1>6. \A i \in alone' : EntriesOf(v, i) <= 1 /\ Timed(v, i, lastBucket, 0)
  BY <1>1, <1>2, <1>4
<1> QED BY <1>1, <1>2, <1>4, <1>5, <1>6, DecayBecomes

-----------------------------------------------------------------------------
(* The check of the next bucket *)

NextBucket == (lastBucket + 1) % Buckets

(* An interval later, with the bucket taken out.                           *)
AnIntervalLater ==
  [ItemsNow EXCEPT
     !.timeLeft = [i \in Item |-> timeLeft[i] - Interval],
     !.wheel[NextBucket] = <<>>]

(* What does not decay has no time.                                        *)
TimesCleared(w) ==
  [w EXCEPT !.timeLeft = [i \in Item |->
              IF w.decaying[i] THEN w.timeLeft[i] ELSE 0]]

LEMMA CheckDecayIs ==
  ASSUME DecayIInv, checkDecay
  PROVE  /\ lastBucket' = NextBucket /\ alone' = alone
         /\ \E f :
              /\ ChecksAll(f, AnIntervalLater, NextBucket, wheel[NextBucket])
              /\ BecomeItems(TimesCleared(
                   cleanup(f[Len(wheel[NextBucket])], NextBucket)))
<1> DEFINE b == NextBucket
           s == wheel[b]
           later == AnIntervalLater
<1>1. b \in Bucket
  BY BucketsAre, TimesAre DEF NextBucket, DecayIInv
<1>2. s \in Seq(Item) /\ Len(s) \in Nat
  <2>1. wheel \in [Bucket -> Seq(Item)] BY NowIs DEF DecayIInv, Records
  <2> HIDE DEF b
  <2> QED BY <1>1, <2>1
<1>3. \E h : Checking(h, later, b, s, Len(s))
  <2> HIDE DEF b, s, later
  <2> QED BY <1>2, CheckingExists
<1> DEFINE f == CHOOSE h : Checking(h, later, b, s, Len(s))
<1>4. Checking(f, later, b, s, Len(s)) BY <1>3
<1>5. /\ lastBucket' = b /\ alone' = alone
      /\ BecomeItems(TimesCleared(cleanup(f[Len(s)], b)))
  BY DEF checkDecay, Checking, TimesCleared, AnIntervalLater, NextBucket
<1> HIDE DEF f, later
<1>6. \A n \in 0 .. Len(s) :
        f[n] = IF n = 0 THEN later ELSE checkEntry(f[n - 1], b, s[n])
  BY <1>4, Zenon DEF Checking
<1> HIDE DEF s, b
<1>7. 0 \in 0 .. Len(s)
      /\ \A n \in 1 .. Len(s) : n \in 0 .. Len(s) /\ n # 0
  BY <1>2
<1>8. f[0] = later BY <1>6, <1>7, Zenon
<1>9. \A n \in 1 .. Len(s) : f[n] = checkEntry(f[n - 1], b, s[n])
  BY <1>6, <1>7, Zenon
<1>10. ChecksAll(f, later, b, s) BY <1>8, <1>9, Zenon DEF ChecksAll
<1> QED BY <1>5, <1>10, Zenon DEF later, s, b

LEMMA TurnComes ==
  ASSUME NEW last \in Bucket, NEW b, b = (last + 1) % Buckets
  PROVE  /\ b \in Bucket /\ Ahead(b, last) = 1
         /\ \A c \in Bucket :
              c # b => /\ Ahead(c, last) \in 2 .. 4
                       /\ Ahead(c, b) = Ahead(c, last) - 1
<1>1. last \in {0, 1, 2, 3} BY BucketsAre
<1>2. b = (last + 1) % 4 BY TimesAre
<1>3. b \in {0, 1, 2, 3} BY <1>1, <1>2
<1>4. Ahead(b, last) = 1
  BY <1>1, <1>2, TimesAre DEF Ahead
<1>5. ASSUME NEW c \in Bucket, c # b
      PROVE  /\ Ahead(c, last) \in 2 .. 4
             /\ Ahead(c, b) = Ahead(c, last) - 1
  <2>1. c \in {0, 1, 2, 3} BY BucketsAre
  <2> QED BY <1>1, <1>2, <1>5, <2>1, TimesAre DEF Ahead
<1> QED BY <1>3, <1>4, <1>5, BucketsAre

LEMMA LaterIs ==
  ASSUME ItemsNow \in Records, lastBucket \in Bucket, NEW w,
         w = AnIntervalLater
  PROVE  /\ w \in Records /\ w.kind = kind /\ w.inWorld = inWorld
         /\ w.duration = duration /\ w.decaying = decaying
         /\ w.toDecay = toDecay /\ w.pending = pending /\ w.refs = refs
         /\ w.wheel = PutIn(wheel, NextBucket, <<>>)
         /\ \A i \in Item : w.timeLeft[i] = timeLeft[i] - Interval
<1> DEFINE t == [i \in Item |-> timeLeft[i] - Interval]
           none == <<>>
           wh == PutIn(wheel, NextBucket, none)
<1>1. NextBucket \in Bucket BY TurnComes DEF NextBucket
<1>2. /\ kind \in [Item -> Kind] /\ inWorld \in [Item -> BOOLEAN]
      /\ duration \in [Item -> Nat] /\ decaying \in [Item -> BOOLEAN]
      /\ toDecay \in Seq(Item) /\ wheel \in [Bucket -> Seq(Item)]
      /\ pending \in Seq(Item) /\ refs \in [Item -> Int]
      /\ timeLeft \in [Item -> Int]
  BY NowIs DEF Records
<1>3. none \in Seq(Item) OBVIOUS
<1>4. w = [ItemsNow EXCEPT !.timeLeft = t, !.wheel = wh]
  BY DEF AnIntervalLater, ItemsNow, PutIn
<1>5. t \in [Item -> Int] /\ \A i \in Item : t[i] = timeLeft[i] - Interval
  BY <1>2, TimesAre
<1> HIDE DEF none, t
<1>6. wh \in [Bucket -> Seq(Item)] BY <1>1, <1>2, <1>3 DEF PutIn
<1> HIDE DEF wh
<1>7. /\ w \in Records /\ w.kind = kind /\ w.inWorld = inWorld
      /\ w.duration = duration /\ w.decaying = decaying
      /\ w.toDecay = toDecay /\ w.pending = pending /\ w.refs = refs
      /\ w.wheel = wh /\ w.timeLeft = t
  BY <1>2, <1>4, <1>5, <1>6 DEF ItemsNow, Records
<1> QED BY <1>5, <1>7 DEF wh, none

(* What waits for the buckets to come waits for an interval less.          *)
LEMMA LaterInTime ==
  ASSUME NEW dur \in Nat, NEW time \in Int, NEW n \in 2 .. 4,
         InTime(dur, time, n)
  PROVE  InTime(dur, time - Interval, n - 1)
<1>1. ~ dur < Second BY DEF InTime
<1>2. time \in dur - Second + (n - 1) * Interval .. dur - Second + n * Interval
  BY <1>1 DEF InTime
<1>3. Interval \in Nat /\ Second \in Nat BY TimesAre
<1>4. n \in {2, 3, 4} OBVIOUS
<1>5. time - Interval \in dur - Second + ((n - 1) - 1) * Interval
                          .. dur - Second + (n - 1) * Interval
  <2>1. CASE n = 2 BY <1>2, <1>3, <2>1
  <2>2. CASE n = 3 BY <1>2, <1>3, <2>2
  <2>3. CASE n = 4 BY <1>2, <1>3, <2>3
  <2> QED BY <1>4, <2>1, <2>2, <2>3
<1> QED BY <1>1, <1>5 DEF InTime

(* The entries taken out are all that is put aside.                        *)
LEMMA CheckBegins ==
  ASSUME DecayIInv, NEW i \in Item, NEW w, w = AnIntervalLater,
         NEW s, s = wheel[NextBucket]
  PROVE  /\ DecaySound(w, i, Count(s, i))
         /\ EntriesOf(w, i) + Count(s, i) = EntriesOf(ItemsNow, i)
<1> DEFINE c == Count(s, i)
           e == EntriesOf(w, i)
           here == IF inWorld[i] THEN 1 ELSE 0
           none == <<>>
<1>1. ItemsNow \in Records /\ lastBucket \in Bucket
      /\ DecaySound(ItemsNow, i, 0)
  BY DEF DecayIInv
<1>2. /\ w \in Records /\ w.kind = kind /\ w.inWorld = inWorld
      /\ w.duration = duration /\ w.decaying = decaying
      /\ w.toDecay = toDecay /\ w.pending = pending /\ w.refs = refs
      /\ w.wheel = PutIn(wheel, NextBucket, none)
  BY <1>1, LaterIs
<1>3. NextBucket \in Bucket BY <1>1, TurnComes DEF NextBucket
<1>4. wheel \in [Bucket -> Seq(Item)] BY <1>1, NowIs DEF Records
<1>5. s \in Seq(Item) BY <1>3, <1>4
<1>6. none \in Seq(Item) /\ Count(none, i) = 0 BY <1>5, CountIs
<1> HIDE DEF none
<1>7. c \in Nat BY <1>5, CountIs
<1>8. InWheel(w.wheel, i) = InWheel(wheel, i) + (Count(none, i) - c)
  BY <1>2, <1>3, <1>4, <1>6, WheelChanges
<1>9. /\ EntriesOf(ItemsNow, i) = Count(toDecay, i) + InWheel(wheel, i)
      /\ e = Count(toDecay, i) + InWheel(w.wheel, i)
  BY <1>2, NowIs DEF EntriesOf
<1>10. /\ Count(toDecay, i) \in Nat /\ InWheel(wheel, i) \in Nat
       /\ Count(pending, i) \in Nat /\ EntriesOf(ItemsNow, i) \in Nat
  BY <1>1, EntriesAre, NowIs
<1>11. e \in Nat BY <1>2, EntriesAre
<1> HIDE DEF c, e
<1>12. e + c = EntriesOf(ItemsNow, i)
  <2>1. InWheel(w.wheel, i) = InWheel(wheel, i) + (0 - c)
    BY <1>6, <1>8, Zenon
  <2> DEFINE before == InWheel(wheel, i)
             after == InWheel(w.wheel, i)
             waits == Count(toDecay, i)
             all == EntriesOf(ItemsNow, i)
  <2>2. /\ after = before + (0 - c) /\ all = waits + before
        /\ e = waits + after /\ waits \in Nat /\ before \in Nat
    BY <1>9, <1>10, <2>1
  <2> HIDE DEF before, after, waits, all
  <2>3. e + c = all BY <1>7, <2>2
  <2> QED BY <2>3 DEF all
<1>13. Referred(w, i, c)
  <2>1. refs[i] = here + EntriesOf(ItemsNow, i) + 0 + Count(pending, i)
    BY <1>1, NowIs DEF DecaySound, Referred
  <2>2. here \in Int OBVIOUS
  <2>3. here = IF w.inWorld[i] THEN 1 ELSE 0 BY <1>2
  <2> HIDE DEF here
  <2>4. refs[i] = here + e + c + Count(pending, i)
    <3>1. EntriesOf(ItemsNow, i) + 0 = e + c BY <1>10, <1>12
    <3> QED BY <1>7, <1>10, <1>11, <1>12, <2>1, <2>2, <3>1
  <2> QED BY <1>2, <2>3, <2>4 DEF Referred, e
<1>14. UnderWay(w, i, c)
  <2>1. UnderWay(ItemsNow, i, 0) BY <1>1 DEF DecaySound
  <2>2. EntriesOf(ItemsNow, i) + 0 = e + c BY <1>10, <1>12
  <2> QED BY <1>2, <2>1, <2>2, NowIs DEF UnderWay, e
<1>15. HasTime(w, i)
  BY <1>1, <1>2, NowIs DEF DecaySound, HasTime
<1> QED BY <1>12, <1>13, <1>14, <1>15 DEF DecaySound, c, e

LEMMA CheckBeginsInTime ==
  ASSUME DecayIInv, NEW i \in alone, NEW w, w = AnIntervalLater,
         NEW s, s = wheel[NextBucket]
  PROVE  AloneUpTo(w, w, NextBucket, s, 0, i)
<1> DEFINE b == NextBucket
           c == Count(s, i)
           none == <<>>
<1>1. /\ ItemsNow \in Records /\ lastBucket \in Bucket /\ i \in Item
      /\ EntriesOf(ItemsNow, i) <= 1 /\ Timed(ItemsNow, i, lastBucket, 0)
  BY DEF DecayIInv
<1>2. /\ w \in Records /\ w.kind = kind /\ w.inWorld = inWorld
      /\ w.duration = duration /\ w.decaying = decaying
      /\ w.toDecay = toDecay
      /\ w.wheel = PutIn(wheel, b, none)
      /\ w.timeLeft[i] = timeLeft[i] - Interval
  BY <1>1, LaterIs
<1>3. /\ b \in Bucket /\ Ahead(b, lastBucket) = 1
      /\ \A d \in Bucket :
           d # b => /\ Ahead(d, lastBucket) \in 2 .. 4
                    /\ Ahead(d, b) = Ahead(d, lastBucket) - 1
  BY <1>1, TurnComes DEF NextBucket
<1>4. wheel \in [Bucket -> Seq(Item)] /\ duration[i] \in Nat
      /\ timeLeft[i] \in Int
  BY <1>1, NowIs DEF Records
<1>5. s \in Seq(Item) BY <1>3, <1>4
<1>6. Coming(s, 0, i) = c BY <1>1, <1>5, ComingIs
<1>7. EntriesOf(w, i) + c = EntriesOf(ItemsNow, i) BY <1>1, CheckBegins
<1>8. c \in Nat BY <1>1, <1>5, CountIs
<1>9. /\ EntriesOf(ItemsNow, i) = Count(toDecay, i) + InWheel(wheel, i)
      /\ Count(toDecay, i) \in Nat /\ InWheel(wheel, i) \in Nat
  BY <1>1, EntriesAre, NowIs DEF EntriesOf
<1>10. \A d \in Bucket :
         /\ Count(wheel[d], i) \in Nat
         /\ Count(wheel[d], i) <= InWheel(wheel, i)
         /\ d # b => Count(wheel[b], i) + Count(wheel[d], i)
                       <= InWheel(wheel, i)
  BY <1>1, <1>3, <1>4, InWheelIs
<1>11. c = Count(wheel[b], i) OBVIOUS
<1>12. c > 0 => /\ Count(toDecay, i) = 0
                /\ \A d \in Bucket : d # b => ~ Count(wheel[d], i) > 0
  <2> HIDE DEF b, c
  <2> SUFFICES ASSUME c > 0
               PROVE  /\ Count(toDecay, i) = 0
                      /\ \A d \in Bucket : d # b => ~ Count(wheel[d], i) > 0
    OBVIOUS
  <2>1. Count(toDecay, i) + InWheel(wheel, i) <= 1 BY <1>1, <1>9
  <2>2. c <= InWheel(wheel, i) BY <1>3, <1>10, <1>11
  <2>3. Count(toDecay, i) = 0 /\ InWheel(wheel, i) <= 1
    BY <1>8, <1>9, <2>1, <2>2
  <2>4. ASSUME NEW d \in Bucket, d # b PROVE ~ Count(wheel[d], i) > 0
    <3>1. c + Count(wheel[d], i) <= InWheel(wheel, i)
      BY <1>10, <1>11, <2>4
    <3>2. Count(wheel[d], i) \in Nat BY <1>10
    <3> QED BY <1>8, <1>9, <2>3, <3>1, <3>2
  <2> QED BY <2>3, <2>4
<1>13. inWorld[i] /\ decaying[i] =>
         \/ /\ Count(toDecay, i) > 0 /\ duration[i] >= Interval
            /\ timeLeft[i] \in duration[i] - 0 .. duration[i]
         \/ \E d \in Bucket :
              /\ Count(wheel[d], i) > 0
              /\ InTime(duration[i], timeLeft[i], Ahead(d, lastBucket))
  BY <1>1, NowIs DEF Timed
<1> HIDE DEF b, c
<1>14. EntriesOf(w, i) + Coming(s, 0, i) <= 1 BY <1>1, <1>6, <1>7
<1>15. w.timeLeft[i] + Interval = timeLeft[i]
  BY <1>2, <1>4, TimesAre
<1>16. ASSUME c > 0, inWorld[i], decaying[i]
       PROVE  InTime(duration[i], timeLeft[i], 1)
  <2>1. PICK d \in Bucket :
          /\ Count(wheel[d], i) > 0
          /\ InTime(duration[i], timeLeft[i], Ahead(d, lastBucket))
    BY <1>12, <1>13, <1>16
  <2>2. d = b BY <1>12, <1>16, <2>1
  <2> QED BY <1>3, <2>1, <2>2
<1>17. ASSUME c = 0 PROVE Timed(w, i, b, Interval)
  <2> SUFFICES ASSUME inWorld[i], decaying[i]
               PROVE  \/ /\ Count(w.toDecay, i) > 0
                         /\ w.duration[i] >= Interval
                         /\ w.timeLeft[i]
                              \in w.duration[i] - Interval .. w.duration[i]
                      \/ \E d \in Bucket :
                           /\ Count(w.wheel[d], i) > 0
                           /\ InTime(w.duration[i], w.timeLeft[i],
                                     Ahead(d, b))
    BY <1>2, Zenon DEF Timed
  <2>1. CASE /\ Count(toDecay, i) > 0 /\ duration[i] >= Interval
             /\ timeLeft[i] \in duration[i] - 0 .. duration[i]
    <3>1. timeLeft[i] - Interval \in duration[i] - Interval .. duration[i]
      <4>1. timeLeft[i] = duration[i] BY <1>4, <2>1
      <4> QED BY <1>4, <4>1, TimesAre
    <3> QED BY <1>2, <2>1, <3>1
  <2>2. CASE \E d \in Bucket :
               /\ Count(wheel[d], i) > 0
               /\ InTime(duration[i], timeLeft[i], Ahead(d, lastBucket))
    <3>1. PICK d \in Bucket :
            /\ Count(wheel[d], i) > 0
            /\ InTime(duration[i], timeLeft[i], Ahead(d, lastBucket))
      BY <2>2
    <3>2. d # b
      <4>1. d = b => Count(wheel[d], i) = 0 BY <1>11, <1>17, Zenon
      <4> QED BY <3>1, <4>1
    <3>3. w.wheel[d] = wheel[d] BY <1>2, <1>4, <3>2 DEF PutIn
    <3>4. InTime(duration[i], timeLeft[i] - Interval, Ahead(d, b))
      <4>1. Ahead(d, lastBucket) \in 2 .. 4
            /\ Ahead(d, b) = Ahead(d, lastBucket) - 1
        BY <1>3, <3>2
      <4> QED BY <1>4, <3>1, <4>1, LaterInTime
    <3>5. /\ Count(w.wheel[d], i) > 0
          /\ InTime(w.duration[i], w.timeLeft[i], Ahead(d, b))
      BY <1>2, <3>1, <3>3, <3>4
    <3> QED BY <3>5
  <2> QED BY <1>13, <2>1, <2>2
<1> QED BY <1>2, <1>6, <1>14, <1>15, <1>16, <1>17 DEF AloneUpTo, b

LEMMA TimesClearedIs ==
  ASSUME NEW w \in Records, NEW v, v = TimesCleared(w)
  PROVE  /\ v \in Records
         /\ v.kind = w.kind /\ v.inWorld = w.inWorld
         /\ \A i \in Item :
              /\ EntriesOf(v, i) = EntriesOf(w, i)
              /\ DecaySound(w, i, 0) => DecaySound(v, i, 0)
              /\ \A last : Timed(w, i, last, 0) => Timed(v, i, last, 0)
<1> DEFINE t == [i \in Item |-> IF w.decaying[i] THEN w.timeLeft[i] ELSE 0]
<1>1. t \in [Item -> Int] /\ \A i \in Item : w.decaying[i] =>
                                               t[i] = w.timeLeft[i]
  BY DEF Records
<1>2. v = [w EXCEPT !.timeLeft = t] BY DEF TimesCleared
<1> HIDE DEF t
<1>3. /\ v \in Records /\ v.kind = w.kind /\ v.inWorld = w.inWorld
      /\ v.duration = w.duration /\ v.decaying = w.decaying
      /\ v.toDecay = w.toDecay /\ v.wheel = w.wheel
      /\ v.pending = w.pending /\ v.refs = w.refs /\ v.timeLeft = t
  BY <1>1, <1>2 DEF Records
<1>4. ASSUME NEW i \in Item
      PROVE  /\ EntriesOf(v, i) = EntriesOf(w, i)
             /\ DecaySound(w, i, 0) => DecaySound(v, i, 0)
             /\ \A last : Timed(w, i, last, 0) => Timed(v, i, last, 0)
  <2>1. EntriesOf(v, i) = EntriesOf(w, i) BY <1>3 DEF EntriesOf
  <2>2. DecaySound(w, i, 0) => DecaySound(v, i, 0)
    BY <1>3, <2>1 DEF DecaySound, Referred, UnderWay, HasTime
  <2>3. ASSUME NEW last, Timed(w, i, last, 0) PROVE Timed(v, i, last, 0)
    <3>1. CASE v.inWorld[i] /\ v.decaying[i]
      <4>1. v.timeLeft[i] = w.timeLeft[i] BY <1>1, <1>3, <3>1
      <4> QED BY <1>3, <2>3, <4>1 DEF Timed
    <3>2. CASE ~ (v.inWorld[i] /\ v.decaying[i])
      BY <3>2, Zenon DEF Timed
    <3> QED BY <3>1, <3>2
  <2> QED BY <2>1, <2>2, <2>3
<1> QED BY <1>3, <1>4

LEMMA DecayCheck ==
  ASSUME DecayIInv, checkDecay
  PROVE  /\ DecayIInv'
         /\ \A i \in alone :
              decaying[i] /\ <<kind[i], inWorld[i]>>' # <<kind[i], inWorld[i]>>
                => timeLeft[i] - Interval \in - Interval .. Second - 1
<1> DEFINE b == NextBucket
           s == wheel[b]
           later == AnIntervalLater
<1>1. /\ ItemsNow \in Records /\ lastBucket \in Bucket
      /\ alone \subseteq Item
  BY DEF DecayIInv
<1>2. lastBucket' = b /\ alone' = alone BY CheckDecayIs
<1>3. PICK f : /\ ChecksAll(f, later, b, s)
               /\ BecomeItems(TimesCleared(cleanup(f[Len(s)], b)))
  BY CheckDecayIs
<1>4. b \in Bucket BY <1>1, TurnComes DEF NextBucket
<1>5. s \in Seq(Item)
  <2>1. wheel \in [Bucket -> Seq(Item)] BY <1>1, NowIs DEF Records
  <2> HIDE DEF b
  <2> QED BY <1>4, <2>1
<1>6. later \in Records /\ \A i \in Item : DecaySound(later, i, Count(s, i))
  <2>1. later \in Records BY <1>1, LaterIs
  <2> QED BY <2>1, CheckBegins
<1>7. \A i \in alone : AloneUpTo(later, later, b, s, 0, i)
  BY CheckBeginsInTime
<1>8. /\ later.kind = kind /\ later.inWorld = inWorld
      /\ later.decaying = decaying
      /\ \A i \in Item : later.timeLeft[i] = timeLeft[i] - Interval
  BY <1>1, LaterIs
<1> DEFINE x == f[Len(s)]
           u == cleanup(x, b)
           v == TimesCleared(u)
<1> HIDE DEF b, s, later
<1>9. /\ x \in Records
      /\ \A i \in Item :
           /\ DecaySound(x, i, 0)
           /\ AloneUpTo(later, later, b, s, 0, i) =>
                AloneUpTo(x, later, b, s, Len(s), i)
  BY <1>3, <1>4, <1>5, <1>6, ChecksAllKeep
<1>10. BecomeItems(v) BY <1>3
<1>11. u = cleanup(x, b) /\ v = TimesCleared(u) OBVIOUS
<1> HIDE DEF x, u, v
<1>12. /\ u \in Records /\ u.kind = x.kind /\ u.inWorld = x.inWorld
       /\ \A i \in Item :
            /\ EntriesOf(u, i) = EntriesOf(x, i)
            /\ DecaySound(x, i, 0) => DecaySound(u, i, 0)
            /\ \A late \in {0, Interval} :
                 Timed(x, i, b, late) => Timed(u, i, b, 0)
  BY <1>4, <1>9, <1>11, CleanupKeeps
<1>13. /\ v \in Records /\ v.kind = u.kind /\ v.inWorld = u.inWorld
       /\ \A i \in Item :
            /\ EntriesOf(v, i) = EntriesOf(u, i)
            /\ DecaySound(u, i, 0) => DecaySound(v, i, 0)
            /\ \A last : Timed(u, i, last, 0) => Timed(v, i, last, 0)
  BY <1>11, <1>12, TimesClearedIs
<1>14. \A i \in Item : DecaySound(v, i, 0) BY <1>9, <1>12, <1>13
<1>15. ASSUME NEW i \in alone
       PROVE  /\ EntriesOf(v, i) <= 1 /\ Timed(v, i, b, 0)
              /\ decaying[i]
                   /\ (v.kind[i] # kind[i] \/ v.inWorld[i] # inWorld[i])
                 => timeLeft[i] - Interval \in - Interval .. Second - 1
  <2>1. i \in Item BY <1>1
  <2>2. AloneUpTo(x, later, b, s, Len(s), i) BY <1>7, <1>9, <2>1
  <2>3. Coming(s, Len(s), i) = 0 BY <1>5, <2>1, ComingIs
  <2>4. EntriesOf(x, i) + 0 <= 1 /\ Timed(x, i, b, Interval)
    BY <2>2, <2>3 DEF AloneUpTo
  <2>5. EntriesOf(x, i) \in Nat BY <1>9, <2>1, EntriesAre
  <2>6. EntriesOf(v, i) <= 1 BY <1>12, <1>13, <2>1, <2>4, <2>5
  <2>7. Timed(v, i, b, 0) BY <1>12, <1>13, <2>1, <2>4
  <2>8. decaying[i] /\ (x.kind[i] # kind[i] \/ x.inWorld[i] # inWorld[i])
          => timeLeft[i] - Interval \in - Interval .. Second - 1
    BY <1>8, <2>1, <2>2 DEF AloneUpTo
  <2> QED BY <1>12, <1>13, <2>6, <2>7, <2>8
<1>16. DecayIInv'
  <2>1. alone' \subseteq Item BY <1>1, <1>2
  <2>2. \A i \in alone' : EntriesOf(v, i) <= 1 /\ Timed(v, i, b, 0)
    BY <1>2, <1>15
  <2> QED BY <1>2, <1>4, <1>10, <1>13, <1>14, <2>1, <2>2, DecayBecomes
<1>17. kind' = v.kind /\ inWorld' = v.inWorld BY <1>10 DEF BecomeItems
<1> QED BY <1>15, <1>16, <1>17

-----------------------------------------------------------------------------
(* The theorem *)

LEMMA DecayStuttering ==
  ASSUME DecayIInv, UNCHANGED decayVars
  PROVE  DecayIInv'
<1>1. /\ kind' = kind /\ inWorld' = inWorld /\ duration' = duration
      /\ decaying' = decaying /\ toDecay' = toDecay /\ wheel' = wheel
      /\ lastBucket' = lastBucket /\ pending' = pending /\ refs' = refs
      /\ timeLeft' = timeLeft /\ alone' = alone
  BY DEF decayVars
<1>2. BecomeItems(ItemsNow) BY <1>1, NowIs DEF BecomeItems
<1> QED BY <1>1, <1>2, DecayBecomes DEF DecayIInv

LEMMA DecayNextIInv == DecayIInv /\ [DecayNext]_decayVars => DecayIInv'
<1> SUFFICES ASSUME DecayIInv, [DecayNext]_decayVars PROVE DecayIInv'
  OBVIOUS
<1>1. CASE \E i \in Item : Use(i) BY <1>1, DecayUse
<1>2. CASE \E i \in Item : RemoveItem(i) BY <1>2, DecayRemove
<1>3. CASE checkDecay BY <1>3, DecayCheck
<1>4. CASE Cleanup BY <1>4, DecayCleanup
<1>5. CASE UNCHANGED decayVars BY <1>5, DecayStuttering
<1> QED BY <1>1, <1>2, <1>3, <1>4, <1>5 DEF DecayNext

LEMMA DecayStepOnTime ==
  DecayIInv /\ [DecayNext]_decayVars =>
    [\A i \in alone :
       lastBucket' # lastBucket /\ decaying[i]
         /\ <<kind[i], inWorld[i]>>' # <<kind[i], inWorld[i]>>
       => timeLeft[i] - Interval \in - Interval .. Second - 1]_decayVars
<1> SUFFICES ASSUME DecayIInv, [DecayNext]_decayVars,
                    NEW i \in alone, lastBucket' # lastBucket, decaying[i],
                    <<kind[i], inWorld[i]>>' # <<kind[i], inWorld[i]>>
             PROVE  timeLeft[i] - Interval \in - Interval .. Second - 1
  OBVIOUS
<1>1. checkDecay
  BY DEF DecayNext, Use, RemoveItem, Cleanup, decayVars
<1> QED BY <1>1, DecayCheck

LEMMA DecayIInvSays == DecayIInv => DecayTypeOK /\ DecayIsUnderWay
<1> SUFFICES ASSUME DecayIInv PROVE DecayTypeOK /\ DecayIsUnderWay
  OBVIOUS
<1>1. ItemsNow \in Records /\ lastBucket \in Bucket /\ alone \subseteq Item
      /\ \A i \in Item : DecaySound(ItemsNow, i, 0)
  BY DEF DecayIInv
<1>2. DecayTypeOK
  BY <1>1, NowIs DEF DecayTypeOK, Records
<1>3. ASSUME NEW i \in Item
      PROVE  /\ refs[i] = (IF inWorld[i] THEN 1 ELSE 0) + Entries(i)
                          + Count(pending, i)
             /\ inWorld[i] /\ decayTo[kind[i]] # Never => Entries(i) > 0
  <2> DEFINE here == IF inWorld[i] THEN 1 ELSE 0
             e == EntriesOf(ItemsNow, i)
  <2>1. Entries(i) = e BY NowIs DEF Entries, EntriesOf, InWheel
  <2>2. /\ refs[i] = here + e + 0 + Count(pending, i)
        /\ inWorld[i] /\ decayTo[kind[i]] # Never => e + 0 > 0
    BY <1>1, NowIs DEF DecaySound, Referred, UnderWay
  <2>3. e \in Nat /\ here \in Int BY <1>1, EntriesAre
  <2> HIDE DEF e, here
  <2>4. here + e + 0 = here + e /\ e + 0 = e BY <2>3
  <2> QED BY <2>1, <2>2, <2>4 DEF here
<1> QED BY <1>2, <1>3 DEF DecayIsUnderWay

(* What can decay has an entry and every reference is accounted for, so    *)
(* that an item is freed once; and an item left alone decays less than a   *)
(* second before its time, and at most an interval after it (startDecay,   *)
(* checkDecay and cleanup of game.cpp), whatever the table of items.       *)
THEOREM ItemsDecayHolds == DecaySpec => ItemsDecay
<1>1. DecayInit => DecayIInv BY DecayInitIInv
<1>2. DecayIInv /\ [DecayNext]_decayVars => DecayIInv' BY DecayNextIInv
<1>3. DecayIInv => DecayTypeOK /\ DecayIsUnderWay BY DecayIInvSays
<1>4. DecayIInv /\ [DecayNext]_decayVars =>
        [\A i \in alone :
           lastBucket' # lastBucket /\ decaying[i]
             /\ <<kind[i], inWorld[i]>>' # <<kind[i], inWorld[i]>>
           => timeLeft[i] - Interval \in - Interval .. Second - 1]_decayVars
  BY DecayStepOnTime
<1> QED BY <1>1, <1>2, <1>3, <1>4, PTL
    DEF DecaySpec, ItemsDecay, DecaysOnTime
=============================================================================
