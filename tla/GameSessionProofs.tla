-------------------------- MODULE GameSessionProofs --------------------------
(***************************************************************************)
(* Theorems about GameSession, for every set of connections, of spectators *)
(* among them and of player objects; and about WaitingList, which a login  *)
(* asks first, for every set of accounts and every limit.                  *)
(*                                                                         *)
(* WaitingList erases entries of a list by a function defined recursively, *)
(* about which the facts needed are shown by induction over its length.    *)
(***************************************************************************)
EXTENDS GameSession, WaitingList, SumLemmas, SequenceTheorems, TLAPS

Playing == Protocol \ Watcher

TaskType ==
  [kind : {"login", "logout"}, protocol : Playing]
    \cup [kind : {"connect"}, protocol : Playing, player : PlayerObject]
    \cup [kind : {"spectate", "spectatelogout"}, protocol : Watcher]
    \cup [kind : {"release"}, protocol : Protocol]
    \cup [kind : {"shutdown"}]

(* Only those who play log in and out, only spectators watch.              *)
Typed ==
  /\ conn \in [Protocol -> {"new", "open", "closed", "expired"}]
  /\ tasks \in Seq(TaskType)
  /\ timers \subseteq Playing \X PlayerObject
  /\ player \in [Protocol -> PlayerObject \cup {None}]
  /\ caster \in [Protocol -> BOOLEAN]
  /\ spectators \in [Protocol -> SUBSET Protocol]
  /\ spect \in [Protocol -> Protocol \cup {None}]
  /\ liveCasts \in [PlayerObject -> Protocol \cup {None}]
  /\ client \in [PlayerObject -> Playing \cup {None}]
  /\ refs \in [PlayerObject -> Int]
  /\ made \subseteq PlayerObject
  /\ inWorld \subseteq made
  /\ toRelease \subseteq made
  /\ released \subseteq Protocol

(* A client enters the game once: it has a login or a connect to come, in  *)
(* the task list or at the scheduler, at most once, and then no player.    *)
Enters(t, p) == t.kind \in {"login", "connect"} /\ t.protocol = p

EntersOnce(ts, tm) ==
  \A p \in Playing :
    /\ \A i, j \in DOMAIN ts : Enters(ts[i], p) /\ Enters(ts[j], p) => i = j
    /\ \A o, u \in PlayerObject : <<p, o>> \in tm /\ <<p, u>> \in tm => o = u
    /\ \A i \in DOMAIN ts, o \in PlayerObject :
         Enters(ts[i], p) => <<p, o>> \notin tm

EntersWithout(ts, tm, pl, cn) ==
  \A p \in Playing :
    /\ \A i \in DOMAIN ts :
         Enters(ts[i], p) => pl[p] = None /\ cn[p] # "new"
    /\ \A o \in PlayerObject :
         <<p, o>> \in tm => pl[p] = None /\ cn[p] # "new"
    /\ cn[p] = "new" => pl[p] = None

(* Clients and players point to each other, and only what was made is      *)
(* pointed to.                                                             *)
Linked ==
  /\ \A o \in PlayerObject :
       client[o] # None => o \in made /\ player[client[o]] = o
  /\ \A p \in Playing : player[p] # None => client[player[p]] = p

(* Nobody in the world waits for cleanup, and there is one at most.        *)
WorldOK ==
  /\ inWorld \cap toRelease = {}
  /\ \A o, u \in inWorld : o = u

(* Only those who play cast, and each cast is on the list.                 *)
Casting ==
  /\ \A p \in Protocol : caster[p] => p \in Playing /\ player[p] # None
  /\ \A o \in PlayerObject, p \in Protocol :
       liveCasts[o] = p <=> caster[p] /\ player[p] = o

(* An open spectator is among those its caster will disconnect.  Before its *)
(* first message a spectator holds no player and no task is for it.        *)
OnItsList(p) ==
  spect[p] \in Protocol /\ p \in spectators[spect[p]] /\ caster[spect[p]]

Watching ==
  /\ \A i \in DOMAIN tasks :
       tasks[i].kind = "spectate" => conn[tasks[i].protocol] # "new"
  /\ \A p \in Watcher : conn[p] = "new" => player[p] = None
  /\ \A p \in Watcher : conn[p] = "open" /\ player[p] # None => OnItsList(p)

Entry ==
  /\ EntersOnce(tasks, timers)
  /\ EntersWithout(tasks, timers, player, conn)

IInv == Typed /\ Entry /\ Linked /\ WorldOK /\ Casting /\ Watching

(* Without spectators, who share the counter of the player they watch.     *)
Counted ==
  /\ \A p \in Protocol : spectators[p] = {}
  /\ \A o \in PlayerObject :
       refs[o] = (IF client[o] # None THEN 1 ELSE 0)
                   + (IF o \in inWorld \cup toRelease THEN 1 ELSE 0)

-----------------------------------------------------------------------------
(* What handlers do to the task list *)

(* ts has no entries but those that tasks leaves after its first k.        *)
Kept(ts, k) ==
  /\ ts \in Seq(TaskType)
  /\ \A i \in DOMAIN ts :
       \/ ts[i].kind \notin {"login", "connect", "spectate"}
       \/ i + k \in DOMAIN tasks /\ ts[i] = tasks[i + k]

(* Connections close and expire; no client sends its first message.        *)
ConnKept ==
  /\ conn' \in [Protocol -> {"new", "open", "closed", "expired"}]
  /\ \A p \in Protocol : conn'[p] = "new" <=> conn[p] = "new"

(* The list of a finite set is a sequence of its members.                  *)
LEMMA SetToSeqRange ==
  ASSUME NEW S, IsFiniteSet(S)
  PROVE  SetToSeq(S) \in Seq(S)
<1> DEFINE n == Cardinality(S)
<1>1. n \in Nat BY FS_CardinalityType
<1>2. PICK f : ExistsBijection(1 .. n, S) /\ f \in Bijection(1 .. n, S)
  BY FS_CardinalityType DEF ExistsBijection
<1>3. f \in [1 .. n -> S] /\ IsInjective(f)
  BY <1>2 DEF Bijection, Injection, IsInjective
<1>4. SetToSeq(S) \in [1 .. n -> S]
  BY <1>3 DEF SetToSeq
<1> QED BY <1>1, <1>4

LEMMA CardinalityOfWatchers ==
  ASSUME Typed, NEW p \in Protocol
  PROVE  Watchers(p) \subseteq Protocol /\ Cardinality(Watchers(p)) \in Nat
<1>1. Watchers(p) \subseteq Protocol BY DEF Typed, Watchers
<1>2. IsFiniteSet(Watchers(p))
  BY <1>1, GameSessionAssumption, FS_Subset DEF GameSessionAssumption
<1> QED BY <1>1, <1>2, FS_CardinalityType

(* Disconnect adds nothing but releases to the task list.                  *)
LEMMA DisconnectKeeps ==
  ASSUME Typed, NEW ps \in SUBSET Protocol, NEW rest, NEW k \in {0, 1},
         Kept(rest, k), Disconnect(ps, rest)
  PROVE  ConnKept /\ Kept(tasks', k)
<1> DEFINE closing == {p \in ps : conn[p] = "open"}
           queue == SetToSeq(closing)
           releases == [i \in DOMAIN queue |-> Task("release", queue[i])]
<1>1. ConnKept BY DEF Disconnect, ConnKept, Typed
<1>2. queue \in Seq(Protocol)
  <2>1. IsFiniteSet(closing)
    BY GameSessionAssumption, FS_Subset DEF GameSessionAssumption
  <2>2. queue \in Seq(closing) BY <2>1, SetToSeqRange
  <2> QED BY <2>2
<1>3. releases \in Seq(TaskType)
  <2>1. \A p \in Protocol : Task("release", p) \in TaskType
    BY DEF Task, TaskType
  <2> HIDE DEF queue
  <2> QED BY <1>2, <2>1
<1>4. \A i \in DOMAIN releases : releases[i].kind = "release" BY DEF Task
<1>5. rest \in Seq(TaskType) BY DEF Kept
<1> HIDE DEF releases
<1>6. CASE tasks' = rest BY <1>1, <1>6
<1>7. CASE tasks' = rest \o releases
  <2>1. tasks' \in Seq(TaskType) BY <1>3, <1>5, <1>7
  <2>2. ASSUME NEW i \in DOMAIN tasks'
        PROVE  \/ i \in DOMAIN rest /\ tasks'[i] = rest[i]
               \/ tasks'[i].kind = "release"
    BY <1>3, <1>4, <1>5, <1>7, <2>2
  <2> QED BY <1>1, <2>1, <2>2 DEF Kept
<1>8. tasks' = rest \/ tasks' = rest \o releases
  BY DEF Disconnect, releases
<1> QED BY <1>6, <1>7, <1>8

LEMMA KeptAll ==
  ASSUME Typed PROVE Kept(tasks, 0)
BY DEF Typed, Kept

LEMMA KeptRest ==
  ASSUME Typed, tasks # <<>> PROVE Kept(Rest, 1) /\ Head(tasks) \in TaskType
BY DEF Typed, Kept, Rest

(* Whoever enters with the first task has no other entry.                  *)
LEMMA HeadEnters ==
  ASSUME Typed, Entry, tasks # <<>>, NEW p \in Playing,
         Enters(Head(tasks), p), NEW ts, Kept(ts, 1)
  PROVE  /\ \A i \in DOMAIN ts : ~Enters(ts[i], p)
         /\ \A o \in PlayerObject : <<p, o>> \notin timers
         /\ player[p] = None /\ conn[p] # "new"
<1>1. 1 \in DOMAIN tasks /\ Enters(tasks[1], p) BY DEF Typed
<1>2. \A i \in DOMAIN ts : i \in Nat \ {0} /\ i + 1 # 1 BY DEF Kept
<1> QED BY <1>1, <1>2 DEF Entry, EntersOnce, EntersWithout, Kept, Enters

(* A step that keeps the entries but those of the clients it gives players.*)
LEMMA EntryKept ==
  ASSUME Typed, Entry, NEW k \in {0, 1}, Kept(tasks', k), ConnKept,
         timers' \subseteq timers,
         \A p \in Playing :
           \/ player'[p] \in {player[p], None}
           \/ /\ conn[p] # "new"
              /\ \A i \in DOMAIN tasks' : ~Enters(tasks'[i], p)
              /\ \A o \in PlayerObject : <<p, o>> \notin timers'
  PROVE  Entry'
<1>1. \A i \in DOMAIN tasks', p \in Playing :
        Enters(tasks'[i], p) =>
          i + k \in DOMAIN tasks /\ Enters(tasks[i + k], p)
  BY DEF Kept, Enters
<1>2. \A i, j \in DOMAIN tasks' : i + k = j + k => i = j BY DEF Kept
<1>3. EntersOnce(tasks, timers)' BY <1>1, <1>2 DEF Entry, EntersOnce
<1>4. EntersWithout(tasks, timers, player, conn)'
  BY <1>1 DEF Entry, EntersWithout, ConnKept, Playing
<1> QED BY <1>3, <1>4 DEF Entry

(* A closed connection stays closed, and those of ps are closed now.       *)
LEMMA DisconnectCloses ==
  ASSUME Typed, NEW ps \in SUBSET Protocol, NEW rest, Disconnect(ps, rest)
  PROVE  \A p \in Protocol :
           conn'[p] = "open" => conn[p] = "open" /\ p \notin ps
BY DEF Disconnect, Typed

(* A step that leaves the spectators of open connections on their lists.   *)
LEMMA WatchingKept ==
  ASSUME Typed, Watching, NEW k \in {0, 1}, Kept(tasks', k), ConnKept,
         \A p \in Watcher :
           /\ player'[p] \in {player[p], None}
           /\ conn'[p] = "open" =>
                conn[p] = "open" /\ (OnItsList(p) => OnItsList(p)')
  PROVE  Watching'
<1>1. ASSUME NEW i \in DOMAIN tasks', tasks'[i].kind = "spectate"
      PROVE  conn'[tasks'[i].protocol] # "new"
  <2>1. i + k \in DOMAIN tasks /\ tasks'[i] = tasks[i + k]
    BY <1>1 DEF Kept
  <2>2. tasks'[i].protocol \in Watcher
    BY <1>1 DEF Kept, TaskType
  <2>3. tasks'[i].protocol \in Protocol
    BY <2>2, GameSessionAssumption DEF GameSessionAssumption
  <2> QED BY <1>1, <2>1, <2>3 DEF Watching, ConnKept
<1>2. \A p \in Watcher : p \in Protocol
  BY GameSessionAssumption DEF GameSessionAssumption
<1>3. \A p \in Watcher : conn'[p] = "new" => player'[p] = None
  BY <1>2 DEF Watching, ConnKept
<1>4. \A p \in Watcher :
        conn'[p] = "open" /\ player'[p] # None => OnItsList(p)'
  BY <1>2 DEF Watching
<1> QED BY <1>1, <1>3, <1>4 DEF Watching

(* Steps that leave the casts and the players of spectators alone.         *)
LEMMA WatchingStays ==
  ASSUME Typed, Watching, NEW k \in {0, 1}, Kept(tasks', k), ConnKept,
         UNCHANGED <<caster, spectators, spect>>,
         \A p \in Watcher : player'[p] = player[p],
         \A p \in Protocol : conn'[p] = "open" => conn[p] = "open"
  PROVE  Watching'
<1>1. \A p \in Watcher :
        conn'[p] = "open" =>
          conn[p] = "open" /\ (OnItsList(p) => OnItsList(p)')
  BY GameSessionAssumption DEF GameSessionAssumption, OnItsList
<1> QED BY <1>1, WatchingKept

-----------------------------------------------------------------------------
(* What handlers do to the links and to the casts *)

LEMMA TaskKinds ==
  ASSUME NEW t \in TaskType
  PROVE  /\ t.kind \in {"login", "logout"} => t.protocol \in Playing
         /\ t.kind = "connect" =>
              t.protocol \in Playing /\ t.player \in PlayerObject
         /\ t.kind \in {"spectate", "spectatelogout"} => t.protocol \in Watcher
         /\ t.kind = "release" => t.protocol \in Protocol
BY DEF TaskType

LEMMA EndCastKeeps ==
  ASSUME IInv, NEW p \in Protocol, EndCast(p),
         player' = player \/ player' = [player EXCEPT ![p] = None]
  PROVE  /\ Casting'
         /\ caster' \in [Protocol -> BOOLEAN]
         /\ spectators' \in [Protocol -> SUBSET Protocol]
         /\ spect' \in [Protocol -> Protocol \cup {None}]
         /\ liveCasts' \in [PlayerObject -> Protocol \cup {None}]
<1> USE DEF IInv, Typed
<1>1. caster' = [caster EXCEPT ![p] = FALSE] BY DEF EndCast
<1>2. player' \in [Protocol -> PlayerObject \cup {None}] OBVIOUS
<1>3. \A q \in Protocol : caster'[q] => q \in Playing /\ player'[q] # None
  BY <1>1 DEF Casting
<1>4. ASSUME NEW o \in PlayerObject, NEW q \in Protocol
      PROVE  liveCasts'[o] = q <=> caster'[q] /\ player'[q] = o
  <2> USE <1>1, GameSessionAssumption DEF GameSessionAssumption
  <2>1. liveCasts[o] = q <=> caster[q] /\ player[q] = o BY DEF Casting
  <2>2. CASE q = p
    <3>1. CASE caster[p]
      <4>1. player[p] \in PlayerObject BY <3>1 DEF Casting
      <4> QED BY <2>1, <2>2, <3>1, <4>1 DEF EndCast
    <3>2. CASE ~caster[p] BY <2>1, <2>2, <3>2 DEF EndCast
    <3> QED BY <3>1, <3>2
  <2>3. CASE q # p
    <3>1. CASE caster[p] /\ player[p] = o
      <4>1. ~(caster[q] /\ player[q] = o)
        BY <2>3, <3>1 DEF Casting, Linked
      <4> QED BY <2>3, <3>1, <4>1 DEF EndCast
    <3>2. CASE ~(caster[p] /\ player[p] = o)
      BY <2>1, <2>3, <3>2 DEF EndCast
    <3> QED BY <3>1, <3>2
  <2> QED BY <2>2, <2>3
<1> QED BY <1>3, <1>4 DEF EndCast, Casting

(* The end of a cast leaves no open spectator without a caster.            *)
LEMMA EndCastWatches ==
  ASSUME Typed, NEW q \in Protocol, NEW ps \in SUBSET Protocol, NEW rest,
         Watchers(q) \subseteq ps, EndCast(q), Disconnect(ps, rest)
  PROVE  \A p \in Watcher :
           conn'[p] = "open" =>
             conn[p] = "open" /\ (OnItsList(p) => OnItsList(p)')
<1> SUFFICES ASSUME NEW p \in Watcher, conn'[p] = "open"
             PROVE  conn[p] = "open" /\ (OnItsList(p) => OnItsList(p)')
  OBVIOUS
<1>1. p \in Protocol BY GameSessionAssumption DEF GameSessionAssumption
<1>2. conn[p] = "open" /\ p \notin ps BY <1>1, DisconnectCloses
<1>3. ASSUME OnItsList(p) PROVE OnItsList(p)'
  <2>1. spect[p] # q BY <1>2, <1>3 DEF OnItsList, Watchers
  <2> QED BY <1>3, <2>1 DEF OnItsList, EndCast, Typed
<1> QED BY <1>2, <1>3

(* A client that holds no player gets one, which had no client.            *)
LEMMA NewLink ==
  ASSUME IInv, NEW p \in Playing, NEW o \in PlayerObject,
         player[p] = None, client[o] = None, o \in made',
         made \subseteq made',
         player' = [player EXCEPT ![p] = o],
         client' = [client EXCEPT ![o] = p], UNCHANGED casts
  PROVE  Linked' /\ Casting'
<1> USE GameSessionAssumption
    DEF GameSessionAssumption, IInv, Typed, Playing, casts
<1>1. Linked' BY DEF Linked
<1>2. ~caster[p] BY DEF Casting
<1>3. Casting' BY <1>2 DEF Casting
<1> QED BY <1>1, <1>3

LEMMA RemovalKeeps ==
  ASSUME IInv, NEW os, RemoveCreature(os), UNCHANGED made
  PROVE  /\ WorldOK'
         /\ (inWorld \subseteq made /\ toRelease \subseteq made)'
BY DEF IInv, Typed, WorldOK, RemoveCreature

LEMMA DropKeeps ==
  ASSUME Typed, NEW o, NEW n \in Int, DropRefs(o, n)
  PROVE  refs' \in [PlayerObject -> Int]
<1>1. CASE o \in PlayerObject BY <1>1 DEF Typed, DropRefs
<1>2. CASE o \notin PlayerObject
  <2>1. refs' = refs BY <1>2 DEF Typed, DropRefs
  <2> QED BY <2>1 DEF Typed
<1> QED BY <1>1, <1>2

-----------------------------------------------------------------------------
(* Each handler keeps the invariant *)

(* LeaveGame, by a task whose first k entries of the list are done.        *)
LEMMA LeaveGameKeeps ==
  ASSUME IInv, NEW p \in Protocol, NEW rest, NEW k \in {0, 1},
         Kept(rest, k), LeaveGame(p, rest),
         UNCHANGED <<timers, links, released>>
  PROVE  IInv'
<1> USE DEF links
<1>0. Typed BY DEF IInv
<1>1. Watchers(p) \subseteq Protocol /\ Cardinality(Watchers(p)) \in Int
  BY <1>0, CardinalityOfWatchers
<1>2. ConnKept /\ Kept(tasks', k)
  BY <1>0, <1>1, DisconnectKeeps DEF LeaveGame
<1>3. refs' \in [PlayerObject -> Int]
  BY <1>0, <1>1, DropKeeps DEF LeaveGame
<1>4. Entry' BY <1>0, <1>2, EntryKept DEF IInv
<1>5. Casting' BY EndCastKeeps DEF LeaveGame
<1>6. Linked' BY DEF IInv, Linked
<1>7. WorldOK' BY RemovalKeeps DEF LeaveGame
<1>8. Typed'
  BY <1>2, <1>3, EndCastKeeps, RemovalKeeps
  DEF LeaveGame, IInv, Typed, Kept, ConnKept
<1>9. Watching'
  <2>1. \A q \in Watcher :
          conn'[q] = "open" =>
            conn[q] = "open" /\ (OnItsList(q) => OnItsList(q)')
    BY <1>0, <1>1, EndCastWatches DEF LeaveGame
  <2> QED BY <1>0, <1>2, <2>1, WatchingKept DEF IInv
<1> QED BY <1>4, <1>5, <1>6, <1>7, <1>8, <1>9 DEF IInv

LEMMA AttachKeeps ==
  ASSUME IInv, NEW p \in Playing, NEW o \in PlayerObject, tasks # <<>>,
         Enters(Head(tasks), p), Attach(p, o),
         UNCHANGED <<timers, gameState, casts, world, released>>
  PROVE  IInv'
<1> USE DEF casts, links, world
<1>0. Typed /\ Entry BY DEF IInv
<1>1. Kept(Rest, 1) BY <1>0, KeptRest
<1>2. p \in Protocol BY DEF Playing
<1>3. CASE /\ UNCHANGED <<links, refs>>
           /\ Disconnect({p}, Rest) \/ (tasks' = Rest /\ UNCHANGED conn)
  <2>1. ConnKept /\ Kept(tasks', 1)
    BY <1>0, <1>1, <1>2, <1>3, DisconnectKeeps DEF ConnKept, Typed
  <2>2. Entry' BY <1>0, <1>3, <2>1, EntryKept
  <2>3. Linked' /\ WorldOK' /\ Casting'
    BY <1>3 DEF IInv, Linked, WorldOK, Casting
  <2>4. Typed' BY <1>3, <2>1 DEF IInv, Typed, Kept, ConnKept
  <2>5. \A q \in Protocol : conn'[q] = "open" => conn[q] = "open"
    BY <1>0, <1>2, <1>3, DisconnectCloses
  <2>6. Watching' BY <1>3, <2>1, <2>5, WatchingStays DEF IInv
  <2> QED BY <2>2, <2>3, <2>4, <2>6 DEF IInv
<1>4. CASE /\ o \in inWorld /\ client[o] = None
           /\ player' = [player EXCEPT ![p] = o]
           /\ client' = [client EXCEPT ![o] = p]
           /\ refs' = [refs EXCEPT ![o] = @ + 1]
           /\ tasks' = Rest
           /\ UNCHANGED <<conn, made>>
  <2>1. ConnKept /\ Kept(tasks', 1) BY <1>0, <1>1, <1>4 DEF ConnKept, Typed
  <2>2. /\ \A i \in DOMAIN tasks' : ~Enters(tasks'[i], p)
        /\ \A u \in PlayerObject : <<p, u>> \notin timers
        /\ player[p] = None /\ conn[p] # "new"
    BY <1>0, <2>1, HeadEnters
  <2>3. Entry' BY <1>0, <1>4, <2>1, <2>2, EntryKept DEF Typed
  <2>4. Linked' /\ Casting' BY <1>4, <2>2, NewLink DEF IInv, Typed
  <2>5. WorldOK' BY DEF IInv, WorldOK
  <2>6. Typed' BY <1>2, <1>4, <2>1 DEF IInv, Typed, Kept, ConnKept
  <2>7. \A q \in Watcher : player'[q] = player[q]
    BY <1>4, GameSessionAssumption
    DEF GameSessionAssumption, Playing, IInv, Typed
  <2>8. Watching' BY <1>4, <2>1, <2>7, WatchingStays DEF IInv
  <2> QED BY <2>3, <2>4, <2>5, <2>6, <2>8 DEF IInv
<1> QED BY <1>3, <1>4 DEF Attach

LEMMA NewPlayerKeeps ==
  ASSUME IInv, NEW p \in Playing, tasks # <<>>, Enters(Head(tasks), p),
         LoginRefused(p) \/ LoginPlaced(p), inWorld = {},
         UNCHANGED <<gameState, casts, released>>
  PROVE  IInv'
<1> USE DEF casts, world
<1>0. Typed /\ Entry BY DEF IInv
<1>1. Kept(Rest, 1) BY <1>0, KeptRest
<1>2. p \in Protocol BY DEF Playing
<1>3. PICK o \in PlayerObject :
        /\ NewPlayer(p, o)
        /\ refs' \in {[refs EXCEPT ![o] = 1], [refs EXCEPT ![o] = 2]}
        /\ Disconnect({p}, Rest) \/ (tasks' = Rest /\ UNCHANGED conn)
        /\ inWorld' \in {{}, {o}}
        /\ UNCHANGED <<timers, toRelease>>
  BY DEF LoginRefused, LoginPlaced
<1>4. ConnKept /\ Kept(tasks', 1)
  BY <1>0, <1>1, <1>2, <1>3, DisconnectKeeps DEF ConnKept, Typed
<1>5. /\ \A i \in DOMAIN tasks' : ~Enters(tasks'[i], p)
      /\ \A u \in PlayerObject : <<p, u>> \notin timers
      /\ player[p] = None /\ conn[p] # "new"
  BY <1>0, <1>4, HeadEnters
<1>6. Entry' BY <1>0, <1>3, <1>4, <1>5, EntryKept DEF Typed, NewPlayer
<1>7. client[o] = None BY <1>3 DEF IInv, Linked, NewPlayer
<1>8. Linked' /\ Casting' BY <1>3, <1>5, <1>7, NewLink DEF NewPlayer
<1>9. WorldOK' BY <1>3 DEF IInv, Typed, WorldOK, NewPlayer
<1>10. Typed'
  <2>1. refs' \in [PlayerObject -> Int] BY <1>3 DEF IInv, Typed
  <2>2. /\ player' \in [Protocol -> PlayerObject \cup {None}]
        /\ client' \in [PlayerObject -> Playing \cup {None}]
    BY <1>2, <1>3 DEF IInv, Typed, NewPlayer
  <2>3. made' \subseteq PlayerObject /\ inWorld' \subseteq made'
    BY <1>3 DEF IInv, Typed, NewPlayer
  <2>4. toRelease' \subseteq made' BY <1>3 DEF IInv, Typed, NewPlayer
  <2> QED BY <1>3, <1>4, <2>1, <2>2, <2>3, <2>4
          DEF IInv, Typed, Kept, ConnKept
<1>11. Watching'
  <2>1. \A q \in Watcher : player'[q] = player[q]
    BY <1>3, GameSessionAssumption
    DEF GameSessionAssumption, Playing, IInv, Typed, NewPlayer
  <2>2. \A q \in Protocol : conn'[q] = "open" => conn[q] = "open"
    BY <1>0, <1>2, <1>3, DisconnectCloses
  <2> QED BY <1>4, <2>1, <2>2, WatchingStays DEF IInv
<1> QED BY <1>6, <1>8, <1>9, <1>10, <1>11 DEF IInv

LEMMA LoginKeeps ==
  ASSUME IInv, Login PROVE IInv'
<1> DEFINE p == Head(tasks).protocol
<1>0. Typed /\ Entry BY DEF IInv
<1>1. tasks # <<>> /\ Head(tasks).kind = "login" BY DEF Login, HeadIs
<1>2. Kept(Rest, 1) /\ Head(tasks) \in TaskType BY <1>0, <1>1, KeptRest
<1>3. p \in Playing /\ Enters(Head(tasks), p)
  BY <1>1, <1>2, TaskKinds DEF Enters
<1>4. UNCHANGED <<gameState, casts, released>> BY DEF Login
<1>5. CASE inWorld = {} /\ (LoginRefused(p) \/ LoginPlaced(p))
  <2> HIDE DEF p
  <2> QED BY <1>1, <1>3, <1>4, <1>5, NewPlayerKeeps
<1>6. ASSUME NEW o \in inWorld, LoginOnline(p, o)
      PROVE  IInv'
  <2> USE DEF casts, links, world
  <2>1. o \in PlayerObject /\ p \in Protocol
    BY <1>0, <1>3 DEF Typed, Playing
  <2>2. CASE Attach(p, o) /\ UNCHANGED timers
    <3> HIDE DEF p
    <3> QED BY <1>1, <1>3, <1>4, <1>6, <2>1, <2>2, AttachKeeps
            DEF LoginOnline
  <2>3. CASE Disconnect({p}, Rest) /\ UNCHANGED <<timers, links, refs>>
    <3>1. ConnKept /\ Kept(tasks', 1)
      BY <1>0, <1>2, <2>1, <2>3, DisconnectKeeps
    <3>2. Entry' BY <1>0, <2>3, <3>1, EntryKept
    <3>3. Linked' /\ WorldOK' /\ Casting'
      BY <1>4, <1>6, <2>3 DEF LoginOnline, IInv, Linked, WorldOK, Casting
    <3>4. Typed' BY <1>4, <1>6, <2>3, <3>1
      DEF LoginOnline, IInv, Typed, Kept, ConnKept
    <3>5. \A q \in Protocol : conn'[q] = "open" => conn[q] = "open"
      BY <1>0, <2>1, <2>3, DisconnectCloses
    <3>6. Watching' BY <1>4, <2>3, <3>1, <3>5, WatchingStays DEF IInv
    <3> QED BY <3>2, <3>3, <3>4, <3>6 DEF IInv
  <2>4. CASE /\ client[o] # None
             /\ Disconnect({client[o]}, Rest)
             /\ timers' = timers \cup {<<p, o>>}
             /\ UNCHANGED <<links, refs>>
    <3>1. client[o] \in Protocol BY <1>0, <2>1, <2>4 DEF Typed, Playing
    <3>2. ConnKept /\ Kept(tasks', 1)
      BY <1>0, <1>2, <2>4, <3>1, DisconnectKeeps
    <3> HIDE DEF p
    <3>3. /\ \A i \in DOMAIN tasks' : ~Enters(tasks'[i], p)
          /\ \A u \in PlayerObject : <<p, u>> \notin timers
          /\ player[p] = None /\ conn[p] # "new"
      BY <1>0, <1>1, <1>3, <3>2, HeadEnters
    <3>4. \A i \in DOMAIN tasks', q \in Playing :
            Enters(tasks'[i], q) =>
              i + 1 \in DOMAIN tasks /\ Enters(tasks[i + 1], q)
      BY <3>2 DEF Kept, Enters
    <3>5. \A q \in Playing \ {p}, u \in PlayerObject :
            <<q, u>> \in timers' => <<q, u>> \in timers
      BY <2>4
    <3>6. \A u \in PlayerObject : <<p, u>> \in timers' => u = o
      BY <2>4, <3>3
    <3>7. \A i, j \in DOMAIN tasks' : i + 1 = j + 1 => i = j
      BY <3>2 DEF Kept
    <3>8. EntersOnce(tasks, timers)'
      <4>1. \A q \in Playing : \A i, j \in DOMAIN tasks' :
              Enters(tasks'[i], q) /\ Enters(tasks'[j], q) => i = j
        BY <1>0, <3>4, <3>7 DEF Entry, EntersOnce
      <4>2. \A q \in Playing : \A x, u \in PlayerObject :
              <<q, x>> \in timers' /\ <<q, u>> \in timers' => x = u
        BY <1>0, <3>5, <3>6 DEF Entry, EntersOnce
      <4>3. \A q \in Playing : \A i \in DOMAIN tasks', u \in PlayerObject :
              Enters(tasks'[i], q) => <<q, u>> \notin timers'
        BY <1>0, <3>3, <3>4, <3>5 DEF Entry, EntersOnce
      <4> QED BY <4>1, <4>2, <4>3 DEF EntersOnce
    <3>9. EntersWithout(tasks, timers, player, conn)'
      BY <1>0, <2>4, <3>2, <3>3, <3>4, <3>5
      DEF Entry, EntersWithout, ConnKept, Playing
    <3>10. Linked' /\ WorldOK' /\ Casting'
      BY <1>4, <1>6, <2>4 DEF LoginOnline, IInv, Linked, WorldOK, Casting
    <3>11. Typed' BY <1>3, <1>4, <1>6, <2>1, <2>4, <3>2
      DEF LoginOnline, IInv, Typed, Kept, ConnKept
    <3>12. \A q \in Protocol : conn'[q] = "open" => conn[q] = "open"
      BY <1>0, <2>4, <3>1, DisconnectCloses
    <3>13. Watching' BY <1>4, <2>4, <3>2, <3>12, WatchingStays DEF IInv
    <3> QED BY <3>8, <3>9, <3>10, <3>11, <3>13 DEF IInv, Entry
  <2> QED BY <1>6, <2>2, <2>3, <2>4 DEF LoginOnline
<1> QED BY <1>5, <1>6 DEF Login

LEMMA ConnectKeeps ==
  ASSUME IInv, Connect PROVE IInv'
<1> DEFINE p == Head(tasks).protocol
           o == Head(tasks).player
<1>1. tasks # <<>> /\ Head(tasks).kind = "connect" BY DEF Connect, HeadIs
<1>2. Head(tasks) \in TaskType BY <1>1, KeptRest DEF IInv
<1>3. p \in Playing /\ o \in PlayerObject /\ Enters(Head(tasks), p)
  BY <1>1, <1>2, TaskKinds DEF Enters
<1>4. Attach(p, o) /\ UNCHANGED <<timers, gameState, casts, world, released>>
  BY DEF Connect
<1> HIDE DEF p, o
<1> QED BY <1>1, <1>3, <1>4, AttachKeeps

LEMMA LogoutKeeps ==
  ASSUME IInv, Logout PROVE IInv'
<1> DEFINE p == Head(tasks).protocol
<1>0. Typed /\ Entry BY DEF IInv
<1>1. tasks # <<>> /\ Head(tasks).kind = "logout" BY DEF Logout, HeadIs
<1>2. Kept(Rest, 1) /\ Head(tasks) \in TaskType BY <1>0, <1>1, KeptRest
<1>3. p \in Protocol BY <1>1, <1>2, TaskKinds DEF Playing
<1>4. UNCHANGED <<timers, gameState, links, released>> BY DEF Logout
<1>5. CASE tasks' = Rest /\ UNCHANGED <<conn, casts, refs, world>>
  <2> USE DEF casts, links, world
  <2>1. ConnKept /\ Kept(tasks', 1)
    BY <1>0, <1>2, <1>5 DEF ConnKept, Typed
  <2>2. Entry' BY <1>0, <1>4, <2>1, EntryKept
  <2>3. Linked' /\ WorldOK' /\ Casting'
    BY <1>4, <1>5 DEF IInv, Linked, WorldOK, Casting
  <2>4. Typed' BY <1>4, <1>5, <2>1 DEF IInv, Typed, Kept, ConnKept
  <2>5. Watching' BY <1>4, <1>5, <2>1, WatchingStays DEF IInv
  <2> QED BY <2>2, <2>3, <2>4, <2>5 DEF IInv
<1>6. CASE LeaveGame(p, Rest)
  <2> HIDE DEF p
  <2> QED BY <1>2, <1>3, <1>4, <1>6, LeaveGameKeeps
<1> QED BY <1>5, <1>6 DEF Logout

LEMMA ReleaseKeeps ==
  ASSUME IInv, Release PROVE IInv'
<1> DEFINE p == Head(tasks).protocol
           o == player[p]
<1> USE DEF links, world
<1>0. Typed /\ Entry BY DEF IInv
<1>1. tasks # <<>> /\ Head(tasks).kind = "release" BY DEF Release, HeadIs
<1>2. Kept(Rest, 1) /\ Head(tasks) \in TaskType BY <1>0, <1>1, KeptRest
<1>3. p \in Protocol BY <1>1, <1>2, TaskKinds
<1>4. /\ EndCast(p) /\ released' = released \cup {p}
      /\ Disconnect(Watchers(p), Rest)
      /\ UNCHANGED <<timers, gameState, made>>
  BY DEF Release
<1>5. \/ /\ o # None /\ client[o] = p
         /\ client' = [client EXCEPT ![o] = None]
         /\ player' = [player EXCEPT ![p] = None]
         /\ DropRefs(o, Cardinality(Watchers(p)) + 1)
         /\ RemoveCreature({o}) \/ UNCHANGED world
      \/ UNCHANGED <<client, player, refs, world>>
  BY DEF Release
<1> HIDE DEF p
<1>6. Watchers(p) \subseteq Protocol /\ Cardinality(Watchers(p)) \in Nat
  BY <1>0, <1>3, CardinalityOfWatchers
<1>7. ConnKept /\ Kept(tasks', 1)
  BY <1>0, <1>2, <1>4, <1>6, DisconnectKeeps
<1>8. \A q \in Protocol : player'[q] \in {player[q], None}
  BY <1>0, <1>5 DEF Typed
<1>9. Entry' BY <1>0, <1>4, <1>7, <1>8, EntryKept DEF Playing
<1>10. /\ Casting'
       /\ caster' \in [Protocol -> BOOLEAN]
       /\ spectators' \in [Protocol -> SUBSET Protocol]
       /\ spect' \in [Protocol -> Protocol \cup {None}]
       /\ liveCasts' \in [PlayerObject -> Protocol \cup {None}]
  BY <1>3, <1>4, <1>5, EndCastKeeps
<1>11. WorldOK' /\ (inWorld \subseteq made /\ toRelease \subseteq made)'
  BY <1>4, <1>5, RemovalKeeps DEF IInv, Typed, WorldOK
<1>12. Linked'
  <2>1. CASE UNCHANGED <<client, player>>
    BY <1>4, <2>1 DEF IInv, Linked
  <2>2. CASE /\ o # None /\ client[o] = p
             /\ client' = [client EXCEPT ![o] = None]
             /\ player' = [player EXCEPT ![p] = None]
    <3>1. o \in PlayerObject BY <1>3, <2>2 DEF IInv, Typed
    <3>2. ASSUME NEW u \in PlayerObject, client'[u] # None
          PROVE  u \in made' /\ player'[client'[u]] = u
      BY <1>4, <2>2, <3>1, <3>2 DEF IInv, Typed, Linked, Playing
    <3>3. ASSUME NEW q \in Playing, player'[q] # None
          PROVE  client'[player'[q]] = q
      BY <1>3, <2>2, <3>1, <3>3 DEF IInv, Typed, Linked, Playing
    <3> QED BY <3>2, <3>3 DEF Linked
  <2> QED BY <1>5, <2>1, <2>2
<1>13. refs' \in [PlayerObject -> Int]
  BY <1>0, <1>5, <1>6, DropKeeps DEF Typed
<1>14. /\ player' \in [Protocol -> PlayerObject \cup {None}]
       /\ client' \in [PlayerObject -> Playing \cup {None}]
  BY <1>0, <1>5 DEF Typed
<1>15. Typed' BY <1>3, <1>4, <1>7, <1>10, <1>11, <1>13, <1>14
  DEF IInv, Typed, Kept, ConnKept
<1>16. Watching'
  <2>1. \A q \in Watcher :
          conn'[q] = "open" =>
            conn[q] = "open" /\ (OnItsList(q) => OnItsList(q)')
    BY <1>0, <1>3, <1>4, <1>6, EndCastWatches
  <2>2. \A q \in Watcher : player'[q] \in {player[q], None}
    BY <1>8, GameSessionAssumption DEF GameSessionAssumption
  <2> QED BY <1>0, <1>7, <2>1, <2>2, WatchingKept DEF IInv
<1> QED BY <1>9, <1>10, <1>11, <1>12, <1>15, <1>16 DEF IInv

(* What a step of the spectator p leaves alone.                            *)
OnlyWatches(p) ==
  /\ UNCHANGED <<timers, caster, liveCasts, client, made, inWorld, toRelease>>
  /\ released' \in {released, released \cup {p}}
  /\ Disconnect({p}, Rest) \/ (tasks' = Rest /\ UNCHANGED conn)
  /\ player' \in [Protocol -> PlayerObject \cup {None}]
  /\ \A q \in Playing : player'[q] = player[q]
  /\ refs' \in [PlayerObject -> Int]
  /\ spectators' \in [Protocol -> SUBSET Protocol]
  /\ spect' \in [Protocol -> Protocol \cup {None}]

LEMMA SpectateOnlyWatches ==
  ASSUME Typed, Spectate, Head(tasks).protocol \in Watcher
  PROVE  OnlyWatches(Head(tasks).protocol)
<1> DEFINE p == Head(tasks).protocol
<1> USE DEF casts, world
<1>1. p \in Protocol BY GameSessionAssumption DEF GameSessionAssumption
<1>2. UNCHANGED <<timers, gameState, client, made, world, released>>
  BY DEF Spectate
<1>3. CASE Disconnect({p}, Rest) /\ UNCHANGED <<player, casts, refs>>
  BY <1>2, <1>3 DEF Typed, OnlyWatches
<1>4. CASE \E o \in inWorld :
             /\ liveCasts[o] # None
             /\ spect' = [spect EXCEPT ![p] = liveCasts[o]]
             /\ spectators' =
                  [spectators EXCEPT ![liveCasts[o]] = @ \cup {p}]
             /\ player' = [player EXCEPT ![p] = o]
             /\ refs' = [refs EXCEPT ![o] = @ + 1]
             /\ tasks' = Rest
             /\ UNCHANGED <<conn, caster, liveCasts>>
  <2> HIDE DEF p
  <2>1. PICK o \in inWorld :
             /\ liveCasts[o] # None
             /\ spect' = [spect EXCEPT ![p] = liveCasts[o]]
             /\ spectators' =
                  [spectators EXCEPT ![liveCasts[o]] = @ \cup {p}]
             /\ player' = [player EXCEPT ![p] = o]
             /\ refs' = [refs EXCEPT ![o] = @ + 1]
             /\ tasks' = Rest
             /\ UNCHANGED <<conn, caster, liveCasts>>
    BY <1>4
  <2>2. o \in PlayerObject /\ liveCasts[o] \in Protocol BY <2>1 DEF Typed
  <2>3. player' \in [Protocol -> PlayerObject \cup {None}]
    BY <1>1, <2>1, <2>2 DEF Typed
  <2>4. \A q \in Playing : player'[q] = player[q]
    BY <2>1 DEF Typed, Playing, p
  <2>5. refs' \in [PlayerObject -> Int] BY <2>1, <2>2 DEF Typed
  <2>6. /\ spectators' \in [Protocol -> SUBSET Protocol]
        /\ spect' \in [Protocol -> Protocol \cup {None}]
    BY <1>1, <2>1, <2>2 DEF Typed
  <2> QED BY <1>2, <2>1, <2>3, <2>4, <2>5, <2>6 DEF OnlyWatches, p
<1> QED BY <1>3, <1>4 DEF Spectate

LEMMA SpectateLogoutOnlyWatches ==
  ASSUME Typed, SpectateLogout, Head(tasks).protocol \in Watcher
  PROVE  OnlyWatches(Head(tasks).protocol)
<1> DEFINE p == Head(tasks).protocol
<1> USE DEF world
<1>1. p \in Protocol BY GameSessionAssumption DEF GameSessionAssumption
<1>2. /\ UNCHANGED <<timers, caster, spect, liveCasts, client, made, world>>
      /\ Disconnect({p}, Rest) /\ released' = released \cup {p}
      /\ \/ UNCHANGED <<spectators, refs, player>>
         \/ /\ spectators' = [spectators EXCEPT ![spect[p]] = @ \ {p}]
            /\ DropRefs(player[p], 1)
            /\ player' = [player EXCEPT ![p] = None]
  BY DEF SpectateLogout
<1>3. p \notin Playing BY DEF Playing
<1> HIDE DEF p
<1>4. player' \in [Protocol -> PlayerObject \cup {None}]
  BY <1>1, <1>2 DEF Typed
<1>5. \A q \in Playing : player'[q] = player[q]
  BY <1>2, <1>3 DEF Typed, Playing
<1>6. refs' \in [PlayerObject -> Int] BY <1>2, DropKeeps DEF Typed
<1>7. spectators' \in [Protocol -> SUBSET Protocol]
  <2>1. CASE spect[p] \in Protocol
    <3>1. spectators[spect[p]] \ {p} \in SUBSET Protocol BY <2>1 DEF Typed
    <3>2. CASE spectators' = spectators BY <3>2 DEF Typed
    <3>3. CASE spectators' = [spectators EXCEPT ![spect[p]] = @ \ {p}]
      BY <2>1, <3>1, <3>3 DEF Typed
    <3> QED BY <1>2, <3>2, <3>3
  <2>2. CASE spect[p] \notin Protocol
    <3>1. spectators' = spectators BY <1>2, <2>2 DEF Typed
    <3> QED BY <3>1 DEF Typed
  <2> QED BY <2>1, <2>2
<1> QED BY <1>2, <1>4, <1>5, <1>6, <1>7 DEF OnlyWatches, Typed, p

(* A spectator joins the list of one who casts.                            *)
LEMMA SpectateWatches ==
  ASSUME IInv, Spectate, ConnKept, Kept(tasks', 1),
         NEW p \in Watcher, p = Head(tasks).protocol, conn[p] # "new"
  PROVE  Watching'
<1> USE GameSessionAssumption DEF GameSessionAssumption, casts
<1>0. Typed BY DEF IInv
<1>1. CASE Disconnect({p}, Rest) /\ UNCHANGED <<player, casts>>
  <2>1. \A q \in Protocol : conn'[q] = "open" => conn[q] = "open"
    BY <1>0, <1>1, DisconnectCloses
  <2> QED BY <1>0, <1>1, <2>1, WatchingStays DEF IInv
<1>2. CASE \E o \in inWorld :
             /\ liveCasts[o] # None
             /\ spect' = [spect EXCEPT ![p] = liveCasts[o]]
             /\ spectators' =
                  [spectators EXCEPT ![liveCasts[o]] = @ \cup {p}]
             /\ player' = [player EXCEPT ![p] = o]
             /\ UNCHANGED <<conn, caster>>
  <2>1. PICK o \in inWorld :
             /\ liveCasts[o] # None
             /\ spect' = [spect EXCEPT ![p] = liveCasts[o]]
             /\ spectators' =
                  [spectators EXCEPT ![liveCasts[o]] = @ \cup {p}]
             /\ player' = [player EXCEPT ![p] = o]
             /\ UNCHANGED <<conn, caster>>
    BY <1>2
  <2>2. p \in Watcher /\ conn[p] # "new" OBVIOUS
  <2>3. o \in PlayerObject /\ liveCasts[o] \in Protocol
    BY <2>1 DEF IInv, Typed
  <2>4. caster[liveCasts[o]] BY <2>3 DEF IInv, Casting
  <2>5. OnItsList(p)'
    <3>1. spect'[p] = liveCasts[o] BY <2>1, <2>2 DEF IInv, Typed
    <3>2. p \in spectators'[liveCasts[o]] BY <2>1, <2>3 DEF IInv, Typed
    <3> QED BY <2>1, <2>3, <2>4, <3>1, <3>2 DEF OnItsList
  <2>6. ASSUME NEW q \in Watcher, q # p, OnItsList(q) PROVE OnItsList(q)'
    BY <2>1, <2>3, <2>6 DEF OnItsList, IInv, Typed
  <2>7. \A q \in Watcher : q # p => player'[q] = player[q]
    BY <2>1 DEF IInv, Typed
  <2>8. \A q \in Watcher : conn'[q] = "new" => player'[q] = None
    BY <2>1, <2>2, <2>7 DEF IInv, Watching
  <2>9. \A q \in Watcher :
          conn'[q] = "open" /\ player'[q] # None => OnItsList(q)'
    <3>1. SUFFICES ASSUME NEW q \in Watcher,
                          conn'[q] = "open" /\ player'[q] # None
                   PROVE  OnItsList(q)'
      OBVIOUS
    <3>2. q # p => OnItsList(q) BY <2>1, <2>7, <3>1 DEF IInv, Watching
    <3> QED BY <2>5, <2>6, <3>2
  <2>10. \A i \in DOMAIN tasks' :
           tasks'[i].kind = "spectate" => conn'[tasks'[i].protocol] # "new"
    <3>1. SUFFICES ASSUME NEW i \in DOMAIN tasks',
                          tasks'[i].kind = "spectate"
                   PROVE  conn'[tasks'[i].protocol] # "new"
      OBVIOUS
    <3>2. i + 1 \in DOMAIN tasks /\ tasks'[i] = tasks[i + 1]
      BY <3>1 DEF Kept
    <3> QED BY <2>1, <3>1, <3>2 DEF IInv, Watching
  <2> QED BY <2>8, <2>9, <2>10 DEF Watching
<1> QED BY <1>1, <1>2 DEF Spectate

(* A spectator leaves its list and the player at once.                     *)
LEMMA SpectateLogoutWatches ==
  ASSUME IInv, SpectateLogout, ConnKept, Kept(tasks', 1),
         NEW p \in Watcher, p = Head(tasks).protocol
  PROVE  Watching'
<1> USE GameSessionAssumption DEF GameSessionAssumption
<1>0. Typed /\ p \in Watcher BY DEF IInv
<1>1. /\ UNCHANGED <<caster, spect>> /\ Disconnect({p}, Rest)
      /\ \/ UNCHANGED <<spectators, player>>
         \/ /\ spectators' = [spectators EXCEPT ![spect[p]] = @ \ {p}]
            /\ player' = [player EXCEPT ![p] = None]
  BY DEF SpectateLogout
<1>2. \A q \in Protocol : conn'[q] = "open" => conn[q] = "open" /\ q # p
  BY <1>0, <1>1, DisconnectCloses
<1>3. ASSUME NEW q \in Watcher, q # p, OnItsList(q) PROVE OnItsList(q)'
  <2>1. spect[q] \in Protocol /\ q \in spectators[spect[q]]
    BY <1>3 DEF OnItsList
  <2>2. q \in spectators'[spect[q]]
    BY <1>0, <1>1, <1>3, <2>1 DEF Typed
  <2> QED BY <1>1, <1>3, <2>1, <2>2 DEF OnItsList
<1>4. \A q \in Watcher : player'[q] \in {player[q], None}
  BY <1>0, <1>1 DEF Typed
<1> QED BY <1>0, <1>2, <1>3, <1>4, WatchingKept DEF IInv

LEMMA SpectatingKeeps ==
  ASSUME IInv, Spectate \/ SpectateLogout PROVE IInv'
<1> PICK p : p = Head(tasks).protocol OBVIOUS
<1>0. Typed /\ Entry BY DEF IInv
<1>1. tasks # <<>> /\ Head(tasks).kind \in {"spectate", "spectatelogout"}
  BY DEF Spectate, SpectateLogout, HeadIs
<1>2. Kept(Rest, 1) /\ Head(tasks) \in TaskType BY <1>0, <1>1, KeptRest
<1>3. p \in Watcher /\ p \in Protocol
  BY <1>1, <1>2, TaskKinds, GameSessionAssumption DEF GameSessionAssumption
<1>4. OnlyWatches(p)
  BY <1>0, <1>3, SpectateOnlyWatches, SpectateLogoutOnlyWatches
<1>5. ConnKept /\ Kept(tasks', 1)
  BY <1>0, <1>2, <1>3, <1>4, DisconnectKeeps DEF ConnKept, Typed, OnlyWatches
<1>6. Entry' BY <1>0, <1>4, <1>5, EntryKept DEF OnlyWatches
<1>7. Linked' /\ WorldOK'
  BY <1>4 DEF OnlyWatches, IInv, Typed, Linked, WorldOK
<1>8. Casting'
  <2>1. \A q \in Protocol : caster[q] => player'[q] = player[q]
    BY <1>4 DEF OnlyWatches, IInv, Casting
  <2> QED BY <1>4, <2>1 DEF OnlyWatches, IInv, Casting
<1>9. Typed'
  BY <1>3, <1>4, <1>5 DEF OnlyWatches, IInv, Typed, Kept, ConnKept
<1>10. Watching'
  <2>1. CASE Spectate
    <3>1. Head(tasks).kind = "spectate" BY <2>1 DEF Spectate, HeadIs
    <3>2. Head(tasks) = tasks[1] /\ 1 \in DOMAIN tasks
      BY <1>0, <1>1 DEF Typed
    <3>3. conn[p] # "new" BY <3>1, <3>2 DEF IInv, Watching
    <3> QED BY <1>3, <1>5, <2>1, <3>3, SpectateWatches
  <2>2. CASE SpectateLogout
    BY <1>3, <1>5, <2>2, SpectateLogoutWatches
  <2> QED BY <2>1, <2>2
<1> QED BY <1>6, <1>7, <1>8, <1>9, <1>10 DEF IInv

LEMMA ShutdownKeeps ==
  ASSUME IInv, Shutdown PROVE IInv'
<1>0. Typed /\ Entry BY DEF IInv
<1>1. tasks # <<>> BY DEF Shutdown, HeadIs
<1>2. Kept(Rest, 1) BY <1>0, <1>1, KeptRest
<1>3. UNCHANGED <<timers, links, released>> BY DEF Shutdown
<1>4. CASE \E o \in inWorld : client[o] # None /\ LeaveGame(client[o], Rest)
  <2>1. PICK o \in inWorld : client[o] # None /\ LeaveGame(client[o], Rest)
    BY <1>4
  <2>2. client[o] \in Protocol BY <1>0, <2>1 DEF Typed, Playing
  <2> QED BY <1>2, <1>3, <2>1, <2>2, LeaveGameKeeps
<1>5. CASE /\ tasks' = Rest
           /\ UNCHANGED <<conn, casts, refs>>
           /\ UNCHANGED world \/ \E o \in inWorld : RemoveCreature({o})
  <2> USE DEF casts, links, world
  <2>1. ConnKept /\ Kept(tasks', 1)
    BY <1>0, <1>2, <1>5 DEF ConnKept, Typed
  <2>2. Entry' BY <1>0, <1>3, <2>1, EntryKept
  <2>3. Linked' /\ Casting' BY <1>3, <1>5 DEF IInv, Linked, Casting
  <2>4. WorldOK' /\ (inWorld \subseteq made /\ toRelease \subseteq made)'
    BY <1>3, <1>5, RemovalKeeps DEF IInv, Typed, WorldOK
  <2>5. Typed' BY <1>3, <1>5, <2>1, <2>4 DEF IInv, Typed, Kept, ConnKept
  <2>6. Watching' BY <1>3, <1>5, <2>1, WatchingStays DEF IInv
  <2> QED BY <2>2, <2>3, <2>4, <2>5, <2>6 DEF IInv
<1> QED BY <1>4, <1>5 DEF Shutdown

(* A client's first message becomes its one entry.                         *)
LEMMA FirstMessageKeeps ==
  ASSUME IInv, NEW p \in Protocol, FirstMessage(p) PROVE IInv'
<1> USE DEF links, casts, world
<1> DEFINE t == Task(IF p \in Watcher THEN "spectate" ELSE "login", p)
<1>0. Typed /\ Entry BY DEF IInv
<1>1. /\ conn[p] = "new" /\ conn' = [conn EXCEPT ![p] = "open"]
      /\ tasks' = Append(tasks, t)
      /\ UNCHANGED <<timers, gameState, links, casts, refs, world, released>>
  BY DEF FirstMessage, QueueTask
<1>2. t \in TaskType BY DEF Task, TaskType, Playing
<1>3. \A q \in Playing : Enters(t, q) => q = p BY DEF Enters, Task
<1> HIDE DEF t
<1>4. /\ tasks' \in Seq(TaskType) /\ Len(tasks') = Len(tasks) + 1
      /\ tasks'[Len(tasks')] = t
      /\ \A i \in DOMAIN tasks : i \in DOMAIN tasks' /\ tasks'[i] = tasks[i]
      /\ \A i \in DOMAIN tasks' : i \in DOMAIN tasks \/ i = Len(tasks')
  BY <1>0, <1>1, <1>2 DEF Typed
<1>5. p \in Playing =>
        /\ \A i \in DOMAIN tasks : ~Enters(tasks[i], p)
        /\ \A o \in PlayerObject : <<p, o>> \notin timers
        /\ player[p] = None
  BY <1>0, <1>1 DEF Entry, EntersWithout
<1>6. \A q \in Playing, i \in DOMAIN tasks' :
        Enters(tasks'[i], q) =>
          \/ i \in DOMAIN tasks /\ Enters(tasks[i], q) /\ q # p
          \/ i = Len(tasks') /\ q = p
  BY <1>3, <1>4, <1>5
<1>7. EntersOnce(tasks, timers)'
  <2>1. \A q \in Playing : \A i, j \in DOMAIN tasks' :
          Enters(tasks'[i], q) /\ Enters(tasks'[j], q) => i = j
    BY <1>0, <1>6 DEF Entry, EntersOnce
  <2>2. \A q \in Playing : \A i \in DOMAIN tasks', o \in PlayerObject :
          Enters(tasks'[i], q) => <<q, o>> \notin timers'
    BY <1>0, <1>1, <1>5, <1>6 DEF Entry, EntersOnce
  <2> QED BY <1>0, <1>1, <2>1, <2>2 DEF Entry, EntersOnce
<1>8. EntersWithout(tasks, timers, player, conn)'
  <2>1. \A q \in Protocol : q # p => conn'[q] = conn[q]
    BY <1>0, <1>1 DEF Typed
  <2>2. conn'[p] = "open" BY <1>0, <1>1 DEF Typed
  <2> QED BY <1>0, <1>1, <1>5, <1>6, <2>1, <2>2
          DEF Entry, EntersWithout, Playing
<1>9. Linked' /\ WorldOK' /\ Casting'
  BY <1>1 DEF IInv, Linked, WorldOK, Casting
<1>10. Typed' BY <1>1, <1>4 DEF IInv, Typed
<1>11. Watching'
  <2>1. conn'[p] = "open" /\ \A q \in Protocol : q # p => conn'[q] = conn[q]
    BY <1>0, <1>1 DEF Typed
  <2>2. t.protocol = p BY DEF t, Task
  <2>3. ASSUME NEW i \in DOMAIN tasks', tasks'[i].kind = "spectate"
        PROVE  conn'[tasks'[i].protocol] # "new"
    <3>1. CASE i = Len(tasks') BY <1>4, <2>1, <2>2, <3>1
    <3>2. CASE i \in DOMAIN tasks
      <4>1. tasks[i].kind = "spectate" BY <1>4, <2>3, <3>2
      <4>2. tasks[i].protocol \in Protocol
        BY <1>0, <3>2, <4>1, GameSessionAssumption
        DEF Typed, TaskType, GameSessionAssumption
      <4>3. conn[tasks[i].protocol] # "new"
        BY <3>2, <4>1 DEF IInv, Watching
      <4> QED BY <1>4, <2>1, <3>2, <4>2, <4>3
    <3> QED BY <1>4, <3>1, <3>2
  <2>4. \A q \in Watcher : q \in Protocol
    BY GameSessionAssumption DEF GameSessionAssumption
  <2>5. \A q \in Watcher : conn'[q] = "new" => player'[q] = None
    BY <1>1, <2>1, <2>4 DEF IInv, Watching
  <2>6. \A q \in Watcher :
          conn'[q] = "open" /\ player'[q] # None => OnItsList(q)'
    BY <1>1, <2>1, <2>4 DEF IInv, Watching, OnItsList
  <2> QED BY <2>3, <2>5, <2>6 DEF Watching
<1> QED BY <1>7, <1>8, <1>9, <1>10, <1>11 DEF IInv, Entry

(* A due connect moves from the scheduler to the front of the task list.   *)
LEMMA ConnectDueKeeps ==
  ASSUME IInv, NEW p \in Protocol, NEW o \in PlayerObject, ConnectDue(p, o)
  PROVE  IInv'
<1> USE DEF links, casts, world
<1> DEFINE t == ConnectTask(p, o)
<1>0. Typed /\ Entry BY DEF IInv
<1>1. /\ <<p, o>> \in timers /\ timers' = timers \ {<<p, o>>}
      /\ UNCHANGED <<conn, gameState, links, casts, refs, world, released>>
  BY DEF ConnectDue
<1>2. Linked' /\ WorldOK' /\ Casting'
  BY <1>1 DEF IInv, Linked, WorldOK, Casting
<1>3. CASE tasks' = tasks
  <2>1. ConnKept /\ Kept(tasks', 0) BY <1>0, <1>1, <1>3, KeptAll
    DEF ConnKept, Typed, Kept
  <2>2. Entry' BY <1>0, <1>1, <2>1, EntryKept
  <2>3. Typed' BY <1>0, <1>1, <1>3 DEF Typed
  <2>4. Watching' BY <1>0, <1>1, <2>1, WatchingStays DEF IInv
  <2> QED BY <1>2, <2>2, <2>3, <2>4 DEF IInv
<1>4. CASE tasks' = <<t>> \o tasks
  <2>1. p \in Playing BY <1>0, <1>1 DEF Typed
  <2>2. t \in TaskType BY <2>1 DEF ConnectTask, TaskType
  <2>3. \A q \in Playing : Enters(t, q) => q = p BY DEF Enters, ConnectTask
  <2> HIDE DEF t
  <2>4. /\ tasks' \in Seq(TaskType) /\ Len(tasks') = Len(tasks) + 1
        /\ tasks'[1] = t
        /\ \A i \in DOMAIN tasks' :
             i # 1 => i - 1 \in DOMAIN tasks /\ tasks'[i] = tasks[i - 1]
    BY <1>0, <1>4, <2>2 DEF Typed
  <2>5. \A i \in DOMAIN tasks' : i \in Int BY <2>4
  <2>6. /\ \A i \in DOMAIN tasks : ~Enters(tasks[i], p)
        /\ \A u \in PlayerObject : <<p, u>> \in timers => u = o
        /\ player[p] = None /\ conn[p] # "new"
    BY <1>0, <1>1, <2>1 DEF Entry, EntersOnce, EntersWithout
  <2>7. \A q \in Playing, i \in DOMAIN tasks' :
          Enters(tasks'[i], q) =>
            \/ i - 1 \in DOMAIN tasks /\ Enters(tasks[i - 1], q) /\ q # p
            \/ i = 1 /\ q = p
    BY <2>3, <2>4, <2>6
  <2>8. \A u \in PlayerObject : <<p, u>> \notin timers' BY <1>1, <2>6
  <2>9. EntersOnce(tasks, timers)'
    <3>1. ASSUME NEW q \in Playing, NEW i \in DOMAIN tasks',
                 NEW j \in DOMAIN tasks',
                 Enters(tasks'[i], q), Enters(tasks'[j], q)
          PROVE  i = j
      <4>1. CASE q = p BY <2>7, <3>1, <4>1
      <4>2. CASE q # p
        <5>1. i - 1 = j - 1
          BY <1>0, <2>7, <3>1, <4>2 DEF Entry, EntersOnce
        <5> QED BY <2>5, <5>1
      <4> QED BY <4>1, <4>2
    <3>2. \A q \in Playing : \A i \in DOMAIN tasks', u \in PlayerObject :
            Enters(tasks'[i], q) => <<q, u>> \notin timers'
      BY <1>0, <1>1, <2>7, <2>8 DEF Entry, EntersOnce
    <3> QED BY <1>0, <1>1, <3>1, <3>2 DEF Entry, EntersOnce
  <2>10. EntersWithout(tasks, timers, player, conn)'
    BY <1>0, <1>1, <2>6, <2>7, <2>8 DEF Entry, EntersWithout
  <2>11. Typed' BY <1>0, <1>1, <2>4 DEF Typed
  <2>12. t.kind # "spectate" BY DEF t, ConnectTask
  <2>13. \A i \in DOMAIN tasks' :
           tasks'[i].kind = "spectate" => conn'[tasks'[i].protocol] # "new"
    BY <1>1, <2>4, <2>12 DEF IInv, Watching
  <2>14. Watching' BY <1>1, <2>13 DEF IInv, Watching, OnItsList
  <2> QED BY <1>2, <2>9, <2>10, <2>11, <2>14 DEF IInv, Entry
<1> QED BY <1>3, <1>4 DEF ConnectDue

LEMMA QueueKeeps ==
  ASSUME Typed, NEW t \in TaskType,
         t.kind \notin {"login", "connect", "spectate"}, QueueTask(t)
  PROVE  Kept(tasks', 0)
<1>1. CASE tasks' = tasks BY <1>1 DEF Typed, Kept
<1>2. CASE tasks' = Append(tasks, t)
  <2>1. tasks' \in Seq(TaskType) BY <1>2 DEF Typed
  <2>2. \A i \in DOMAIN tasks' :
          tasks'[i] = t \/ (i + 0 \in DOMAIN tasks /\ tasks'[i] = tasks[i + 0])
    BY <1>2 DEF Typed
  <2> QED BY <2>1, <2>2 DEF Kept
<1> QED BY <1>1, <1>2 DEF QueueTask

(* A step that only closes connections and queues tasks.                   *)
LEMMA QueueOnlyKeeps ==
  ASSUME IInv, ConnKept, Kept(tasks', 0),
         \A p \in Protocol : conn'[p] = "open" => conn[p] = "open",
         UNCHANGED <<timers, links, casts, refs, world, released>>
  PROVE  IInv'
<1> USE DEF links, casts, world
<1>1. Entry' BY EntryKept DEF IInv
<1>2. Linked' /\ WorldOK' /\ Casting' BY DEF IInv, Linked, WorldOK, Casting
<1>3. Typed' BY DEF IInv, Typed, ConnKept, Kept
<1>4. Watching' BY WatchingStays DEF IInv
<1> QED BY <1>1, <1>2, <1>3, <1>4 DEF IInv

LEMMA NetworkKeeps ==
  ASSUME IInv, NEW p \in Protocol,
         LogoutPacket(p) \/ CloseConnection(p) \/ ExpireConnection(p)
  PROVE  IInv'
<1>0. Typed BY DEF IInv
<1>1. UNCHANGED <<timers, links, casts, refs, world, released>>
  BY DEF LogoutPacket, CloseConnection, ExpireConnection
<1>2. ConnKept /\ Kept(tasks', 0)
  <2>1. CASE Disconnect({p}, tasks)
    BY <1>0, <2>1, KeptAll, DisconnectKeeps
  <2>2. CASE /\ UNCHANGED conn /\ p \in Watcher
             /\ QueueTask(Task("spectatelogout", p))
    <3>1. Task("spectatelogout", p) \in TaskType BY <2>2 DEF Task, TaskType
    <3> QED BY <1>0, <2>2, <3>1, QueueKeeps DEF ConnKept, Typed, Task
  <2>3. CASE /\ UNCHANGED conn /\ p \notin Watcher
             /\ QueueTask(Task("logout", p))
    <3>1. Task("logout", p) \in TaskType BY <2>3 DEF Task, TaskType, Playing
    <3> QED BY <1>0, <2>3, <3>1, QueueKeeps DEF ConnKept, Typed, Task
  <2>4. CASE ExpireConnection(p)
    <3>1. conn[p] = "closed" /\ conn' = [conn EXCEPT ![p] = "expired"]
      BY <2>4 DEF ExpireConnection
    <3>2. Kept(tasks', 0) BY <1>0, <2>4, KeptAll DEF ExpireConnection, Kept
    <3> QED BY <1>0, <3>1, <3>2 DEF ConnKept, Typed
  <2> QED BY <2>1, <2>2, <2>3, <2>4 DEF LogoutPacket, CloseConnection
<1>3. \A q \in Protocol : conn'[q] = "open" => conn[q] = "open"
  BY <1>0, DisconnectCloses
  DEF LogoutPacket, CloseConnection, ExpireConnection, Typed
<1> QED BY <1>1, <1>2, <1>3, QueueOnlyKeeps

LEMMA ShutdownSignalKeeps ==
  ASSUME IInv, ShutdownSignal PROVE IInv'
<1>1. [kind |-> "shutdown"] \in TaskType BY DEF TaskType
<1>2. Kept(tasks', 0) BY <1>1, QueueKeeps DEF ShutdownSignal, IInv
<1>3. ConnKept BY DEF ShutdownSignal, ConnKept, IInv, Typed
<1> QED BY <1>2, <1>3, QueueOnlyKeeps DEF ShutdownSignal

(* What other tasks of the game do to a player.                            *)
LEMMA OthersKeep ==
  ASSUME IInv, NEW o \in PlayerObject, KickPlayer(o) \/ Death(o) \/ Cleanup
  PROVE  IInv'
<1>0. Typed /\ Entry BY DEF IInv
<1>1. Kept(tasks, 0) BY <1>0, KeptAll
<1>2. CASE /\ client[o] # None /\ LeaveGame(client[o], tasks)
           /\ UNCHANGED <<timers, links, released>>
  <2>1. client[o] \in Protocol BY <1>0, <1>2 DEF Typed, Playing
  <2> QED BY <1>1, <1>2, <2>1, LeaveGameKeeps
<1>3. CASE /\ RemoveCreature({o}) \/ (UNCHANGED inWorld /\ toRelease' = {})
           /\ refs' \in [PlayerObject -> Int]
           /\ UNCHANGED <<conn, tasks, timers, links, casts, released>>
  <2> USE DEF casts, links, world
  <2>1. ConnKept /\ Kept(tasks', 0)
    BY <1>0, <1>1, <1>3 DEF ConnKept, Typed, Kept
  <2>2. Entry' BY <1>0, <1>3, <2>1, EntryKept
  <2>3. Linked' /\ Casting' BY <1>3 DEF IInv, Linked, Casting
  <2>4. WorldOK' /\ (inWorld \subseteq made /\ toRelease \subseteq made)'
    BY <1>3, RemovalKeeps DEF IInv, Typed, WorldOK
  <2>5. Typed' BY <1>0, <1>3, <2>1, <2>4 DEF Typed
  <2>6. Watching' BY <1>3, <2>1, WatchingStays DEF IInv
  <2> QED BY <2>2, <2>3, <2>4, <2>5, <2>6 DEF IInv
<1>4. Cleanup => refs' \in [PlayerObject -> Int] BY <1>0 DEF Cleanup, Typed
<1>5. KickPlayer(o) \/ Death(o) =>
        \/ refs' \in [PlayerObject -> Int]
        \/ client[o] # None /\ LeaveGame(client[o], tasks)
  BY <1>0 DEF KickPlayer, Death, Typed
<1> QED BY <1>0, <1>2, <1>3, <1>4, <1>5
        DEF KickPlayer, Death, Cleanup, Typed

(* Nobody else casts the player: its client is its only one.               *)
LEMMA StartLiveCastKeeps ==
  ASSUME IInv, NEW p \in Protocol, StartLiveCast(p) PROVE IInv'
<1> DEFINE o == player[p]
<1> USE DEF links, world
<1>0. Typed /\ Entry BY DEF IInv
<1>1. /\ ~caster[p] /\ p \in Playing /\ o \in inWorld /\ o \in PlayerObject
      /\ caster' = [caster EXCEPT ![p] = TRUE]
      /\ liveCasts' = [liveCasts EXCEPT ![o] = IF @ = None THEN p ELSE @]
      /\ UNCHANGED <<conn, tasks, timers, gameState, links, spectators, spect,
                     refs, world, released>>
  BY <1>0 DEF StartLiveCast, Playing, Typed
<1> USE GameSessionAssumption DEF GameSessionAssumption
<1>2. o # None BY <1>1
<1>3. \A q \in Protocol : ~(caster[q] /\ player[q] = o)
  BY <1>1, <1>2 DEF IInv, Casting, Linked
<1>4. liveCasts[o] = None
  BY <1>0, <1>1, <1>3 DEF IInv, Typed, Casting
<1> HIDE DEF o
<1>5. Casting'
  <2>1. \A q \in Protocol : caster'[q] => q \in Playing /\ player'[q] # None
    BY <1>0, <1>1, <1>2 DEF IInv, Typed, Casting, o
  <2>2. ASSUME NEW u \in PlayerObject, NEW q \in Protocol
        PROVE  liveCasts'[u] = q <=> caster'[q] /\ player'[q] = u
    <3>1. CASE u = o
      <4>1. liveCasts'[u] = p BY <1>0, <1>1, <1>4, <3>1 DEF Typed
      <4>2. caster'[q] /\ player'[q] = u <=> q = p
        BY <1>0, <1>1, <1>3, <3>1 DEF Typed, o
      <4> QED BY <4>1, <4>2
    <3>2. CASE u # o
      <4>1. liveCasts'[u] = liveCasts[u] BY <1>0, <1>1, <3>2 DEF Typed
      <4>2. caster'[q] /\ player'[q] = u <=> caster[q] /\ player[q] = u
        BY <1>0, <1>1, <3>2 DEF Typed, o
      <4> QED BY <4>1, <4>2 DEF IInv, Casting
    <3> QED BY <3>1, <3>2
  <2> QED BY <2>1, <2>2 DEF Casting
<1>6. ConnKept /\ Kept(tasks', 0) BY <1>0, <1>1, KeptAll
  DEF ConnKept, Typed, Kept
<1>7. Entry' BY <1>0, <1>1, <1>6, EntryKept
<1>8. Linked' /\ WorldOK' BY <1>1 DEF IInv, Linked, WorldOK
<1>9. Typed' BY <1>0, <1>1 DEF Typed
<1>10. Watching'
  <2>1. \A q \in Watcher : OnItsList(q) => OnItsList(q)'
    BY <1>0, <1>1 DEF OnItsList, Typed
  <2> QED BY <1>0, <1>1, <1>6, <2>1, WatchingKept DEF IInv
<1> QED BY <1>5, <1>7, <1>8, <1>9, <1>10 DEF IInv

LEMMA StopLiveCastKeeps ==
  ASSUME IInv, NEW p \in Protocol, StopLiveCast(p) PROVE IInv'
<1> USE DEF links, world
<1>0. Typed /\ Entry BY DEF IInv
<1>1. Watchers(p) \subseteq Protocol /\ Cardinality(Watchers(p)) \in Int
  BY <1>0, CardinalityOfWatchers
<1>2. Kept(tasks, 0) BY <1>0, KeptAll
<1>3. ConnKept /\ Kept(tasks', 0)
  BY <1>0, <1>1, <1>2, DisconnectKeeps DEF StopLiveCast
<1>4. Entry' BY <1>0, <1>3, EntryKept DEF StopLiveCast
<1>5. Linked' /\ WorldOK' BY DEF StopLiveCast, IInv, Linked, WorldOK
<1>6. refs' \in [PlayerObject -> Int]
  BY <1>0, <1>1, DropKeeps DEF StopLiveCast
<1>7. Casting' BY EndCastKeeps DEF StopLiveCast
<1>8. Typed' BY <1>3, <1>6, EndCastKeeps
  DEF StopLiveCast, IInv, Typed, Kept, ConnKept
<1>9. Watching'
  <2>1. \A q \in Watcher :
          conn'[q] = "open" =>
            conn[q] = "open" /\ (OnItsList(q) => OnItsList(q)')
    BY <1>0, <1>1, EndCastWatches DEF StopLiveCast
  <2> QED BY <1>0, <1>3, <2>1, WatchingKept DEF IInv, StopLiveCast
<1> QED BY <1>4, <1>5, <1>7, <1>8, <1>9 DEF IInv

-----------------------------------------------------------------------------
(* Theorems *)

LEMMA InitIInv == Init => IInv
<1> SUFFICES ASSUME Init PROVE IInv OBVIOUS
<1> USE GameSessionAssumption DEF GameSessionAssumption, Init
<1>1. Typed BY DEF Typed
<1>2. Entry BY DEF Entry, EntersOnce, EntersWithout, Playing
<1>3. Linked /\ WorldOK BY DEF Linked, WorldOK, Playing
<1>4. Casting BY DEF Casting
<1>5. Watching BY DEF Watching, OnItsList
<1> QED BY <1>1, <1>2, <1>3, <1>4, <1>5 DEF IInv

LEMMA NextIInv == IInv /\ [Next]_vars => IInv'
<1> SUFFICES ASSUME IInv, [Next]_vars PROVE IInv' OBVIOUS
<1>1. CASE Login BY <1>1, LoginKeeps
<1>2. CASE Connect BY <1>2, ConnectKeeps
<1>3. CASE Logout BY <1>3, LogoutKeeps
<1>4. CASE Release BY <1>4, ReleaseKeeps
<1>5. CASE Spectate \/ SpectateLogout BY <1>5, SpectatingKeeps
<1>6. CASE Shutdown BY <1>6, ShutdownKeeps
<1>7. ASSUME NEW p \in Protocol,
             \/ FirstMessage(p) \/ LogoutPacket(p)
             \/ CloseConnection(p) \/ ExpireConnection(p)
             \/ StartLiveCast(p) \/ StopLiveCast(p)
      PROVE  IInv'
  BY <1>7, FirstMessageKeeps, NetworkKeeps, StartLiveCastKeeps,
     StopLiveCastKeeps
<1>8. ASSUME NEW p \in Protocol, NEW o \in PlayerObject, ConnectDue(p, o)
      PROVE  IInv'
  BY <1>8, ConnectDueKeeps
<1>9. ASSUME NEW o \in PlayerObject, KickPlayer(o) \/ Death(o)
      PROVE  IInv'
  BY <1>9, OthersKeep
<1>10. CASE Cleanup
  <2>1. PICK o \in PlayerObject : o \in toRelease
    BY <1>10 DEF Cleanup, IInv, Typed
  <2> QED BY <1>10, <2>1, OthersKeep
<1>11. CASE ShutdownSignal BY <1>11, ShutdownSignalKeeps
<1>12. CASE UNCHANGED vars
  BY <1>12 DEF vars, links, casts, world, IInv, Typed, Entry, EntersOnce,
       EntersWithout, Linked, WorldOK, Casting, Watching, OnItsList
<1> QED
  BY <1>1, <1>2, <1>3, <1>4, <1>5, <1>6, <1>7, <1>8, <1>9, <1>10, <1>11,
     <1>12
  DEF Next, DispatcherTask

(* Every reachable state of every instance satisfies the invariant.        *)
LEMMA IInvHolds == Spec => []IInv
BY InitIInv, NextIInv, PTL DEF Spec

(* login, connect and release (protocolgame.cpp) keep Player::client and   *)
(* ProtocolGame::player pointing to each other, whatever the order in      *)
(* which clients log in, are taken over, kicked and released.              *)
THEOREM ClientIsMutualHolds == Spec => []ClientIsMutual
<1>1. IInv => ClientIsMutual
  BY DEF IInv, Typed, Linked, ClientIsMutual, Playing
<1> QED BY <1>1, IInvHolds, PTL

(* login asks whether the player is online before it places a new one: a   *)
(* character is in the world at most once.                                 *)
THEOREM OneInWorldHolds == Spec => []OneInWorld
<1>1. IInv => OneInWorld
  <2> SUFFICES ASSUME IInv PROVE Cardinality(inWorld) <= 1
    BY DEF OneInWorld
  <2>1. CASE inWorld = {} BY <2>1, FS_EmptySet
  <2>2. CASE inWorld # {}
    <3>1. PICK o \in inWorld : TRUE BY <2>2
    <3>2. inWorld = {o} BY <3>1 DEF IInv, WorldOK
    <3>3. Cardinality({o}) = 1 BY FS_Singleton
    <3> QED BY <3>2, <3>3
  <2> QED BY <2>1, <2>2
<1> QED BY <1>1, IInvHolds, PTL

(* startLiveCast and stopLiveCast keep liveCasts the list of exactly those *)
(* who cast, also when the caster is kicked or released; and a spectator   *)
(* whose connection is open is among the spectators of one who casts, so   *)
(* that stopLiveCast disconnects it.                                       *)
THEOREM CastsAgreeHolds == Spec => []CastsAgree
<1>1. IInv => TypeOK
  <2> SUFFICES ASSUME IInv PROVE TypeOK OBVIOUS
  <2>1. \A i \in DOMAIN tasks :
          tasks[i].kind \in {"login", "connect", "logout", "release",
                             "spectate", "spectatelogout", "shutdown"}
    BY DEF IInv, Typed, TaskType
  <2> QED BY <2>1 DEF IInv, Typed, TypeOK, Playing
<1>2. IInv => CastsAreCasters BY DEF IInv, Typed, Casting, CastsAreCasters
<1>3. IInv => OpenWatcherIsListed
  BY DEF IInv, Watching, OnItsList, OpenWatcherIsListed
<1> QED BY <1>1, <1>2, <1>3, IInvHolds, PTL DEF CastsAgree

-----------------------------------------------------------------------------
(* The reference counter, where nobody watches *)

LEMMA NoneToDrop ==
  ASSUME IInv, Counted, NEW p \in Protocol
  PROVE  Watchers(p) = {} /\ Cardinality(Watchers(p)) = 0
BY FS_EmptySet DEF Counted, Watchers

LEMMA LeaveGameCounts ==
  ASSUME IInv, Counted, NEW p \in Protocol, NEW rest, LeaveGame(p, rest),
         UNCHANGED <<timers, links, released>>
  PROVE  Counted'
<1>1. Cardinality(Watchers(p)) = 0 BY NoneToDrop
<1>2. refs' = refs
  BY <1>1 DEF LeaveGame, DropRefs, IInv, Typed
<1>3. (inWorld \cup toRelease)' = inWorld \cup toRelease
  BY DEF LeaveGame, RemoveCreature, IInv, Typed
<1>4. \A q \in Protocol : spectators'[q] = {}
  BY DEF LeaveGame, EndCast, Counted, IInv, Typed
<1> QED BY <1>2, <1>3, <1>4 DEF Counted, links

(* A new player has its client and, once placed, the world to hold it.     *)
LEMMA NewPlayerCounts ==
  ASSUME IInv, Counted, NEW p \in Protocol, NEW o \in PlayerObject,
         NewPlayer(p, o), UNCHANGED spectators,
         \/ /\ refs' = [refs EXCEPT ![o] = 1]
            /\ UNCHANGED <<inWorld, toRelease>>
         \/ /\ refs' = [refs EXCEPT ![o] = 2]
            /\ inWorld' = inWorld \cup {o} /\ toRelease' = toRelease
  PROVE  Counted'
<1> USE GameSessionAssumption DEF GameSessionAssumption
<1>1. o \notin inWorld \cup toRelease BY DEF NewPlayer, IInv, Typed
<1>2. client'[o] = p /\ p # None BY DEF NewPlayer, IInv, Typed
<1>3. \A u \in PlayerObject \ {o} :
        /\ refs'[u] = refs[u] /\ client'[u] = client[u]
        /\ u \in (inWorld \cup toRelease)' <=> u \in inWorld \cup toRelease
  BY DEF NewPlayer, IInv, Typed
<1>4. CASE refs' = [refs EXCEPT ![o] = 1] /\ UNCHANGED <<inWorld, toRelease>>
  BY <1>1, <1>2, <1>3, <1>4 DEF Counted, IInv, Typed
<1>5. CASE /\ refs' = [refs EXCEPT ![o] = 2]
           /\ inWorld' = inWorld \cup {o} /\ toRelease' = toRelease
  BY <1>1, <1>2, <1>3, <1>5 DEF Counted, IInv, Typed
<1> QED BY <1>4, <1>5

LEMMA LoginCounts ==
  ASSUME IInv, Counted, Login PROVE Counted'
<1> DEFINE p == Head(tasks).protocol
<1> USE GameSessionAssumption DEF GameSessionAssumption, casts, links, world
<1>1. tasks # <<>> /\ Head(tasks).kind = "login" BY DEF Login, HeadIs
<1>2. Head(tasks) \in TaskType BY <1>1, KeptRest DEF IInv
<1>3. p \in Protocol /\ p # None BY <1>1, <1>2, TaskKinds DEF Playing
<1>4. UNCHANGED spectators BY DEF Login
<1>5. CASE LoginRefused(p)
  <2> HIDE DEF p
  <2>1. PICK o \in PlayerObject :
          /\ NewPlayer(p, o)
          /\ refs' = [refs EXCEPT ![o] = 1]
          /\ UNCHANGED world
    BY <1>5 DEF LoginRefused
  <2> QED BY <1>3, <1>4, <2>1, NewPlayerCounts
<1>6. CASE LoginPlaced(p)
  <2> HIDE DEF p
  <2>1. PICK o \in PlayerObject :
          /\ NewPlayer(p, o)
          /\ refs' = [refs EXCEPT ![o] = 2]
          /\ inWorld' = inWorld \cup {o} /\ toRelease' = toRelease
    BY <1>6 DEF LoginPlaced
  <2> QED BY <1>3, <1>4, <2>1, NewPlayerCounts
<1>7. CASE \E o \in inWorld : LoginOnline(p, o)
  <2>1. PICK o \in inWorld : LoginOnline(p, o) BY <1>7
  <2>2. o \in PlayerObject BY DEF IInv, Typed
  <2>3. \/ UNCHANGED <<client, refs>>
        \/ /\ client[o] = None /\ client' = [client EXCEPT ![o] = p]
           /\ refs' = [refs EXCEPT ![o] = @ + 1]
    BY <2>1 DEF LoginOnline, Attach
  <2>4. UNCHANGED <<inWorld, toRelease>> BY <2>1 DEF LoginOnline
  <2> HIDE DEF p
  <2> QED BY <1>3, <1>4, <2>2, <2>3, <2>4 DEF Counted, IInv, Typed
<1> QED BY <1>5, <1>6, <1>7 DEF Login

LEMMA ReleaseCounts ==
  ASSUME IInv, Counted, Release PROVE Counted'
<1> DEFINE p == Head(tasks).protocol
           o == player[p]
<1> USE GameSessionAssumption DEF GameSessionAssumption, world
<1>1. tasks # <<>> /\ Head(tasks).kind = "release" BY DEF Release, HeadIs
<1>2. Head(tasks) \in TaskType BY <1>1, KeptRest DEF IInv
<1>3. p \in Protocol BY <1>1, <1>2, TaskKinds
<1>4. \A q \in Protocol : spectators'[q] = {}
  BY <1>3 DEF Release, EndCast, Counted, IInv, Typed
<1>5. CASE UNCHANGED <<client, refs, world>>
  BY <1>4, <1>5 DEF Counted
<1>6. CASE /\ o # None /\ client[o] = p
           /\ client' = [client EXCEPT ![o] = None]
           /\ DropRefs(o, Cardinality(Watchers(p)) + 1)
           /\ RemoveCreature({o}) \/ UNCHANGED world
  <2> HIDE DEF p
  <2>1. o \in PlayerObject BY <1>3, <1>6 DEF IInv, Typed
  <2> HIDE DEF o
  <2>2. Cardinality(Watchers(p)) + 1 = 1 BY <1>3, NoneToDrop
  <2>3. refs' = [refs EXCEPT ![o] = @ - 1] BY <1>6, <2>2 DEF DropRefs
  <2>4. (inWorld \cup toRelease)' = inWorld \cup toRelease
    BY <1>6 DEF RemoveCreature
  <2>5. refs'[o] = refs[o] - 1 /\ client'[o] = None /\ client[o] # None
    BY <1>3, <1>6, <2>1, <2>3 DEF IInv, Typed
  <2>6. \A u \in PlayerObject \ {o} :
          refs'[u] = refs[u] /\ client'[u] = client[u]
    BY <1>6, <2>3 DEF IInv, Typed
  <2>7. ASSUME NEW u \in PlayerObject
        PROVE  refs'[u] =
                 (IF client'[u] # None THEN 1 ELSE 0)
                   + (IF u \in (inWorld \cup toRelease)' THEN 1 ELSE 0)
    <3>1. CASE u = o BY <2>1, <2>4, <2>5, <3>1 DEF Counted
    <3>2. CASE u # o BY <2>4, <2>6, <3>2 DEF Counted
    <3> QED BY <3>1, <3>2
  <2> QED BY <1>4, <2>7 DEF Counted
<1> QED BY <1>5, <1>6 DEF Release

LEMMA ConnectCounts ==
  ASSUME IInv, Counted, Connect PROVE Counted'
<1> DEFINE p == Head(tasks).protocol
           o == Head(tasks).player
<1> USE GameSessionAssumption DEF GameSessionAssumption, casts, links, world
<1>1. tasks # <<>> /\ Head(tasks).kind = "connect" BY DEF Connect, HeadIs
<1>2. Head(tasks) \in TaskType BY <1>1, KeptRest DEF IInv
<1>3. p \in Protocol /\ p # None /\ o \in PlayerObject
  BY <1>1, <1>2, TaskKinds DEF Playing
<1>4. \/ UNCHANGED <<client, refs>>
      \/ /\ client[o] = None /\ client' = [client EXCEPT ![o] = p]
         /\ refs' = [refs EXCEPT ![o] = @ + 1]
  BY DEF Connect, Attach
<1>5. UNCHANGED <<spectators, inWorld, toRelease>> BY DEF Connect
<1> HIDE DEF p, o
<1> QED BY <1>3, <1>4, <1>5 DEF Counted, IInv, Typed

LEMMA OthersCount ==
  ASSUME IInv, Counted, NEW o \in PlayerObject,
         KickPlayer(o) \/ Death(o) \/ Cleanup
  PROVE  Counted'
<1> USE DEF links, casts, world
<1>1. CASE Cleanup
  <2>1. \A u \in PlayerObject :
          ~(u \in inWorld /\ u \in toRelease) BY DEF IInv, WorldOK
  <2> QED BY <1>1, <2>1 DEF Cleanup, Counted, IInv, Typed
<1>2. CASE KickPlayer(o) /\ client[o] # None
  <2>1. client[o] \in Protocol BY <1>2 DEF IInv, Typed, Playing
  <2> QED BY <1>2, <2>1, LeaveGameCounts DEF KickPlayer
<1>3. CASE RemoveCreature({o}) /\ UNCHANGED <<client, refs, spectators>>
  <2>1. (inWorld \cup toRelease)' = inWorld \cup toRelease
    BY <1>3 DEF RemoveCreature
  <2> QED BY <1>3, <2>1 DEF Counted
<1> QED BY <1>1, <1>2, <1>3 DEF KickPlayer, Death

LEMMA ShutdownCounts ==
  ASSUME IInv, Counted, Shutdown PROVE Counted'
<1> USE DEF links, casts, world
<1>1. UNCHANGED <<timers, links, released>> BY DEF Shutdown
<1>2. CASE \E o \in inWorld : client[o] # None /\ LeaveGame(client[o], Rest)
  <2>1. PICK o \in inWorld : client[o] # None /\ LeaveGame(client[o], Rest)
    BY <1>2
  <2>2. client[o] \in Protocol BY <2>1 DEF IInv, Typed, Playing
  <2> QED BY <1>1, <2>1, <2>2, LeaveGameCounts
<1>3. CASE /\ UNCHANGED <<casts, refs>>
           /\ UNCHANGED world \/ \E o \in inWorld : RemoveCreature({o})
  <2>1. (inWorld \cup toRelease)' = inWorld \cup toRelease
    BY <1>3 DEF RemoveCreature
  <2> QED BY <1>1, <1>3, <2>1 DEF Counted
<1> QED BY <1>2, <1>3 DEF Shutdown

LEMMA NextCounted ==
  ASSUME IInv, NobodyWatches, Counted, [Next]_vars PROVE Counted'
<1> USE DEF links, casts, world
<1>1. CASE Login BY <1>1, LoginCounts
<1>2. CASE Connect BY <1>2, ConnectCounts
<1>3. CASE Logout
  <2>1. tasks # <<>> /\ Head(tasks).kind = "logout"
    BY <1>3 DEF Logout, HeadIs
  <2>2. Head(tasks).protocol \in Protocol
    BY <2>1, KeptRest, TaskKinds DEF IInv, Playing
  <2>3. CASE UNCHANGED <<casts, refs, world>>
    BY <1>3, <2>3 DEF Logout, Counted
  <2> QED BY <1>3, <2>2, <2>3, LeaveGameCounts DEF Logout
<1>4. CASE Release BY <1>4, ReleaseCounts
<1>5. CASE Spectate \/ SpectateLogout
  <2>1. tasks # <<>> /\ Head(tasks).kind \in {"spectate", "spectatelogout"}
    BY <1>5 DEF Spectate, SpectateLogout, HeadIs
  <2>2. Head(tasks).protocol \in Watcher
    BY <2>1, KeptRest, TaskKinds DEF IInv
  <2>3. conn[Head(tasks).protocol] = "new" BY <2>2 DEF NobodyWatches
  <2>4. ~Spectate
    <3>1. Head(tasks) = tasks[1] /\ 1 \in DOMAIN tasks
      BY <2>1 DEF IInv, Typed
    <3> QED BY <2>3, <3>1 DEF IInv, Watching, Spectate, HeadIs
  <2>5. player[Head(tasks).protocol] = None
    BY <2>2, <2>3 DEF IInv, Watching
  <2> QED BY <1>5, <2>4, <2>5 DEF SpectateLogout, Counted
<1>6. CASE Shutdown BY <1>6, ShutdownCounts
<1>7. ASSUME NEW p \in Protocol,
             \/ FirstMessage(p) \/ LogoutPacket(p)
             \/ CloseConnection(p) \/ ExpireConnection(p)
      PROVE  Counted'
  BY <1>7 DEF FirstMessage, LogoutPacket, CloseConnection, ExpireConnection,
     Counted
<1>8. ASSUME NEW p \in Protocol, StartLiveCast(p) PROVE Counted'
  BY <1>8 DEF StartLiveCast, Counted
<1>9. ASSUME NEW p \in Protocol, StopLiveCast(p) PROVE Counted'
  <2>1. Cardinality(Watchers(p)) = 0 BY NoneToDrop
  <2>2. refs' = refs
    BY <1>9, <2>1 DEF StopLiveCast, DropRefs, IInv, Typed
  <2>3. \A q \in Protocol : spectators'[q] = {}
    BY <1>9 DEF StopLiveCast, EndCast, Counted, IInv, Typed
  <2> QED BY <1>9, <2>2, <2>3 DEF StopLiveCast, Counted
<1>10. ASSUME NEW p \in Protocol, NEW o \in PlayerObject, ConnectDue(p, o)
       PROVE  Counted'
  BY <1>10 DEF ConnectDue, Counted
<1>11. ASSUME NEW o \in PlayerObject, KickPlayer(o) \/ Death(o)
       PROVE  Counted'
  BY <1>11, OthersCount
<1>12. CASE Cleanup
  <2>1. PICK o \in PlayerObject : o \in toRelease
    BY <1>12 DEF Cleanup, IInv, Typed
  <2> QED BY <1>12, <2>1, OthersCount
<1>13. CASE ShutdownSignal BY <1>13 DEF ShutdownSignal, Counted
<1>14. CASE UNCHANGED vars BY <1>14 DEF vars, Counted
<1> QED
  BY <1>1, <1>2, <1>3, <1>4, <1>5, <1>6, <1>7, <1>8, <1>9, <1>10, <1>11,
     <1>12, <1>13, <1>14
  DEF Next, DispatcherTask

(* No connection is ever new again.                                        *)
LEMMA NobodyWatched ==
  ASSUME IInv, [Next]_vars, NobodyWatches' PROVE NobodyWatches
<1>1. \A p \in Protocol : conn'[p] = "new" => conn[p] = "new"
  <2> USE DEF links, casts, world, IInv, Typed
  <2>1. \A p \in Protocol : \A ps, rest :
          Disconnect(ps, rest) /\ conn'[p] = "new" => conn[p] = "new"
    BY DEF Disconnect
  <2> HIDE DEF IInv, Typed
  <2>2. Typed BY DEF IInv
  <2>3. CASE DispatcherTask
    <3>1. UNCHANGED conn \/ \E ps, rest : Disconnect(ps, rest)
      BY <2>3 DEF DispatcherTask, Login, LoginRefused, LoginPlaced,
        LoginOnline, Attach, Connect, Logout, LeaveGame, Release, Spectate,
        SpectateLogout, Shutdown
    <3> QED BY <2>1, <3>1
  <2>4. ASSUME NEW p \in Protocol,
               \/ FirstMessage(p) \/ LogoutPacket(p) \/ CloseConnection(p)
               \/ ExpireConnection(p) \/ StartLiveCast(p) \/ StopLiveCast(p)
        PROVE  \A q \in Protocol : conn'[q] = "new" => conn[q] = "new"
    BY <2>1, <2>2, <2>4 DEF FirstMessage, LogoutPacket, CloseConnection,
      ExpireConnection, StartLiveCast, StopLiveCast, Typed
  <2>5. ASSUME NEW o, KickPlayer(o) \/ Death(o)
        PROVE  \A q \in Protocol : conn'[q] = "new" => conn[q] = "new"
    BY <2>1, <2>5 DEF KickPlayer, Death, LeaveGame
  <2>6. CASE \/ \E p \in Protocol, o \in PlayerObject : ConnectDue(p, o)
             \/ Cleanup \/ ShutdownSignal \/ UNCHANGED vars
    BY <2>6 DEF ConnectDue, Cleanup, ShutdownSignal, vars
  <2> QED BY <2>3, <2>4, <2>5, <2>6 DEF Next
<1> QED BY <1>1, GameSessionAssumption
        DEF NobodyWatches, GameSessionAssumption

LEMMA CountedHolds == Spec => [](IInv /\ (NobodyWatches => Counted))
<1>1. Init => IInv /\ Counted
  BY InitIInv DEF Init, Counted
<1>2. ASSUME IInv, NobodyWatches => Counted, [Next]_vars
      PROVE  IInv' /\ (NobodyWatches' => Counted')
  BY <1>2, NextIInv, NobodyWatched, NextCounted
<1> QED BY <1>1, <1>2, PTL DEF Spec

(* login, connect, release and Game::cleanup count the holders of a player *)
(* (incrementReferenceCounter, decrementReferenceCounter): its one client, *)
(* if any, and the world or the list of creatures to release.              *)
THEOREM RefsCountHoldersHolds == Spec => []RefsCountHolders
<1>1. IInv /\ (NobodyWatches => Counted) => RefsCountHolders
  <2> SUFFICES ASSUME IInv, NobodyWatches, Counted, NEW o \in made
               PROVE  refs[o] = Cardinality(Holders(o))
                        + (IF o \in inWorld \cup toRelease THEN 1 ELSE 0)
    BY DEF RefsCountHolders
  <2> USE GameSessionAssumption DEF GameSessionAssumption
  <2>1. /\ o \in PlayerObject /\ o # None
        /\ \A p \in Watcher : player[p] # o
    BY DEF IInv, Typed, NobodyWatches, Watching
  <2>2. CASE client[o] = None
    <3>1. Holders(o) = {}
      BY <2>1, <2>2 DEF Holders, IInv, Linked, Playing
    <3>2. Cardinality(Holders(o)) = 0 BY <3>1, FS_EmptySet
    <3> QED BY <2>1, <2>2, <3>2 DEF Counted
  <2>3. CASE client[o] # None
    <3>1. Holders(o) = {client[o]}
      BY <2>1, <2>3 DEF Holders, IInv, Typed, Linked, Playing
    <3>2. Cardinality({client[o]}) = 1 BY FS_Singleton
    <3> QED BY <2>1, <2>3, <3>1, <3>2 DEF Counted
  <2> QED BY <2>2, <2>3
<1> QED BY <1>1, CountedHolds, PTL

(* No client, tile or release list ever points to a player whose counter   *)
(* ran out (Creature::decrementReferenceCounter deletes it).               *)
THEOREM NothingDangles == Spec => [](NobodyWatches => ~Dangling)
<1>1. IInv /\ (NobodyWatches => Counted) => (NobodyWatches => ~Dangling)
  <2> SUFFICES ASSUME IInv, NobodyWatches, Counted, Dangling PROVE FALSE
    OBVIOUS
  <2> USE GameSessionAssumption DEF GameSessionAssumption, Freed
  <2>1. \A o \in Freed : o \notin inWorld \cup toRelease /\ client[o] = None
    BY DEF IInv, Typed, Counted
  <2>2. PICK p \in Protocol : player[p] \in Freed BY <2>1 DEF Dangling
  <2>3. player[p] # None /\ p \notin Watcher
    BY <2>2 DEF IInv, Typed, NobodyWatches, Watching
  <2> QED BY <2>1, <2>2, <2>3 DEF IInv, Linked, Playing
<1> QED BY <1>1, CountedHolds, PTL


-----------------------------------------------------------------------------
(* Entries that are erased from a list *)

Keeping(kept, list, S) ==
  kept = [n \in 0 .. Len(list) |->
            IF n = 0 THEN <<>>
            ELSE IF list[n] \in S THEN kept[n - 1]
            ELSE Append(kept[n - 1], list[n])]

LEMMA KeepingExists ==
  ASSUME NEW T, NEW list \in Seq(T), NEW S
  PROVE  Keeping(CHOOSE kept : Keeping(kept, list, S), list, S)
<1> DEFINE step(kept, n) ==
             [i \in 0 .. n |->
                IF i = 0 THEN <<>>
                ELSE IF list[i] \in S THEN kept[i - 1]
                ELSE Append(kept[i - 1], list[i])]
           N == {n \in Nat : \E kept : kept = step(kept, n)}
<1>1. 0 \in N
  <2> DEFINE f == [i \in 0 .. 0 |-> <<>>]
  <2>1. f = step(f, 0) OBVIOUS
  <2> QED BY <2>1
<1>2. ASSUME NEW n \in N PROVE n + 1 \in N
  <2>1. PICK f : f = step(f, n) BY <1>2
  <2> DEFINE g == step(f, n + 1)
  <2>2. n \in Nat BY <1>2
  <2>3. ASSUME NEW i \in 0 .. n PROVE g[i] = f[i]
    <3>1. f[i] = IF i = 0 THEN <<>>
                 ELSE IF list[i] \in S THEN f[i - 1]
                 ELSE Append(f[i - 1], list[i])
      BY <2>1, Zenon
    <3>2. i \in 0 .. n + 1 BY <2>2
    <3> QED BY <3>1, <3>2, Zenon
  <2>4. \A i \in 0 .. n + 1 : i # 0 => i - 1 \in 0 .. n BY <2>2
  <2>5. g = step(g, n + 1) BY <2>3, <2>4
  <2>6. \E h : h = step(h, n + 1)
    <3> HIDE DEF g, step
    <3> QED BY <2>5
  <2>7. n + 1 \in Nat BY <2>2
  <2> HIDE DEF step
  <2> QED BY <2>6, <2>7, Zenon
<1>3. N = Nat
  <2>1. N \in SUBSET Nat OBVIOUS
  <2> HIDE DEF N
  <2> QED BY <1>1, <1>2, <2>1, NatSetInduction
<1>4. Len(list) \in N
  <2>1. Len(list) \in Nat OBVIOUS
  <2> HIDE DEF N
  <2> QED BY <1>3, <2>1
<1>5. PICK f : f = step(f, Len(list)) BY <1>4
<1>6. Keeping(f, list, S) BY <1>5 DEF Keeping
<1> QED BY <1>6

(* What is kept stays in order: it moves up, and nothing else comes.       *)
MovedUp(r, s) ==
  /\ Len(r) <= Len(s)
  /\ \A k \in DOMAIN r : \E j \in DOMAIN s : k <= j /\ r[k] = s[j]

KeptSoFar(r, list, S, n) ==
  /\ Len(r) <= n
  /\ \A k \in 1 .. Len(r) :
       \E j \in 1 .. n : k <= j /\ r[k] = list[j] /\ list[j] \notin S
  /\ \A j \in 1 .. n :
       list[j] \notin S => \E k \in 1 .. Len(r) : r[k] = list[j]
  /\ IsInjective(list) =>
       \A k, l \in 1 .. Len(r) : r[k] = r[l] => k = l

LEMMA KeptNext ==
  ASSUME NEW T, NEW list \in Seq(T), NEW S, NEW n \in Nat, n + 1 <= Len(list),
         NEW r \in Seq(T), KeptSoFar(r, list, S, n),
         NEW x, x = IF list[n + 1] \in S THEN r ELSE Append(r, list[n + 1])
  PROVE  x \in Seq(T) /\ KeptSoFar(x, list, S, n + 1)
<1>1. list[n + 1] \in T /\ n + 1 \in DOMAIN list OBVIOUS
<1>2. 1 .. n + 1 = 1 .. n \cup {n + 1} OBVIOUS
<1>3. \A j \in 1 .. n : j \in DOMAIN list OBVIOUS
<1>4. CASE list[n + 1] \in S
  <2>1. x = r BY <1>4
  <2> QED BY <1>2, <1>4, <2>1 DEF KeptSoFar
<1>5. CASE list[n + 1] \notin S
  <2>1. /\ x \in Seq(T) /\ Len(x) = Len(r) + 1 /\ x[Len(r) + 1] = list[n + 1]
        /\ \A k \in 1 .. Len(r) : x[k] = r[k]
        /\ Len(r) \in Nat
    BY <1>1, <1>5
  <2>2. 1 .. Len(x) = 1 .. Len(r) \cup {Len(r) + 1} BY <2>1
  <2>3. Len(x) <= n + 1 BY <2>1 DEF KeptSoFar
  <2>4. \A k \in 1 .. Len(x) :
          \E j \in 1 .. n + 1 : k <= j /\ x[k] = list[j] /\ list[j] \notin S
    <3> SUFFICES ASSUME NEW k \in 1 .. Len(x)
                 PROVE  \E j \in 1 .. n + 1 :
                          k <= j /\ x[k] = list[j] /\ list[j] \notin S
      OBVIOUS
    <3>1. CASE k \in 1 .. Len(r) BY <1>2, <2>1, <3>1 DEF KeptSoFar
    <3>2. CASE k = Len(r) + 1 BY <1>2, <1>5, <2>1, <2>3, <3>2
    <3> QED BY <2>2, <3>1, <3>2
  <2>5. \A j \in 1 .. n + 1 :
          list[j] \notin S => \E k \in 1 .. Len(x) : x[k] = list[j]
    <3>1. ASSUME NEW j \in 1 .. n, list[j] \notin S
          PROVE  \E k \in 1 .. Len(x) : x[k] = list[j]
      <4>1. PICK k \in 1 .. Len(r) : r[k] = list[j] BY <3>1 DEF KeptSoFar
      <4> QED BY <2>1, <2>2, <4>1
    <3>2. Len(r) + 1 \in 1 .. Len(x) BY <2>2
    <3> QED BY <1>2, <2>1, <3>1, <3>2
  <2>6. ASSUME IsInjective(list)
        PROVE  \A k, l \in 1 .. Len(x) : x[k] = x[l] => k = l
    <3>1. \A k \in 1 .. Len(r) : r[k] # list[n + 1]
      BY <1>1, <1>3, <2>6 DEF KeptSoFar, IsInjective
    <3>2. \A k, l \in 1 .. Len(r) : r[k] = r[l] => k = l
      BY <2>6 DEF KeptSoFar
    <3> QED BY <2>1, <2>2, <3>1, <3>2
  <2> QED BY <2>1, <2>3, <2>4, <2>5, <2>6 DEF KeptSoFar
<1> QED BY <1>4, <1>5

LEMMA WithoutIs ==
  ASSUME NEW T, NEW list \in Seq(T), NEW S, NEW r, r = Without(list, S)
  PROVE  /\ r \in Seq(T) /\ Range(r) = Range(list) \ S
         /\ MovedUp(r, list) /\ (IsInjective(list) => IsInjective(r))
<1> DEFINE f == CHOOSE kept : Keeping(kept, list, S)
<1>1. Keeping(f, list, S) BY KeepingExists
<1>2. r = f[Len(list)] BY DEF Without, Keeping
<1> HIDE DEF f
<1>3. \A n \in 0 .. Len(list) :
        f[n] = IF n = 0 THEN <<>>
               ELSE IF list[n] \in S THEN f[n - 1]
               ELSE Append(f[n - 1], list[n])
  BY <1>1, Zenon DEF Keeping
<1>4. Len(list) \in Nat /\ DOMAIN list = 1 .. Len(list) OBVIOUS
<1> DEFINE N == {n \in Nat : n <= Len(list) =>
                   f[n] \in Seq(T) /\ KeptSoFar(f[n], list, S, n)}
<1>5. 0 \in N
  <2>1. f[0] = <<>> BY <1>3, <1>4
  <2>2. KeptSoFar(<<>>, list, S, 0) /\ <<>> \in Seq(T) BY DEF KeptSoFar
  <2>3. f[0] \in Seq(T) /\ KeptSoFar(f[0], list, S, 0) BY <2>1, <2>2, Zenon
  <2> QED BY <2>3
<1>6. ASSUME NEW n \in N PROVE n + 1 \in N
  <2>1. n \in Nat OBVIOUS
  <2>2. SUFFICES ASSUME n + 1 <= Len(list)
                 PROVE  /\ f[n + 1] \in Seq(T)
                        /\ KeptSoFar(f[n + 1], list, S, n + 1)
    BY <2>1
  <2>3. f[n] \in Seq(T) /\ KeptSoFar(f[n], list, S, n) BY <1>4, <2>1, <2>2
  <2>4. n + 1 \in 0 .. Len(list) /\ n + 1 # 0 /\ (n + 1) - 1 = n
    BY <1>4, <2>1, <2>2
  <2>5. f[n + 1] = IF list[n + 1] \in S THEN f[n]
                   ELSE Append(f[n], list[n + 1])
    BY <1>3, <2>4
  <2> HIDE DEF N
  <2> QED BY <2>1, <2>2, <2>3, <2>5, KeptNext
<1>7. N = Nat
  <2>1. N \in SUBSET Nat OBVIOUS
  <2> HIDE DEF N
  <2> QED BY <1>5, <1>6, <2>1, NatSetInduction
<1>8. r \in Seq(T) /\ KeptSoFar(r, list, S, Len(list)) BY <1>2, <1>4, <1>7
<1> HIDE DEF N
<1>9. DOMAIN r = 1 .. Len(r) BY <1>8
<1>10. \A k \in DOMAIN r : \E j \in DOMAIN list :
         k <= j /\ r[k] = list[j] /\ list[j] \notin S
  BY <1>4, <1>8, <1>9 DEF KeptSoFar
<1>11. \A j \in DOMAIN list :
         list[j] \notin S => \E k \in DOMAIN r : r[k] = list[j]
  BY <1>4, <1>8, <1>9 DEF KeptSoFar
<1>12. Len(r) <= Len(list) BY <1>8 DEF KeptSoFar
<1>13. Range(r) = Range(list) \ S BY <1>10, <1>11 DEF Range
<1>14. MovedUp(r, list) BY <1>10, <1>12 DEF MovedUp
<1>15. IsInjective(list) => IsInjective(r)
  BY <1>8, <1>9 DEF KeptSoFar, IsInjective
<1> QED BY <1>8, <1>13, <1>14, <1>15

(* The two lists make one line, and share no player.                       *)
LEMMA LineIs ==
  ASSUME NEW a \in Seq(Premium), NEW b \in Seq(Account \ Premium),
         NEW r, r = a \o b
  PROVE  /\ r \in Seq(Account) /\ Range(r) = Range(a) \cup Range(b)
         /\ Len(r) = Len(a) + Len(b)
         /\ \A k \in DOMAIN a : k \in DOMAIN r /\ r[k] = a[k]
         /\ \A k \in DOMAIN b : Len(a) + k \in DOMAIN r
                                /\ r[Len(a) + k] = b[k]
         /\ \A k \in DOMAIN r : k \in DOMAIN a \/ k - Len(a) \in DOMAIN b
         /\ Range(a) \subseteq Premium /\ Range(b) \cap Premium = {}
         /\ IsInjective(r) <=> IsInjective(a) /\ IsInjective(b)
<1>1. a \in Seq(Account) /\ b \in Seq(Account) BY WaitAssumption
<1>2. /\ r \in Seq(Account) /\ Len(r) = Len(a) + Len(b)
      /\ Len(a) \in Nat /\ Len(b) \in Nat
      /\ \A k \in 1 .. Len(r) :
           r[k] = IF k <= Len(a) THEN a[k] ELSE b[k - Len(a)]
  BY <1>1, ConcatProperties
<1>3. /\ DOMAIN a = 1 .. Len(a) /\ DOMAIN b = 1 .. Len(b)
      /\ DOMAIN r = 1 .. Len(a) + Len(b)
  BY <1>2
<1>4. \A k \in DOMAIN a : k \in DOMAIN r /\ r[k] = a[k] BY <1>2, <1>3
<1>5. \A k \in DOMAIN b : Len(a) + k \in DOMAIN r /\ r[Len(a) + k] = b[k]
  <2> SUFFICES ASSUME NEW k \in DOMAIN b
               PROVE  Len(a) + k \in DOMAIN r /\ r[Len(a) + k] = b[k]
    OBVIOUS
  <2>1. k \in Nat /\ k > 0 /\ k <= Len(b) BY <1>2, <1>3
  <2>2. Len(a) + k \in 1 .. Len(r) /\ ~(Len(a) + k <= Len(a))
        /\ Len(a) + k - Len(a) = k
    BY <1>2, <2>1
  <2> QED BY <1>2, <1>3, <2>2
<1>6. \A k \in DOMAIN r : k \in DOMAIN a \/ k - Len(a) \in DOMAIN b
  BY <1>2, <1>3
<1>7. \A k \in DOMAIN r : k \notin DOMAIN a => r[k] = b[k - Len(a)]
  BY <1>2, <1>3
<1>8. Range(a) \subseteq Premium BY DEF Range
<1>9. Range(b) \cap Premium = {} BY DEF Range
<1>10. Range(r) = Range(a) \cup Range(b)
  <2>1. Range(r) \subseteq Range(a) \cup Range(b)
    BY <1>4, <1>6, <1>7 DEF Range
  <2>2. Range(a) \subseteq Range(r) BY <1>4 DEF Range
  <2>3. Range(b) \subseteq Range(r) BY <1>5 DEF Range
  <2> QED BY <2>1, <2>2, <2>3
<1>11. ASSUME IsInjective(r) PROVE IsInjective(a) /\ IsInjective(b)
  <2>1. IsInjective(a) BY <1>4, <1>11 DEF IsInjective
  <2>2. ASSUME NEW k \in DOMAIN b, NEW l \in DOMAIN b, b[k] = b[l]
        PROVE  k = l
    <3>1. Len(a) + k = Len(a) + l BY <1>5, <1>11, <2>2 DEF IsInjective
    <3> QED BY <1>2, <1>3, <3>1
  <2> QED BY <2>1, <2>2 DEF IsInjective
<1>12. ASSUME IsInjective(a), IsInjective(b) PROVE IsInjective(r)
  <2>1. SUFFICES ASSUME NEW k \in DOMAIN r, NEW l \in DOMAIN r, r[k] = r[l]
                 PROVE  k = l
    BY DEF IsInjective
  <2>2. CASE k \in DOMAIN a /\ l \in DOMAIN a
    BY <1>4, <1>12, <2>1, <2>2 DEF IsInjective
  <2>3. CASE k \notin DOMAIN a /\ l \notin DOMAIN a
    <3>1. k - Len(a) = l - Len(a)
      BY <1>6, <1>7, <1>12, <2>1, <2>3 DEF IsInjective
    <3> QED BY <1>2, <1>3, <3>1
  <2>4. CASE k \in DOMAIN a /\ l \notin DOMAIN a
    BY <1>4, <1>6, <1>7, <1>8, <1>9, <2>1, <2>4 DEF Range
  <2>5. CASE k \notin DOMAIN a /\ l \in DOMAIN a
    BY <1>4, <1>6, <1>7, <1>8, <1>9, <2>1, <2>5 DEF Range
  <2> QED BY <2>2, <2>3, <2>4, <2>5
<1> QED BY <1>2, <1>4, <1>5, <1>6, <1>8, <1>9, <1>10, <1>11, <1>12

(* A player is not put back whose list did not put it back, if it is in    *)
(* the first list, or that one has not grown.                              *)
NotBack(r, s, p) ==
  \A k \in DOMAIN r : r[k] = p => \E j \in DOMAIN s : k <= j /\ s[j] = p

LEMMA SlotMovesUp ==
  ASSUME NEW a \in Seq(Premium), NEW b \in Seq(Account \ Premium),
         NEW c \in Seq(Premium), NEW d \in Seq(Account \ Premium),
         IsInjective(c \o d), NEW p, NotBack(a, c, p), NotBack(b, d, p),
         p \in Premium \/ Len(a) <= Len(c),
         NEW i \in DOMAIN (a \o b), (a \o b)[i] = p,
         NEW h \in DOMAIN (c \o d), (c \o d)[h] = p
  PROVE  i <= h
<1> DEFINE r == a \o b
           s == c \o d
<1>11. r = a \o b /\ s = c \o d OBVIOUS
<1>4. i \in DOMAIN r /\ r[i] = p /\ h \in DOMAIN s /\ s[h] = p OBVIOUS
<1>5. IsInjective(s) OBVIOUS
<1> HIDE DEF r, s
<1>1. /\ \A k \in DOMAIN a : k \in DOMAIN r /\ r[k] = a[k]
      /\ \A k \in DOMAIN b : Len(a) + k \in DOMAIN r
                             /\ r[Len(a) + k] = b[k]
      /\ \A k \in DOMAIN r : k \in DOMAIN a \/ k - Len(a) \in DOMAIN b
  <2>1. \A k \in DOMAIN a : k \in DOMAIN r /\ r[k] = a[k]
    BY <1>11, LineIs
  <2>2. \A k \in DOMAIN b : Len(a) + k \in DOMAIN r
                            /\ r[Len(a) + k] = b[k]
    BY <1>11, LineIs
  <2>3. \A k \in DOMAIN r : k \in DOMAIN a \/ k - Len(a) \in DOMAIN b
    BY <1>11, LineIs
  <2> QED BY <2>1, <2>2, <2>3
<1>2. /\ \A k \in DOMAIN c : k \in DOMAIN s /\ s[k] = c[k]
      /\ \A k \in DOMAIN d : Len(c) + k \in DOMAIN s
                             /\ s[Len(c) + k] = d[k]
  BY <1>11, LineIs
<1>3. Range(b) \cap Premium = {} BY LineIs
<1>6. r \in Seq(Account) /\ s \in Seq(Account) BY <1>11, LineIs
<1>7. \A k \in DOMAIN s : s[k] = p => k = h BY <1>4, <1>5 DEF IsInjective
<1>8. i \in Nat /\ Len(a) \in Nat /\ Len(c) \in Nat BY <1>4, <1>6
<1>9. CASE i \in DOMAIN a
  <2>1. PICK j \in DOMAIN c : i <= j /\ c[j] = p
    BY <1>1, <1>4, <1>9 DEF NotBack
  <2> QED BY <1>2, <1>7, <2>1
<1>10. CASE i \notin DOMAIN a
  <2>1. i - Len(a) \in DOMAIN b BY <1>1, <1>4, <1>10
  <2>2. Len(a) + (i - Len(a)) = i BY <1>8
  <2>3. b[i - Len(a)] = p BY <1>1, <1>4, <2>1, <2>2
  <2>4. p \notin Premium BY <1>3, <2>1, <2>3 DEF Range
  <2>5. PICK j \in DOMAIN d : i - Len(a) <= j /\ d[j] = p
    BY <2>1, <2>3 DEF NotBack
  <2>6. Len(c) + j = h BY <1>2, <1>7, <2>5
  <2>7. j \in Nat OBVIOUS
  <2> QED BY <1>8, <2>4, <2>5, <2>6, <2>7
<1> QED BY <1>9, <1>10

LEMMA MovedUpIsNotBack ==
  ASSUME NEW r, NEW s, NEW p, MovedUp(r, s) PROVE NotBack(r, s, p)
BY DEF MovedUp, NotBack

LEMMA MovedUpTwice ==
  ASSUME NEW T, NEW q \in Seq(T), NEW r \in Seq(T), NEW s \in Seq(T),
         MovedUp(q, r), MovedUp(r, s)
  PROVE  MovedUp(q, s)
<1>1. Len(q) <= Len(s) BY DEF MovedUp
<1>2. ASSUME NEW k \in DOMAIN q
      PROVE  \E j \in DOMAIN s : k <= j /\ q[k] = s[j]
  <2>1. PICK i \in DOMAIN r : k <= i /\ q[k] = r[i] BY DEF MovedUp
  <2>2. PICK j \in DOMAIN s : i <= j /\ r[i] = s[j] BY DEF MovedUp
  <2>3. k \in Nat /\ i \in Nat /\ j \in Nat OBVIOUS
  <2> QED BY <2>1, <2>2, <2>3
<1> QED BY <1>1, <1>2 DEF MovedUp

LEMMA AppendIsNotBack ==
  ASSUME NEW T, NEW r \in Seq(T), NEW s, NEW p, NEW q \in T, p # q,
         MovedUp(r, s)
  PROVE  NotBack(Append(r, q), s, p)
<1> DEFINE t == Append(r, q)
<1>1. /\ Len(t) = Len(r) + 1 /\ t[Len(r) + 1] = q /\ Len(r) \in Nat
      /\ DOMAIN t = 1 .. Len(r) + 1 /\ DOMAIN r = 1 .. Len(r)
      /\ \A k \in 1 .. Len(r) : t[k] = r[k]
  OBVIOUS
<1>2. 1 .. Len(r) + 1 = 1 .. Len(r) \cup {Len(r) + 1} BY <1>1
<1> HIDE DEF t
<1>3. NotBack(t, s, p) BY <1>1, <1>2 DEF MovedUp, NotBack
<1> QED BY <1>3 DEF t

LEMMA AppendIs ==
  ASSUME NEW T, NEW r \in Seq(T), NEW q \in T
  PROVE  /\ Append(r, q) \in Seq(T)
         /\ Range(Append(r, q)) = Range(r) \cup {q}
         /\ IsInjective(r) /\ q \notin Range(r) => IsInjective(Append(r, q))
<1> DEFINE t == Append(r, q)
<1>1. /\ t \in Seq(T) /\ Len(t) = Len(r) + 1
      /\ t[Len(r) + 1] = q /\ Len(r) \in Nat
      /\ DOMAIN t = 1 .. Len(r) + 1 /\ DOMAIN r = 1 .. Len(r)
      /\ \A k \in 1 .. Len(r) : t[k] = r[k]
  OBVIOUS
<1>2. 1 .. Len(r) + 1 = 1 .. Len(r) \cup {Len(r) + 1} BY <1>1
<1> HIDE DEF t
<1>3. Range(t) = Range(r) \cup {q} BY <1>1, <1>2 DEF Range
<1>4. IsInjective(r) /\ q \notin Range(r) => IsInjective(t)
  BY <1>1, <1>2 DEF IsInjective, Range
<1> QED BY <1>1, <1>3, <1>4 DEF t

-----------------------------------------------------------------------------
(* The order of the waiting list *)

(* Nobody who plays, or need not wait, waits; and nobody waits twice.      *)
LinesAgree(a, b, playing) ==
  /\ a \in Seq(Premium) /\ b \in Seq(Account \ Premium)
  /\ IsInjective(a) /\ IsInjective(b)
  /\ (Range(a) \cup Range(b)) \cap (playing \cup AlwaysLogin) = {}
  /\ MaxPlayers = 0 => a = <<>> /\ b = <<>>

WaitIInv == WaitTypeOK /\ LinesAgree(priorityWaitList, waitList, inGame)

Expired == {p \in Account : timeout[p] = now}

NotPutBack ==
  \A p \in Account :
    Listed(p) /\ Listed(p)' =>
      \/ Slot(p)' <= Slot(p)
      \/ timeout[p] = now
      \/ p \notin Premium /\ Len(priorityWaitList') > Len(priorityWaitList)

NotOvertaken ==
  \A p \in Account \ AlwaysLogin :
    answer'.who = {p} /\ answer'.admitted /\ MaxPlayers # 0 =>
      Cardinality(inGame) + 1 + answer'.ahead <= MaxPlayers

LEMMA WaitingIs ==
  ASSUME WaitIInv
  PROVE  /\ Waiting \in Seq(Account) /\ IsInjective(Waiting)
         /\ Range(Waiting) = Range(priorityWaitList) \cup Range(waitList)
         /\ Range(priorityWaitList) \subseteq Premium
         /\ Range(waitList) \cap Premium = {}
BY LineIs DEF WaitIInv, LinesAgree, Waiting

LEMMA SlotsMoveUp ==
  ASSUME WaitIInv, priorityWaitList' \in Seq(Premium),
         waitList' \in Seq(Account \ Premium),
         NEW p \in Account, Listed(p), Listed(p)',
         NotBack(priorityWaitList', priorityWaitList, p),
         NotBack(waitList', waitList, p),
         p \in Premium \/ Len(priorityWaitList') <= Len(priorityWaitList)
  PROVE  Slot(p)' <= Slot(p)
<1>1. PICK h \in DOMAIN Waiting : Waiting[h] = p BY DEF Listed, Range
<1>2. PICK i \in DOMAIN Waiting' : Waiting'[i] = p BY DEF Listed, Range
<1>3. Slot(p) \in DOMAIN Waiting /\ Waiting[Slot(p)] = p BY <1>1 DEF Slot
<1>4. Slot(p)' \in DOMAIN Waiting' /\ Waiting'[Slot(p)'] = p
  BY <1>2 DEF Slot
<1>5. IsInjective(Waiting) BY WaitingIs
<1>6. Waiting = priorityWaitList \o waitList
      /\ Waiting' = priorityWaitList' \o waitList'
  BY DEF Waiting
<1>7. priorityWaitList \in Seq(Premium)
      /\ waitList \in Seq(Account \ Premium)
  BY DEF WaitIInv, LinesAgree
<1> QED BY <1>3, <1>4, <1>5, <1>6, <1>7, SlotMovesUp

LEMMA CleanedIs ==
  ASSUME WaitIInv, NEW a, a = cleanupList(priorityWaitList),
         NEW b, b = cleanupList(waitList)
  PROVE  /\ LinesAgree(a, b, inGame)
         /\ Range(a) = Range(priorityWaitList) \ Expired
         /\ Range(b) = Range(waitList) \ Expired
         /\ MovedUp(a, priorityWaitList) /\ MovedUp(b, waitList)
<1>1. /\ priorityWaitList \in Seq(Premium) /\ IsInjective(priorityWaitList)
      /\ waitList \in Seq(Account \ Premium) /\ IsInjective(waitList)
  BY DEF WaitIInv, LinesAgree
<1>2. a = Without(priorityWaitList, Expired) /\ b = Without(waitList, Expired)
  BY DEF cleanupList, Expired
<1>3. /\ a \in Seq(Premium) /\ IsInjective(a)
      /\ Range(a) = Range(priorityWaitList) \ Expired
      /\ MovedUp(a, priorityWaitList)
  BY <1>1, <1>2, WithoutIs
<1>4. /\ b \in Seq(Account \ Premium) /\ IsInjective(b)
      /\ Range(b) = Range(waitList) \ Expired
      /\ MovedUp(b, waitList)
  BY <1>1, <1>2, WithoutIs
<1>5. MaxPlayers = 0 => a = <<>> /\ b = <<>>
  <2>1. ASSUME MaxPlayers = 0 PROVE Len(a) = 0 /\ Len(b) = 0
    <3>1. priorityWaitList = <<>> /\ waitList = <<>>
      BY <2>1 DEF WaitIInv, LinesAgree
    <3>2. Len(a) <= 0 /\ Len(b) <= 0 BY <1>3, <1>4, <3>1 DEF MovedUp
    <3> QED BY <1>3, <1>4, <3>2
  <2> QED BY <1>3, <1>4, <2>1
<1> QED BY <1>3, <1>4, <1>5 DEF WaitIInv, LinesAgree

LEMMA TimeoutIsNat ==
  ASSUME NEW slot \in Nat PROVE getTimeout(slot) \in Nat
<1>1. getTime(slot) \in Nat
  <2>1. CASE slot < 5 BY <2>1 DEF getTime
  <2>2. CASE ~(slot < 5) /\ slot < 10 BY <2>2 DEF getTime
  <2>3. CASE ~(slot < 10) /\ slot < 20 BY <2>3 DEF getTime
  <2>4. CASE ~(slot < 20) /\ slot < 50 BY <2>4 DEF getTime
  <2>5. CASE ~(slot < 50) BY <2>5 DEF getTime
  <2> QED BY <2>1, <2>2, <2>3, <2>4, <2>5
<1> QED BY <1>1 DEF getTimeout

LEMMA InGameIsCounted ==
  ASSUME WaitIInv PROVE Cardinality(inGame) \in Nat
BY WaitAssumption, FS_Subset, FS_CardinalityType DEF WaitIInv, WaitTypeOK

(* What leaves the lists alone puts nobody back.                           *)
LEMMA ListsStay ==
  ASSUME WaitIInv, UNCHANGED <<priorityWaitList, waitList>> PROVE NotPutBack
<1> SUFFICES ASSUME NEW p \in Account, Listed(p), Listed(p)'
             PROVE  Slot(p)' <= Slot(p)
  BY DEF NotPutBack
<1>1. Slot(p)' = Slot(p) BY DEF Slot, Waiting
<1>2. \E h \in DOMAIN Waiting : Waiting[h] = p BY DEF Listed, Range
<1>3. Slot(p) \in DOMAIN Waiting BY <1>2 DEF Slot
<1>4. Slot(p) \in Nat BY <1>3, WaitingIs
<1> QED BY <1>1, <1>4

LEMMA AtOnceKeeps ==
  ASSUME WaitIInv, NEW p \in Account, LoginAtOnce(p)
  PROVE  WaitIInv' /\ NotPutBack /\ NotOvertaken
<1>1. /\ FastPath(p) /\ inGame' \in {inGame, inGame \cup {p}}
      /\ answer' = [who |-> {p}, admitted |-> TRUE, ahead |-> 0]
      /\ UNCHANGED <<priorityWaitList, waitList, timeout, now>>
  BY DEF LoginAtOnce, Enter
<1>2. NotPutBack BY <1>1, ListsStay
<1>3. \/ p \in AlwaysLogin
      \/ priorityWaitList = <<>> /\ waitList = <<>>
  <2>1. CASE p \in AlwaysLogin BY <2>1
  <2>2. CASE MaxPlayers = 0 BY <2>2 DEF WaitIInv, LinesAgree
  <2>3. CASE Waiting = <<>>
    <3>1. Range(priorityWaitList) \cup Range(waitList) = {}
      BY <2>3, WaitingIs DEF Range
    <3>2. priorityWaitList \in Seq(Premium)
          /\ waitList \in Seq(Account \ Premium)
      BY DEF WaitIInv, LinesAgree
    <3>3. Len(priorityWaitList) = 0 /\ Len(waitList) = 0
      <4>1. ASSUME Len(priorityWaitList) # 0 PROVE FALSE
        <5>1. 1 \in DOMAIN priorityWaitList BY <3>2, <4>1
        <5> QED BY <3>1, <5>1 DEF Range
      <4>2. ASSUME Len(waitList) # 0 PROVE FALSE
        <5>1. 1 \in DOMAIN waitList BY <3>2, <4>2
        <5> QED BY <3>1, <5>1 DEF Range
      <4> QED BY <4>1, <4>2
    <3> QED BY <3>2, <3>3
  <2> QED BY <1>1, <2>1, <2>2, <2>3 DEF FastPath
<1>4. p \notin Range(priorityWaitList) \cup Range(waitList)
  <2>1. CASE p \in AlwaysLogin BY <2>1 DEF WaitIInv, LinesAgree
  <2>2. CASE priorityWaitList = <<>> /\ waitList = <<>> BY <2>2 DEF Range
  <2> QED BY <1>3, <2>1, <2>2
<1>5. LinesAgree(priorityWaitList, waitList, inGame')
  BY <1>1, <1>4 DEF WaitIInv, LinesAgree
<1>6. WaitTypeOK' BY <1>1 DEF WaitIInv, WaitTypeOK
<1>7. NotOvertaken
  <2> SUFFICES ASSUME NEW q \in Account \ AlwaysLogin, answer'.who = {q},
                      MaxPlayers # 0
               PROVE  Cardinality(inGame) + 1 + answer'.ahead <= MaxPlayers
    BY DEF NotOvertaken
  <2>1. q = p /\ answer'.ahead = 0 BY <1>1
  <2>2. Cardinality(inGame) < MaxPlayers BY <1>1, <2>1 DEF FastPath
  <2> QED BY <2>1, <2>2, InGameIsCounted, WaitAssumption
<1> QED BY <1>1, <1>2, <1>5, <1>6, <1>7 DEF WaitIInv

LEMMA FromListKeeps ==
  ASSUME WaitIInv, NEW p \in Account, LoginFromList(p)
  PROVE  WaitIInv' /\ NotPutBack /\ NotOvertaken
<1> DEFINE a == cleanupList(priorityWaitList)
           b == cleanupList(waitList)
<1>1. PICK slot \in DOMAIN (a \o b) :
        /\ (a \o b)[slot] = p
        /\ IF Cardinality(inGame) + slot <= MaxPlayers
           THEN /\ priorityWaitList' = Without(a, {p})
                /\ waitList' = Without(b, {p})
                /\ Enter(p)
                /\ UNCHANGED timeout
                /\ answer' = [who |-> {p}, admitted |-> TRUE,
                              ahead |-> slot - 1]
           ELSE /\ timeout' = [timeout EXCEPT ![p] = now + getTimeout(slot)]
                /\ priorityWaitList' = a
                /\ waitList' = b
                /\ UNCHANGED inGame
                /\ answer' = [who |-> {p}, admitted |-> FALSE,
                              ahead |-> slot - 1]
  BY DEF LoginFromList
<1>2. UNCHANGED now /\ ~FastPath(p) BY DEF LoginFromList
<1>3. /\ LinesAgree(a, b, inGame)
      /\ MovedUp(a, priorityWaitList) /\ MovedUp(b, waitList)
  BY CleanedIs
<1> HIDE DEF a, b
<1>4. /\ a \in Seq(Premium) /\ b \in Seq(Account \ Premium)
      /\ IsInjective(a) /\ IsInjective(b)
  BY <1>3 DEF LinesAgree
<1>5. /\ priorityWaitList \in Seq(Premium)
      /\ waitList \in Seq(Account \ Premium)
  BY DEF WaitIInv, LinesAgree
<1>6. slot \in Nat /\ slot - 1 \in Nat
  <2>1. a \o b \in Seq(Account) BY <1>4, LineIs
  <2> QED BY <2>1
<1>7. MaxPlayers # 0 /\ p \notin AlwaysLogin BY <1>2 DEF FastPath
<1>8. CASE Cardinality(inGame) + slot <= MaxPlayers
  <2>1. /\ priorityWaitList' = Without(a, {p}) /\ waitList' = Without(b, {p})
        /\ inGame' \in {inGame, inGame \cup {p}} /\ timeout' = timeout
        /\ answer' = [who |-> {p}, admitted |-> TRUE, ahead |-> slot - 1]
    BY <1>1, <1>8 DEF Enter
  <2>2. /\ priorityWaitList' \in Seq(Premium)
        /\ IsInjective(priorityWaitList')
        /\ Range(priorityWaitList') = Range(a) \ {p}
        /\ MovedUp(priorityWaitList', a)
    BY <1>4, <2>1, WithoutIs
  <2>3. /\ waitList' \in Seq(Account \ Premium)
        /\ IsInjective(waitList')
        /\ Range(waitList') = Range(b) \ {p}
        /\ MovedUp(waitList', b)
    BY <1>4, <2>1, WithoutIs
  <2>4. LinesAgree(priorityWaitList', waitList', inGame')
    BY <1>3, <1>7, <2>1, <2>2, <2>3 DEF LinesAgree
  <2>5. WaitTypeOK'
    BY <1>2, <1>6, <2>1, <2>2, <2>3 DEF WaitIInv, WaitTypeOK
  <2>6. MovedUp(priorityWaitList', priorityWaitList)
    BY <1>3, <1>4, <1>5, <2>2, MovedUpTwice
  <2>7. MovedUp(waitList', waitList)
    BY <1>3, <1>4, <1>5, <2>3, MovedUpTwice
  <2>8. NotPutBack
    BY <2>2, <2>3, <2>6, <2>7, MovedUpIsNotBack, SlotsMoveUp
    DEF NotPutBack, MovedUp
  <2>9. NotOvertaken
    BY <1>6, <1>8, <2>1, InGameIsCounted, WaitAssumption DEF NotOvertaken
  <2> QED BY <2>4, <2>5, <2>8, <2>9 DEF WaitIInv
<1>9. CASE ~(Cardinality(inGame) + slot <= MaxPlayers)
  <2>1. /\ priorityWaitList' = a /\ waitList' = b /\ inGame' = inGame
        /\ timeout' = [timeout EXCEPT ![p] = now + getTimeout(slot)]
        /\ answer' = [who |-> {p}, admitted |-> FALSE, ahead |-> slot - 1]
    BY <1>1, <1>9
  <2>2. WaitTypeOK'
    <3>1. now \in Nat BY DEF WaitIInv, WaitTypeOK
    <3>2. getTimeout(slot) \in Nat BY <1>6, TimeoutIsNat
    <3>3. now + getTimeout(slot) \in Nat BY <3>1, <3>2
    <3> QED BY <1>2, <1>4, <1>6, <2>1, <3>3 DEF WaitIInv, WaitTypeOK
  <2>3. NotPutBack
    BY <1>3, <1>4, <2>1, MovedUpIsNotBack, SlotsMoveUp
    DEF NotPutBack, MovedUp
  <2>4. NotOvertaken BY <2>1 DEF NotOvertaken
  <2> QED BY <1>3, <2>1, <2>2, <2>3, <2>4 DEF WaitIInv
<1> QED BY <1>8, <1>9

LEMMA JoinKeepsOrder ==
  ASSUME WaitIInv, NEW q \in Account, JoinList(q)
  PROVE  WaitIInv' /\ NotPutBack /\ NotOvertaken
<1> DEFINE a == cleanupList(priorityWaitList)
           b == cleanupList(waitList)
<1>1. /\ q \notin Range(a \o b) /\ q \notin inGame /\ ~FastPath(q)
      /\ IF q \in Premium
         THEN priorityWaitList' = Append(a, q) /\ waitList' = b
         ELSE priorityWaitList' = a /\ waitList' = Append(b, q)
      /\ answer' = [who |-> {q}, admitted |-> FALSE, ahead |-> 0]
      /\ UNCHANGED <<inGame, now>>
  BY DEF JoinList
<1>2. PICK slot \in JoinSlot :
        timeout' = [timeout EXCEPT ![q] = now + getTimeout(slot)]
  BY DEF JoinList
<1>3. /\ LinesAgree(a, b, inGame)
      /\ Range(a) = Range(priorityWaitList) \ Expired
      /\ Range(b) = Range(waitList) \ Expired
      /\ MovedUp(a, priorityWaitList) /\ MovedUp(b, waitList)
  BY CleanedIs
<1> HIDE DEF a, b
<1>4. /\ a \in Seq(Premium) /\ b \in Seq(Account \ Premium)
      /\ IsInjective(a) /\ IsInjective(b)
  BY <1>3 DEF LinesAgree
<1>5. q \notin Range(a) /\ q \notin Range(b)
  <2> DEFINE c == a \o b
  <2>1. q \notin Range(c) BY <1>1
  <2>2. Range(c) = Range(a) \cup Range(b) BY <1>4, LineIs
  <2> HIDE DEF c
  <2> QED BY <2>1, <2>2
<1>6. MaxPlayers # 0 /\ q \notin AlwaysLogin BY <1>1 DEF FastPath
<1>7. now + getTimeout(slot) \in Nat
  <2>1. now \in Nat BY DEF WaitIInv, WaitTypeOK
  <2>2. getTimeout(slot) \in Nat BY WaitAssumption, TimeoutIsNat
  <2> QED BY <2>1, <2>2
<1>8. timeout' \in [Account -> Nat] BY <1>2, <1>7 DEF WaitIInv, WaitTypeOK
<1>9. NotOvertaken BY <1>1 DEF NotOvertaken
<1>10. ASSUME Listed(q) PROVE timeout[q] = now
  BY <1>3, <1>5, <1>10, WaitingIs DEF Listed, Expired
<1>11. CASE q \in Premium
  <2>1. priorityWaitList' = Append(a, q) /\ waitList' = b BY <1>1, <1>11
  <2>2. /\ priorityWaitList' \in Seq(Premium)
        /\ Range(priorityWaitList') = Range(a) \cup {q}
        /\ IsInjective(priorityWaitList')
    <3>1. /\ Append(a, q) \in Seq(Premium)
          /\ Range(Append(a, q)) = Range(a) \cup {q}
          /\ IsInjective(Append(a, q))
      <4>1. a \in Seq(Premium) /\ q \in Premium BY <1>4, <1>11
      <4>2. Append(a, q) \in Seq(Premium) BY <4>1
      <4>3. Range(Append(a, q)) = Range(a) \cup {q} BY <4>1, AppendIs
      <4>4. IsInjective(Append(a, q)) BY <1>4, <1>5, <4>1, AppendIs
      <4> QED BY <4>2, <4>3, <4>4
    <3> QED BY <2>1, <3>1, Zenon
  <2>3. LinesAgree(priorityWaitList', waitList', inGame')
    BY <1>1, <1>3, <1>6, <2>1, <2>2 DEF LinesAgree
  <2>4. WaitTypeOK'
    BY <1>1, <1>4, <1>8, <2>1, <2>2 DEF WaitIInv, WaitTypeOK
  <2>5. ASSUME NEW p \in Account, Listed(p), Listed(p)', p # q,
               p \in Premium \/ Len(priorityWaitList')
                                  <= Len(priorityWaitList)
        PROVE  Slot(p)' <= Slot(p)
    <3>1. NotBack(priorityWaitList', priorityWaitList, p)
      BY <1>3, <1>4, <1>11, <2>1, <2>5, AppendIsNotBack
    <3>2. NotBack(waitList', waitList, p)
      BY <1>3, <2>1, MovedUpIsNotBack
    <3> QED BY <1>4, <2>1, <2>2, <2>5, <3>1, <3>2, SlotsMoveUp
  <2>6. Len(priorityWaitList') \in Nat /\ Len(priorityWaitList) \in Nat
    BY <2>2 DEF WaitIInv, LinesAgree
  <2>7. NotPutBack BY <1>10, <2>5, <2>6 DEF NotPutBack
  <2> QED BY <1>9, <2>3, <2>4, <2>7 DEF WaitIInv
<1>12. CASE q \notin Premium
  <2>1. priorityWaitList' = a /\ waitList' = Append(b, q) BY <1>1, <1>12
  <2>2. /\ waitList' \in Seq(Account \ Premium)
        /\ Range(waitList') = Range(b) \cup {q}
        /\ IsInjective(waitList')
    <3>1. q \in Account \ Premium BY <1>12
    <3>2. /\ Append(b, q) \in Seq(Account \ Premium)
          /\ Range(Append(b, q)) = Range(b) \cup {q}
          /\ IsInjective(Append(b, q))
      <4>1. Append(b, q) \in Seq(Account \ Premium) BY <1>4, <3>1
      <4>2. Range(Append(b, q)) = Range(b) \cup {q} BY <1>4, <3>1, AppendIs
      <4>3. IsInjective(Append(b, q)) BY <1>4, <1>5, <3>1, AppendIs
      <4> QED BY <4>1, <4>2, <4>3
    <3> QED BY <2>1, <3>2, Zenon
  <2>3. LinesAgree(priorityWaitList', waitList', inGame')
    BY <1>1, <1>3, <1>6, <2>1, <2>2 DEF LinesAgree
  <2>4. WaitTypeOK'
    BY <1>1, <1>4, <1>8, <2>1, <2>2 DEF WaitIInv, WaitTypeOK
  <2>5. ASSUME NEW p \in Account, Listed(p), Listed(p)', p # q
        PROVE  Slot(p)' <= Slot(p)
    <3>1. NotBack(waitList', waitList, p)
      BY <1>3, <1>4, <1>12, <2>1, <2>5, AppendIsNotBack
    <3>2. NotBack(priorityWaitList', priorityWaitList, p)
      BY <1>3, <2>1, MovedUpIsNotBack
    <3>3. Len(priorityWaitList') <= Len(priorityWaitList)
      BY <1>3, <2>1 DEF MovedUp
    <3> QED BY <1>4, <2>1, <2>2, <2>5, <3>1, <3>2, <3>3, SlotsMoveUp
  <2>6. NotPutBack BY <1>10, <2>5 DEF NotPutBack
  <2> QED BY <1>9, <2>3, <2>4, <2>6 DEF WaitIInv
<1> QED BY <1>11, <1>12

LEMMA WaitNextKeeps ==
  ASSUME WaitIInv, [WaitNext]_waitVars
  PROVE  WaitIInv' /\ [NotPutBack]_waitVars /\ [NotOvertaken]_waitVars
<1>1. ASSUME NEW p \in Account, clientLogin(p)
      PROVE  WaitIInv' /\ NotPutBack /\ NotOvertaken
  BY <1>1, AtOnceKeeps, FromListKeeps, JoinKeepsOrder DEF clientLogin
<1>2. ASSUME NEW p \in Account, GoOffline(p)
      PROVE  WaitIInv' /\ NotPutBack /\ NotOvertaken
  <2>1. /\ inGame' = inGame \ {p} /\ answer' = NoAnswer
        /\ UNCHANGED <<priorityWaitList, waitList, timeout, now>>
    BY <1>2 DEF GoOffline
  <2>2. WaitTypeOK' BY <2>1 DEF WaitIInv, WaitTypeOK, NoAnswer
  <2>3. LinesAgree(priorityWaitList, waitList, inGame')
    BY <2>1 DEF WaitIInv, LinesAgree
  <2>4. NotOvertaken BY <2>1 DEF NotOvertaken, NoAnswer
  <2> QED BY <2>1, <2>2, <2>3, <2>4, ListsStay DEF WaitIInv
<1>3. CASE PassTime
  <2>1. /\ now' = now + 1 /\ answer' = NoAnswer
        /\ UNCHANGED <<priorityWaitList, waitList, timeout, inGame>>
    BY <1>3 DEF PassTime
  <2>2. WaitTypeOK' BY <2>1 DEF WaitIInv, WaitTypeOK, NoAnswer
  <2>3. NotOvertaken BY <2>1 DEF NotOvertaken, NoAnswer
  <2> QED BY <2>1, <2>2, <2>3, ListsStay DEF WaitIInv
<1>4. CASE UNCHANGED waitVars
  BY <1>4 DEF waitVars, WaitIInv, WaitTypeOK
<1> QED BY <1>1, <1>2, <1>3, <1>4 DEF WaitNext

LEMMA WaitInitIInv == WaitInit => WaitIInv
<1> SUFFICES ASSUME WaitInit PROVE WaitIInv
  OBVIOUS
<1>1. Range(<<>>) = {} /\ IsInjective(<<>>) BY DEF Range, IsInjective
<1>2. LinesAgree(<<>>, <<>>, {}) BY <1>1 DEF LinesAgree
<1> QED BY <1>2 DEF WaitInit, WaitIInv, WaitTypeOK, NoAnswer

LEMMA WaitIInvSound == WaitIInv => WaitTypeOK /\ WaitsOnce
<1> SUFFICES ASSUME WaitIInv PROVE WaitTypeOK /\ WaitsOnce
  OBVIOUS
<1>1. \A p \in inGame : ~ Listed(p)
  BY WaitingIs DEF WaitIInv, LinesAgree, Listed
<1> QED BY <1>1, WaitingIs DEF WaitsOnce, WaitIInv

(* Nobody waits twice or while it plays, whoever is let in leaves room for *)
(* all in front of it, and nobody's place in the line grows but by the     *)
(* premium players who join and by its own delay (clientLogin,             *)
(* cleanupList).                                                           *)
THEOREM WaitsInTurnHolds == WaitSpec => WaitsInTurn
<1>1. WaitSpec => []WaitIInv
  BY WaitInitIInv, WaitNextKeeps, PTL DEF WaitSpec
<1>2. WaitIInv /\ [WaitNext]_waitVars => [NotPutBack]_waitVars
  BY WaitNextKeeps
<1>3. WaitIInv /\ [WaitNext]_waitVars => [NotOvertaken]_waitVars
  BY WaitNextKeeps
<1>4. WaitSpec => [][NotPutBack]_waitVars
  BY <1>1, <1>2, PTL DEF WaitSpec
<1>5. WaitSpec => [][NotOvertaken]_waitVars
  BY <1>1, <1>3, PTL DEF WaitSpec
<1>6. WaitSpec => NeverPushedBack
  BY <1>4 DEF NotPutBack, NeverPushedBack
<1>7. WaitSpec => NobodyIsOvertaken
  BY <1>5 DEF NotOvertaken, NobodyIsOvertaken
<1> QED BY <1>1, <1>6, <1>7, WaitIInvSound, PTL DEF WaitsInTurn
=============================================================================
