----------------------------- MODULE GameSession -----------------------------
(***************************************************************************)
(* Clients coming and going (newsrc/protocolgame.cpp): login, the takeover *)
(* of a player who is still online, logout, the release of a protocol      *)
(* whose connection closed, and the live casts other clients watch.        *)
(*                                                                         *)
(* All clients play or watch the same character; characters do not         *)
(* interact here.  Handlers run one at a time on the dispatcher thread, in *)
(* the order of its task list; connections close on the network thread.    *)
(* Player objects are freed by their reference counter, which this model   *)
(* keeps beside the pointers it is meant to count.                         *)
(***************************************************************************)
EXTENDS Integers, Sequences, FiniteSets, SequencesExt

CONSTANTS
  Protocol,     \* ProtocolGame objects, one per connection
  Watcher,      \* those whose client asks to watch a cast (no account name)
  PlayerObject, \* Player objects, each allocated at most once
  ReplaceKick,  \* ConfigManager::REPLACE_KICK_ON_LOGIN
  MaxTasks,     \* bound: the network thread queues no more tasks than this
  None

ASSUME GameSessionAssumption ==
  /\ Watcher \subseteq Protocol
  /\ IsFiniteSet(Protocol)
  /\ ReplaceKick \in BOOLEAN
  /\ MaxTasks \in Nat
  /\ None \notin Protocol \cup PlayerObject

VARIABLES
  conn,       \* each connection: "new" before its first message, "open",
              \* "closed", or "expired" once the object is destroyed
  tasks,      \* the dispatcher's task list
  timers,     \* pending connect events, as <<protocol, player>>
  gameState,  \* "NORMAL" or "SHUTDOWN"
  player,     \* ProtocolGame::player
  caster,     \* ProtocolGame::isCaster
  spectators, \* ProtocolGame::spectators
  spect,      \* ProtocolGame::spect
  liveCasts,  \* ProtocolGame::liveCasts, the caster of each player
  client,     \* Player::client
  refs,       \* Creature::referenceCounter
  made,       \* the player objects that were allocated
  inWorld,    \* players placed on the map and not removed
  toRelease,  \* Game::ToReleaseCreatures
  released    \* protocols whose release has run

links == <<player, client, made>>
casts == <<caster, spectators, spect, liveCasts>>
world == <<inWorld, toRelease>>
vars == <<conn, tasks, timers, gameState, links, casts, refs, world, released>>

Freed == {o \in made : refs[o] <= 0}

(* A freed player is still pointed to: from here on anything may happen.   *)
Dangling ==
  \/ \E p \in Protocol : player[p] \in Freed
  \/ \E o \in Freed : o \in inWorld \cup toRelease

Task(kind, p) == [kind |-> kind, protocol |-> p]

(* Only the events of a scheduled connect carry a player.                  *)
ConnectTask(p, o) == [kind |-> "connect", protocol |-> p, player |-> o]

Init ==
  /\ conn = [p \in Protocol |-> "new"]
  /\ tasks = <<>>
  /\ timers = {}
  /\ gameState = "NORMAL"
  /\ player = [p \in Protocol |-> None]
  /\ caster = [p \in Protocol |-> FALSE]
  /\ spectators = [p \in Protocol |-> {}]
  /\ spect = [p \in Protocol |-> None]
  /\ liveCasts = [o \in PlayerObject |-> None]
  /\ client = [o \in PlayerObject |-> None]
  /\ refs = [o \in PlayerObject |-> 0]
  /\ made = {}
  /\ inWorld = {}
  /\ toRelease = {}
  /\ released = {}

-----------------------------------------------------------------------------
(* Parts of handlers *)

(* Connection::close on each of ps: the first call on a connection queues  *)
(* the release of its protocol, behind what rest leaves in the task list.  *)
Disconnect(ps, rest) ==
  LET closing == {p \in ps : conn[p] = "open"}
      queue == SetToSeq(closing)
  IN  /\ conn' = [p \in Protocol |->
                    IF p \in closing THEN "closed" ELSE conn[p]]
      /\ tasks' = IF gameState = "SHUTDOWN" THEN rest
                  ELSE rest \o
                         [i \in DOMAIN queue |-> Task("release", queue[i])]

Watchers(p) == IF caster[p] THEN spectators[p] ELSE {}

(* Faulty variant: stopLiveCast keeps the entry in liveCasts.              *)
EndCastKeepsEntry(p) ==
  /\ caster' = [caster EXCEPT ![p] = FALSE]
  /\ spectators' = [spectators EXCEPT ![p] = {}]
  /\ UNCHANGED <<spect, liveCasts>>

(* stopLiveCast, apart from its calls to onLiveCastStop, each of which     *)
(* drops a reference to the player and disconnects the spectator but       *)
(* leaves the spectator's own player pointer as it was.                    *)
EndCast(p) ==
  /\ caster' = [caster EXCEPT ![p] = FALSE]
  /\ spectators' = [spectators EXCEPT ![p] = {}]
  /\ liveCasts' = IF caster[p] THEN [liveCasts EXCEPT ![player[p]] = None]
                               ELSE liveCasts
  /\ UNCHANGED spect

(* Game::removeCreature; nothing happens to a player already removed.      *)
RemoveCreature(os) ==
  /\ inWorld' = inWorld \ os
  /\ toRelease' = toRelease \cup (os \cap inWorld)

DropRefs(o, n) == refs' = [refs EXCEPT ![o] = @ - n]

(* ProtocolGame::logout once nothing prevents it.                          *)
LeaveGame(p, rest) ==
  /\ EndCast(p)
  /\ DropRefs(player[p], Cardinality(Watchers(p)))
  /\ Disconnect({p} \cup Watchers(p), rest)
  /\ RemoveCreature({player[p]})

-----------------------------------------------------------------------------
(* The network thread *)

QueueTask(t) ==
  /\ Len(tasks) < MaxTasks
  /\ tasks' = IF gameState = "SHUTDOWN" THEN tasks ELSE Append(tasks, t)

(* onRecvFirstMessage: a valid first message becomes a login or, without   *)
(* an account name, a request to watch.                                    *)
FirstMessage(p) ==
  /\ conn[p] = "new"
  /\ gameState = "NORMAL"
  /\ conn' = [conn EXCEPT ![p] = "open"]
  /\ QueueTask(Task(IF p \in Watcher THEN "spectate" ELSE "login", p))
  /\ UNCHANGED <<timers, gameState, links, casts, refs, world, released>>

(* parsePacket and parseSpectatorPacket on a logout request; a spectator   *)
(* of a removed player is disconnected instead.                            *)
LogoutPacket(p) ==
  /\ conn[p] = "open"
  /\ gameState = "NORMAL"
  /\ player[p] # None
  /\ IF p \in Watcher
     THEN IF player[p] \in inWorld
          THEN QueueTask(Task("spectatelogout", p)) /\ UNCHANGED conn
          ELSE Disconnect({p}, tasks)
     ELSE QueueTask(Task("logout", p)) /\ UNCHANGED conn
  /\ UNCHANGED <<timers, gameState, links, casts, refs, world, released>>

(* The peer closes, a timer expires or a packet is malformed.              *)
CloseConnection(p) ==
  /\ conn[p] = "open"
  /\ Disconnect({p}, tasks)
  /\ UNCHANGED <<timers, gameState, links, casts, refs, world, released>>

(* The last pending handler of a closed connection completes.              *)
ExpireConnection(p) ==
  /\ conn[p] = "closed"
  /\ conn' = [conn EXCEPT ![p] = "expired"]
  /\ UNCHANGED <<tasks, timers, gameState, links, casts, refs, world,
                 released>>

(* A signal queues the task that shuts the game down.                      *)
ShutdownSignal ==
  /\ \A i \in DOMAIN tasks : tasks[i].kind # "shutdown"
  /\ QueueTask([kind |-> "shutdown"])
  /\ UNCHANGED <<conn, timers, gameState, links, casts, refs, world, released>>

(* The scheduler pushes a due connect to the front of the task list, which *)
(* the dispatcher refuses after shutdown.                                  *)
ConnectDue(p, o) ==
  /\ <<p, o>> \in timers
  /\ timers' = timers \ {<<p, o>>}
  /\ tasks' = IF gameState = "SHUTDOWN" THEN tasks
              ELSE <<ConnectTask(p, o)>> \o tasks
  /\ UNCHANGED <<conn, gameState, links, casts, refs, world, released>>

-----------------------------------------------------------------------------
(* Tasks of the dispatcher *)

HeadIs(kind) == tasks # <<>> /\ Head(tasks).kind = kind
Rest == Tail(tasks)

(* login, when no player of that name is online: a Player is allocated     *)
(* with this protocol as its client.                                       *)
NewPlayer(p, o) ==
  /\ o \notin made
  /\ made' = made \cup {o}
  /\ player' = [player EXCEPT ![p] = o]
  /\ client' = [client EXCEPT ![o] = p]

(* It cannot be loaded, is banned, must wait, or finds no place: the       *)
(* client is disconnected and keeps its player until it is released.       *)
LoginRefused(p) ==
  \E o \in PlayerObject :
    /\ NewPlayer(p, o)
    /\ refs' = [refs EXCEPT ![o] = 1]
    /\ Disconnect({p}, Rest)
    /\ UNCHANGED <<timers, world>>

(* Faulty variant: the client takes no reference of its own.               *)
LoginPlacedUncounted(p) ==
  \E o \in PlayerObject :
    /\ NewPlayer(p, o)
    /\ refs' = [refs EXCEPT ![o] = 1]
    /\ inWorld' = inWorld \cup {o}
    /\ tasks' = Rest
    /\ UNCHANGED <<conn, timers, toRelease>>

LoginPlaced(p) ==
  \E o \in PlayerObject :
    /\ NewPlayer(p, o)
    /\ refs' = [refs EXCEPT ![o] = 2]
    /\ inWorld' = inWorld \cup {o}
    /\ tasks' = Rest
    /\ UNCHANGED <<conn, timers, toRelease>>

(* Faulty variant: connect takes a player that has a client.               *)
AttachUnchecked(p, o) ==
  IF o \notin inWorld
  THEN /\ Disconnect({p}, Rest)
       /\ UNCHANGED <<links, refs>>
  ELSE IF conn[p] = "expired"
  THEN /\ tasks' = Rest
       /\ UNCHANGED <<conn, links, refs>>
  ELSE /\ player' = [player EXCEPT ![p] = o]
       /\ client' = [client EXCEPT ![o] = p]
       /\ refs' = [refs EXCEPT ![o] = @ + 1]
       /\ tasks' = Rest
       /\ UNCHANGED <<conn, made>>

(* connect, called by login or by the scheduler a second later.            *)
Attach(p, o) ==
  IF o \notin inWorld \/ client[o] # None
  THEN /\ Disconnect({p}, Rest)
       /\ UNCHANGED <<links, refs>>
  ELSE IF conn[p] = "expired"
  THEN /\ tasks' = Rest
       /\ UNCHANGED <<conn, links, refs>>
  ELSE /\ player' = [player EXCEPT ![p] = o]
       /\ client' = [client EXCEPT ![o] = p]
       /\ refs' = [refs EXCEPT ![o] = @ + 1]
       /\ tasks' = Rest
       /\ UNCHANGED <<conn, made>>

(* login, when the player is online: refused, or taken over at once, or    *)
(* after the old client was disconnected and a second has passed.          *)
LoginOnline(p, o) ==
  /\ UNCHANGED world
  /\ IF ~ReplaceKick
     THEN /\ Disconnect({p}, Rest)
          /\ UNCHANGED <<timers, links, refs>>
     ELSE IF client[o] # None
     THEN /\ Disconnect({client[o]}, Rest)
          /\ timers' = timers \cup {<<p, o>>}
          /\ UNCHANGED <<links, refs>>
     ELSE Attach(p, o) /\ UNCHANGED timers

(* Faulty variant: login never asks whether the player is online.          *)
LoginAlwaysNew ==
  /\ HeadIs("login")
  /\ LET p == Head(tasks).protocol IN LoginRefused(p) \/ LoginPlaced(p)
  /\ UNCHANGED <<gameState, casts, released>>

Login ==
  /\ HeadIs("login")
  /\ LET p == Head(tasks).protocol
     IN  \/ inWorld = {} /\ (LoginRefused(p) \/ LoginPlaced(p))
         \/ \E o \in inWorld : LoginOnline(p, o)
  /\ UNCHANGED <<gameState, casts, released>>

Connect ==
  /\ HeadIs("connect")
  /\ Attach(Head(tasks).protocol, Head(tasks).player)
  /\ UNCHANGED <<timers, gameState, casts, world, released>>

(* logout(true, false): a live player may be told to stay (no logout tile, *)
(* fight, script); a dead one only has its connection closed.              *)
Logout ==
  /\ HeadIs("logout")
  /\ LET p == Head(tasks).protocol
     IN  \/ /\ player[p] = None \/ player[p] \in inWorld
            /\ tasks' = Rest
            /\ UNCHANGED <<conn, casts, refs, world>>
         \/ /\ player[p] # None
            /\ LeaveGame(p, Rest)
  /\ UNCHANGED <<timers, gameState, links, released>>

(* Faulty variant: release forgets the reference it gives back.            *)
ReleaseKeepsReference ==
  /\ HeadIs("release")
  /\ LET p == Head(tasks).protocol
         o == player[p]
     IN  /\ EndCast(p)
         /\ released' = released \cup {p}
         /\ IF o # None /\ client[o] = p
            THEN /\ client' = [client EXCEPT ![o] = None]
                 /\ player' = [player EXCEPT ![p] = None]
                 /\ DropRefs(o, Cardinality(Watchers(p)))
                 /\ RemoveCreature({o}) \/ UNCHANGED world
            ELSE UNCHANGED <<client, player, refs, world>>
         /\ Disconnect(Watchers(p), Rest)
  /\ UNCHANGED <<timers, gameState, made>>

(* Faulty variant: release gives the reference back twice.                 *)
ReleaseDropsTwice ==
  /\ HeadIs("release")
  /\ LET p == Head(tasks).protocol
         o == player[p]
     IN  /\ EndCast(p)
         /\ released' = released \cup {p}
         /\ IF o # None /\ client[o] = p
            THEN /\ client' = [client EXCEPT ![o] = None]
                 /\ player' = [player EXCEPT ![p] = None]
                 /\ DropRefs(o, Cardinality(Watchers(p)) + 2)
                 /\ RemoveCreature({o}) \/ UNCHANGED world
            ELSE UNCHANGED <<client, player, refs, world>>
         /\ Disconnect(Watchers(p), Rest)
  /\ UNCHANGED <<timers, gameState, made>>

(* release: the client of a player gives it up, taking it out of the world *)
(* unless it is in a fight.  For a spectator nothing happens: the player   *)
(* it watches is not its own, and its caster keeps it among the spectators.*)
Release ==
  /\ HeadIs("release")
  /\ LET p == Head(tasks).protocol
         o == player[p]
     IN  /\ EndCast(p)
         /\ released' = released \cup {p}
         /\ IF o # None /\ client[o] = p
            THEN /\ client' = [client EXCEPT ![o] = None]
                 /\ player' = [player EXCEPT ![p] = None]
                 /\ DropRefs(o, Cardinality(Watchers(p)) + 1)
                 /\ RemoveCreature({o}) \/ UNCHANGED world
            ELSE UNCHANGED <<client, player, refs, world>>
         /\ Disconnect(Watchers(p), Rest)
  /\ UNCHANGED <<timers, gameState, made>>

(* spectate: the cast may be off by now, or the password wrong.            *)
Spectate ==
  /\ HeadIs("spectate")
  /\ LET p == Head(tasks).protocol
     IN  \/ /\ Disconnect({p}, Rest)
            /\ UNCHANGED <<player, casts, refs>>
         \/ \E o \in inWorld :
              /\ liveCasts[o] # None
              /\ spect' = [spect EXCEPT ![p] = liveCasts[o]]
              /\ spectators' =
                   [spectators EXCEPT ![liveCasts[o]] = @ \cup {p}]
              /\ player' = [player EXCEPT ![p] = o]
              /\ refs' = [refs EXCEPT ![o] = @ + 1]
              /\ tasks' = Rest
              /\ UNCHANGED <<conn, caster, liveCasts>>
  /\ UNCHANGED <<timers, gameState, client, made, world, released>>

(* spectatelogout, with the release it calls itself.                       *)
SpectateLogout ==
  /\ HeadIs("spectatelogout")
  /\ LET p == Head(tasks).protocol
     IN  /\ IF player[p] # None
            THEN /\ spectators' = [spectators EXCEPT ![spect[p]] = @ \ {p}]
                 /\ DropRefs(player[p], 1)
                 /\ player' = [player EXCEPT ![p] = None]
            ELSE UNCHANGED <<spectators, refs, player>>
         /\ Disconnect({p}, Rest)
         /\ released' = released \cup {p}
  /\ UNCHANGED <<timers, gameState, caster, spect, liveCasts, client, made,
                 world>>

(* setGameState(GAME_STATE_SHUTDOWN): the player online is kicked, then    *)
(* the dispatcher stops taking tasks; those it has already will still run. *)
Shutdown ==
  /\ HeadIs("shutdown")
  /\ gameState' = "SHUTDOWN"
  /\ \/ /\ inWorld = {}
        /\ tasks' = Rest
        /\ UNCHANGED <<conn, casts, refs, world>>
     \/ \E o \in inWorld :
          IF client[o] # None
          THEN LeaveGame(client[o], Rest)
          ELSE /\ RemoveCreature({o})
               /\ tasks' = Rest
               /\ UNCHANGED <<conn, casts, refs>>
  /\ UNCHANGED <<timers, links, released>>

-----------------------------------------------------------------------------
(* What other tasks of the game do to a player *)

(* kickPlayer: idle, no answer to pings, or a script.                      *)
KickPlayer(o) ==
  /\ o \in inWorld
  /\ IF client[o] # None
     THEN LeaveGame(client[o], tasks)
     ELSE /\ RemoveCreature({o})
          /\ UNCHANGED <<conn, tasks, casts, refs>>
  /\ UNCHANGED <<timers, gameState, links, released>>

(* A dead player leaves the world and keeps its client.                    *)
Death(o) ==
  /\ o \in inWorld
  /\ RemoveCreature({o})
  /\ UNCHANGED <<conn, tasks, timers, gameState, links, casts, refs, released>>

(* Game::cleanup gives back the references of the removed.                 *)
Cleanup ==
  /\ toRelease # {}
  /\ refs' = [o \in PlayerObject |->
                IF o \in toRelease THEN refs[o] - 1 ELSE refs[o]]
  /\ toRelease' = {}
  /\ UNCHANGED <<conn, tasks, timers, gameState, links, casts, inWorld,
                 released>>

StartLiveCast(p) ==
  /\ ~caster[p]
  /\ p \notin Watcher
  /\ player[p] \in inWorld
  /\ conn[p] # "expired"
  /\ caster' = [caster EXCEPT ![p] = TRUE]
  /\ liveCasts' = [liveCasts EXCEPT
                     ![player[p]] = IF @ = None THEN p ELSE @]
  /\ UNCHANGED <<conn, tasks, timers, gameState, links, spectators, spect,
                 refs, world, released>>

(* Faulty variant: the spectators are not disconnected.                    *)
StopLiveCastSilently(p) ==
  /\ caster[p]
  /\ EndCast(p)
  /\ DropRefs(player[p], Cardinality(Watchers(p)))
  /\ UNCHANGED <<conn, tasks, timers, gameState, links, world, released>>

StopLiveCast(p) ==
  /\ caster[p]
  /\ EndCast(p)
  /\ DropRefs(player[p], Cardinality(Watchers(p)))
  /\ Disconnect(Watchers(p), tasks)
  /\ UNCHANGED <<timers, gameState, links, world, released>>

DispatcherTask ==
  \/ Login \/ Connect \/ Logout \/ Release
  \/ Spectate \/ SpectateLogout \/ Shutdown

Next ==
  /\ ~Dangling
  /\ \/ DispatcherTask
     \/ \E p \in Protocol :
          \/ FirstMessage(p) \/ LogoutPacket(p)
          \/ CloseConnection(p) \/ ExpireConnection(p)
          \/ StartLiveCast(p) \/ StopLiveCast(p)
     \/ \E p \in Protocol, o \in PlayerObject : ConnectDue(p, o)
     \/ \E o \in PlayerObject : KickPlayer(o) \/ Death(o)
     \/ Cleanup
     \/ ShutdownSignal

Spec == Init /\ [][Next]_vars

-----------------------------------------------------------------------------
(* Properties *)

TypeOK ==
  /\ conn \in [Protocol -> {"new", "open", "closed", "expired"}]
  /\ \A i \in DOMAIN tasks :
       tasks[i].kind \in {"login", "connect", "logout", "release", "spectate",
                          "spectatelogout", "shutdown"}
  /\ timers \subseteq Protocol \X PlayerObject
  /\ player \in [Protocol -> PlayerObject \cup {None}]
  /\ caster \in [Protocol -> BOOLEAN]
  /\ spectators \in [Protocol -> SUBSET Protocol]
  /\ liveCasts \in [PlayerObject -> Protocol \cup {None}]
  /\ client \in [PlayerObject -> Protocol \cup {None}]
  /\ refs \in [PlayerObject -> Int]
  /\ inWorld \subseteq made

(* A player object lives exactly as long as somebody holds it: the counter *)
(* of each is the number of clients that point to it, plus one while it is *)
(* in the world or waits for cleanup.  Stated for clients that play: the   *)
(* drops that the code makes for spectators match no count.                *)
Holders(o) == {p \in Protocol : player[p] = o}

NobodyWatches == \A p \in Watcher : conn[p] = "new"

RefsCountHolders ==
  NobodyWatches =>
    \A o \in made :
      refs[o] = Cardinality(Holders(o))
                  + (IF o \in inWorld \cup toRelease THEN 1 ELSE 0)

(* No two clients share a player: client and player point to each other    *)
(* (release compares them before it gives a player up).                    *)
ClientIsMutual ==
  /\ \A o \in made : client[o] # None => player[client[o]] = o
  /\ \A p \in Protocol \ Watcher : player[p] # None => client[player[p]] = p

(* A character is in the world at most once, however many clients log in   *)
(* with it at the same moment.                                             *)
OneInWorld == Cardinality(inWorld) <= 1

(* Whoever is on the list of casts is casting, and nobody casts off the    *)
(* list: a spectator is never sent to a protocol that has stopped.         *)
CastsAreCasters ==
  \A o \in made, p \in Protocol :
    liveCasts[o] = p <=> caster[p] /\ player[p] = o

(* An open spectator is among the spectators of its caster, so that the    *)
(* end of the cast disconnects it (protocolgame.h, stopLiveCast: "Stops    *)
(* the live cast and disconnects all spectators.").                        *)
OpenWatcherIsListed ==
  \A p \in Watcher :
    conn[p] = "open" /\ player[p] # None =>
      p \in spectators[spect[p]] /\ caster[spect[p]]

(* The two together, and the types.                                        *)
CastsAgree == TypeOK /\ CastsAreCasters /\ OpenWatcherIsListed

(* A released protocol holds no player: nobody would ever give it up again *)
(* (protocolgame.cpp, connect: "we return to prevent leakage of the        *)
(* Player").                                                               *)
ReleasedHoldsNothing ==
  \A p \in released \ Watcher : player[p] = None
=============================================================================
