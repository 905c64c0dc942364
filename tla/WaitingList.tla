----------------------------- MODULE WaitingList -----------------------------
(***************************************************************************)
(* The queue of clients in front of a full server (newsrc/waitlist.cpp),   *)
(* which ProtocolGame::login asks about every attempt.  All of it runs on  *)
(* the dispatcher thread; the clients retry when they please.              *)
(***************************************************************************)
EXTENDS Naturals, Sequences, FiniteSets, Functions

CONSTANTS
  Account,     \* accounts that play
  Premium,     \* those with premium time
  AlwaysLogin, \* those with PlayerFlag_CanAlwaysLogin, or gamemasters
  MaxPlayers,  \* ConfigManager::MAX_PLAYERS, 0 for no limit
  JoinSlot,    \* bound: the slots whose retry time a player who joins gets
  MaxTime      \* bound: the clock stops here

ASSUME WaitAssumption ==
  /\ IsFiniteSet(Account) /\ Premium \subseteq Account
  /\ MaxPlayers \in Nat /\ MaxTime \in Nat /\ JoinSlot \subseteq Nat

VARIABLES
  priorityWaitList, \* WaitListInfo::priorityWaitList, as its guids in order
  waitList,         \* WaitListInfo::waitList
  timeout,          \* Wait::timeout of whoever is on a list
  inGame,           \* Game::players
  now,              \* OTSYS_TIME, in units of the shortest retry time
  answer            \* the last answer of clientLogin: who asked, whether it
                    \* was let in, and how many waited in front of it

waitVars == <<priorityWaitList, waitList, timeout, inGame, now, answer>>

Waiting == priorityWaitList \o waitList
Listed(p) == p \in Range(Waiting)
Slot(p) == CHOOSE i \in DOMAIN Waiting : Waiting[i] = p

(* getTime: the retry time of a slot in seconds, in units of five.         *)
getTime(slot) ==
  CASE slot < 5  -> 1
    [] slot < 10 -> 2
    [] slot < 20 -> 4
    [] slot < 50 -> 12
    [] OTHER     -> 24

(* getTimeout: fifteen seconds more.                                       *)
getTimeout(slot) == getTime(slot) + 3

NoAnswer == [who |-> {}, admitted |-> FALSE, ahead |-> 0]

WaitInit ==
  /\ priorityWaitList = <<>>
  /\ waitList = <<>>
  /\ timeout = [p \in Account |-> 0]
  /\ inGame = {}
  /\ now = 0
  /\ answer = NoAnswer

(* std::list::erase of the entries of S.                                   *)
Without(list, S) ==
  LET kept[n \in 0 .. Len(list)] ==
        IF n = 0 THEN <<>>
        ELSE IF list[n] \in S THEN kept[n - 1]
        ELSE Append(kept[n - 1], list[n])
  IN  kept[Len(list)]

(* cleanupList: timeout - time is unsigned, so that it is <= 0 only in the *)
(* very millisecond the entry runs out.                                    *)
cleanupList(list) == Without(list, {p \in Account : timeout[p] = now})

FastPath(p) ==
  \/ p \in AlwaysLogin
  \/ MaxPlayers = 0
  \/ Waiting = <<>> /\ Cardinality(inGame) < MaxPlayers

(* login goes on to place an admitted player, and may fail to.             *)
Enter(p) == inGame' = inGame \cup {p} \/ UNCHANGED inGame

(* clientLogin, its first two ifs: let in without a look at the lists.     *)
LoginAtOnce(p) ==
  /\ p \notin inGame
  /\ FastPath(p)
  /\ Enter(p)
  /\ answer' = [who |-> {p}, admitted |-> TRUE, ahead |-> 0]
  /\ UNCHANGED <<priorityWaitList, waitList, timeout, now>>

(* Faulty variant: a listed player is let in as soon as there is any room. *)
LoginFromListAnyRoom(p) ==
  /\ p \notin inGame
  /\ ~FastPath(p)
  /\ LET priority == cleanupList(priorityWaitList)
         ordinary == cleanupList(waitList)
         all == priority \o ordinary
     IN  \E slot \in DOMAIN all :
           /\ all[slot] = p
           /\ IF Cardinality(inGame) + 1 <= MaxPlayers
              THEN /\ priorityWaitList' = Without(priority, {p})
                   /\ waitList' = Without(ordinary, {p})
                   /\ Enter(p)
                   /\ UNCHANGED timeout
                   /\ answer' = [who |-> {p}, admitted |-> TRUE,
                                 ahead |-> slot - 1]
              ELSE /\ timeout' = [timeout EXCEPT ![p] = now + getTimeout(slot)]
                   /\ priorityWaitList' = priority
                   /\ waitList' = ordinary
                   /\ UNCHANGED inGame
                   /\ answer' = [who |-> {p}, admitted |-> FALSE,
                                 ahead |-> slot - 1]
  /\ UNCHANGED now

(* Faulty variant: who is let in stays on the list.                        *)
LoginFromListStays(p) ==
  /\ p \notin inGame
  /\ ~FastPath(p)
  /\ LET priority == cleanupList(priorityWaitList)
         ordinary == cleanupList(waitList)
         all == priority \o ordinary
     IN  /\ priorityWaitList' = priority
         /\ waitList' = ordinary
         /\ \E slot \in DOMAIN all :
              /\ all[slot] = p
              /\ IF Cardinality(inGame) + slot <= MaxPlayers
                 THEN /\ Enter(p)
                      /\ UNCHANGED timeout
                      /\ answer' = [who |-> {p}, admitted |-> TRUE,
                                    ahead |-> slot - 1]
                 ELSE /\ timeout' =
                           [timeout EXCEPT ![p] = now + getTimeout(slot)]
                      /\ UNCHANGED inGame
                      /\ answer' = [who |-> {p}, admitted |-> FALSE,
                                    ahead |-> slot - 1]
  /\ UNCHANGED now

(* Faulty variant: who must wait on is put at the end again.               *)
LoginFromListRequeues(p) ==
  /\ p \notin inGame
  /\ ~FastPath(p)
  /\ LET priority == cleanupList(priorityWaitList)
         ordinary == cleanupList(waitList)
         all == priority \o ordinary
         AtTheEnd(list) ==
           IF p \in Range(list) THEN Append(Without(list, {p}), p) ELSE list
     IN  \E slot \in DOMAIN all :
           /\ all[slot] = p
           /\ IF Cardinality(inGame) + slot <= MaxPlayers
              THEN /\ priorityWaitList' = Without(priority, {p})
                   /\ waitList' = Without(ordinary, {p})
                   /\ Enter(p)
                   /\ UNCHANGED timeout
                   /\ answer' = [who |-> {p}, admitted |-> TRUE,
                                 ahead |-> slot - 1]
              ELSE /\ timeout' = [timeout EXCEPT ![p] = now + getTimeout(slot)]
                   /\ priorityWaitList' = AtTheEnd(priority)
                   /\ waitList' = AtTheEnd(ordinary)
                   /\ UNCHANGED inGame
                   /\ answer' = [who |-> {p}, admitted |-> FALSE,
                                 ahead |-> slot - 1]
  /\ UNCHANGED now

(* clientLogin for a player on a list: let in when everybody in front of   *)
(* it could be let in as well, told to wait longer otherwise.  The code    *)
(* erases from waitList also an entry of priorityWaitList, which unlinks   *)
(* the node and counts it off the wrong list's size: the sizes only enter  *)
(* the retry time of players who join, which JoinList leaves open.          *)
LoginFromList(p) ==
  /\ p \notin inGame
  /\ ~FastPath(p)
  /\ LET priority == cleanupList(priorityWaitList)
         ordinary == cleanupList(waitList)
         all == priority \o ordinary
     IN  \E slot \in DOMAIN all :
           /\ all[slot] = p
           /\ IF Cardinality(inGame) + slot <= MaxPlayers
              THEN /\ priorityWaitList' = Without(priority, {p})
                   /\ waitList' = Without(ordinary, {p})
                   /\ Enter(p)
                   /\ UNCHANGED timeout
                   /\ answer' = [who |-> {p}, admitted |-> TRUE,
                                 ahead |-> slot - 1]
              ELSE /\ timeout' = [timeout EXCEPT ![p] = now + getTimeout(slot)]
                   /\ priorityWaitList' = priority
                   /\ waitList' = ordinary
                   /\ UNCHANGED inGame
                   /\ answer' = [who |-> {p}, admitted |-> FALSE,
                                 ahead |-> slot - 1]
  /\ UNCHANGED now

(* clientLogin for a player on no list: it joins the end of one, with the  *)
(* timeout of some slot (see LoginFromList).                               *)
JoinList(p) ==
  /\ p \notin inGame
  /\ ~FastPath(p)
  /\ LET priority == cleanupList(priorityWaitList)
         ordinary == cleanupList(waitList)
     IN  /\ p \notin Range(priority \o ordinary)
         /\ IF p \in Premium
            THEN /\ priorityWaitList' = Append(priority, p)
                 /\ waitList' = ordinary
            ELSE /\ priorityWaitList' = priority
                 /\ waitList' = Append(ordinary, p)
  /\ \E slot \in JoinSlot :
       timeout' = [timeout EXCEPT ![p] = now + getTimeout(slot)]
  /\ answer' = [who |-> {p}, admitted |-> FALSE, ahead |-> 0]
  /\ UNCHANGED <<inGame, now>>

GoOffline(p) ==
  /\ p \in inGame
  /\ inGame' = inGame \ {p}
  /\ answer' = NoAnswer
  /\ UNCHANGED <<priorityWaitList, waitList, timeout, now>>

PassTime ==
  /\ now < MaxTime
  /\ now' = now + 1
  /\ answer' = NoAnswer
  /\ UNCHANGED <<priorityWaitList, waitList, timeout, inGame>>

clientLogin(p) == LoginAtOnce(p) \/ LoginFromList(p) \/ JoinList(p)

WaitNext ==
  \/ \E p \in Account : clientLogin(p) \/ GoOffline(p)
  \/ PassTime

WaitSpec == WaitInit /\ [][WaitNext]_waitVars

-----------------------------------------------------------------------------
(* Properties *)

WaitTypeOK ==
  /\ priorityWaitList \in Seq(Premium)
  /\ waitList \in Seq(Account \ Premium)
  /\ timeout \in [Account -> Nat]
  /\ inGame \subseteq Account
  /\ now \in Nat
  /\ answer.who \subseteq Account
  /\ answer.admitted \in BOOLEAN
  /\ answer.ahead \in Nat

(* A player waits in one place only, and does not wait while it plays: an  *)
(* entry that stayed behind would hold a slot for nobody.                  *)
WaitsOnce ==
  /\ IsInjective(Waiting)
  /\ \A p \in inGame : ~Listed(p)

(* Whoever is let in leaves room for everybody waiting in front of it, so  *)
(* the list is never overtaken (waitlist.cpp, clientLogin: the slot is     *)
(* added to the number of players online).                                 *)
NobodyIsOvertaken ==
  [][\A p \in Account \ AlwaysLogin :
       answer'.who = {p} /\ answer'.admitted /\ MaxPlayers # 0 =>
         Cardinality(inGame) + 1 + answer'.ahead <= MaxPlayers]_waitVars

(* Waiting does not push a player back: it moves up when those in front    *)
(* leave, an ordinary player is passed only by a premium one who joins, and *)
(* it goes to the end only by asking in the moment its own time runs out.  *)
NeverPushedBack ==
  [][\A p \in Account :
       Listed(p) /\ Listed(p)' =>
         \/ Slot(p)' <= Slot(p)
         \/ timeout[p] = now
         \/ p \notin Premium /\ Len(priorityWaitList') > Len(priorityWaitList)
    ]_waitVars

(* Nobody waits twice, is overtaken by one with no better right, or is put *)
(* back (waitlist.cpp).                                                    *)
WaitsInTurn ==
  /\ [](WaitTypeOK /\ WaitsOnce)
  /\ NobodyIsOvertaken
  /\ NeverPushedBack

(* Entries whose time has run out are gone after the next attempt          *)
(* (waitlist.cpp, getTimeout: "timeout is set to 15 seconds longer than    *)
(* expected retry attempt").                                               *)
ExpiredAreRemoved ==
  [][answer'.who # {} /\ ~answer'.admitted =>
       \A p \in Account : Listed(p)' => timeout'[p] > now]_waitVars
=============================================================================
