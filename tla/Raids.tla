------------------------------- MODULE Raids -------------------------------
(***************************************************************************)
(* Raids (newsrc/raids.cpp): a check that comes round every minute starts  *)
(* one, if none is running; a script may too.  A raid is a chain of events *)
(* of its own, each of which schedules the next.  A reload throws all      *)
(* raids away and reads them again.                                        *)
(***************************************************************************)
EXTENDS Naturals, FiniteSets

CONSTANTS
  Raid,      \* those of raids.xml, by name
  Once,      \* those that are not to be repeated
  Length,    \* how many events each has (at least one)
  NoRaid     \* Raids::running is null

ASSUME RaidsAssumption == Length \in Nat \ {0} /\ NoRaid \notin Raid

VARIABLES
  raidList,  \* Raids::raidList
  running,   \* Raids::running
  check,     \* the check: "none", "delayed" in the scheduler, or "due" in
             \* the dispatcher's list
  strayed,   \* history: a reload has left a raid going that is not to be
             \* repeated, so that Raids no longer knows it
  events     \* the raid events to come: the raid, how many come after it,
             \* whether the raid was still listed when it started, and
             \* whether the event is due

raidVars == <<raidList, running, check, strayed, events>>

Event == [raid : Raid, left : 0 .. Length - 1, listed : BOOLEAN, due : BOOLEAN]

(* loadFromXml and startup.                                                *)
RaidsInit ==
  /\ raidList = Raid
  /\ running = NoRaid
  /\ check = "delayed"
  /\ strayed = FALSE
  /\ events = {}

-----------------------------------------------------------------------------

(* startRaid: the first event.                                             *)
Start(r, listed) ==
  /\ running' = r
  /\ events' = events \cup {[raid |-> r, left |-> Length - 1,
                             listed |-> listed, due |-> FALSE]}

(* checkRaids; what is not repeated leaves the list with its start.        *)
checkRaids ==
  /\ check = "due"
  /\ check' = "delayed"
  /\ \/ /\ running = NoRaid
        /\ \E r \in raidList :
             /\ Start(r, r \notin Once)
             /\ raidList' = raidList \ ({r} \cap Once)
     \/ UNCHANGED <<raidList, running, events>>
  /\ UNCHANGED strayed

(* Game.startRaid.                                                         *)
luaGameStartRaid(r) ==
  /\ r \in raidList
  /\ running = NoRaid
  /\ Start(r, TRUE)
  /\ UNCHANGED <<raidList, check, strayed>>

(* Faulty variant: a raid whose event fails is not reset.                  *)
executeRaidEventOrStop(e) ==
  /\ e \in events /\ e.due
  /\ \/ /\ e.left > 0
        /\ events' = (events \ {e})
                       \cup {[e EXCEPT !.left = @ - 1, !.due = FALSE]}
        /\ UNCHANGED running
     \/ /\ events' = events \ {e}
        /\ running' = IF e.left = 0 THEN NoRaid ELSE running
  /\ UNCHANGED <<raidList, check, strayed>>

(* executeRaidEvent: the next event, or, after the last and after one that *)
(* fails, resetRaid.                                                       *)
executeRaidEvent(e) ==
  /\ e \in events /\ e.due
  /\ \/ /\ e.left > 0
        /\ events' = (events \ {e})
                       \cup {[e EXCEPT !.left = @ - 1, !.due = FALSE]}
        /\ UNCHANGED running
     \/ /\ events' = events \ {e}
        /\ running' = NoRaid
  /\ UNCHANGED <<raidList, check, strayed>>

(* Faulty variant: clear does not stop the events of the raids.            *)
reloadLoose ==
  /\ check # "due" /\ \A e \in events : ~e.due
  /\ check' = "delayed"
  /\ raidList' = Raid
  /\ running' = NoRaid
  /\ UNCHANGED <<strayed, events>>

(* reload and startup: clear stops the check, and the event of each raid   *)
(* on the list; one that is due already cannot be stopped and would run    *)
(* after its raid was deleted, so that a reload waits for it here.  A raid *)
(* that has left the list is neither stopped nor deleted.                  *)
reload ==
  /\ check # "due" /\ \A e \in events : ~e.due
  /\ check' = "delayed"
  /\ events' = {e \in events : ~e.listed}
  /\ strayed' = (strayed \/ \E e \in events : ~e.listed)
  /\ raidList' = Raid
  /\ running' = NoRaid

(* The scheduler hands a delayed event to the dispatcher.                  *)
CheckFallsDue ==
  /\ check = "delayed"
  /\ check' = "due"
  /\ UNCHANGED <<raidList, running, strayed, events>>

EventFallsDue(e) ==
  /\ e \in events /\ ~e.due
  /\ events' = (events \ {e}) \cup {[e EXCEPT !.due = TRUE]}
  /\ UNCHANGED <<raidList, running, check, strayed>>

RaidsNext ==
  \/ checkRaids \/ reload \/ CheckFallsDue
  \/ \E r \in Raid : luaGameStartRaid(r)
  \/ \E e \in Event : executeRaidEvent(e) \/ EventFallsDue(e)

(* Events fall due, and run.                                               *)
EventsRun ==
  /\ WF_raidVars(\E e \in Event : EventFallsDue(e))
  /\ WF_raidVars(\E e \in Event : executeRaidEvent(e))

RaidsFairness ==
  EventsRun /\ WF_raidVars(CheckFallsDue) /\ WF_raidVars(checkRaids)

RaidsSpec == RaidsInit /\ [][RaidsNext]_raidVars /\ RaidsFairness

-----------------------------------------------------------------------------
(* Properties *)

RaidsTypeOK ==
  /\ raidList \subseteq Raid
  /\ running \in Raid \cup {NoRaid}
  /\ check \in {"none", "delayed", "due"}
  /\ strayed \in BOOLEAN
  /\ events \subseteq Event

(* Whatever is started, reloaded or fails, no two raids run at once, and   *)
(* one that runs is the one that is known to (checkRaids, luaGameStartRaid,*)
(* clear), unless a reload came while one ran that had left the list.      *)
OneRaidAtATime ==
  ~strayed =>
    /\ Cardinality(events) <= 1
    /\ \A e \in events : running = e.raid

(* A raid that runs comes to its end (executeRaidEvent, resetRaid).        *)
RaidEnds == running # NoRaid ~> running = NoRaid
=============================================================================
