------------------------------ MODULE PathFinding -----------------------------
(***************************************************************************)
(* The search for a path (Map::getPathMatching and AStarNodes of           *)
(* newsrc/map.cpp, FrozenPathingConditionCall of newsrc/creature.cpp).     *)
(* Nodes are opened in the order of their cost, from each node only the    *)
(* five neighbours that lead away from where the path came from; the       *)
(* search ends at the first match, or at the best of those that are not    *)
(* quite what is wanted.                                                   *)
(*                                                                         *)
(* An action is a turn of the loop.  The path leads from Start to within   *)
(* some distance of a target.  No caller forbids diagonal steps, and no    *)
(* search keeps a distance: monsters that flee do not search.              *)
(***************************************************************************)
EXTENDS Integers, SequencesExt

CONSTANTS
  Width, Height,   \* of the map
  Start,           \* where the creature is
  Query,           \* what may be searched: records of target, minTargetDist,
                   \* maxTargetDist, fullPathSearch, maxSearchDist
  Layout,          \* maps: records of walls, slow and hidden, sets of cells
  ExtraCost,       \* of a slow cell, with a creature or a field: 30 or 180
  MaxNodes,        \* MAX_NODES, 512
  MaxClosed        \* 100

VARIABLES
  fpp,         \* the query
  map,         \* the layout: hidden cells have no clear sight of the target
  nodes,       \* AStarNodes: x and y, f, parent (0 for none), open
  closedNodes,
  bestMatch,
  found,       \* the node of the best match, or 0
  result       \* "searching", "found" or "none"

vars == <<fpp, map, nodes, closedNodes, bestMatch, found, result>>

Cell == (1 .. Width) \X (1 .. Height)
Abs(n) == IF n < 0 THEN -n ELSE n
DistX(p, q) == Abs(p[1] - q[1])
DistY(p, q) == Abs(p[2] - q[2])
Distance(p, q) == Max({DistX(p, q), DistY(p, q)})
At(p, d) == <<p[1] + d[1], p[2] + d[2]>>

(* In the order in which they are looked at.                               *)
allNeighbors ==
  << <<-1, 0>>, <<0, 1>>, <<1, 0>>, <<0, -1>>,
     <<-1, -1>>, <<1, -1>>, <<1, 1>>, <<-1, 1>> >>

(* By where the node's parent is.                                          *)
dirNeighbors ==
  (<<0, -1>> :> << <<-1, 0>>, <<0, 1>>, <<1, 0>>, <<1, 1>>, <<-1, 1>> >>) @@
  (<<1, 0>> :> << <<-1, 0>>, <<0, 1>>, <<0, -1>>, <<-1, -1>>, <<-1, 1>> >>) @@
  (<<0, 1>> :> << <<-1, 0>>, <<1, 0>>, <<0, -1>>, <<-1, -1>>, <<1, -1>> >>) @@
  (<<-1, 0>> :> << <<0, 1>>, <<1, 0>>, <<0, -1>>, <<1, -1>>, <<1, 1>> >>) @@
  (<<-1, 1>> :> << <<1, 0>>, <<0, -1>>, <<-1, -1>>, <<1, -1>>, <<1, 1>> >>) @@
  (<<1, 1>> :> << <<-1, 0>>, <<0, -1>>, <<-1, -1>>, <<1, -1>>, <<-1, 1>> >>) @@
  (<<-1, -1>> :> << <<0, 1>>, <<1, 0>>, <<1, -1>>, <<1, 1>>, <<-1, 1>> >>) @@
  (<<1, -1>> :> << <<-1, 0>>, <<0, 1>>, <<-1, -1>>, <<1, 1>>, <<-1, 1>> >>)

(* canWalkTo, getMapWalkCost and getTileWalkCost.                          *)
CanWalkTo(c) == c \in Cell \ map.walls
Cost(from, to) ==
  (IF DistX(from, to) = DistY(from, to) THEN 25 ELSE 10)
    + (IF to \in map.slow THEN ExtraCost ELSE 0)

InSearch(c) ==
  fpp.maxSearchDist # 0 => Distance(Start, c) <= fpp.maxSearchDist

(* isInRange: within the distance of the target, and if the search is not  *)
(* full, not beyond it.                                                    *)
isInRange(c) ==
  /\ Distance(fpp.target, c) <= fpp.maxTargetDist
  /\ fpp.fullPathSearch \/
       \A i \in {1, 2} :
         /\ Start[i] < fpp.target[i] => c[i] <= fpp.target[i]
         /\ Start[i] > fpp.target[i] => c[i] >= fpp.target[i]

Fits(c) ==
  /\ isInRange(c)
  /\ c \notin map.hidden
  /\ Distance(fpp.target, c) >= fpp.minTargetDist

Exact(c) ==
  fpp.maxTargetDist = 1 \/ Distance(fpp.target, c) = fpp.maxTargetDist

-----------------------------------------------------------------------------
Begin(query, layout) ==
  /\ fpp = query /\ map = layout
  /\ nodes = <<[at |-> Start, f |-> 0, parent |-> 0, open |-> TRUE]>>
  /\ closedNodes = 0 /\ bestMatch = 0 /\ found = 0
  /\ result = "searching"

Init == \E q \in Query, l \in Layout : Begin(q, l)

Open == {i \in DOMAIN nodes : nodes[i].open}

(* getBestNode: the first of the cheapest.                                 *)
Best ==
  CHOOSE i \in Open :
    \A j \in Open \ {i} :
      nodes[i].f < nodes[j].f \/ (nodes[i].f = nodes[j].f /\ i < j)

Node(ns, c) == SelectInSeq(ns, LAMBDA n : n.at = c)

(* Faulty variant: what is open keeps the path by which it was found.      *)
VisitOnce(ns, i, d) ==
  LET c == At(nodes[i].at, d)
  IN  IF Node(ns, c) # 0 \/ ~InSearch(c) \/ ~CanWalkTo(c) THEN ns
      ELSE Append(ns, [at |-> c, f |-> nodes[i].f + Cost(nodes[i].at, c),
                       parent |-> i, open |-> TRUE])

(* A neighbour of node i is opened, or gets a cheaper path.                *)
Visit(ns, i, d) ==
  LET c == At(nodes[i].at, d)
      newf == nodes[i].f + Cost(nodes[i].at, c)
      j == Node(ns, c)
      new == [at |-> c, f |-> newf, parent |-> i, open |-> TRUE]
  IN  IF ~InSearch(c) \/ ~CanWalkTo(c) THEN ns
      ELSE IF j = 0 THEN Append(ns, new)
      ELSE IF ns[j].f <= newf THEN ns ELSE [ns EXCEPT ![j] = new]

Neighbors(i) ==
  IF nodes[i].parent = 0 THEN allNeighbors
  ELSE LET p == nodes[nodes[i].parent].at
       IN  dirNeighbors[<<p[1] - nodes[i].at[1], p[2] - nodes[i].at[2]>>]

(* Nodes run out: what is found by then is kept, but a search that has     *)
(* found nothing ends.                                                     *)
Expanded(i) ==
  FoldLeft(LAMBDA ns, d : IF Len(ns) > MaxNodes THEN ns ELSE Visit(ns, i, d),
           nodes, Neighbors(i))

(* The pathing condition: an exact match, or a better one than before.     *)
Matches(c) ==
  Fits(c) /\ (Exact(c) \/ Distance(fpp.target, c) > bestMatch)

Searching ==
  /\ result = "searching" /\ Open # {}
  /\ fpp.maxSearchDist = 0 => closedNodes < MaxClosed

EndSearch ==
  /\ result = "searching" /\ ~Searching
  /\ result' = IF found # 0 THEN "found" ELSE "none"
  /\ UNCHANGED <<fpp, map, nodes, closedNodes, bestMatch, found>>

FindExact ==
  /\ Searching
  /\ LET c == nodes[Best].at IN Matches(c) /\ Exact(c)
  /\ found' = Best /\ bestMatch' = 0
  /\ result' = "found"
  /\ UNCHANGED <<fpp, map, nodes, closedNodes>>

Expand ==
  /\ Searching
  /\ LET i == Best
         c == nodes[i].at
         ns == Expanded(i)
     IN  /\ ~(Matches(c) /\ Exact(c))
         /\ found' = IF Matches(c) THEN i ELSE found
         /\ bestMatch' = IF Matches(c) THEN Distance(fpp.target, c)
                         ELSE bestMatch
         /\ IF Len(ns) > MaxNodes /\ found' = 0
            THEN result' = "none" /\ UNCHANGED <<nodes, closedNodes>>
            ELSE /\ nodes' = [SubSeq(ns, 1, Min({Len(ns), MaxNodes}))
                                EXCEPT ![i].open = FALSE]
                 /\ closedNodes' = closedNodes + 1
                 /\ UNCHANGED result
  /\ UNCHANGED <<fpp, map>>

Next == FindExact \/ Expand \/ EndSearch

Spec == Init /\ [][Next]_vars

-----------------------------------------------------------------------------
(* Properties *)

TypeOK ==
  /\ fpp \in Query /\ map \in Layout
  /\ Len(nodes) <= MaxNodes
  /\ \A i \in DOMAIN nodes :
       nodes[i].at \in Cell /\ nodes[i].parent \in 0 .. Len(nodes)
  /\ closedNodes = Cardinality(DOMAIN nodes \ Open)
  /\ found \in 0 .. Len(nodes)
  /\ result \in {"searching", "found", "none"}

(* The walk to the match: dirList, backwards.                              *)
Route ==
  LET back[n \in 0 .. Len(nodes)] ==
        IF n = 0 THEN found
        ELSE IF back[n - 1] = 0 THEN 0 ELSE nodes[back[n - 1]].parent
  IN  SelectSeq([n \in 1 .. Len(nodes) + 1 |-> back[n - 1]],
                LAMBDA i : i # 0)

IsWalk(route) ==
  /\ nodes[Last(route)].at = Start
  /\ \A n \in 1 .. Len(route) - 1 :
       LET to == nodes[route[n]]
           from == nodes[route[n + 1]]
       IN  /\ CanWalkTo(to.at) /\ Distance(from.at, to.at) = 1
           /\ to.f = from.f + Cost(from.at, to.at)

(* Reference: with what the nodes cost, and limit for all that costs as    *)
(* much or is unseen, no cell is cheaper by way of a neighbour.  Then no   *)
(* walk to a cell costs less than that.                                    *)
Least(c, limit) ==
  LET i == Node(nodes, c) IN IF i = 0 THEN limit ELSE Min({nodes[i].f, limit})

NoneCheaper(limit) ==
  \A c \in Cell : CanWalkTo(c) /\ InSearch(c) =>
    \A n \in Cell : Distance(n, c) = 1 /\ CanWalkTo(n) =>
      Least(c, limit) <= Least(n, limit) + Cost(n, c)

Far == 1000000
Seen == {nodes[i].at : i \in DOMAIN nodes}
CutShort ==
  \/ Len(nodes) = MaxNodes
  \/ fpp.maxSearchDist = 0 /\ closedNodes >= MaxClosed

(* The path is a walk over free cells from Start to a place that is        *)
(* wanted; no exact match is cheaper, or there is none and no match is     *)
(* better, or as good and cheaper; and if none is found there is none.     *)
(* Only searches that are cut short may miss some (getPathMatching).       *)
PathIsBest ==
  /\ result = "none" =>
       CutShort \/ (NoneCheaper(Far) /\ \A c \in Seen : ~Fits(c))
  /\ result = "found" =>
       LET end == nodes[found]
       IN  /\ Fits(end.at) /\ IsWalk(Route)
           /\ \/ CutShort
              \/ /\ Exact(end.at) /\ NoneCheaper(end.f)
                 /\ \A c \in Seen :
                      Fits(c) /\ Exact(c) => Least(c, Far) >= end.f
              \/ /\ NoneCheaper(Far)
                 /\ \A c \in Seen : Fits(c) =>
                      \/ Distance(fpp.target, c) < Distance(fpp.target, end.at)
                      \/ /\ Distance(fpp.target, c)
                              = Distance(fpp.target, end.at)
                         /\ Least(c, Far) >= end.f
=============================================================================
