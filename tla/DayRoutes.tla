------------------------------ MODULE DayRoutes ------------------------------
(***************************************************************************)
(* The routes of one day: shortest_open_path and build_day_route of         *)
(* src/travel_planner/routing.py.  A group is a sequence of attractions,    *)
(* times[i][j] the travel time from one to the other in fractions of a      *)
(* minute, PerMinute of them to a minute.                                   *)
(***************************************************************************)
EXTENDS Ordering

CONSTANTS
  ExactLimit,   \* above this many stops the path is greedy (10 in the code)
  PerMinute     \* the fractions of a minute that travel times are counted in

LegsOf(path, times) ==
  SumFunction([i \in 1..(Len(path) - 1) |-> times[path[i]][path[i + 1]]])

\* The states (visited set, last stop) of n stops of a group.
States(group, n) ==
  {s \in (SUBSET DOMAIN group) \X DOMAIN group : Cardinality(s[1]) = n /\ s[2] \in s[1]}

(* A state is reached from the states of one stop less.  On equal costs     *)
(* the one reached first, with the smallest position, stays.                *)
Reached(before, state, leg) ==
  LET visited == state[1] \ {state[2]}
      cost == [p \in visited |-> before[<<visited, p>>].cost + leg[p][state[2]]]
      via == FirstMin(Ascending(visited), [p \in visited |-> <<cost[p], 0>>])
  IN  [cost |-> cost[via], path |-> Append(before[<<visited, via>>].path, state[2])]

AllVisited(group, leg) ==
  LET reach[n \in 1..Len(group)] ==
        IF n = 1 THEN [s \in States(group, 1) |-> [cost |-> 0, path |-> <<s[2]>>]]
        ELSE LET before == reach[n - 1]
             IN  [s \in States(group, n) |-> Reached(before, s, leg)]
  IN  reach[Len(group)]

\* Python's order of lists of the same length, and of (cost, path).
Smaller(s, t) == \E i \in DOMAIN s : s[i] < t[i] /\ \A j \in 1..(i - 1) : s[j] = t[j]

Cheaper(a, b) == a.cost < b.cost \/ (a.cost = b.cost /\ Smaller(a.path, b.path))

LegsWithin(group, times) ==
  [a \in DOMAIN group |-> [b \in DOMAIN group |-> times[group[a]][group[b]]]]

ExactPath(group, times) ==
  LET all == DOMAIN group
      reached == AllVisited(group, LegsWithin(group, times))
      ends == [last \in all |-> reached[<<all, last>>]]
      best == CHOOSE a \in all : \A b \in all \ {a} : Cheaper(ends[a], ends[b])
  IN  [i \in all |-> group[ends[best].path[i]]]

\* From every start to the nearest stop left, the cheapest of these paths.
Nearest(path, group, times) ==
  LET left == ToSet(group) \ ToSet(path)
  IN  FirstMin(Ascending(left), [x \in left |-> <<times[Last(path)][x], 0>>])

Grown(start, group, times) ==
  LET path[n \in 0..(Len(group) - 1)] ==
        IF n = 0 THEN <<start>>
        ELSE Append(path[n - 1], Nearest(path[n - 1], group, times))
  IN  path[Len(group) - 1]

GreedyPath(group, times) ==
  Grown(FirstMin(group, [start \in ToSet(group) |->
                           <<LegsOf(Grown(start, group, times), times), 0>>]),
        group, times)

ShortestOpenPath(group, times) ==
  IF Len(group) <= 1 THEN group
  ELSE IF Len(group) > ExactLimit THEN GreedyPath(group, times)
  ELSE ExactPath(group, times)

Visits(group, poi) == SumFunction([i \in DOMAIN group |-> poi[group[i]].visit])

\* Night views are moved to the end.
NightsLast(path, poi) ==
  LET nights == {n \in DOMAIN path : poi[path[n]].night}
  IN  PartOf(path, DOMAIN path \ nights) \o PartOf(path, nights)

\* Mutant for ShortestDay: the order of the grouping is kept.
DayOrderUnrouted(group, poi, times) == NightsLast(group, poi)

DayOrder(group, poi, times) == NightsLast(ShortestOpenPath(group, times), poi)

\* The clock over the day in whole minutes, from 9:00; lunch at the first stop after
\* 11:30, or at the end.
DayEnd(order, poi, times) ==
  LET clock[i \in 0..Len(order)] ==
        IF i = 0 THEN [now |-> 540, lunch |-> FALSE]
        ELSE LET there == clock[i - 1].now
                          + (IF i = 1 THEN 0
                             ELSE Rounded(times[order[i - 1]][order[i]], PerMinute))
                 eats == ~clock[i - 1].lunch /\ there >= 690 /\ i > 1
             IN  [now |-> there + (IF eats THEN 60 ELSE 0) + poi[order[i]].visit,
                  lunch |-> clock[i - 1].lunch \/ eats]
      last == clock[Len(order)]
  IN  IF last.lunch THEN last.now ELSE last.now + 60
=============================================================================
