-------------------------- MODULE PlannerInductive --------------------------
(***************************************************************************)
(* The inductive invariant of a call of the planner: what each phase has   *)
(* established of the variables it leaves, in the terms of DayMatching     *)
(* (potentials), Attractions (listings), DayRoutes and TripPlanner.        *)
(* PlannerProofs proves it.                                                *)
(***************************************************************************)
EXTENDS TripPlanner

-----------------------------------------------------------------------------
(* Matching groups and days *)

Registers(n) ==
  [row: 1..(n + 1), u: [0..n -> Int], v: [0..n -> Int], p: [0..n -> 0..(n + 1)],
   way: [0..n -> 0..n], min: {<<>>} \cup [1..n -> Int], used: SUBSET (0..n), column: 0..n]

\* What is left of the cost of the row matched to d on column c.
Slack(m, cost, d, c) == cost[m.p[d]][c] - m.u[m.p[d]] - m.v[c]

Feasible(m, cost, n) ==
  \A row, c \in 1..n : m.u[row] + m.v[c] <= cost[row][c]

\* The rows before m.row have a column each, and pay for it exactly.
RowsMatched(m, cost, n) ==
  /\ m.p[0] = m.row
  /\ \A c \in 1..n : m.p[c] # 0 =>
       m.p[c] \in 1..(m.row - 1) /\ m.u[m.p[c]] + m.v[c] = cost[m.p[c]][c]
  /\ \A c, d \in 0..n : m.p[c] = m.p[d] /\ m.p[c] # 0 => c = d
  /\ \A row \in 1..(m.row - 1) : \E c \in 1..n : m.p[c] = row

\* The columns used are a tree of exact pairs; the others know their least slack.
TreeOfUsed(m, cost, n) ==
  /\ m.way[0] = 0
  /\ m.used = {} <=> m.column = 0
  /\ m.used = {} => m.min = <<>>
  /\ m.used # {} =>
       /\ m.row <= n /\ 0 \in m.used /\ m.column \notin m.used
       /\ m.min \in [1..n -> Int]
       /\ \A c \in m.used : m.p[c] # 0
       /\ \A c \in m.used \ {0} : m.way[c] \in m.used /\ Slack(m, cost, m.way[c], c) = 0
       /\ \A c \in (1..n) \ m.used :
            /\ m.way[c] \in m.used /\ m.min[c] = Slack(m, cost, m.way[c], c)
            /\ \A d \in m.used : m.min[c] <= Slack(m, cost, d, c)
       /\ m.min[m.column] = 0

\* The way back gets shorter with each column.
Ranked(m, rank, n) ==
  /\ rank \in [0..n -> Nat] /\ rank[0] = 0
  /\ \A c \in Used(m) \ {0} : rank[m.way[c]] < rank[c] /\ rank[c] <= Cardinality(m.used)

MatchInv(m, cost, n) ==
  /\ m \in Registers(n)
  /\ Feasible(m, cost, n) /\ RowsMatched(m, cost, n) /\ TreeOfUsed(m, cost, n)
  /\ \E rank : Ranked(m, rank, n)

-----------------------------------------------------------------------------
(* Attractions *)

Origins == [title: STRING, kind: STRING, age: SomeAges]

SomeOrigins == {origins \in SUBSET Origins : IsFiniteSet(origins)}

Sights ==
  [key: Nat, section: STRING, name: SUBSET STRING,
   content: [length: Nat, words: SUBSET STRING], address: SUBSET STRING,
   details: SUBSET STRING, edited: SomeAges, place: Places \cup {NoPlace, HalfPlace},
   closed: SUBSET (0..6), sources: SomeOrigins, score: Nat, visit: 30..480, indoor: 0..100,
   night: BOOLEAN, crowd: BOOLEAN, shut: BOOLEAN]

Distinct(list) == \A i, j \in DOMAIN list : list[i].key = list[j].key => i = j

\* What the pages tell of the attraction with a key.
ListedIn(book, key) ==
  {listing \in UNION {ToSet(page.listings) : page \in ToSet(book)} :
     listing.section \in {"see", "do"} /\ listing.key = key}

TellsOf(poi, book) ==
  /\ \A w \in 0..6 : w \in poi.closed <=> \E listing \in ListedIn(book, poi.key) : w \in listing.closed
  /\ poi.shut <=> \E listing \in ListedIn(book, poi.key) : "closed down" \in Told(listing)

\* The attractions of the planner: no two with one key, each with what the pages tell.
CatalogueOf(list, book) ==
  /\ list \in Seq(Sights) /\ Distinct(list)
  /\ \A i \in DOMAIN list : TellsOf(list[i], book)

Usables(list) ==
  \A n \in DOMAIN list : ~list[n].shut /\ Located(list[n]) /\ list[n].visit <= Capacity

-----------------------------------------------------------------------------
(* Groups *)

Measured ==
  /\ pois \in Seq(Sights)
  /\ travel \in [1..Len(pois) -> [1..Len(pois) -> Nat]]

Stops == 1..Len(pois)

\* A sequence of attractions, none twice.
Spread(list) ==
  /\ list \in Seq(Stops) /\ list # <<>>
  /\ \A a, b \in 1..Len(list) : list[a] = list[b] => a = b

\* Some of the attractions in k groups that are not empty, or left out; none twice.
GroupsOf(gs, left, some, k) ==
  /\ gs \in [1..k -> Seq(Stops)] /\ left \in SUBSET Stops
  /\ \A g \in 1..k : gs[g] # <<>>
  /\ \A g, h \in 1..k : \A m \in DOMAIN gs[g], n \in DOMAIN gs[h] :
       gs[g][m] = gs[h][n] => g = h /\ m = n
  /\ \A g \in 1..k : \A m \in DOMAIN gs[g] : gs[g][m] \notin left
  /\ \A i \in Stops : i \in some <=>
       i \in left \/ \E g \in 1..k : \E m \in DOMAIN gs[g] : gs[g][m] = i

-----------------------------------------------------------------------------
(* A call *)

DayRows == [date: Nat, weather: Weathers]

AskTyped ==
  /\ ask \in [trip: 1..7, dates: SUBSET Nat, most: 3..35, related: 1..15,
              interests: SUBSET STRING, excludes: BOOLEAN]
  /\ IsFiniteSet(ask.interests)

\* The phases of the calls, each set from one step on.
AtEnd == {"done"}
WhenMatched == {"matching"} \cup AtEnd
WhenGrouped == {"trimming"} \cup WhenMatched
WhenMeasured == {"measured", "clustering"} \cup WhenGrouped
WhenSelected == {"selected"} \cup WhenMeasured
WhenRanked == {"ranked"} \cup WhenSelected
WhenCollected == {"collected", "located"} \cup WhenRanked
WhenSearched == {"searched"} \cup WhenCollected
WhenDated == {"dated"} \cup WhenSearched

\* The medoids of the next round, and the best round so far.
SearchInv ==
  /\ Spread(search.medoids) /\ Len(search.medoids) = ask.trip
  /\ search.rounds \in 0..(MaxIterations - 1)
  /\ search.rounds > 0 => GroupsOf(search.groups, search.left, Stops, ask.trip)

CostMatrix == [g \in DOMAIN groups |-> [d \in DOMAIN days |-> Cost(groups[g], days[d])]]

NoOverfull == \A g \in DOMAIN groups : ~Overfull(g)

GroupOn(d) ==
  CHOOSE g \in DOMAIN groups : Assignment(match, ask.trip)[g] = d

DayPlan(d) ==
  LET order == DayOrder(groups[GroupOn(d)], pois, travel)
  IN  [group |-> GroupOn(d), order |-> order,
       conflicts |-> Conflicts(groups[GroupOn(d)], days[d].date),
       end |-> DayEnd(order, pois, travel)]

Grouped == GroupsOf(groups, dropped, Stops, ask.trip)

Priced == costs = CostMatrix /\ NoOverfull /\ MatchInv(match, costs, ask.trip)

Planned == match.row = ask.trip + 1 /\ plan = [d \in DOMAIN days |-> DayPlan(d)]

\* What each phase has established of the variables it leaves.
PlannerInv ==
  /\ AskTyped
  /\ phase = "asked" => forecast \in Forecasts /\ outcome = "none"
  /\ phase \in WhenDated => days \in Seq(DayRows) /\ Len(days) = ask.trip
  /\ phase \in WhenSearched => pages \in Seq(SourcePages)
  /\ phase \in WhenCollected => CatalogueOf(pois, pages)
  /\ phase \in WhenRanked => Usables(pois)
  /\ phase \in WhenSelected => ask.trip <= Len(pois)
  /\ phase \in WhenMeasured => Measured
  /\ phase = "clustering" => SearchInv
  /\ phase \in WhenGrouped => Grouped
  /\ phase \in WhenMatched => Priced
  /\ phase \in AtEnd => Planned
=============================================================================
