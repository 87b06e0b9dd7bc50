----------------------------- MODULE DayMatching -----------------------------
(***************************************************************************)
(* hungarian of src/travel_planner/weather_assignment.py, one pass of its   *)
(* inner loop at a time.  The registers are a record: the potentials u and  *)
(* v, the row p[column] matched to each column (0: none; p[0] is the row    *)
(* being placed), the trail way back to column 0, the reduced costs min of  *)
(* the columns (no columns while they are all math.inf), the columns used   *)
(* and the current column.                                                  *)
(* plan_trip cuts the forecast to trip_days days, one per group: the matrix *)
(* is square.                                                               *)
(***************************************************************************)
EXTENDS Integers, FiniteSetsExt

Placing(row, u, v, p, size) ==
  [row |-> row, u |-> u, v |-> v, p |-> [p EXCEPT ![0] = row],
   way |-> [c \in 0..size |-> 0], min |-> <<>>, used |-> {}, column |-> 0]

MatchStart(size) ==
  LET zeros == [c \in 0..size |-> 0] IN Placing(1, zeros, zeros, zeros, size)

Used(m) == m.used \cup {m.column}

\* Mutant for CheapestDays: the potentials of the columns are ignored.
ReducedByRow(m, cost, column) ==
  LET row == m.p[m.column] IN cost[row][column] - m.u[row]

Reduced(m, cost, column) ==
  LET row == m.p[m.column] IN cost[row][column] - m.u[row] - m.v[column]

\* Mutant for PotentialsFeasible: only the rows are repriced.
RepricedRowsOnly(v, used, delta) == v

Repriced(v, used, delta) == [c \in DOMAIN v |-> IF c \in used THEN v[c] - delta ELSE v[c]]

(* One pass of the loop over columns: relax from the current column, move  *)
(* by the least reduced cost, adjust the potentials of the used columns.   *)
Scanned(m, cost, size) ==
  LET used == Used(m)
      free == (1..size) \ used
      relaxed == {c \in free : c \notin DOMAIN m.min \/ Reduced(m, cost, c) < m.min[c]}
      least == [c \in 1..size |-> IF c \in relaxed THEN Reduced(m, cost, c) ELSE m.min[c]]
      delta == Min({least[c] : c \in free})
  IN  [m EXCEPT
        !.used = used,
        !.way = [c \in 0..size |-> IF c \in relaxed THEN m.column ELSE m.way[c]],
        !.min = [c \in 1..size |-> IF c \in free THEN least[c] - delta ELSE least[c]],
        !.u = [r \in 0..size |->
                 IF \E c \in used : m.p[c] = r THEN m.u[r] + delta ELSE m.u[r]],
        !.v = Repriced(m.v, used, delta),
        !.column = Min({c \in free : least[c] = delta})]

\* The search reached a column without a row.
Augmentable(m) == m.column # 0 /\ m.p[m.column] = 0

\* Mutant for AlwaysCloser: the row just placed is placed again.
SameRow(m) == m.row

NextRow(m) == m.row + 1

\* The columns met on the way back to column 0.
Trail(m, size) ==
  LET back[n \in 0..size] == IF n = 0 THEN m.column ELSE m.way[back[n - 1]]
  IN  {back[n] : n \in 0..size} \ {0}

\* The rows move one column along the trail; then the next row is placed.
Augmented(m, size) ==
  LET trail == Trail(m, size)
      p == [c \in 0..size |-> IF c \in trail THEN m.p[m.way[c]] ELSE m.p[c]]
  IN  Placing(NextRow(m), m.u, m.v, p, size)

Placed(m, size) == m.row > size

Assignment(m, size) == [row \in 1..size |-> CHOOSE c \in 1..size : m.p[c] = row]
=============================================================================
