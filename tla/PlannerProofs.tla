--------------------------- MODULE PlannerProofs ---------------------------
(***************************************************************************)
(* What the planner promises of its recommendation, of a finished          *)
(* itinerary and of every step, proved for any requests, forecasts, wikis, *)
(* places and travel times.                                                *)
(*                                                                         *)
(* PlannerInv (of PlannerInductive) holds in every phase of a call, which  *)
(* PlannerInvariant proves.  The sections before it establish what the     *)
(* pure operators of the planner compute: hungarian keeps its potentials   *)
(* feasible and tight on what is matched, and a matching of feasible       *)
(* potentials that is tight everywhere is a cheapest one (its cost is the  *)
(* sum of the potentials, which no other assignment can undercut); the     *)
(* merge leaves one attraction per key with what all pages tell; a round   *)
(* of the medoids and a trim partition the attractions; every layer of the *)
(* exact search holds, for each set of stops and last stop, a path no      *)
(* other one undercuts; the clock of a day adds up the visits and legs     *)
(* that the trimming measured, and at most half a minute a leg from its    *)
(* rounding.  The last two sections need the invariant only: what a step   *)
(* leaves to do, and which run of dates the rows of a window are.          *)
(***************************************************************************)
EXTENDS PlannerInductive, FiniteSetTheorems, SequenceTheorems, WellFoundedInduction, TLAPS

-----------------------------------------------------------------------------
(* Numbers, sets, sums and matchings of the same size *)

\* A set of natural numbers that is not empty has a least element.
LEMMA LeastNumber ==
  ASSUME NEW S \in SUBSET Nat, S # {}
  PROVE  \E m \in S : \A n \in S : m <= n
<1> DEFINE R == OpToRel(<, Nat)
<1>1. IsWellFoundedOn(R, Nat)
  BY NatLessThanWellFounded
<1>2. \A x, y \in Nat : <<x, y>> \in R <=> x < y
  BY DEF OpToRel
<1> HIDE DEF R
<1>3. PICK m \in S : \A n \in S : <<n, m>> \notin R
  BY <1>1, WFMin
<1>4. ASSUME NEW n \in S PROVE m <= n
  <2>1. m \in Nat /\ n \in Nat
    OBVIOUS
  <2>2. ~(n < m)
    BY <1>2, <1>3, <2>1
  <2> QED BY <2>1, <2>2
<1> QED BY <1>4

\* Max picks the greatest number of a set that is bounded and not empty.
LEMMA MaxNumber ==
  ASSUME NEW S \in SUBSET Nat, S # {}, NEW bound \in Nat, \A n \in S : n <= bound
  PROVE  Max(S) \in S /\ \A n \in S : n <= Max(S)
<1> DEFINE Rest == {bound - n : n \in S}
<1>1. Rest \in SUBSET Nat /\ Rest # {}
  <2>1. ASSUME NEW n \in S PROVE bound - n \in Nat
    OBVIOUS
  <2>2. Rest # {}
    OBVIOUS
  <2> QED BY <2>1, <2>2
<1>2. PICK m \in Rest : \A n \in Rest : m <= n
  BY <1>1, LeastNumber
<1>3. PICK x \in S : m = bound - x
  OBVIOUS
<1>4. ASSUME NEW n \in S PROVE x >= n
  BY <1>2, <1>3
<1>5. \E y \in S : \A n \in S : y >= n
  BY <1>4
<1>6. Max(S) \in S /\ \A n \in S : Max(S) >= n
  BY <1>5 DEF Max
<1>7. ASSUME NEW n \in S PROVE n <= Max(S)
  BY <1>6
<1> QED BY <1>6, <1>7

\* A set of numbers that holds 0 and with each number the next holds them all.
LEMMA StepByStep ==
  ASSUME NEW N \in Nat, NEW A, 0 \in A, \A n \in 1..N : n - 1 \in A => n \in A
  PROVE  \A n \in 0..N : n \in A
<1> SUFFICES ASSUME NEW n \in 0..N, n \notin A PROVE FALSE
  OBVIOUS
<1> DEFINE Unreached == {k \in 0..N : k \notin A}
<1>1. Unreached \in SUBSET Nat /\ Unreached # {}
  OBVIOUS
<1>2. PICK least \in Unreached : \A k \in Unreached : least <= k
  BY <1>1, LeastNumber
<1>3. least \in 1..N
  BY <1>2
<1>4. least - 1 \in A
  BY <1>3, <1>2
<1> QED BY <1>2, <1>3, <1>4

\* f begins with base, and step says what follows each value.
Computes(f, N, base, step) ==
  /\ f[0] = base
  /\ \A n \in 1..N : f[n] = step[<<n, f[n - 1]>>]

\* A recursion over 0..N has a value.
LEMMA Recursion ==
  ASSUME NEW N \in Nat, NEW S, NEW base \in S, NEW step \in [(1..N) \X S -> S]
  PROVE  \E f \in [0..N -> S] : Computes(f, N, base, step)
<1> DEFINE A == {k \in 0..N : \E f \in [0..N -> S] : Computes(f, k, base, step)}
<1>1. 0 \in A
  <2>1. PICK f : f = [n \in 0..N |-> base]
    OBVIOUS
  <2>2. f \in [0..N -> S] /\ f[0] = base
    BY <2>1
  <2>3. Computes(f, 0, base, step)
    BY <2>2 DEF Computes
  <2> QED BY <2>2, <2>3
<1>2. ASSUME NEW k \in 1..N, k - 1 \in A PROVE k \in A
  <2>1. PICK f \in [0..N -> S] : Computes(f, k - 1, base, step)
    BY <1>2
  <2>2. step[<<k, f[k - 1]>>] \in S
    <3>1. f[k - 1] \in S
      BY <2>1
    <3> QED BY <3>1
  <2>3. PICK g : g = [f EXCEPT ![k] = step[<<k, f[k - 1]>>]]
    OBVIOUS
  <2>4. g \in [0..N -> S]
    BY <2>1, <2>2, <2>3
  <2>5. g[0] = base
    BY <2>1, <2>3 DEF Computes
  <2>6. ASSUME NEW n \in 1..k PROVE g[n] = step[<<n, g[n - 1]>>]
    <3>1. g[n - 1] = f[n - 1]
      BY <2>3
    <3>2. CASE n = k
      <4>1. g[k] = step[<<k, f[k - 1]>>]
        BY <2>1, <2>3
      <4> QED BY <3>1, <3>2, <4>1
    <3>3. CASE n # k
      BY <2>3, <3>3, <2>1, <3>1 DEF Computes
    <3> QED BY <3>2, <3>3
  <2>7. Computes(g, k, base, step)
    BY <2>5, <2>6 DEF Computes
  <2> QED BY <2>4, <2>7
<1>3. N \in A
  <2> HIDE DEF A
  <2>1. \A n \in 0..N : n \in A
    BY <1>1, <1>2, StepByStep
  <2> QED BY <2>1
<1> QED BY <1>3

-----------------------------------------------------------------------------
(* Finite sets *)

\* What holds of the empty set, and of a set with one more element, holds of every
\* subset of a finite set.
LEMMA ElementByElement ==
  ASSUME NEW D, IsFiniteSet(D), NEW A, {} \in A,
         \A s \in SUBSET D : \A x \in D \ s : s \in A => s \cup {x} \in A
  PROVE  \A s \in SUBSET D : s \in A
<1> DEFINE B == {n \in Nat : \A s \in SUBSET D : Cardinality(s) = n => s \in A}
<1>1. \A s \in SUBSET D : IsFiniteSet(s) /\ Cardinality(s) \in Nat
  BY FS_Subset, FS_CardinalityType
<1>2. 0 \in B
  BY <1>1, FS_EmptySet
<1>3. ASSUME NEW N \in Nat, NEW n \in 1..N, n - 1 \in B PROVE n \in B
  <2>1. ASSUME NEW s \in SUBSET D, Cardinality(s) = n PROVE s \in A
    <3>1. PICK x : x \in s
      BY <1>1, <1>2, <2>1, FS_EmptySet
    <3>2. Cardinality(s \ {x}) = n - 1
      BY <1>1, <2>1, <3>1, FS_RemoveElement
    <3>3. s \ {x} \in A
      BY <1>3, <3>2
    <3>4. x \in D \ (s \ {x}) /\ (s \ {x}) \cup {x} = s
      BY <3>1
    <3> QED BY <3>3, <3>4
  <2> QED BY <2>1
<1>4. ASSUME NEW N \in Nat PROVE N \in B
  <2> HIDE DEF B
  <2>1. \A n \in 0..N : n \in B
    BY <1>2, <1>3, StepByStep
  <2> QED BY <2>1
<1>5. ASSUME NEW s \in SUBSET D PROVE s \in A
  <2>1. Cardinality(s) \in B
    BY <1>1, <1>4
  <2> QED BY <2>1
<1> QED BY <1>5

\* Min picks the least of finitely many integers.
LEMMA LeastOfFinite ==
  ASSUME NEW S \in SUBSET Int, IsFiniteSet(S), S # {}
  PROVE  Min(S) \in S /\ \A x \in S : Min(S) <= x
<1> DEFINE A == {s \in SUBSET S : s # {} => \E m \in s : \A x \in s : m <= x}
<1>1. {} \in A
  OBVIOUS
<1>2. ASSUME NEW s \in SUBSET S, NEW x \in S \ s, s \in A PROVE s \cup {x} \in A
  <2>1. CASE s = {}
    BY <2>1
  <2>2. CASE s # {}
    <3>1. PICK m \in s : \A y \in s : m <= y
      BY <1>2, <2>2
    <3>2. CASE m <= x
      BY <3>1, <3>2
    <3>3. CASE ~(m <= x)
      <4>1. \A y \in s \cup {x} : x <= y
        <5>1. m \in Int /\ x \in Int
          OBVIOUS
        <5>2. x <= m
          BY <3>3, <5>1
        <5>3. ASSUME NEW y \in s PROVE x <= y
          BY <3>1, <5>1, <5>2
        <5> QED BY <5>3
      <4> QED BY <4>1
    <3> QED BY <3>2, <3>3
  <2> QED BY <2>1, <2>2
<1>3. S \in A
  <2> HIDE DEF A
  <2> QED BY <1>1, <1>2, ElementByElement
<1>4. \E m \in S : \A x \in S : m <= x
  BY <1>3
<1> QED BY <1>4 DEF Min

-----------------------------------------------------------------------------
(* Sums *)

Pick(s) == CHOOSE x \in s : TRUE

\* g[s] is the sum of f over s, for the subsets s of S with at most n elements.
SumsTo(g, f, S, n) ==
  \A s \in SUBSET S :
    Cardinality(s) <= n => g[s] = IF s = {} THEN 0 ELSE f[Pick(s)] + g[s \ {Pick(s)}]

\* Pick takes an element, and one fewer is left.
LEMMA Picked ==
  ASSUME NEW S, IsFiniteSet(S), NEW s \in SUBSET S, s # {}
  PROVE  /\ Pick(s) \in s /\ s \ {Pick(s)} \in SUBSET S
         /\ Cardinality(s) \in Nat /\ Cardinality(s) >= 1
         /\ Cardinality(s \ {Pick(s)}) = Cardinality(s) - 1
<1>1. Pick(s) \in s
  BY DEF Pick
<1>2. IsFiniteSet(s)
  BY FS_Subset
<1>3. Cardinality(s) \in Nat /\ Cardinality(s) # 0
  BY <1>2, FS_CardinalityType, FS_EmptySet
<1>4. Cardinality(s \ {Pick(s)}) = Cardinality(s) - 1
  BY <1>1, <1>2, FS_RemoveElement
<1> QED BY <1>1, <1>3, <1>4

\* The sums over the subsets of a finite set exist, by the number of elements.
LEMMA SumsExist ==
  ASSUME NEW S, IsFiniteSet(S), NEW f, \A x \in S : f[x] \in Int
  PROVE  \E g \in [SUBSET S -> Int] : SumsTo(g, f, S, Cardinality(S))
<1> DEFINE A == {n \in Nat : \E g \in [SUBSET S -> Int] : SumsTo(g, f, S, n)}
<1>1. \A s \in SUBSET S : Cardinality(s) \in Nat /\ (Cardinality(s) = 0 <=> s = {})
  BY FS_Subset, FS_CardinalityType, FS_EmptySet
<1>2. 0 \in A
  <2>1. PICK g : g = [s \in SUBSET S |-> 0]
    OBVIOUS
  <2>2. SumsTo(g, f, S, 0)
    BY <1>1, <2>1 DEF SumsTo
  <2> QED BY <2>1, <2>2
<1>3. ASSUME NEW N \in Nat, NEW n \in 1..N, n - 1 \in A PROVE n \in A
  <2>1. PICK g \in [SUBSET S -> Int] : SumsTo(g, f, S, n - 1)
    BY <1>3
  <2>2. PICK h : h = [s \in SUBSET S |->
                        IF s = {} THEN 0 ELSE f[Pick(s)] + g[s \ {Pick(s)}]]
    OBVIOUS
  <2>3. h \in [SUBSET S -> Int]
    <3>1. ASSUME NEW s \in SUBSET S, s # {} PROVE f[Pick(s)] + g[s \ {Pick(s)}] \in Int
      <4>1. Pick(s) \in S /\ s \ {Pick(s)} \in SUBSET S
        BY <3>1, Picked
      <4>2. f[Pick(s)] \in Int /\ g[s \ {Pick(s)}] \in Int
        BY <2>1, <4>1
      <4> QED BY <4>2
    <3> QED BY <2>2, <3>1
  <2>4. ASSUME NEW s \in SUBSET S, Cardinality(s) <= n
        PROVE  h[s] = IF s = {} THEN 0 ELSE f[Pick(s)] + h[s \ {Pick(s)}]
    <3>1. CASE s = {}
      BY <2>2, <3>1
    <3>2. CASE s # {}
      <4> DEFINE t == s \ {Pick(s)}
      <4>1. t \in SUBSET S /\ Cardinality(t) <= n - 1
        BY <2>4, <3>2, Picked
      <4>2. g[t] = h[t]
        BY <2>1, <2>2, <4>1 DEF SumsTo
      <4>3. h[s] = f[Pick(s)] + g[t]
        BY <2>2, <3>2
      <4> QED BY <3>2, <4>2, <4>3
    <3> QED BY <3>1, <3>2
  <2>5. SumsTo(h, f, S, n)
    BY <2>4 DEF SumsTo
  <2> QED BY <2>3, <2>5
<1>4. Cardinality(S) \in A
  <2>1. Cardinality(S) \in Nat
    BY FS_CardinalityType
  <2> HIDE DEF A
  <2>2. \A n \in 0..Cardinality(S) : n \in A
    BY <1>2, <1>3, <2>1, StepByStep
  <2> QED BY <2>1, <2>2
<1> QED BY <1>4

\* The recursion of the fold has one value.
LEMMA SumsUnique ==
  ASSUME NEW S, IsFiniteSet(S), NEW g, NEW h, NEW f, NEW e, NEW T \in SUBSET S,
         SumsTo(g, f, S, Cardinality(S)), SumsTo(h, e, T, Cardinality(T)),
         \A x \in T : f[x] = e[x]
  PROVE  \A s \in SUBSET T : g[s] = h[s]
<1> DEFINE A == {n \in Nat : \A s \in SUBSET T : Cardinality(s) = n => g[s] = h[s]}
<1>1. /\ IsFiniteSet(T)
      /\ \A s \in SUBSET T : /\ Cardinality(s) \in Nat /\ (Cardinality(s) = 0 <=> s = {})
                             /\ Cardinality(s) <= Cardinality(T)
                             /\ Cardinality(s) <= Cardinality(S)
  BY FS_Subset, FS_CardinalityType, FS_EmptySet
<1>2. 0 \in A
  BY <1>1 DEF SumsTo
<1>3. ASSUME NEW N \in Nat, NEW n \in 1..N, n - 1 \in A PROVE n \in A
  <2>1. ASSUME NEW s \in SUBSET T, Cardinality(s) = n PROVE g[s] = h[s]
    <3> DEFINE t == s \ {Pick(s)}
    <3>1. s # {}
      BY <1>1, <2>1
    <3>2. Pick(s) \in T /\ t \in SUBSET T /\ Cardinality(t) = n - 1
      BY <1>1, <2>1, <3>1, Picked
    <3>3. g[t] = h[t]
      BY <1>3, <3>2
    <3>4. g[s] = f[Pick(s)] + g[t]
      BY <1>1, <3>1 DEF SumsTo
    <3>5. h[s] = e[Pick(s)] + h[t]
      BY <1>1, <3>1 DEF SumsTo
    <3> QED BY <3>2, <3>3, <3>4, <3>5
  <2> QED BY <2>1
<1>4. ASSUME NEW s \in SUBSET T PROVE g[s] = h[s]
  <2>1. Cardinality(s) \in Nat
    BY <1>1
  <2>2. Cardinality(s) \in A
    <3> HIDE DEF A
    <3>1. \A n \in 0..Cardinality(s) : n \in A
      BY <1>2, <1>3, <2>1, StepByStep
    <3> QED BY <2>1, <3>1
  <2> QED BY <2>2
<1> QED BY <1>4

\* The fold of the community modules is one of these recursions.
LEMMA SumIsTheRecursion ==
  ASSUME NEW S, IsFiniteSet(S), NEW f, \A x \in S : f[x] \in Int
  PROVE  \E g \in [SUBSET S -> Int] :
           SumsTo(g, f, S, Cardinality(S)) /\ SumFunctionOnSet(f, S) = g[S]
<1> DEFINE Iter(g) == g = [s \in SUBSET S |->
                             IF s = {} THEN 0 ELSE f[Pick(s)] + g[s \ {Pick(s)}]]
<1>1. PICK g \in [SUBSET S -> Int] : SumsTo(g, f, S, Cardinality(S))
  BY SumsExist
<1>2. \A s \in SUBSET S : Cardinality(s) <= Cardinality(S)
  BY FS_Subset
<1>3. Iter(g)
  <2>1. ASSUME NEW s \in SUBSET S
        PROVE  g[s] = IF s = {} THEN 0 ELSE f[Pick(s)] + g[s \ {Pick(s)}]
    BY <1>1, <1>2 DEF SumsTo
  <2> QED BY <2>1
<1>4. PICK h : h = CHOOSE k : Iter(k)
  OBVIOUS
<1>5. Iter(h)
  BY <1>3, <1>4
<1>6. SumsTo(h, f, S, Cardinality(S))
  <2>1. ASSUME NEW s \in SUBSET S
        PROVE  h[s] = IF s = {} THEN 0 ELSE f[Pick(s)] + h[s \ {Pick(s)}]
    BY <1>5
  <2> QED BY <2>1 DEF SumsTo
<1>7. \A s \in SUBSET S : g[s] = h[s]
  BY <1>1, <1>6, SumsUnique
<1>8. SumFunctionOnSet(f, S) = h[S]
  BY <1>4 DEF SumFunctionOnSet, FoldFunctionOnSet, MapThenFoldSet, Pick
<1>9. SumFunctionOnSet(f, S) = g[S]
  BY <1>7, <1>8
<1> QED BY <1>1, <1>9

Without(s, x) == s \ {x}

\* g[s \cup {x}] does not depend on which element the fold takes first.
LEMMA AnyElementFirst ==
  ASSUME NEW S, IsFiniteSet(S), NEW f, \A x \in S : f[x] \in Int,
         NEW g, \A s \in SUBSET S : g[s] \in Int, SumsTo(g, f, S, Cardinality(S))
  PROVE  \A s \in SUBSET S : \A x \in s : g[s] = f[x] + g[Without(s, x)]
<1> DEFINE A == {n \in Nat : \A s \in SUBSET S : \A x \in s :
                   Cardinality(s) = n => g[s] = f[x] + g[Without(s, x)]}
<1>1. \A s \in SUBSET S : /\ IsFiniteSet(s) /\ Cardinality(s) \in Nat
                          /\ (Cardinality(s) = 0 <=> s = {})
                          /\ Cardinality(s) <= Cardinality(S)
  BY FS_Subset, FS_CardinalityType, FS_EmptySet
<1>2. 0 \in A
  BY <1>1
<1>3. ASSUME NEW N \in Nat, NEW n \in 1..N, n - 1 \in A PROVE n \in A
  <2>1. ASSUME NEW s \in SUBSET S, NEW x \in s, Cardinality(s) = n
        PROVE  g[s] = f[x] + g[Without(s, x)]
    <3> DEFINE y == Pick(s)
    <3>1. y \in s /\ Without(s, y) \in SUBSET S /\ Cardinality(Without(s, y)) = n - 1
      BY <2>1, Picked DEF Without
    <3>2. g[s] = f[y] + g[Without(s, y)]
      BY <1>1, <2>1 DEF SumsTo, Without
    <3>3. CASE x = y
      BY <3>2, <3>3
    <3>4. CASE x # y
      <4>1. PICK both \in SUBSET S : both = (s \ {x}) \ {y}
        OBVIOUS
      <4>2. x \in Without(s, y) /\ y \in Without(s, x) /\ Without(s, x) \in SUBSET S
            /\ Without(Without(s, y), x) = both /\ Without(Without(s, x), y) = both
        BY <3>1, <3>4, <4>1 DEF Without
      <4>3. Cardinality(Without(s, x)) = n - 1
        BY <1>1, <2>1, FS_RemoveElement DEF Without
      <4>4. \A t \in SUBSET S : \A z \in t :
              Cardinality(t) = n - 1 => g[t] = f[z] + g[Without(t, z)]
        BY <1>3
      <4> HIDE DEF A, y
      <4>5. g[Without(s, y)] = f[x] + g[both]
        BY <3>1, <4>2, <4>4
      <4>6. g[Without(s, x)] = f[y] + g[both]
        BY <4>2, <4>3, <4>4
      <4>7. f[x] \in Int /\ f[y] \in Int /\ g[both] \in Int
        BY <3>1
      <4> QED BY <3>2, <4>5, <4>6, <4>7
    <3> QED BY <3>3, <3>4
  <2> QED BY <2>1
<1>4. ASSUME NEW s \in SUBSET S, NEW x \in s PROVE g[s] = f[x] + g[Without(s, x)]
  <2>1. Cardinality(s) \in Nat
    BY <1>1
  <2>2. Cardinality(s) \in A
    <3> HIDE DEF A
    <3>1. \A n \in 0..Cardinality(s) : n \in A
      BY <1>2, <1>3, <2>1, StepByStep
    <3> QED BY <2>1, <3>1
  <2> QED BY <2>2
<1> QED BY <1>4

\* A sum over a finite set: its type, its value on the empty set, one element more.
LEMMA SumFacts ==
  ASSUME NEW S, IsFiniteSet(S), NEW f, \A x \in S : f[x] \in Int
  PROVE  /\ SumFunctionOnSet(f, {}) = 0
         /\ \A s \in SUBSET S :
              /\ SumFunctionOnSet(f, s) \in Int
              /\ \A x \in S \ s : SumFunctionOnSet(f, s \cup {x}) = f[x] + SumFunctionOnSet(f, s)
<1>1. PICK g \in [SUBSET S -> Int] : SumsTo(g, f, S, Cardinality(S))
  BY SumsExist
<1>2. ASSUME NEW s \in SUBSET S PROVE SumFunctionOnSet(f, s) = g[s]
  <2>1. IsFiniteSet(s) /\ \A x \in s : f[x] \in Int
    BY FS_Subset
  <2>2. PICK h \in [SUBSET s -> Int] :
          SumsTo(h, f, s, Cardinality(s)) /\ SumFunctionOnSet(f, s) = h[s]
    BY <2>1, SumIsTheRecursion
  <2>3. \A t \in SUBSET s : g[t] = h[t]
    BY <1>1, <2>2, SumsUnique
  <2> QED BY <2>2, <2>3
<1>3. g[{}] = 0
  BY FS_EmptySet, FS_CardinalityType, <1>1 DEF SumsTo
<1>4. SumFunctionOnSet(f, {}) = 0
  BY <1>2, <1>3
<1>5. ASSUME NEW s \in SUBSET S, NEW x \in S \ s
      PROVE  SumFunctionOnSet(f, s \cup {x}) = f[x] + SumFunctionOnSet(f, s)
  <2>1. s \cup {x} \in SUBSET S /\ Without(s \cup {x}, x) = s
    BY DEF Without
  <2>2. \A t \in SUBSET S : g[t] \in Int
    BY <1>1
  <2>3. \A t \in SUBSET S : \A z \in t : g[t] = f[z] + g[Without(t, z)]
    BY <1>1, <2>2, AnyElementFirst
  <2>4. g[s \cup {x}] = f[x] + g[s]
    BY <2>1, <2>3
  <2> QED BY <1>2, <2>1, <2>4
<1>6. \A s \in SUBSET S : SumFunctionOnSet(f, s) \in Int
  BY <1>1, <1>2
<1> QED BY <1>4, <1>5, <1>6

\* A sum depends on the values it adds, and grows with them.
LEMMA SumsCompare ==
  ASSUME NEW S, IsFiniteSet(S), NEW f, NEW e, \A x \in S : f[x] \in Int /\ e[x] \in Int,
         \A x \in S : f[x] <= e[x]
  PROVE  SumFunctionOnSet(f, S) <= SumFunctionOnSet(e, S)
<1> DEFINE A == {s \in SUBSET S : SumFunctionOnSet(f, s) <= SumFunctionOnSet(e, s)}
<1>1. {} \in A
  BY SumFacts
<1>2. ASSUME NEW s \in SUBSET S, NEW x \in S \ s, s \in A PROVE s \cup {x} \in A
  <2>1. /\ SumFunctionOnSet(f, s \cup {x}) = f[x] + SumFunctionOnSet(f, s)
        /\ SumFunctionOnSet(f, s) \in Int
    BY SumFacts
  <2>2. /\ SumFunctionOnSet(e, s \cup {x}) = e[x] + SumFunctionOnSet(e, s)
        /\ SumFunctionOnSet(e, s) \in Int
    BY SumFacts
  <2>3. f[x] \in Int /\ e[x] \in Int /\ f[x] <= e[x]
    OBVIOUS
  <2>4. s \cup {x} \in SUBSET S
    OBVIOUS
  <2> QED BY <1>2, <2>1, <2>2, <2>3, <2>4
<1> HIDE DEF A
<1>3. S \in A
  BY <1>1, <1>2, ElementByElement
<1> QED BY <1>3 DEF A

\* Functions that agree on a set have the same sum over it.
LEMMA SumsAgree ==
  ASSUME NEW S, IsFiniteSet(S), NEW f, NEW e, \A x \in S : f[x] \in Int /\ f[x] = e[x]
  PROVE  SumFunctionOnSet(f, S) = SumFunctionOnSet(e, S)
<1>1. \A x \in S : f[x] \in Int /\ e[x] \in Int /\ f[x] <= e[x] /\ e[x] <= f[x]
  OBVIOUS
<1>2. SumFunctionOnSet(f, S) <= SumFunctionOnSet(e, S)
  BY <1>1, SumsCompare
<1>3. SumFunctionOnSet(e, S) <= SumFunctionOnSet(f, S)
  BY <1>1, SumsCompare
<1>4. SumFunctionOnSet(f, S) \in Int /\ SumFunctionOnSet(e, S) \in Int
  BY <1>1, SumFacts
<1> QED BY <1>2, <1>3, <1>4

\* Two sums over one set are the sum of both.
LEMMA SumsAdd ==
  ASSUME NEW S, IsFiniteSet(S), NEW f, NEW e, NEW both,
         \A x \in S : f[x] \in Int /\ e[x] \in Int /\ both[x] = f[x] + e[x]
  PROVE  SumFunctionOnSet(both, S) = SumFunctionOnSet(f, S) + SumFunctionOnSet(e, S)
<1> DEFINE A == {s \in SUBSET S : SumFunctionOnSet(both, s)
                                    = SumFunctionOnSet(f, s) + SumFunctionOnSet(e, s)}
<1>1. \A x \in S : both[x] \in Int
  OBVIOUS
<1>2. {} \in A
  BY <1>1, SumFacts
<1>3. ASSUME NEW s \in SUBSET S, NEW x \in S \ s, s \in A PROVE s \cup {x} \in A
  <2>1. /\ SumFunctionOnSet(f, s \cup {x}) = f[x] + SumFunctionOnSet(f, s)
        /\ SumFunctionOnSet(f, s) \in Int
    BY SumFacts
  <2>2. /\ SumFunctionOnSet(e, s \cup {x}) = e[x] + SumFunctionOnSet(e, s)
        /\ SumFunctionOnSet(e, s) \in Int
    BY SumFacts
  <2>3. SumFunctionOnSet(both, s \cup {x}) = both[x] + SumFunctionOnSet(both, s)
    BY <1>1, SumFacts
  <2>4. f[x] \in Int /\ e[x] \in Int /\ both[x] = f[x] + e[x]
    OBVIOUS
  <2>5. s \cup {x} \in SUBSET S
    OBVIOUS
  <2> QED BY <1>3, <2>1, <2>2, <2>3, <2>4, <2>5
<1> HIDE DEF A
<1>4. S \in A
  BY <1>2, <1>3, ElementByElement
<1> QED BY <1>4 DEF A

\* A sum over the elements of S is the sum over what they are mapped to one to one.
LEMMA SumsReindex ==
  ASSUME NEW S, IsFiniteSet(S), NEW T, IsFiniteSet(T), NEW pi \in [S -> T],
         \A x, y \in S : pi[x] = pi[y] => x = y, \A y \in T : \E x \in S : pi[x] = y,
         NEW f, NEW e, \A x \in S : e[x] = f[pi[x]], \A y \in T : f[y] \in Int
  PROVE  SumFunctionOnSet(e, S) = SumFunctionOnSet(f, T)
<1> DEFINE Image(s) == {pi[x] : x \in s}
           A == {s \in SUBSET S : SumFunctionOnSet(e, s) = SumFunctionOnSet(f, Image(s))}
<1>1. \A x \in S : e[x] \in Int
  OBVIOUS
<1>2. {} \in A
  <2>1. Image({}) = {}
    OBVIOUS
  <2>2. SumFunctionOnSet(e, {}) = 0 /\ SumFunctionOnSet(f, {}) = 0
    BY <1>1, SumFacts
  <2> QED BY <2>1, <2>2
<1>3. ASSUME NEW s \in SUBSET S, NEW x \in S \ s, s \in A PROVE s \cup {x} \in A
  <2>1. Image(s \cup {x}) = Image(s) \cup {pi[x]}
    OBVIOUS
  <2>2. Image(s) \in SUBSET T /\ pi[x] \in T \ Image(s)
    OBVIOUS
  <2>3. SumFunctionOnSet(e, s \cup {x}) = e[x] + SumFunctionOnSet(e, s)
    BY <1>1, SumFacts
  <2> HIDE DEF Image
  <2>4. SumFunctionOnSet(f, Image(s) \cup {pi[x]}) = f[pi[x]] + SumFunctionOnSet(f, Image(s))
    BY <2>2, SumFacts
  <2>5. SumFunctionOnSet(e, s) = SumFunctionOnSet(f, Image(s)) /\ e[x] = f[pi[x]]
    BY <1>3
  <2>6. SumFunctionOnSet(e, s \cup {x}) = SumFunctionOnSet(f, Image(s \cup {x}))
    BY <2>1, <2>3, <2>4, <2>5
  <2>7. s \cup {x} \in SUBSET S
    OBVIOUS
  <2> QED BY <2>6, <2>7
<1>4. S \in A
  <2> HIDE DEF A
  <2> QED BY <1>2, <1>3, ElementByElement
<1>5. Image(S) = T
  OBVIOUS
<1> HIDE DEF Image
<1> QED BY <1>4, <1>5

\* A quotient is at most c if the dividend is at most c times the divisor.
LEMMA Quotient ==
  ASSUME NEW a \in Int, NEW b \in Int, a >= 0, b >= 1, NEW c \in Nat, a <= c * b
  PROVE  a \div b \in Int /\ a \div b >= 0 /\ a \div b <= c
<1>1. PICK q \in Int : q = a \div b
  OBVIOUS
<1>2. b * q <= a /\ a < b * (q + 1)
  BY <1>1
<1>3. q >= 0
  <2>1. SUFFICES ASSUME q + 1 <= 0 PROVE FALSE
    OBVIOUS
  <2>2. b * (q + 1) <= 0
    BY <2>1
  <2> QED BY <1>2, <2>2
<1>4. q <= c
  <2>1. SUFFICES ASSUME q >= c + 1 PROVE FALSE
    OBVIOUS
  <2>2. b * q >= b * (c + 1)
    BY <2>1
  <2>3. b * (c + 1) = c * b + b
    OBVIOUS
  <2> QED BY <1>2, <2>2, <2>3
<1> QED BY <1>1, <1>3, <1>4

-----------------------------------------------------------------------------
(* One step of hungarian: the potentials stay feasible, the scan stays tight *)

\* The costs of n rows on n columns.
Matrix(cost, n) == cost \in [1..n -> [1..n -> Int]]

-----------------------------------------------------------------------------

\* The image of a finite set is finite.
LEMMA ImageFinite ==
  ASSUME NEW S, IsFiniteSet(S), NEW f
  PROVE  IsFiniteSet({f[x] : x \in S})
<1> DEFINE g == [x \in S |-> f[x]]
           T == {f[x] : x \in S}
<1>1. g \in Surjection(S, T)
  BY DEF Surjection
<1> HIDE DEF g, T
<1>2. IsFiniteSet(T)
  BY <1>1, FS_Surjection
<1> QED BY <1>2 DEF T

\* The fields of the registers, one by one.
LEMMA RegisterTypes ==
  ASSUME NEW n \in Nat, NEW m \in Registers(n)
  PROVE  /\ m.row \in Nat /\ m.row >= 1 /\ m.row <= n + 1
         /\ m.u \in [0..n -> Int] /\ m.v \in [0..n -> Int]
         /\ m.p \in [0..n -> 0..(n + 1)] /\ m.way \in [0..n -> 0..n]
         /\ m.min \in {<<>>} \cup [1..n -> Int]
         /\ m.used \in SUBSET (0..n) /\ m.column \in 0..n
<1>1. m.row \in 1..(n + 1)
  BY DEF Registers
<1>2. m.u \in [0..n -> Int] /\ m.v \in [0..n -> Int]
  BY DEF Registers
<1>3. m.p \in [0..n -> 0..(n + 1)]
  BY DEF Registers
<1>4. m.way \in [0..n -> 0..n]
  BY DEF Registers
<1>5. m.min \in {<<>>} \cup [1..n -> Int]
  BY DEF Registers
<1>6. m.used \in SUBSET (0..n)
  BY DEF Registers
<1>7. m.column \in 0..n
  BY DEF Registers
<1>8. m.row \in Nat /\ m.row >= 1 /\ m.row <= n + 1
  <2>1. PICK row : row = m.row
    OBVIOUS
  <2>2. row \in 1..(n + 1)
    BY <1>1, <2>1
  <2>3. row \in Nat /\ row >= 1 /\ row <= n + 1
    BY <2>2
  <2> QED BY <2>1, <2>3
<1> QED BY <1>2, <1>3, <1>4, <1>5, <1>6, <1>7, <1>8

\* The registers before a row is searched for.
LEMMA PlacingInv ==
  ASSUME NEW n \in Nat, n >= 1, NEW cost, Matrix(cost, n), NEW row \in 1..(n + 1),
         NEW u \in [0..n -> Int], NEW v \in [0..n -> Int], NEW p \in [0..n -> 0..(n + 1)],
         \A r, c \in 1..n : u[r] + v[c] <= cost[r][c],
         \A c \in 1..n : p[c] # 0 => p[c] \in 1..(row - 1) /\ u[p[c]] + v[c] = cost[p[c]][c],
         \A c, d \in 1..n : p[c] = p[d] /\ p[c] # 0 => c = d,
         \A r \in 1..(row - 1) : \E c \in 1..n : p[c] = r
  PROVE  MatchInv(Placing(row, u, v, p, n), cost, n)
<1> DEFINE m == Placing(row, u, v, p, n)
           q == [p EXCEPT ![0] = row]
<1>1. /\ m.row = row /\ m.u = u /\ m.v = v /\ m.p = q /\ m.way = [c \in 0..n |-> 0]
      /\ m.min = <<>> /\ m.used = {} /\ m.column = 0
  BY DEF Placing
<1>2. q \in [0..n -> 0..(n + 1)] /\ q[0] = row /\ \A c \in 1..n : q[c] = p[c]
  BY SMTT(30)
<1>3. m \in Registers(n)
  BY <1>2 DEF Placing, Registers
<1> HIDE DEF m, q
<1>4. Feasible(m, cost, n)
  BY <1>1 DEF Feasible
<1>5. RowsMatched(m, cost, n)
  <2>1. \A c \in 1..n : q[c] # 0 =>
          q[c] \in 1..(row - 1) /\ u[q[c]] + v[c] = cost[q[c]][c]
    BY <1>2
  <2>2. \A c, d \in 0..n : q[c] = q[d] /\ q[c] # 0 => c = d
    <3>1. ASSUME NEW c \in 0..n, NEW d \in 0..n, q[c] = q[d], q[c] # 0 PROVE c = d
      <4>1. c \in 1..n => q[c] # row
        BY <1>2, <2>1, <3>1
      <4>2. d \in 1..n => q[d] # row
        BY <1>2, <2>1, <3>1
      <4>3. CASE c \in 1..n /\ d \in 1..n
        BY <1>2, <3>1, <4>3
      <4>4. CASE c = 0 \/ d = 0
        BY <1>2, <3>1, <4>1, <4>2, <4>4, SMTT(30)
      <4> QED BY <4>3, <4>4
    <3> QED BY <3>1
  <2>3. \A r \in 1..(row - 1) : \E c \in 1..n : q[c] = r
    BY <1>2
  <2> QED BY <1>1, <1>2, <2>1, <2>2, <2>3 DEF RowsMatched
<1>6. TreeOfUsed(m, cost, n)
  BY <1>1 DEF TreeOfUsed
<1>7. Ranked(m, [c \in 0..n |-> 0], n)
  BY <1>1 DEF Ranked, Used
<1> QED BY <1>3, <1>4, <1>5, <1>6, <1>7 DEF MatchInv, m

\* The potentials 0 of the start are feasible when no cost is negative.
LEMMA MatchStarts ==
  ASSUME NEW n \in Nat, n >= 1, NEW cost, Matrix(cost, n),
         \A r, c \in 1..n : cost[r][c] >= 0
  PROVE  MatchInv(MatchStart(n), cost, n)
<1> DEFINE zeros == [c \in 0..n |-> 0]
<1>1. zeros \in [0..n -> Int] /\ zeros \in [0..n -> 0..(n + 1)] /\ 1 \in 1..(n + 1)
  OBVIOUS
<1>2. \A r, c \in 1..n : zeros[r] + zeros[c] <= cost[r][c]
  OBVIOUS
<1>3. \A c \in 1..n : zeros[c] = 0
  OBVIOUS
<1> HIDE DEF zeros
<1>4. /\ \A c \in 1..n : zeros[c] # 0 =>
           zeros[c] \in 1..(1 - 1) /\ zeros[zeros[c]] + zeros[c] = cost[zeros[c]][c]
      /\ \A c, d \in 1..n : zeros[c] = zeros[d] /\ zeros[c] # 0 => c = d
      /\ \A r \in 1..(1 - 1) : \E c \in 1..n : zeros[c] = r
  BY <1>3
<1>5. MatchInv(Placing(1, zeros, zeros, zeros, n), cost, n)
  BY <1>1, <1>2, <1>4, PlacingInv
<1> QED BY <1>5 DEF MatchStart, zeros

-----------------------------------------------------------------------------
(* One pass of the loop over the columns *)

\* As long as its row has no column, a search has columns left.
LEMMA ColumnsLeft ==
  ASSUME NEW n \in Nat, NEW p \in [0..n -> Nat], NEW used \in SUBSET (0..n),
         \A c, d \in used : p[c] = p[d] => c = d, \A c \in used : p[c] \in 1..n, 0 \in used
  PROVE  (1..n) \ used # {}
<1> SUFFICES ASSUME (1..n) \ used = {} PROVE FALSE
  OBVIOUS
<1>1. used = 0..n
  <2>1. ASSUME NEW x \in 0..n PROVE x \in used
    <3>1. x = 0 \/ x \in 1..n
      OBVIOUS
    <3> QED BY <3>1
  <2> QED BY <2>1
<1>2. p \in [0..n -> 1..n]
  BY <1>1
<1>3. Cardinality(1..n) = n /\ Cardinality(0..n) = n + 1 /\ IsFiniteSet(1..n) /\ IsFiniteSet(0..n)
  <2>1. 1 \in Int /\ 0 \in Int /\ n \in Int
    OBVIOUS
  <2>2. Cardinality(1..n) = IF 1 > n THEN 0 ELSE n - 1 + 1
    BY <2>1, FS_Interval
  <2>3. Cardinality(0..n) = IF 0 > n THEN 0 ELSE n - 0 + 1
    BY <2>1, FS_Interval
  <2>4. IsFiniteSet(1..n) /\ IsFiniteSet(0..n)
    BY <2>1, FS_Interval
  <2> QED BY <2>2, <2>3, <2>4
<1>4. \E c, d \in 0..n : c # d /\ p[c] = p[d]
  <2>1. PICK S, T : S = 0..n /\ T = 1..n
    OBVIOUS
  <2>2. p \in [S -> T] /\ IsFiniteSet(S) /\ IsFiniteSet(T) /\ Cardinality(T) < Cardinality(S)
    BY <1>2, <1>3, <2>1
  <2>3. \E c, d \in S : c # d /\ p[c] = p[d]
    BY <2>2, FS_PigeonHole
  <2> QED BY <2>1, <2>3
<1> QED BY <1>1, <1>4

\* What Scanned computes first: the columns not used, those reached better from the
\* current column, their least slacks and the columns they are reached from.
Relaxing(m, cost, n, free, relaxed, least, way) ==
  /\ free = (1..n) \ Used(m)
  /\ relaxed = {c \in free : c \notin DOMAIN m.min \/ Reduced(m, cost, c) < m.min[c]}
  /\ least = [c \in 1..n |-> IF c \in relaxed THEN Reduced(m, cost, c) ELSE m.min[c]]
  /\ way = [c \in 0..n |-> IF c \in relaxed THEN m.column ELSE m.way[c]]

\* What a pass of the loop finds of the columns not used: how they are reached best
\* from the columns used, the current one included.
LEMMA Relaxed ==
  ASSUME NEW n \in Nat, n >= 1, NEW cost, Matrix(cost, n), NEW m, MatchInv(m, cost, n),
         m.row <= n, ~Augmentable(m),
         NEW free, NEW relaxed, NEW least, NEW way,
         Relaxing(m, cost, n, free, relaxed, least, way)
  PROVE  /\ Used(m) \in SUBSET (0..n) /\ 0 \in Used(m)
         /\ \A c \in Used(m) : m.p[c] \in 1..n
         /\ free # {}
         /\ \A c \in free : /\ way[c] \in Used(m) /\ least[c] \in Int
                             /\ least[c] = Slack(m, cost, way[c], c) /\ least[c] >= 0
                             /\ \A d \in Used(m) : least[c] <= Slack(m, cost, d, c)
         /\ \A c \in Used(m) \ {0} : /\ way[c] \in m.used /\ way[c] = m.way[c]
                                     /\ Slack(m, cost, way[c], c) = 0
                                     /\ c \in 1..n /\ least[c] \in Int
<1>1. /\ m \in Registers(n) /\ Feasible(m, cost, n) /\ RowsMatched(m, cost, n)
      /\ TreeOfUsed(m, cost, n)
  BY DEF MatchInv
<1>0. /\ free = (1..n) \ Used(m) /\ relaxed \subseteq free
      /\ \A c \in free : c \in relaxed <=> c \notin DOMAIN m.min \/ Reduced(m, cost, c) < m.min[c]
      /\ \A c \in 1..n : least[c] = IF c \in relaxed THEN Reduced(m, cost, c) ELSE m.min[c]
      /\ \A c \in 0..n : way[c] = IF c \in relaxed THEN m.column ELSE m.way[c]
  BY DEF Relaxing
<1>2. /\ m.row \in 1..n /\ m.u \in [0..n -> Int] /\ m.v \in [0..n -> Int]
      /\ m.p \in [0..n -> 0..(n + 1)] /\ m.way \in [0..n -> 0..n]
      /\ m.used \in SUBSET (0..n) /\ m.column \in 0..n
    <2>1. /\ m.row \in Nat /\ m.row >= 1 /\ m.row <= n + 1
        /\ m.u \in [0..n -> Int] /\ m.v \in [0..n -> Int]
        /\ m.p \in [0..n -> 0..(n + 1)] /\ m.way \in [0..n -> 0..n]
        /\ m.used \in SUBSET (0..n) /\ m.column \in 0..n
    BY <1>1, RegisterTypes
  <2>2. m.row \in 1..n
    <3>1. PICK row : row = m.row
      OBVIOUS
    <3>2. row \in Nat /\ row >= 1 /\ row <= n
      BY <2>1, <3>1
    <3>3. row \in 1..n
      BY <3>2
    <3> QED BY <3>1, <3>3
  <2> QED BY <2>1, <2>2
<1>3. Used(m) \in SUBSET (0..n) /\ 0 \in Used(m) /\ m.column \in Used(m)
  BY <1>1, <1>2 DEF Used, TreeOfUsed
<1>4. ASSUME NEW c \in Used(m) PROVE m.p[c] \in 1..n
  <2>1. m.p[c] # 0
    <3>1. CASE c = m.column
      <4>1. m.column = 0 => m.p[c] = m.row
        BY <1>1, <3>1 DEF RowsMatched
      <4> QED BY <1>2, <3>1, <4>1 DEF Augmentable
    <3>2. CASE c # m.column
      <4>1. c \in m.used
        BY <3>2 DEF Used
      <4> QED BY <1>1, <4>1 DEF TreeOfUsed
    <3> QED BY <3>1, <3>2
  <2>2. c = 0 => m.p[c] = m.row
    BY <1>1 DEF RowsMatched
  <2>3. c # 0 => c \in 1..n /\ m.p[c] \in 1..(m.row - 1)
    <3>1. c \in 0..n
      BY <1>3
    <3> QED BY <1>1, <2>1, <3>1 DEF RowsMatched
  <2> QED BY <1>2, <2>2, <2>3
<1>5. free # {}
  <2>1. \A c, d \in Used(m) : m.p[c] = m.p[d] => c = d
    <3>1. ASSUME NEW c \in Used(m), NEW d \in Used(m), m.p[c] = m.p[d] PROVE c = d
      BY <1>3, <1>4, <1>1, <3>1 DEF RowsMatched
    <3> QED BY <3>1
  <2>2. m.p \in [0..n -> Nat]
    <3>1. 0..(n + 1) \subseteq Nat
      OBVIOUS
    <3> QED BY <1>2, <3>1
  <2>3. (1..n) \ Used(m) # {}
    BY <1>3, <1>4, <2>1, <2>2, ColumnsLeft
  <2> QED BY <1>0, <2>3
<1>6. \A d \in Used(m), c \in 1..n : Slack(m, cost, d, c) \in Int /\ Slack(m, cost, d, c) >= 0
  <2>1. ASSUME NEW d \in Used(m), NEW c \in 1..n
        PROVE  Slack(m, cost, d, c) \in Int /\ Slack(m, cost, d, c) >= 0
    <3>1. PICK r \in 1..n : r = m.p[d]
      BY <1>4
    <3>2. cost[r][c] \in Int /\ m.u[r] \in Int /\ m.v[c] \in Int
      <4>1. r \in 0..n /\ c \in 0..n
        OBVIOUS
      <4>2. cost[r] \in [1..n -> Int]
        BY DEF Matrix
      <4> QED BY <1>2, <4>1, <4>2
    <3>3. m.u[r] + m.v[c] <= cost[r][c]
      BY <1>1 DEF Feasible
    <3> QED BY <3>1, <3>2, <3>3 DEF Slack
  <2> QED BY <2>1
<1>7. \A c \in free : Reduced(m, cost, c) = Slack(m, cost, m.column, c)
  BY DEF Reduced, Slack
<1>8. ASSUME NEW c \in free
      PROVE  /\ way[c] \in Used(m) /\ least[c] \in Int
             /\ least[c] = Slack(m, cost, way[c], c) /\ least[c] >= 0
             /\ \A d \in Used(m) : least[c] <= Slack(m, cost, d, c)
  <2>0. c \in 1..n /\ c \in 0..n /\ c \notin Used(m)
    BY <1>0
  <2>1. CASE m.used = {}
    <3>1. m.column = 0 /\ m.min = <<>> /\ Used(m) = {m.column}
      BY <1>1, <2>1 DEF TreeOfUsed, Used
    <3>2. c \in relaxed
      BY <1>0, <3>1
    <3>3. least[c] = Slack(m, cost, m.column, c) /\ way[c] = m.column
      BY <1>0, <1>7, <2>0, <3>2
    <3> QED BY <1>6, <2>0, <3>1, <3>3
  <2>2. CASE m.used # {}
    <3>1. /\ m.min \in [1..n -> Int] /\ c \in (1..n) \ m.used
          /\ m.way[c] \in m.used /\ m.min[c] = Slack(m, cost, m.way[c], c)
          /\ \A d \in m.used : m.min[c] <= Slack(m, cost, d, c)
      BY <1>1, <2>0, <2>2 DEF TreeOfUsed, Used
    <3>2. m.used \subseteq Used(m) /\ \A d \in Used(m) : d \in m.used \/ d = m.column
      BY DEF Used
    <3>3. c \in relaxed <=> Slack(m, cost, m.column, c) < m.min[c]
      BY <1>0, <1>7, <2>0, <3>1
    <3>4. m.min[c] \in Int /\ Slack(m, cost, m.column, c) \in Int
      BY <1>3, <1>6, <2>0, <3>1
    <3>5. CASE c \in relaxed
      <4>1. least[c] = Slack(m, cost, m.column, c) /\ way[c] = m.column
        BY <1>0, <1>7, <2>0, <3>5
      <4>2. \A d \in m.used : Slack(m, cost, m.column, c) <= Slack(m, cost, d, c)
        BY <1>6, <2>0, <3>1, <3>2, <3>3, <3>4, <3>5
      <4> QED BY <1>3, <1>6, <2>0, <3>2, <3>4, <4>1, <4>2
    <3>6. CASE c \notin relaxed
      <4>1. least[c] = m.min[c] /\ way[c] = m.way[c]
        BY <1>0, <2>0, <3>6
      <4>2. m.min[c] <= Slack(m, cost, m.column, c)
        BY <3>3, <3>4, <3>6
      <4> QED BY <1>6, <2>0, <3>1, <3>2, <4>1, <4>2
    <3> QED BY <3>5, <3>6
  <2> QED BY <2>1, <2>2
<1>9. ASSUME NEW c \in Used(m) \ {0}
      PROVE  /\ way[c] \in m.used /\ way[c] = m.way[c] /\ Slack(m, cost, way[c], c) = 0
             /\ c \in 1..n /\ least[c] \in Int
  <2>1. c \in 1..n /\ c \in 0..n /\ c \notin relaxed
    BY <1>0, <1>3
  <2>2. way[c] = m.way[c] /\ least[c] = m.min[c]
    BY <1>0, <2>1
  <2>3. m.used # {}
    BY <1>1 DEF TreeOfUsed, Used
  <2>4. m.min[c] \in Int
    BY <1>1, <2>1, <2>3 DEF TreeOfUsed
  <2>5. CASE c \in m.used
    BY <1>1, <2>2, <2>3, <2>4, <2>1, <2>5 DEF TreeOfUsed
  <2>6. CASE c \notin m.used
    <3>1. c = m.column
      BY <2>6 DEF Used
    <3> QED BY <1>1, <2>1, <2>2, <2>3, <2>4, <2>6, <3>1 DEF TreeOfUsed
  <2> QED BY <2>5, <2>6
<1> QED BY <1>3, <1>4, <1>5, <1>8, <1>9

\* What Scanned leaves in the registers.
LEMMA ScannedFields ==
  ASSUME NEW n \in Nat, NEW cost, NEW m \in Registers(n),
         NEW free, NEW relaxed, NEW least, NEW way, Relaxing(m, cost, n, free, relaxed, least, way),
         NEW delta, delta = Min({least[c] : c \in free}),
         NEW next, next = Scanned(m, cost, n)
  PROVE  /\ next.row = m.row /\ next.p = m.p /\ next.used = Used(m)
         /\ next.way = way
         /\ next.min = [c \in 1..n |-> IF c \in free THEN least[c] - delta ELSE least[c]]
         /\ next.u = [r \in 0..n |-> IF \E c \in Used(m) : m.p[c] = r
                                       THEN m.u[r] + delta ELSE m.u[r]]
         /\ next.v = [c \in 0..n |-> IF c \in Used(m) THEN m.v[c] - delta ELSE m.v[c]]
         /\ next.column = Min({c \in free : least[c] = delta})
         /\ DOMAIN next = {"row", "u", "v", "p", "way", "min", "used", "column"}
         /\ next = [row |-> next.row, u |-> next.u, v |-> next.v, p |-> next.p, way |-> next.way,
                    min |-> next.min, used |-> next.used, column |-> next.column]
<1>1. DOMAIN m.v = 0..n
  BY DEF Registers
<1>2. next = [m EXCEPT
        !.used = Used(m),
        !.way = way,
        !.min = [c \in 1..n |-> IF c \in free THEN least[c] - delta ELSE least[c]],
        !.u = [r \in 0..n |->
                 IF \E c \in Used(m) : m.p[c] = r THEN m.u[r] + delta ELSE m.u[r]],
        !.v = [c \in 0..n |-> IF c \in Used(m) THEN m.v[c] - delta ELSE m.v[c]],
        !.column = Min({c \in free : least[c] = delta})]
  BY <1>1 DEF Scanned, Repriced, Relaxing
<1>3. PICK a, b, d, e, f, g : 
        /\ a = Used(m) /\ b = way
        /\ d = [c \in 1..n |-> IF c \in free THEN least[c] - delta ELSE least[c]]
        /\ e = [r \in 0..n |->
                 IF \E c \in Used(m) : m.p[c] = r THEN m.u[r] + delta ELSE m.u[r]]
        /\ f = [c \in 0..n |-> IF c \in Used(m) THEN m.v[c] - delta ELSE m.v[c]]
        /\ g = Min({c \in free : least[c] = delta})
  OBVIOUS
<1>4. next = [m EXCEPT !.used = a, !.way = b, !.min = d, !.u = e, !.v = f, !.column = g]
  BY <1>2, <1>3
<1>5. /\ next.row = m.row /\ next.p = m.p /\ next.used = a /\ next.way = b /\ next.min = d
      /\ next.u = e /\ next.v = f /\ next.column = g
      /\ DOMAIN next = {"row", "u", "v", "p", "way", "min", "used", "column"}
      /\ next = [row |-> next.row, u |-> next.u, v |-> next.v, p |-> next.p, way |-> next.way,
                    min |-> next.min, used |-> next.used, column |-> next.column]
  BY <1>4 DEF Registers
<1> QED BY <1>3, <1>5

\* What the slack of a column is computed from.
LEMMA SlackParts ==
  ASSUME NEW n \in Nat, NEW cost, Matrix(cost, n), NEW u \in [0..n -> Int],
         NEW v \in [0..n -> Int], NEW row \in 0..n, NEW c \in 1..n
  PROVE  (row # 0 => cost[row][c] \in Int) /\ u[row] \in Int /\ v[c] \in Int
<1>1. c \in 0..n
  OBVIOUS
<1>2. ASSUME row # 0 PROVE cost[row][c] \in Int
  BY <1>2 DEF Matrix
<1> QED BY <1>1, <1>2

\* One pass of the while loop of hungarian keeps its invariant.
LEMMA ScanKeeps ==
  ASSUME NEW n \in Nat, n >= 1, NEW cost, Matrix(cost, n), NEW m, MatchInv(m, cost, n),
         m.row <= n, ~Augmentable(m)
  PROVE  MatchInv(Scanned(m, cost, n), cost, n)
<1>1. PICK free, relaxed, least, way : Relaxing(m, cost, n, free, relaxed, least, way)
  BY DEF Relaxing
<1>2. /\ m \in Registers(n) /\ Feasible(m, cost, n) /\ RowsMatched(m, cost, n)
      /\ TreeOfUsed(m, cost, n)
  BY DEF MatchInv
<1>3. /\ m.u \in [0..n -> Int] /\ m.v \in [0..n -> Int] /\ m.p \in [0..n -> 0..(n + 1)]
      /\ m.way \in [0..n -> 0..n] /\ m.used \in SUBSET (0..n) /\ m.column \in 0..n
  BY <1>2, RegisterTypes
<1>4. PICK used : used = Used(m)
  OBVIOUS
<1>5. /\ used \in SUBSET (0..n) /\ 0 \in used
      /\ \A c \in used : m.p[c] \in 1..n
      /\ free # {}
      /\ \A c \in free : /\ way[c] \in used /\ least[c] \in Int
                          /\ least[c] = Slack(m, cost, way[c], c) /\ least[c] >= 0
                          /\ \A d \in used : least[c] <= Slack(m, cost, d, c)
      /\ \A c \in used \ {0} : /\ way[c] \in m.used /\ way[c] = m.way[c]
                                /\ Slack(m, cost, way[c], c) = 0
                                /\ c \in 1..n /\ least[c] \in Int
  BY <1>1, <1>4, Relaxed
<1>6. /\ free = (1..n) \ used /\ way[0] = 0
      /\ m.used \subseteq used /\ m.column \in used /\ used = m.used \cup {m.column}
  BY <1>1, <1>2, <1>4, <1>5 DEF Relaxing, TreeOfUsed, Used
<1>7. PICK delta : delta = Min({least[c] : c \in free})
  OBVIOUS
<1>8. IsFiniteSet(free)
  BY <1>6, FS_Interval, FS_Subset
<1>9. /\ delta \in Int /\ delta >= 0
      /\ \A c \in free : delta <= least[c]
      /\ \E c \in free : least[c] = delta
  <2>1. PICK values : values = {least[c] : c \in free}
    OBVIOUS
  <2>2. values \in SUBSET Int /\ values # {}
    BY <1>5, <2>1
  <2>3. IsFiniteSet(values)
    BY <1>8, <2>1, ImageFinite
  <2>4. delta \in values /\ \A x \in values : delta <= x
    BY <1>7, <2>1, <2>2, <2>3, LeastOfFinite
  <2> QED BY <1>5, <2>1, <2>4
<1>10. PICK column : column = Min({c \in free : least[c] = delta})
  OBVIOUS
<1>11. column \in free /\ least[column] = delta
  <2>1. PICK ties : ties = {c \in free : least[c] = delta}
    OBVIOUS
  <2>2. ties \in SUBSET Int /\ ties # {} /\ ties \in SUBSET free
    BY <1>6, <1>9, <2>1
  <2>3. IsFiniteSet(ties)
    BY <1>8, <2>2, FS_Subset
  <2>4. column \in ties
    BY <1>10, <2>1, <2>2, <2>3, LeastOfFinite
  <2> QED BY <2>1, <2>4
<1>12. PICK next : next = Scanned(m, cost, n)
  OBVIOUS
<1>13. /\ next.row = m.row /\ next.p = m.p /\ next.used = used /\ next.way = way
       /\ next.min = [c \in 1..n |-> IF c \in free THEN least[c] - delta ELSE least[c]]
       /\ next.u = [r \in 0..n |-> IF \E c \in used : m.p[c] = r
                                     THEN m.u[r] + delta ELSE m.u[r]]
       /\ next.v = [c \in 0..n |-> IF c \in used THEN m.v[c] - delta ELSE m.v[c]]
       /\ next.column = column
       /\ next = [row |-> next.row, u |-> next.u, v |-> next.v, p |-> next.p, way |-> next.way,
                  min |-> next.min, used |-> next.used, column |-> next.column]
  BY <1>1, <1>2, <1>4, <1>7, <1>10, <1>12, ScannedFields, SMTT(30)
<1>14. \A c \in 1..n : least[c] \in Int
  <2>1. ASSUME NEW c \in 1..n PROVE least[c] \in Int
    BY <1>6, <1>5
  <2> QED BY <2>1
<1>15. /\ next.min \in [1..n -> Int] /\ next.u \in [0..n -> Int] /\ next.v \in [0..n -> Int]
       /\ next.way \in [0..n -> 0..n]
       /\ next.used \in SUBSET (0..n) /\ next.column \in 0..n
  <2>1. next.min \in [1..n -> Int]
    BY <1>9, <1>13, <1>14
  <2>2. next.u \in [0..n -> Int] /\ next.v \in [0..n -> Int]
    BY <1>3, <1>9, <1>13, SMTT(30)
  <2>3. next.way \in [0..n -> 0..n]
    BY <1>1, <1>3, <1>13 DEF Relaxing
  <2>4. next.used \in SUBSET (0..n) /\ next.column \in 0..n
    BY <1>5, <1>6, <1>11, <1>13
  <2> QED BY <2>1, <2>2, <2>3, <2>4
<1>16. next \in Registers(n)
  <2>1. next.row \in 1..(n + 1) /\ next.p \in [0..n -> 0..(n + 1)]
    BY <1>2, <1>13 DEF Registers
  <2> HIDE <1>13
  <2>2. next = [row |-> next.row, u |-> next.u, v |-> next.v, p |-> next.p, way |-> next.way,
                  min |-> next.min, used |-> next.used, column |-> next.column]
    BY <1>13
  <2> QED BY <1>15, <2>1, <2>2 DEF Registers
<1>17. \A c \in used : m.p[c] \in 0..n /\ next.u[m.p[c]] = m.u[m.p[c]] + delta
                        /\ next.v[c] = m.v[c] - delta
  BY <1>5, <1>13
<1>18. \A c \in free : next.v[c] = m.v[c] /\ next.min[c] = least[c] - delta
  BY <1>6, <1>13
<1>19. \A c \in 1..n : m.p[c] # 0 /\ c \notin used => next.u[m.p[c]] = m.u[m.p[c]]
  <2>1. ASSUME NEW c \in 1..n, m.p[c] # 0, c \notin used PROVE next.u[m.p[c]] = m.u[m.p[c]]
    <3>1. ~ \E d \in used : m.p[d] = m.p[c]
      BY <1>5, <2>1, <1>2 DEF RowsMatched
    <3>2. m.p[c] \in 1..(m.row - 1) /\ m.row <= n + 1 /\ m.row \in Nat
      BY <1>2, <2>1, RegisterTypes DEF RowsMatched
    <3>3. m.p[c] \in 0..n
      BY <3>2
    <3> QED BY <1>13, <3>1, <3>3
  <2> QED BY <2>1
<1>20. Feasible(next, cost, n)
  <2>1. ASSUME NEW row \in 1..n, NEW c \in 1..n PROVE next.u[row] + next.v[c] <= cost[row][c]
    <3>1. m.u[row] + m.v[c] <= cost[row][c] /\ cost[row][c] \in Int
      BY <1>2 DEF Feasible, Matrix
    <3>2. m.u[row] \in Int /\ m.v[c] \in Int
      BY <1>3
    <3>3. CASE c \in used
      <4>1. next.v[c] = m.v[c] - delta
        BY <1>17, <3>3
      <4>2. next.u[row] = m.u[row] + delta \/ next.u[row] = m.u[row]
        BY <1>13
      <4> QED BY <1>9, <3>1, <3>2, <4>1, <4>2
    <3>4. CASE c \notin used
      <4>1. c \in free /\ next.v[c] = m.v[c]
        BY <1>6, <1>18, <3>4
      <4>2. CASE \E d \in used : m.p[d] = row
        <5>1. PICK d \in used : m.p[d] = row
          BY <4>2
        <5>2. next.u[row] = m.u[row] + delta
          BY <1>17, <5>1
        <5>3. delta <= cost[row][c] - m.u[row] - m.v[c]
          <6>1. delta <= least[c] /\ least[c] <= Slack(m, cost, d, c) /\ least[c] \in Int
            BY <1>5, <1>9, <4>1
          <6>2. Slack(m, cost, d, c) = cost[row][c] - m.u[row] - m.v[c]
            BY <5>1 DEF Slack
          <6> QED BY <1>9, <3>1, <3>2, <6>1, <6>2
        <5> QED BY <1>9, <3>1, <3>2, <4>1, <5>2, <5>3
      <4>3. CASE ~ \E d \in used : m.p[d] = row
        BY <1>13, <4>3, <3>1, <4>1
      <4> QED BY <4>2, <4>3
    <3> QED BY <3>3, <3>4
  <2> QED BY <2>1 DEF Feasible
<1>21. RowsMatched(next, cost, n)
  <2>1. ASSUME NEW c \in 1..n, m.p[c] # 0 PROVE next.u[m.p[c]] + next.v[c] = cost[m.p[c]][c]
    <3>1. m.u[m.p[c]] + m.v[c] = cost[m.p[c]][c]
      BY <1>2, <2>1 DEF RowsMatched
    <3>2. m.p[c] \in 0..n
      BY <1>2, <2>1, RegisterTypes DEF RowsMatched
    <3>3. m.u[m.p[c]] \in Int /\ m.v[c] \in Int
      BY <1>3, <3>2, SlackParts
    <3>4. CASE c \in used
      BY <1>9, <1>17, <3>1, <3>3, <3>4
    <3>5. CASE c \notin used
      BY <1>6, <1>18, <1>19, <2>1, <3>1, <3>5
    <3> QED BY <3>4, <3>5
  <2> QED BY <1>2, <1>13, <2>1, ZenonT(60) DEF RowsMatched
<1>22. \A d \in used, c \in free : Slack(next, cost, d, c) = Slack(m, cost, d, c) - delta
  <2>1. ASSUME NEW d \in used, NEW c \in free
        PROVE  Slack(next, cost, d, c) = Slack(m, cost, d, c) - delta
    <3>1. PICK row \in 1..n : row = m.p[d]
      BY <1>5
    <3>2. next.u[row] = m.u[row] + delta /\ next.v[c] = m.v[c]
      BY <1>17, <1>18, <3>1
    <3>3. c \in 1..n /\ row \in 0..n /\ row # 0
      BY <1>5, <1>6
    <3>4. cost[row][c] \in Int /\ m.u[row] \in Int /\ m.v[c] \in Int
      BY <1>3, <3>3, SlackParts
    <3>5. Slack(m, cost, d, c) = cost[row][c] - m.u[row] - m.v[c]
      BY <3>1 DEF Slack
    <3>6. Slack(next, cost, d, c) = cost[row][c] - next.u[row] - next.v[c]
      <4>1. next.p = m.p
        BY <1>13
      <4> QED BY <3>1, <4>1 DEF Slack
    <3> QED BY <1>9, <3>2, <3>4, <3>5, <3>6
  <2> QED BY <2>1
<1>23. \A d \in used, c \in used \ {0} : Slack(next, cost, d, c) = Slack(m, cost, d, c)
  <2>1. ASSUME NEW d \in used, NEW c \in used \ {0}
        PROVE  Slack(next, cost, d, c) = Slack(m, cost, d, c)
    <3>1. PICK row \in 1..n : row = m.p[d]
      BY <1>5
    <3>2. next.u[row] = m.u[row] + delta /\ next.v[c] = m.v[c] - delta
      BY <1>17, <3>1
    <3>3. c \in 1..n /\ row \in 0..n /\ row # 0
      BY <1>5, <1>6
    <3>4. cost[row][c] \in Int /\ m.u[row] \in Int /\ m.v[c] \in Int
      BY <1>3, <3>3, SlackParts
    <3>5. Slack(m, cost, d, c) = cost[row][c] - m.u[row] - m.v[c]
      BY <3>1 DEF Slack
    <3>6. Slack(next, cost, d, c) = cost[row][c] - next.u[row] - next.v[c]
      <4>1. next.p = m.p
        BY <1>13
      <4> QED BY <3>1, <4>1 DEF Slack
    <3> QED BY <1>9, <3>2, <3>4, <3>5, <3>6
  <2> QED BY <2>1
<1>24. TreeOfUsed(next, cost, n)
  <2>1. next.way[0] = 0 /\ next.used # {} /\ next.column # 0 /\ next.column \notin next.used
        /\ next.row <= n /\ 0 \in next.used /\ next.min \in [1..n -> Int]
    BY <1>5, <1>6, <1>11, <1>13, <1>15
  <2>2. \A c \in next.used : next.p[c] # 0
    BY <1>5, <1>13
  <2>3. ASSUME NEW c \in next.used \ {0}
        PROVE  next.way[c] \in next.used /\ Slack(next, cost, next.way[c], c) = 0
    BY <1>5, <1>6, <1>13, <1>23
  <2>4. ASSUME NEW c \in (1..n) \ next.used
        PROVE  /\ next.way[c] \in next.used /\ next.min[c] = Slack(next, cost, next.way[c], c)
               /\ \A d \in next.used : next.min[c] <= Slack(next, cost, d, c)
    <3>1. c \in free /\ way[c] \in used /\ next.min[c] = least[c] - delta
      BY <1>5, <1>6, <1>13, <1>18
    <3>2. Slack(next, cost, way[c], c) = Slack(m, cost, way[c], c) - delta
      BY <1>22, <3>1
    <3>3. ASSUME NEW d \in used PROVE next.min[c] <= Slack(next, cost, d, c)
      <4>1. Slack(next, cost, d, c) = Slack(m, cost, d, c) - delta
        BY <1>22, <3>1
      <4>2. least[c] <= Slack(m, cost, d, c) /\ least[c] \in Int
        BY <1>5, <3>1
      <4>3. Slack(m, cost, d, c) \in Int
        <5>1. PICK row \in 1..n : row = m.p[d]
          BY <1>5
        <5>2. c \in 1..n /\ row \in 0..n /\ row # 0
          BY <1>6, <3>1
        <5>3. cost[row][c] \in Int /\ m.u[row] \in Int /\ m.v[c] \in Int
          BY <1>3, <5>2, SlackParts
        <5> QED BY <5>1, <5>2, <5>3 DEF Slack
      <4> QED BY <1>9, <3>1, <4>1, <4>2, <4>3
    <3> QED BY <1>5, <1>13, <3>1, <3>2, <3>3
  <2>5. next.min[next.column] = 0
    BY <1>9, <1>11, <1>13, <1>18
  <2> QED BY <2>1, <2>2, <2>3, <2>4, <2>5 DEF TreeOfUsed
<1>25. \E rank : Ranked(next, rank, n)
  <2>1. PICK rank : Ranked(m, rank, n)
    BY DEF MatchInv
  <2>2. PICK k \in Nat : k = Cardinality(m.used) /\ Cardinality(used) = k + 1
    <3>1. IsFiniteSet(0..n)
      BY FS_Interval
    <3>2. IsFiniteSet(m.used)
      BY <1>3, <3>1, FS_Subset
    <3>3. m.column \notin m.used
      BY <1>2 DEF TreeOfUsed
    <3> QED BY <1>6, <3>2, <3>3, FS_AddElement, FS_CardinalityType
  <2>3. PICK after : after = [rank EXCEPT ![column] = k + 1]
    OBVIOUS
  <2>4. rank \in [0..n -> Nat] /\ rank[0] = 0
        /\ \A c \in used \ {0} : rank[m.way[c]] < rank[c] /\ rank[c] <= k
    BY <1>4, <2>1, <2>2 DEF Ranked
  <2>5. column \in 1..n /\ column \notin used /\ column \notin m.used
    BY <1>6, <1>11
  <2>6. after \in [0..n -> Nat] /\ after[0] = 0 /\ after[column] = k + 1
        /\ \A c \in used : after[c] = rank[c]
    BY <1>5, <2>3, <2>4, <2>5
  <2>7. ASSUME NEW c \in (used \cup {column}) \ {0}
        PROVE  after[way[c]] < after[c] /\ after[c] <= k + 1
    <3>1. CASE c = column
      <4>1. way[c] \in used
        BY <1>5, <1>11, <3>1
      <4>2. after[way[c]] = rank[way[c]] /\ rank[way[c]] \in Nat
        BY <1>5, <2>4, <2>6, <4>1
      <4>3. rank[way[c]] <= k
        BY <2>4, <4>1
      <4> QED BY <2>6, <3>1, <4>2, <4>3
    <3>2. CASE c # column
      <4>1. c \in used \ {0} /\ way[c] = m.way[c] /\ way[c] \in used
        BY <1>5, <1>6, <3>2
      <4>2. after[c] = rank[c] /\ after[way[c]] = rank[m.way[c]]
        BY <2>6, <4>1
      <4>3. rank[c] \in Nat
        <5>1. c \in 0..n
          BY <1>5, <4>1
        <5> QED BY <2>4, <5>1
      <4> QED BY <2>2, <2>4, <4>1, <4>2, <4>3
    <3> QED BY <3>1, <3>2
  <2>8. Ranked(next, after, n)
    BY <1>13, <2>2, <2>6, <2>7 DEF Used, Ranked
  <2> QED BY <2>8
<1> QED BY <1>12, <1>16, <1>20, <1>21, <1>24, <1>25 DEF MatchInv

-----------------------------------------------------------------------------
(* Augmenting along the alternating path *)

-----------------------------------------------------------------------------
(* The move of the rows along the trail *)

\* hop follows the way back from the current column.
Hops(m, n, hop) ==
  /\ hop \in [0..n -> 0..n] /\ hop[0] = m.column
  /\ \A k \in 1..n : hop[k] = m.way[hop[k - 1]]

\* The columns of the alternating path are those the way leads back over.
LEMMA TrailHops ==
  ASSUME NEW n \in Nat, NEW m, m.way \in [0..n -> 0..n], m.column \in 0..n
  PROVE  \E hop : Hops(m, n, hop) /\ Trail(m, n) = {hop[k] : k \in 0..n} \ {0}
<1> DEFINE step == [q \in (1..n) \X (0..n) |-> m.way[q[2]]]
           Back(b) == b = [k \in 0..n |-> IF k = 0 THEN m.column ELSE m.way[b[k - 1]]]
<1>1. step \in [(1..n) \X (0..n) -> 0..n]
  OBVIOUS
<1>2. PICK f \in [0..n -> 0..n] : Computes(f, n, m.column, step)
  <2>1. PICK S : S = 0..n
    OBVIOUS
  <2>2. m.column \in S /\ step \in [(1..n) \X S -> S]
    BY <1>1, <2>1
  <2> HIDE DEF step
  <2>3. \E f \in [0..n -> S] : Computes(f, n, m.column, step)
    BY <2>2, Recursion
  <2> QED BY <2>1, <2>3
<1>3. \A k \in 1..n : f[k] = m.way[f[k - 1]]
  <2>1. ASSUME NEW k \in 1..n PROVE f[k] = m.way[f[k - 1]]
    <3>1. PICK x \in 0..n : x = f[k - 1]
      OBVIOUS
    <3>2. f[k] = step[<<k, x>>]
      <4> HIDE DEF step
      <4> QED BY <1>2, <3>1 DEF Computes
    <3>3. <<k, x>> \in (1..n) \X (0..n)
      OBVIOUS
    <3> QED BY <3>1, <3>2, <3>3
  <2> QED BY <2>1
<1>4. f[0] = m.column
  BY <1>2 DEF Computes
<1>5. Back(f)
  <2>1. ASSUME NEW k \in 0..n PROVE f[k] = IF k = 0 THEN m.column ELSE m.way[f[k - 1]]
    <3>1. k # 0 => k \in 1..n
      OBVIOUS
    <3> QED BY <1>3, <1>4, <3>1
  <2> QED BY <2>1
<1>6. PICK hop : hop = CHOOSE b : Back(b)
  OBVIOUS
<1>7. Back(hop)
  BY <1>5, <1>6
<1>8. \A k \in 0..n : hop[k] = f[k]
  <2> DEFINE A == {k \in 0..n : hop[k] = f[k]}
  <2> HIDE DEF Back
  <2>0. /\ DOMAIN hop = 0..n /\ hop[0] = m.column
        /\ \A k \in 1..n : hop[k] = m.way[hop[k - 1]]
    <3>1. \A k \in 0..n : hop[k] = IF k = 0 THEN m.column ELSE m.way[hop[k - 1]]
      BY <1>7 DEF Back
    <3>2. DOMAIN hop = 0..n
      BY <1>7 DEF Back
    <3>3. 0 \in 0..n
      OBVIOUS
    <3>4. hop[0] = m.column
      BY <3>1, <3>3
    <3>5. ASSUME NEW k \in 1..n PROVE hop[k] = m.way[hop[k - 1]]
      BY <3>1
    <3> QED BY <3>2, <3>4, <3>5
  <2>1. 0 \in A
    BY <1>4, <2>0
  <2>2. ASSUME NEW k \in 1..n, k - 1 \in A PROVE k \in A
    <3>1. hop[k] = m.way[hop[k - 1]] /\ f[k] = m.way[f[k - 1]]
      BY <1>3, <2>0
    <3>3. k \in 0..n
      OBVIOUS
    <3>2. hop[k - 1] = f[k - 1]
      BY <2>2
    <3> QED BY <3>1, <3>2, <3>3
  <2> HIDE DEF A
  <2>3. \A k \in 0..n : k \in A
    BY <2>1, <2>2, StepByStep
  <2> QED BY <2>3 DEF A
<1>9. Trail(m, n) = {hop[k] : k \in 0..n} \ {0}
  BY <1>6 DEF Trail
<1>10. Hops(m, n, hop)
  <2> HIDE DEF Back
  <2>1. DOMAIN hop = 0..n
    BY <1>7 DEF Back
  <2>2. hop = f
    BY <1>7, <1>8 DEF Back
  <2> QED BY <1>3, <1>4, <2>2 DEF Hops
<1> QED BY <1>9, <1>10

\* The trail leads from the current column to column 0 without meeting a column twice.
LEMMA TrailLeadsBack ==
  ASSUME NEW n \in Nat, NEW cost, NEW m, m \in Registers(n), TreeOfUsed(m, cost, n),
         NEW rank, Ranked(m, rank, n), m.column # 0
  PROVE  /\ Trail(m, n) \in SUBSET (1..n) /\ Trail(m, n) \in SUBSET Used(m)
         /\ m.column \in Trail(m, n)
         /\ \A c \in Trail(m, n) : m.way[c] = 0 \/ m.way[c] \in Trail(m, n)
         /\ \A c \in Trail(m, n) : c # m.column => \E d \in Trail(m, n) : m.way[d] = c
         /\ \E c \in Trail(m, n) : m.way[c] = 0
         /\ \A c, d \in Trail(m, n) : m.way[c] = m.way[d] => c = d
<1>1. m.way \in [0..n -> 0..n] /\ m.column \in 0..n /\ m.used \in SUBSET (0..n)
  BY RegisterTypes
<1>2. /\ m.way[0] = 0 /\ 0 \in m.used /\ m.column \notin m.used
      /\ m.column \in (1..n) \ m.used
      /\ \A c \in m.used \ {0} : m.way[c] \in m.used
      /\ \A c \in (1..n) \ m.used : m.way[c] \in m.used
  <2>1. m.used # {} /\ m.way[0] = 0
    BY DEF TreeOfUsed
  <2>2. 0 \in m.used /\ m.column \notin m.used
    BY <2>1 DEF TreeOfUsed
  <2>3. \A c \in m.used \ {0} : m.way[c] \in m.used
    BY <2>1 DEF TreeOfUsed
  <2>4. \A c \in (1..n) \ m.used : m.way[c] \in m.used
    BY <2>1 DEF TreeOfUsed
  <2>5. m.column \in (1..n) \ m.used
    <3>1. PICK c \in 0..n : c = m.column
      BY <1>1
    <3>2. c \in 1..n
      BY <3>1
    <3> QED BY <2>2, <3>1, <3>2
  <2> QED BY <2>1, <2>2, <2>3, <2>4, <2>5
<1>3. PICK used : used = Used(m)
  OBVIOUS
<1>4. used = m.used \cup {m.column} /\ used \in SUBSET (0..n)
  BY <1>1, <1>3 DEF Used
<1>5. PICK hop : Hops(m, n, hop) /\ Trail(m, n) = {hop[k] : k \in 0..n} \ {0}
  BY <1>1, TrailHops
<1>6. /\ hop \in [0..n -> 0..n] /\ hop[0] = m.column
      /\ \A k \in 1..n : hop[k] = m.way[hop[k - 1]]
  BY <1>5 DEF Hops
<1>7. PICK size \in Nat : size = Cardinality(m.used) /\ size <= n
  <2>1. IsFiniteSet(0..n) /\ Cardinality(0..n) = n + 1
    BY FS_Interval
  <2>2. PICK S : S = (0..n) \ {m.column}
    OBVIOUS
  <2>3. IsFiniteSet(S) /\ Cardinality(S) = n
    <3>1. PICK T, x : T = 0..n /\ x = m.column
      OBVIOUS
    <3>2. IsFiniteSet(T) /\ x \in T /\ S = T \ {x} /\ Cardinality(T) = n + 1
      BY <1>1, <2>1, <2>2, <3>1
    <3>3. IsFiniteSet(S) /\ Cardinality(S) = Cardinality(T) - 1
      BY <3>2, FS_RemoveElement
    <3> QED BY <3>2, <3>3
  <2>4. m.used \in SUBSET S
    BY <1>1, <1>2, <2>2
  <2>5. Cardinality(m.used) <= Cardinality(S) /\ IsFiniteSet(m.used)
    BY <2>3, <2>4, FS_Subset
  <2>6. Cardinality(m.used) \in Nat
    BY <2>5, FS_CardinalityType
  <2> QED BY <2>3, <2>5, <2>6
<1>8. /\ rank \in [0..n -> Nat] /\ rank[0] = 0
      /\ \A c \in used \ {0} : rank[m.way[c]] < rank[c] /\ rank[c] <= size
  BY <1>3, <1>7 DEF Ranked
<1>9. \A c \in used : m.way[c] \in used
  BY <1>2, <1>4
\* Every column met is used; the rank falls by one at least with every step.
<1>10. \A k \in 0..n : hop[k] \in used /\ (hop[k] = 0 \/ rank[hop[k]] + k <= size)
  <2> DEFINE A == {k \in 0..n : hop[k] \in used /\ (hop[k] = 0 \/ rank[hop[k]] + k <= size)}
  <2>1. 0 \in A
    BY <1>1, <1>2, <1>4, <1>6, <1>8, SMTT(30)
  <2>2. ASSUME NEW k \in 1..n, k - 1 \in A PROVE k \in A
    <3>1. PICK c \in used : c = hop[k - 1]
      BY <2>2
    <3>2. hop[k] = m.way[c] /\ m.way[c] \in used
      BY <1>6, <1>9, <3>1
    <3>3. CASE c = 0
      BY <1>2, <3>2, <3>3
    <3>4. CASE c # 0
      <4>1. rank[c] + (k - 1) <= size /\ rank[m.way[c]] < rank[c]
        BY <1>8, <2>2, <3>1, <3>4
      <4>2. rank[c] \in Nat /\ rank[m.way[c]] \in Nat
        BY <1>4, <1>8, <3>2
      <4>3. rank[m.way[c]] + k <= size
        BY <4>1, <4>2
      <4> QED BY <3>2, <4>3
    <3> QED BY <3>3, <3>4
  <2> HIDE DEF A
  <2>3. \A k \in 0..n : k \in A
    BY <2>1, <2>2, StepByStep
  <2> QED BY <2>3 DEF A
<1>11. hop[n] = 0
  <2>1. PICK c \in used : c = hop[n] /\ (c = 0 \/ rank[c] + n <= size)
    BY <1>10
  <2>2. ASSUME c # 0 PROVE FALSE
    BY <1>4, <1>8, <1>9, <2>2, <1>7, <2>1
  <2> QED BY <2>1, <2>2
\* The ranks never rise again.
<1>12. \A b \in 0..n : \A a \in 0..b : rank[hop[b]] <= rank[hop[a]]
  <2> DEFINE A == {b \in 0..n : \A a \in 0..b : rank[hop[b]] <= rank[hop[a]]}
  <2>0. \A b \in 0..n : rank[hop[b]] \in Nat
    BY <1>6, <1>8
  <2>1. 0 \in A
    BY <2>0
  <2>2. ASSUME NEW b \in 1..n, b - 1 \in A PROVE b \in A
    <3>1. rank[hop[b]] <= rank[hop[b - 1]]
      <4>1. PICK c \in used : c = hop[b - 1]
        BY <1>10
      <4>2. hop[b] = m.way[c]
        BY <1>6, <4>1
      <4>3. CASE c = 0
        BY <1>2, <1>8, <4>1, <4>2, <4>3
      <4>4. CASE c # 0
        <5>1. rank[m.way[c]] < rank[c] /\ rank[c] \in Nat /\ rank[m.way[c]] \in Nat
          BY <1>4, <1>8, <1>9, <4>4
        <5> QED BY <4>1, <4>2, <5>1
      <4> QED BY <4>3, <4>4
    <3>2. ASSUME NEW a \in 0..b PROVE rank[hop[b]] <= rank[hop[a]]
      <4>1. CASE a = b
        BY <2>0, <4>1
      <4>2. CASE a # b
        BY <4>2, <2>2, <2>0, <3>1
      <4> QED BY <4>1, <4>2
    <3> QED BY <3>2
  <2> HIDE DEF A
  <2>3. \A b \in 0..n : b \in A
    BY <2>1, <2>2, StepByStep
  <2> QED BY <2>3 DEF A
<1>13. PICK trail : trail = Trail(m, n)
  OBVIOUS
<1>14. \A c : c \in trail <=> c # 0 /\ \E k \in 0..n : hop[k] = c
  BY <1>5, <1>13
<1>15. trail \in SUBSET (1..n) /\ trail \in SUBSET used /\ m.column \in trail
  <2>1. \A c \in trail : c \in used /\ c \in 1..n
    BY <1>6, <1>10, <1>14
  <2>2. 0 \in 0..n
    OBVIOUS
  <2> QED BY <1>6, <1>14, <2>1, <2>2
<1>16. \A c \in trail : m.way[c] = 0 \/ m.way[c] \in trail
  <2>1. ASSUME NEW c \in trail, m.way[c] # 0 PROVE m.way[c] \in trail
    <3>1. PICK k \in 0..n : hop[k] = c
      BY <1>14
    <3>2. k # n
      BY <1>11, <1>14, <3>1
    <3>3. k + 1 \in 1..n /\ k + 1 \in 0..n /\ (k + 1) - 1 = k
      BY <3>2
    <3>4. hop[k + 1] = m.way[c]
      BY <1>6, <3>1, <3>3
    <3> QED BY <1>14, <2>1, <3>3, <3>4
  <2> QED BY <2>1
<1>17. \A c \in trail : c # m.column => \E d \in trail : m.way[d] = c
  <2>1. ASSUME NEW c \in trail, c # m.column PROVE \E d \in trail : m.way[d] = c
    <3>1. PICK k \in 0..n : hop[k] = c
      BY <1>14
    <3>2. k \in 1..n /\ k - 1 \in 0..n
      BY <1>6, <2>1, <3>1
    <3>3. c = m.way[hop[k - 1]]
      BY <1>6, <3>1, <3>2
    <3>4. hop[k - 1] # 0
      BY <1>2, <1>14, <3>3
    <3> QED BY <1>14, <3>2, <3>3, <3>4
  <2> QED BY <2>1
<1>18. \E c \in trail : m.way[c] = 0
  <2> DEFINE Zeros == {k \in 0..n : hop[k] = 0}
  <2>1. Zeros \in SUBSET Nat /\ n \in Zeros
    BY <1>11
  <2>2. PICK k \in Zeros : \A j \in Zeros : k <= j
    <3> HIDE DEF Zeros
    <3> QED BY <2>1, LeastNumber
  <2>3. k \in 1..n /\ k - 1 \in 0..n
    BY <1>2, <1>6, <2>2
  <2>4. hop[k - 1] # 0
    <3>1. k - 1 \notin Zeros
      BY <2>2, <2>3
    <3> QED BY <2>3, <3>1
  <2>5. m.way[hop[k - 1]] = 0
    BY <1>6, <2>2, <2>3
  <2> QED BY <1>14, <2>3, <2>4, <2>5
<1>19. ASSUME NEW i \in 0..n, NEW j \in 0..n, i < j, hop[i] # 0, hop[j] # 0
       PROVE  m.way[hop[i]] # m.way[hop[j]]
  <2>1. i + 1 \in 1..n /\ i + 1 \in 0..j /\ (i + 1) - 1 = i
    BY <1>19
  <2>2. hop[i + 1] = m.way[hop[i]]
    BY <1>6, <2>1
  <2>3. rank[hop[j]] <= rank[hop[i + 1]]
    BY <1>12, <2>1
  <2>4. hop[j] \in used \ {0}
    BY <1>10, <1>19
  <2>5. rank[m.way[hop[j]]] < rank[hop[j]] /\ rank[hop[j]] \in Nat
    BY <1>4, <1>8, <2>4
  <2>6. rank[m.way[hop[j]]] \in Nat /\ rank[m.way[hop[i]]] \in Nat
    BY <1>1, <1>6, <1>8
  <2> QED BY <2>2, <2>3, <2>5, <2>6
<1>20. \A c, d \in trail : m.way[c] = m.way[d] => c = d
  <2>1. ASSUME NEW c \in trail, NEW d \in trail, m.way[c] = m.way[d] PROVE c = d
    <3>1. PICK i \in 0..n : hop[i] = c
      BY <1>14
    <3>2. PICK j \in 0..n : hop[j] = d
      BY <1>14
    <3>3. c # 0 /\ d # 0
      BY <1>14
    <3>4. i = j
      BY <1>19, <2>1, <3>1, <3>2, <3>3
    <3> QED BY <3>1, <3>2, <3>4
  <2> QED BY <2>1
<1> QED BY <1>3, <1>13, <1>15, <1>16, <1>17, <1>18, <1>20

\* An augmentation gives the row being placed a column of its own.
LEMMA AugmentKeeps ==
  ASSUME NEW n \in Nat, n >= 1, NEW cost, Matrix(cost, n), NEW m, MatchInv(m, cost, n),
         Augmentable(m)
  PROVE  MatchInv(Augmented(m, n), cost, n) /\ m.row <= n
<1>1. /\ m \in Registers(n) /\ Feasible(m, cost, n) /\ RowsMatched(m, cost, n)
      /\ TreeOfUsed(m, cost, n)
  BY DEF MatchInv
<1>2. /\ m.u \in [0..n -> Int] /\ m.v \in [0..n -> Int] /\ m.p \in [0..n -> 0..(n + 1)]
      /\ m.way \in [0..n -> 0..n] /\ m.used \in SUBSET (0..n) /\ m.column \in 0..n
  BY <1>1, RegisterTypes
<1>3. PICK row : row = m.row
  OBVIOUS
<1>4. row \in 1..n /\ row + 1 \in 1..(n + 1) /\ m.p[m.column] = 0 /\ m.column # 0
  <2>1. m.row <= n /\ m.p[m.column] = 0 /\ m.column # 0
    BY <1>1 DEF Augmentable, TreeOfUsed
  <2>2. row \in Nat /\ row >= 1 /\ row <= n
    BY <1>1, <1>3, <2>1, RegisterTypes
  <2> QED BY <2>1, <2>2
<1>5. PICK trail : trail = Trail(m, n)
  OBVIOUS
<1>6. /\ trail \in SUBSET (1..n) /\ trail \in SUBSET Used(m) /\ m.column \in trail
      /\ \A c \in trail : m.way[c] = 0 \/ m.way[c] \in trail
      /\ \A c \in trail : c # m.column => \E d \in trail : m.way[d] = c
      /\ \E c \in trail : m.way[c] = 0
      /\ \A c, d \in trail : m.way[c] = m.way[d] => c = d
  <2>1. PICK rank : Ranked(m, rank, n)
    BY DEF MatchInv
  <2> QED BY <1>1, <1>4, <1>5, <2>1, TrailLeadsBack
<1>7. PICK p : p = [c \in 0..n |-> IF c \in trail THEN m.p[m.way[c]] ELSE m.p[c]]
  OBVIOUS
<1>8. p \in [0..n -> 0..(n + 1)]
  BY <1>2, <1>7
<1>9. /\ m.p[0] = row
      /\ \A c \in 1..n : m.p[c] # 0 =>
           m.p[c] \in 1..(row - 1) /\ m.u[m.p[c]] + m.v[c] = cost[m.p[c]][c]
      /\ \A c, d \in 0..n : m.p[c] = m.p[d] /\ m.p[c] # 0 => c = d
      /\ \A r \in 1..(row - 1) : \E c \in 1..n : m.p[c] = r
  BY <1>1, <1>3 DEF RowsMatched
\* What a column of the trail gets: the row of the column before it, at its exact cost.
<1>10. \A c \in trail : m.p[m.way[c]] \in 1..row
                         /\ m.u[m.p[m.way[c]]] + m.v[c] = cost[m.p[m.way[c]]][c]
  <2>1. ASSUME NEW c \in trail
        PROVE  /\ m.p[m.way[c]] \in 1..row
               /\ m.u[m.p[m.way[c]]] + m.v[c] = cost[m.p[m.way[c]]][c]
    <3>1. c \in 1..n /\ m.way[c] \in 0..n /\ m.used # {}
      BY <1>1, <1>2, <1>4, <1>6 DEF TreeOfUsed
    <3>2. m.way[c] \in m.used /\ Slack(m, cost, m.way[c], c) = 0
      <4>1. CASE c \in m.used
        BY <1>1, <3>1, <4>1 DEF TreeOfUsed
      <4>2. CASE c \notin m.used
        BY <1>6, <4>2, <1>1, <3>1 DEF Used, TreeOfUsed
      <4> QED BY <4>1, <4>2
    <3>3. m.p[m.way[c]] # 0
      BY <1>1, <3>1, <3>2 DEF TreeOfUsed
    <3>4. m.p[m.way[c]] \in 1..row
      <4>1. CASE m.way[c] = 0
        BY <1>4, <1>9, <4>1
      <4>2. CASE m.way[c] # 0
        BY <3>1, <4>2, <1>9, <3>3, <1>4
      <4> QED BY <4>1, <4>2
    <3>5. PICK r \in 1..n : r = m.p[m.way[c]]
      BY <1>4, <3>4
    <3>6. cost[r][c] - m.u[r] - m.v[c] = 0
      BY <3>2, <3>5 DEF Slack
    <3>7. cost[r][c] \in Int /\ m.u[r] \in Int /\ m.v[c] \in Int
      <4>1. r \in 0..n /\ r # 0
        OBVIOUS
      <4> QED BY <1>2, <3>1, <4>1, SlackParts
    <3>8. m.u[r] + m.v[c] = cost[r][c]
      BY <3>6, <3>7
    <3> QED BY <3>4, <3>5, <3>8
  <2> QED BY <2>1
<1>11. \A c \in 1..n : p[c] # 0 => p[c] \in 1..((row + 1) - 1)
                                   /\ m.u[p[c]] + m.v[c] = cost[p[c]][c]
  <2>1. ASSUME NEW c \in 1..n, p[c] # 0
        PROVE  p[c] \in 1..((row + 1) - 1) /\ m.u[p[c]] + m.v[c] = cost[p[c]][c]
    <3>1. CASE c \in trail
      BY <1>7, <3>1, <1>4, <1>10
    <3>2. CASE c \notin trail
      BY <1>7, <3>2, <1>9, <2>1, <1>4
    <3> QED BY <3>1, <3>2
  <2> QED BY <2>1
<1>12. \A c, d \in 1..n : p[c] = p[d] /\ p[c] # 0 => c = d
  <2>1. ASSUME NEW c \in 1..n, NEW d \in 1..n, p[c] = p[d], p[c] # 0 PROVE c = d
    <3>1. CASE c \in trail /\ d \in trail
      <4>1. m.p[m.way[c]] = m.p[m.way[d]] /\ m.p[m.way[c]] # 0
        BY <1>7, <2>1, <3>1
      <4>2. m.way[c] = m.way[d]
        <5>1. m.way[c] \in 0..n /\ m.way[d] \in 0..n
          <6>1. c \in 0..n /\ d \in 0..n
            OBVIOUS
          <6> QED BY <1>2, <6>1
        <5> QED BY <1>9, <4>1, <5>1
      <4> QED BY <1>6, <3>1, <4>2
    <3>2. CASE c \notin trail /\ d \notin trail
      BY <1>7, <2>1, <3>2, <1>9
    <3>3. ASSUME NEW a \in 1..n, NEW b \in 1..n, a \in trail, b \notin trail, p[a] = p[b],
                 p[a] # 0
          PROVE  FALSE
      <4>1. m.p[m.way[a]] = m.p[b] /\ m.p[b] # 0
        BY <1>7, <3>3
      <4>2. m.way[a] = b
        <5>1. m.way[a] \in 0..n /\ b \in 0..n
          BY <1>2
        <5> QED BY <1>9, <4>1, <5>1
      <4>3. b = 0 \/ b \in trail
        BY <1>6, <3>3, <4>2
      <4> QED BY <3>3, <4>3
    <3>4. c \in trail <=> d \in trail
      BY <2>1, <3>3
    <3> QED BY <3>1, <3>2, <3>4
  <2> QED BY <2>1
<1>13. \A r \in 1..((row + 1) - 1) : \E c \in 1..n : p[c] = r
  <2>1. ASSUME NEW r \in 1..((row + 1) - 1) PROVE \E c \in 1..n : p[c] = r
    <3>1. CASE r = row
      <4>1. PICK c \in trail : m.way[c] = 0
        BY <1>6
      <4>2. p[c] = row /\ c \in 1..n
        BY <1>6, <1>7, <1>9, <4>1
      <4> QED BY <3>1, <4>2
    <3>2. CASE r # row
      <4>1. r \in 1..(row - 1) /\ r # 0
        BY <1>4, <3>2
      <4>2. PICK c \in 1..n : m.p[c] = r
        BY <1>9, <4>1
      <4>3. CASE c \notin trail
        <5>1. p[c] = r
          BY <1>7, <4>2, <4>3
        <5> QED BY <5>1
      <4>4. CASE c \in trail
        <5>1. c # m.column
          BY <1>4, <4>1, <4>2
        <5>2. PICK d \in trail : m.way[d] = c
          BY <1>6, <4>4, <5>1
        <5>3. p[d] = r /\ d \in 1..n
          BY <1>6, <1>7, <4>2, <5>2
        <5> QED BY <5>3
      <4> QED BY <4>3, <4>4
    <3> QED BY <3>1, <3>2
  <2> QED BY <2>1
<1>14. MatchInv(Placing(row + 1, m.u, m.v, p, n), cost, n)
  <2>1. \A r, c \in 1..n : m.u[r] + m.v[c] <= cost[r][c]
    BY <1>1 DEF Feasible
  <2> QED BY <1>2, <1>4, <1>8, <1>11, <1>12, <1>13, <2>1, PlacingInv
<1>15. Augmented(m, n) = Placing(row + 1, m.u, m.v, p, n)
  BY <1>3, <1>5, <1>7 DEF Augmented, NextRow
<1>16. m.row <= n
  BY <1>1, <1>4 DEF TreeOfUsed
<1> QED BY <1>14, <1>15, <1>16

-----------------------------------------------------------------------------
(* Order by rank, Python's sort and min *)

-----------------------------------------------------------------------------
(* Orders, choices and parts of sequences *)

\* earlier is a strict total order of S.
TotalOrder(S, earlier) ==
  /\ earlier \in [S -> SUBSET S]
  /\ \A x \in S : x \notin earlier[x]
  /\ \A x, y \in S : x \in earlier[y] => earlier[x] \subseteq earlier[y]
  /\ \A x, y \in S : x # y => x \in earlier[y] \/ y \in earlier[x]

\* There are n numbers in 1..n.
LEMMA UpToSize ==
  ASSUME NEW n \in Nat
  PROVE  IsFiniteSet(1..n) /\ Cardinality(1..n) = n
<1>1. 1 \in Int /\ n \in Int
  OBVIOUS
<1>2. IsFiniteSet(1..n) /\ Cardinality(1..n) = IF 1 > n THEN 0 ELSE n - 1 + 1
  BY <1>1, FS_Interval
<1> QED BY <1>2

\* A one-to-one function between finite sets of the same size reaches every element.
LEMMA OneToOneIsOnto ==
  ASSUME NEW S, NEW T, IsFiniteSet(S), IsFiniteSet(T), Cardinality(S) = Cardinality(T),
         NEW f \in [S -> T], \A x, y \in S : f[x] = f[y] => x = y
  PROVE  \A t \in T : \E x \in S : f[x] = t
<1>1. f \in Injection(S, T)
  BY DEF Injection, IsInjective
<1>2. f \in Surjection(S, T)
  BY <1>1, FS_Injection
<1> QED BY <1>2 DEF Surjection

\* Sorted lists every element once, in the order.
LEMMA SortedFacts ==
  ASSUME NEW S, IsFiniteSet(S), NEW earlier, TotalOrder(S, earlier)
  PROVE  /\ Cardinality(S) \in Nat
         /\ Sorted(S, earlier) \in [1..Cardinality(S) -> S]
         /\ \A m, n \in 1..Cardinality(S) : m < n =>
              Sorted(S, earlier)[m] \in earlier[Sorted(S, earlier)[n]]
         /\ \A m, n \in 1..Cardinality(S) : Sorted(S, earlier)[m] = Sorted(S, earlier)[n] => m = n
         /\ \A x \in S : \E n \in 1..Cardinality(S) : Sorted(S, earlier)[n] = x
<1>1. PICK N \in Nat : N = Cardinality(S)
  BY FS_CardinalityType
<1>2. PICK sorted : sorted = Sorted(S, earlier)
  OBVIOUS
<1>3. PICK count : count = [x \in S |-> Cardinality(earlier[x])]
  OBVIOUS
<1>4. ASSUME NEW x \in S
      PROVE  /\ IsFiniteSet(earlier[x]) /\ count[x] \in Nat /\ count[x] + 1 \in 1..N
  <2>1. PICK s : s = S \ {x}
    OBVIOUS
  <2>2. IsFiniteSet(s) /\ Cardinality(s) = N - 1
    BY <1>1, <2>1, FS_RemoveElement
  <2>3. earlier[x] \in SUBSET s
    BY <2>1 DEF TotalOrder
  <2>4. IsFiniteSet(earlier[x]) /\ Cardinality(earlier[x]) <= Cardinality(s)
    BY <2>2, <2>3, FS_Subset
  <2>5. Cardinality(earlier[x]) \in Nat
    BY <2>4, FS_CardinalityType
  <2> QED BY <1>1, <1>3, <2>2, <2>4, <2>5
<1>5. ASSUME NEW x \in S, NEW y \in S, x \in earlier[y] PROVE count[x] < count[y]
  <2>1. PICK s : s = earlier[x] \cup {x}
    OBVIOUS
  <2>2. x \notin earlier[x] /\ s \in SUBSET earlier[y]
    BY <1>5, <2>1 DEF TotalOrder
  <2>3. Cardinality(s) = count[x] + 1
    BY <1>3, <1>4, <2>1, <2>2, FS_AddElement
  <2>4. Cardinality(s) <= count[y]
    BY <1>3, <1>4, <2>2, FS_Subset
  <2> QED BY <1>4, <2>3, <2>4
<1>6. PICK rank : rank = [x \in S |-> count[x] + 1]
  OBVIOUS
<1>7. rank \in [S -> 1..N] /\ \A x, y \in S : rank[x] = rank[y] => x = y
  <2>1. rank \in [S -> 1..N]
    BY <1>4, <1>6
  <2>2. ASSUME NEW x \in S, NEW y \in S, rank[x] = rank[y] PROVE x = y
    <3>1. count[x] = count[y]
      BY <1>4, <1>6, <2>2
    <3>2. x \notin earlier[y] /\ y \notin earlier[x]
      BY <1>4, <1>5, <3>1
    <3> QED BY <3>2 DEF TotalOrder
  <2> QED BY <2>1, <2>2
<1>8. ASSUME NEW n \in 1..N PROVE \E x \in S : count[x] = n - 1
  <2>1. PICK T : T = 1..N
    OBVIOUS
  <2>2. IsFiniteSet(T) /\ Cardinality(T) = Cardinality(S) /\ rank \in [S -> T]
    BY <1>1, <1>7, <2>1, UpToSize
  <2>3. \A t \in T : \E x \in S : rank[x] = t
    BY <1>7, <2>2, OneToOneIsOnto
  <2>4. PICK x \in S : rank[x] = n
    BY <2>1, <2>3
  <2>5. count[x] = n - 1
    BY <1>4, <1>6, <2>4
  <2> QED BY <2>5
<1>9. sorted = [n \in 1..N |-> CHOOSE x \in S : count[x] = n - 1]
  <2>1. ASSUME NEW n \in 1..N
        PROVE  (CHOOSE x \in S : Cardinality(earlier[x]) = n - 1) = (CHOOSE x \in S : count[x] = n - 1)
    <3>1. \A x \in S : Cardinality(earlier[x]) = n - 1 <=> count[x] = n - 1
      BY <1>3
    <3> QED BY <3>1
  <2> QED BY <1>1, <1>2, <2>1 DEF Sorted
<1>10. ASSUME NEW n \in 1..N PROVE sorted[n] \in S /\ count[sorted[n]] = n - 1
  <2>1. PICK x : x = CHOOSE y \in S : count[y] = n - 1
    OBVIOUS
  <2>2. x \in S /\ count[x] = n - 1
    BY <1>8, <2>1
  <2> QED BY <1>9, <2>1, <2>2
<1>11. sorted \in [1..N -> S]
  BY <1>9, <1>10
<1>12. ASSUME NEW m \in 1..N, NEW n \in 1..N, sorted[m] = sorted[n] PROVE m = n
  BY <1>10, <1>12
<1>13. ASSUME NEW m \in 1..N, NEW n \in 1..N, m < n PROVE sorted[m] \in earlier[sorted[n]]
  <2>1. /\ sorted[m] \in S /\ sorted[n] \in S
        /\ count[sorted[m]] = m - 1 /\ count[sorted[n]] = n - 1
    BY <1>10
  <2>2. ~(count[sorted[n]] < count[sorted[m]]) /\ sorted[m] # sorted[n]
    BY <1>13, <2>1
  <2>3. sorted[n] \notin earlier[sorted[m]]
    BY <1>5, <2>1, <2>2
  <2> QED BY <2>1, <2>2, <2>3 DEF TotalOrder
<1>14. ASSUME NEW x \in S PROVE \E n \in 1..N : sorted[n] = x
  <2>1. count[x] \in Nat /\ count[x] + 1 \in 1..N
    BY <1>4
  <2>2. PICK n \in 1..N : n = count[x] + 1
    BY <2>1
  <2>3. sorted[n] \in S /\ count[sorted[n]] = n - 1
    BY <1>10
  <2>4. rank[sorted[n]] = rank[x]
    BY <1>6, <2>1, <2>2, <2>3
  <2> QED BY <1>7, <2>3, <2>4
<1> QED BY <1>1, <1>2, <1>11, <1>12, <1>13, <1>14

\* As a sequence.
LEMMA SortedSequence ==
  ASSUME NEW S, IsFiniteSet(S), NEW earlier, TotalOrder(S, earlier)
  PROVE  /\ Sorted(S, earlier) \in Seq(S) /\ Len(Sorted(S, earlier)) = Cardinality(S)
         /\ DOMAIN Sorted(S, earlier) = 1..Cardinality(S)
         /\ ToSet(Sorted(S, earlier)) = S
<1>1. PICK N \in Nat : N = Cardinality(S)
  BY FS_CardinalityType
<1>2. PICK sorted : sorted = Sorted(S, earlier)
  OBVIOUS
<1>3. sorted \in [1..N -> S] /\ \A x \in S : \E n \in 1..N : sorted[n] = x
  BY <1>1, <1>2, SortedFacts
<1>4. sorted \in Seq(S) /\ Len(sorted) = N /\ DOMAIN sorted = 1..N
  BY <1>3
<1>5. ToSet(sorted) = S
  BY <1>3, <1>4 DEF ToSet
<1> QED BY <1>1, <1>2, <1>4, <1>5

\* The numbers are ordered by size.
LEMMA AscendingOrder ==
  ASSUME NEW S \in SUBSET Int
  PROVE  TotalOrder(S, [x \in S |-> {y \in S : y < x}])
<1>1. PICK earlier : earlier = [x \in S |-> {y \in S : y < x}]
  OBVIOUS
<1>2. earlier \in [S -> SUBSET S]
  BY <1>1
<1>3. \A x, y \in S : x \in earlier[y] <=> x < y
  BY <1>1
<1>4. \A x \in S : x \notin earlier[x]
  <2>1. ASSUME NEW x \in S PROVE ~(x < x)
    OBVIOUS
  <2> QED BY <1>3, <2>1
<1>5. ASSUME NEW x \in S, NEW y \in S, x \in earlier[y] PROVE earlier[x] \subseteq earlier[y]
  <2>1. ASSUME NEW z \in earlier[x] PROVE z \in earlier[y]
    <3>1. z \in S
      BY <1>2
    <3>2. z < x /\ x < y
      BY <1>3, <1>5, <2>1, <3>1
    <3>3. x \in Int /\ y \in Int /\ z \in Int
      BY <3>1
    <3>4. z < y
      BY <3>2, <3>3
    <3> QED BY <1>3, <3>1, <3>4
  <2> QED BY <2>1
<1>6. \A x, y \in S : x # y => x \in earlier[y] \/ y \in earlier[x]
  <2>1. ASSUME NEW x \in S, NEW y \in S, x # y PROVE x < y \/ y < x
    BY <2>1
  <2> QED BY <1>3, <2>1
<1> QED BY <1>1, <1>2, <1>4, <1>5, <1>6 DEF TotalOrder

\* Ascending lists a finite set, each element once, from the least.
LEMMA AscendingFacts ==
  ASSUME NEW S \in SUBSET Int, IsFiniteSet(S)
  PROVE  /\ Cardinality(S) \in Nat
         /\ Ascending(S) \in [1..Cardinality(S) -> S]
         /\ Ascending(S) \in Seq(S) /\ Len(Ascending(S)) = Cardinality(S)
         /\ DOMAIN Ascending(S) = 1..Cardinality(S) /\ ToSet(Ascending(S)) = S
         /\ \A m, n \in 1..Cardinality(S) : m < n => Ascending(S)[m] < Ascending(S)[n]
         /\ \A m, n \in 1..Cardinality(S) : Ascending(S)[m] = Ascending(S)[n] => m = n
         /\ \A x \in S : \E n \in 1..Cardinality(S) : Ascending(S)[n] = x
<1>1. PICK earlier : earlier = [x \in S |-> {y \in S : y < x}]
  OBVIOUS
<1>2. TotalOrder(S, earlier)
  BY <1>1, AscendingOrder
<1>3. Ascending(S) = Sorted(S, earlier)
  BY <1>1 DEF Ascending
<1>4. PICK N \in Nat : N = Cardinality(S)
  BY FS_CardinalityType
<1>5. PICK sorted : sorted = Sorted(S, earlier)
  OBVIOUS
<1>6. /\ sorted \in [1..N -> S]
      /\ \A m, n \in 1..N : m < n => sorted[m] \in earlier[sorted[n]]
      /\ \A m, n \in 1..N : sorted[m] = sorted[n] => m = n
      /\ \A x \in S : \E n \in 1..N : sorted[n] = x
  BY <1>2, <1>4, <1>5, SortedFacts
<1>7. sorted \in Seq(S) /\ Len(sorted) = N /\ DOMAIN sorted = 1..N /\ ToSet(sorted) = S
  BY <1>2, <1>4, <1>5, SortedSequence
<1>8. \A m, n \in 1..N : m < n => sorted[m] < sorted[n]
  <2>1. ASSUME NEW m \in 1..N, NEW n \in 1..N, m < n PROVE sorted[m] < sorted[n]
    <3>1. sorted[n] \in S /\ sorted[m] \in earlier[sorted[n]]
      BY <1>6, <2>1
    <3> QED BY <1>1, <3>1
  <2> QED BY <2>1
<1> QED BY <1>3, <1>4, <1>5, <1>6, <1>7, <1>8

\* A part of a sequence keeps elements, each once, and their order.
LEMMA PartFacts ==
  ASSUME NEW D, NEW seq \in Seq(D), NEW S \in SUBSET DOMAIN seq
  PROVE  \E at \in [1..Cardinality(S) -> S] :
           /\ Cardinality(S) \in Nat /\ IsFiniteSet(S)
           /\ PartOf(seq, S) \in Seq(D) /\ Len(PartOf(seq, S)) = Cardinality(S)
           /\ DOMAIN PartOf(seq, S) = 1..Cardinality(S)
           /\ \A n \in 1..Cardinality(S) : PartOf(seq, S)[n] = seq[at[n]] /\ PartOf(seq, S)[n] \in D
           /\ \A m, n \in 1..Cardinality(S) : m < n => at[m] < at[n]
           /\ \A m, n \in 1..Cardinality(S) : at[m] = at[n] => m = n
           /\ \A x \in S : \E n \in 1..Cardinality(S) : at[n] = x
<1>1. DOMAIN seq = 1..Len(seq) /\ Len(seq) \in Nat /\ \A n \in 1..Len(seq) : seq[n] \in D
  OBVIOUS
<1>2. IsFiniteSet(S) /\ S \in SUBSET Int
  <2>1. PICK T : T = 1..Len(seq)
    OBVIOUS
  <2>2. IsFiniteSet(T) /\ S \in SUBSET T /\ T \in SUBSET Int
    BY <1>1, <2>1, UpToSize
  <2>3. IsFiniteSet(S)
    BY <2>2, FS_Subset
  <2> QED BY <2>2, <2>3
<1>3. PICK N \in Nat : N = Cardinality(S)
  BY <1>2, FS_CardinalityType
<1>4. PICK at : at = Ascending(S)
  OBVIOUS
<1>5. /\ at \in [1..N -> S] /\ DOMAIN at = 1..N
      /\ \A m, n \in 1..N : m < n => at[m] < at[n]
      /\ \A m, n \in 1..N : at[m] = at[n] => m = n
      /\ \A x \in S : \E n \in 1..N : at[n] = x
  BY <1>2, <1>3, <1>4, AscendingFacts
<1>6. PICK part : part = PartOf(seq, S)
  OBVIOUS
<1>7. part = [n \in 1..N |-> seq[at[n]]]
  BY <1>4, <1>5, <1>6 DEF PartOf
<1>8. \A n \in 1..N : seq[at[n]] \in D
  BY <1>1, <1>5
<1>9. part \in Seq(D) /\ Len(part) = N /\ DOMAIN part = 1..N
      /\ \A n \in 1..N : part[n] = seq[at[n]] /\ part[n] \in D
  BY <1>7, <1>8
<1> QED BY <1>2, <1>3, <1>5, <1>6, <1>9

-----------------------------------------------------------------------------

\* Pairs are ordered lexicographically.
LEMMA BeforeOrder ==
  ASSUME NEW a, NEW b, NEW c, a[1] \in Int, a[2] \in Int, b[1] \in Int, b[2] \in Int,
         c[1] \in Int, c[2] \in Int
  PROVE  /\ ~Before(a, a)
         /\ Before(a, b) => ~Before(b, a)
         /\ Before(a, b) /\ Before(b, c) => Before(a, c)
         /\ ~Before(a, b) /\ ~Before(b, c) => ~Before(a, c)
         /\ ~Before(a, b) /\ ~Before(b, a) => a[1] = b[1] /\ a[2] = b[2]
  BY DEF Before

\* FirstMin picks an element, and none with a smaller key is in the sequence.
LEMMA FirstMinFacts ==
  ASSUME NEW D, NEW seq \in Seq(D), seq # <<>>, NEW key,
         \A x \in ToSet(seq) : key[x][1] \in Int /\ key[x][2] \in Int
  PROVE  /\ FirstMin(seq, key) \in ToSet(seq) /\ FirstMin(seq, key) \in D
         /\ \A x \in ToSet(seq) : ~Before(key[x], key[FirstMin(seq, key)])
<1>1. PICK N \in Nat : N = Len(seq) /\ N >= 1 /\ DOMAIN seq = 1..N
  <2>1. Len(seq) \in Nat /\ DOMAIN seq = 1..Len(seq) /\ Len(seq) # 0
    OBVIOUS
  <2>2. PICK N : N = Len(seq)
    OBVIOUS
  <2>3. N \in Nat /\ N >= 1 /\ DOMAIN seq = 1..N
    BY <2>1, <2>2
  <2> QED BY <2>2, <2>3
<1>2. PICK k : k = [i \in 1..N |-> key[seq[i]]]
  OBVIOUS
<1>3. \A i \in 1..N : /\ seq[i] \in ToSet(seq) /\ seq[i] \in D /\ k[i] = key[seq[i]]
                      /\ k[i][1] \in Int /\ k[i][2] \in Int
  <2>1. ASSUME NEW i \in 1..N
        PROVE  /\ seq[i] \in ToSet(seq) /\ seq[i] \in D /\ k[i] = key[seq[i]]
               /\ k[i][1] \in Int /\ k[i][2] \in Int
    <3>1. seq[i] \in ToSet(seq) /\ seq[i] \in D
      BY <1>1 DEF ToSet
    <3> QED BY <1>2, <3>1
  <2> QED BY <2>1
<1> DEFINE Sooner(i, j) == Before(k[i], k[j]) \/ (~Before(k[j], k[i]) /\ i < j)
<1>4. PICK earlier : earlier = [j \in 1..N |-> {i \in 1..N : Sooner(i, j)}]
  OBVIOUS
<1>5. \A i, j \in 1..N : i \in earlier[j] <=> Sooner(i, j)
  BY <1>4
<1>6. \A x, y, z \in 1..N : /\ ~Sooner(x, x)
                            /\ Sooner(x, y) /\ Sooner(y, z) => Sooner(x, z)
                            /\ x # y => Sooner(x, y) \/ Sooner(y, x)
  <2>1. ASSUME NEW x \in 1..N, NEW y \in 1..N, NEW z \in 1..N
        PROVE  /\ ~Sooner(x, x)
               /\ Sooner(x, y) /\ Sooner(y, z) => Sooner(x, z)
               /\ x # y => Sooner(x, y) \/ Sooner(y, x)
    <3>1. /\ k[x][1] \in Int /\ k[x][2] \in Int /\ k[y][1] \in Int /\ k[y][2] \in Int
          /\ k[z][1] \in Int /\ k[z][2] \in Int
      BY <1>3
    <3>2. x \in Int /\ y \in Int /\ z \in Int
      OBVIOUS
    <3>3. ~Sooner(x, x)
      BY <3>1, <3>2 DEF Before
    <3>4. Sooner(x, y) /\ Sooner(y, z) => Sooner(x, z)
      BY <3>1, <3>2, SMTT(30) DEF Before
    <3>5. x # y => Sooner(x, y) \/ Sooner(y, x)
      BY <3>1, <3>2 DEF Before
    <3> QED BY <3>3, <3>4, <3>5
  <2> QED BY <2>1
<1> HIDE DEF Sooner
<1>7. TotalOrder(1..N, earlier)
  <2>1. earlier \in [1..N -> SUBSET (1..N)]
    BY <1>4
  <2>2. \A x \in 1..N : x \notin earlier[x]
    BY <1>5, <1>6
  <2>3. ASSUME NEW x \in 1..N, NEW y \in 1..N, x \in earlier[y] PROVE earlier[x] \subseteq earlier[y]
    <3>1. ASSUME NEW z \in earlier[x] PROVE z \in earlier[y]
      <4>1. z \in 1..N
        BY <2>1
      <4> QED BY <1>5, <1>6, <2>3, <3>1, <4>1
    <3> QED BY <3>1
  <2>4. \A x, y \in 1..N : x # y => x \in earlier[y] \/ y \in earlier[x]
    BY <1>5, <1>6
  <2> QED BY <2>1, <2>2, <2>3, <2>4 DEF TotalOrder
<1>8. \E i \in 1..N : \A j \in 1..N : j # i => Sooner(i, j)
  <2>1. PICK S : S = 1..N
    OBVIOUS
  <2>2. IsFiniteSet(S) /\ Cardinality(S) = N /\ TotalOrder(S, earlier)
    BY <1>7, <2>1, UpToSize
  <2>3. PICK s : s = Sorted(S, earlier)
    OBVIOUS
  <2>4. /\ s \in [1..N -> S] /\ \A m, n \in 1..N : m < n => s[m] \in earlier[s[n]]
        /\ \A x \in S : \E n \in 1..N : s[n] = x
    BY <2>2, <2>3, SortedFacts
  <2>5. s[1] \in 1..N
    <3>1. 1 \in 1..N
      BY <1>1
    <3> QED BY <2>1, <2>4, <3>1
  <2>6. ASSUME NEW j \in 1..N, j # s[1] PROVE Sooner(s[1], j)
    <3>1. PICK n \in 1..N : s[n] = j
      BY <2>1, <2>4
    <3>2. 1 \in 1..N /\ 1 < n
      BY <1>1, <2>6, <3>1
    <3>3. s[1] \in earlier[j]
      BY <2>4, <3>1, <3>2
    <3> QED BY <1>5, <2>5, <3>3
  <2> QED BY <2>5, <2>6
<1> DEFINE First(i) == \A j \in DOMAIN seq \ {i} :
                         \/ Before(key[seq[i]], key[seq[j]])
                         \/ i < j /\ ~Before(key[seq[j]], key[seq[i]])
<1>9. \A i \in 1..N : First(i) <=> \A j \in 1..N : j # i => Sooner(i, j)
  <2>1. ASSUME NEW i \in 1..N PROVE First(i) <=> \A j \in 1..N : j # i => Sooner(i, j)
    <3>1. \A j \in 1..N : Sooner(i, j) <=> \/ Before(key[seq[i]], key[seq[j]])
                                           \/ i < j /\ ~Before(key[seq[j]], key[seq[i]])
      BY <1>3 DEF Sooner
    <3> QED BY <1>1, <3>1
  <2> QED BY <2>1
<1>10. PICK first : first = CHOOSE i \in DOMAIN seq : First(i)
  OBVIOUS
<1>11. first \in 1..N /\ First(first)
  <2> HIDE DEF First
  <2>1. \E i \in DOMAIN seq : First(i)
    BY <1>1, <1>8, <1>9
  <2> QED BY <1>1, <1>10, <2>1
<1>12. FirstMin(seq, key) = seq[first]
  BY <1>10 DEF FirstMin
<1>13. ASSUME NEW x \in ToSet(seq) PROVE ~Before(key[x], key[seq[first]])
  <2>1. PICK j \in 1..N : x = seq[j]
    BY <1>1 DEF ToSet
  <2>2. /\ k[j][1] \in Int /\ k[j][2] \in Int /\ k[first][1] \in Int /\ k[first][2] \in Int
        /\ k[j] = key[x] /\ k[first] = key[seq[first]]
    BY <1>3, <1>11, <2>1
  <2>3. CASE j = first
    BY <2>2, <2>3 DEF Before
  <2>4. CASE j # first
    <3>1. Sooner(first, j)
      <4> HIDE DEF First
      <4> QED BY <1>9, <1>11, <2>4
    <3>2. Before(k[first], k[j]) \/ ~Before(k[j], k[first])
      BY <3>1 DEF Sooner
    <3> QED BY <2>2, <3>2 DEF Before
  <2> QED BY <2>3, <2>4
<1> QED BY <1>3, <1>11, <1>12, <1>13

\* A rounded number is whole and at most half a unit away.
LEMMA RoundedNear ==
  ASSUME NEW amount \in Int, NEW unit \in Nat, unit > 0
  PROVE  /\ Rounded(amount, unit) \in Int
         /\ amount >= 0 => Rounded(amount, unit) >= 0
         /\ 2 * (unit * Rounded(amount, unit)) <= 2 * amount + unit
<1>1. PICK whole \in Int, rest \in Int :
        /\ whole = amount \div unit /\ rest = amount % unit
        /\ amount = unit * whole + rest /\ 0 <= rest /\ rest < unit
  OBVIOUS
<1>2. PICK round : round = Rounded(amount, unit)
  OBVIOUS
<1>3. \/ round = whole
      \/ round = whole + 1 /\ 2 * rest >= unit
  BY <1>1, <1>2 DEF Rounded
<1>4. PICK full \in Int : full = unit * whole /\ unit * (whole + 1) = full + unit
  OBVIOUS
<1>5. 2 * (unit * round) <= 2 * amount + unit
  BY <1>1, <1>3, <1>4
<1>6. amount >= 0 => whole >= 0
  <2>1. CASE whole < 0
    <3>1. unit * whole <= -unit
      BY <2>1
    <3> QED BY <1>1, <3>1
  <2> QED BY <2>1
<1> QED BY <1>2, <1>3, <1>5, <1>6

-----------------------------------------------------------------------------
(* Attractions: listings, texts and their types *)

-----------------------------------------------------------------------------
(* Attractions *)

\* The fields of an attraction, one by one.
LEMMA SightFields ==
  ASSUME NEW poi \in Sights
  PROVE  /\ poi.key \in Nat /\ poi.section \in STRING /\ poi.name \in SUBSET STRING
         /\ poi.content \in [length: Nat, words: SUBSET STRING]
         /\ poi.address \in SUBSET STRING /\ poi.details \in SUBSET STRING
         /\ poi.edited \in SomeAges /\ poi.place \in Places \cup {NoPlace, HalfPlace}
         /\ poi.closed \in SUBSET (0..6) /\ poi.sources \in SomeOrigins /\ poi.score \in Nat
         /\ poi.visit \in 30..480 /\ poi.indoor \in 0..100
         /\ poi.night \in BOOLEAN /\ poi.crowd \in BOOLEAN /\ poi.shut \in BOOLEAN
  BY DEF Sights

\* The lesser and the greater of two numbers.
LEMMA MinMaxTwo ==
  ASSUME NEW a \in Int, NEW b \in Int
  PROVE  /\ Min({a, b}) = IF a <= b THEN a ELSE b
         /\ Max({a, b}) = IF a >= b THEN a ELSE b
<1>1. Min({a, b}) \in {a, b} /\ Min({a, b}) <= a /\ Min({a, b}) <= b
  <2>1. PICK S : S = {a, b}
    OBVIOUS
  <2>2. \E x \in S : \A y \in S : x <= y
    BY <2>1
  <2>3. Min(S) \in S /\ \A y \in S : Min(S) <= y
    BY <2>2 DEF Min
  <2> QED BY <2>1, <2>3
<1>2. Max({a, b}) \in {a, b} /\ Max({a, b}) >= a /\ Max({a, b}) >= b
  <2>1. PICK S : S = {a, b}
    OBVIOUS
  <2>2. \E x \in S : \A y \in S : x >= y
    BY <2>1
  <2>3. Max(S) \in S /\ \A y \in S : Max(S) >= y
    BY <2>2 DEF Max
  <2> QED BY <2>1, <2>3
<1>3. Min({a, b}) = IF a <= b THEN a ELSE b
  BY <1>1
<1>4. Max({a, b}) = IF a >= b THEN a ELSE b
  BY <1>2
<1> QED BY <1>3, <1>4

\* A listing becomes an attraction with its own closing days and status.
LEMMA CandidateTyped ==
  ASSUME NEW listing \in Listings, NEW page \in SourcePages
  PROVE  /\ Candidate(listing, page) \in Sights
         /\ Candidate(listing, page).key = listing.key
         /\ Candidate(listing, page).closed = listing.closed
         /\ Candidate(listing, page).shut = ("closed down" \in Told(listing))
<1>1. /\ listing.key \in Nat /\ listing.section \in STRING /\ listing.name \in SUBSET STRING
      /\ listing.content \in [length: Nat, words: SUBSET STRING]
      /\ listing.address \in SUBSET STRING /\ listing.details \in SUBSET STRING
      /\ listing.edited \in SomeAges /\ listing.place \in Places \cup {NoPlace, HalfPlace}
      /\ listing.closed \in SUBSET (0..6) /\ listing.minutes \in Nat
  BY DEF Listings
<1>2. VisitMinutes(listing) \in 30..480
  <2>1. PICK m \in Nat : m = listing.minutes
    BY <1>1
  <2>2. 30 \in Int /\ 480 \in Int /\ m \in Int
    OBVIOUS
  <2>3. PICK most : most = Max({30, m})
    OBVIOUS
  <2>4. most = IF 30 >= m THEN 30 ELSE m
    BY <2>2, <2>3, MinMaxTwo
  <2>5. most \in Int /\ most >= 30
    BY <2>4
  <2>6. Min({480, most}) = IF 480 <= most THEN 480 ELSE most
    BY <2>2, <2>5, MinMaxTwo
  <2>7. Min({480, most}) \in 30..480
    BY <2>5, <2>6
  <2>8. Min({480, Max({30, listing.minutes})}) \in 30..480
    BY <2>1, <2>3, <2>7
  <2>9. 300 \in 30..480 /\ 150 \in 30..480 /\ 120 \in 30..480 /\ 90 \in 30..480
    OBVIOUS
  <2> HIDE <2>7
  <2> QED BY <2>8, <2>9, Zenon DEF VisitMinutes
<1>3. IndoorShare(listing) \in 0..100
  BY DEF IndoorShare
<1>4. {[title |-> page.title, kind |-> page.kind, age |-> page.age]} \in SomeOrigins
  <2>1. PICK origin : origin = [title |-> page.title, kind |-> page.kind, age |-> page.age]
    OBVIOUS
  <2>2. origin \in Origins
    BY <2>1 DEF SourcePages, Origins
  <2>3. IsFiniteSet({origin})
    BY FS_Singleton
  <2> QED BY <2>1, <2>2, <2>3 DEF SomeOrigins
<1>5. PICK origins : origins = {[title |-> page.title, kind |-> page.kind, age |-> page.age]}
  OBVIOUS
<1> DEFINE visit == VisitMinutes(listing)
           indoor == IndoorShare(listing)
<1>6. Candidate(listing, page) =
        [key |-> listing.key, section |-> listing.section, name |-> listing.name,
         content |-> listing.content, address |-> listing.address, details |-> listing.details,
         edited |-> listing.edited, place |-> listing.place, closed |-> listing.closed,
         sources |-> origins,
         score |-> 0, visit |-> VisitMinutes(listing), indoor |-> IndoorShare(listing),
         night |-> "night" \in Told(listing), crowd |-> "crowd" \in Told(listing),
         shut |-> "closed down" \in Told(listing)]
  BY <1>5 DEF Candidate
<1>7. visit \in 30..480 /\ indoor \in 0..100 /\ origins \in SomeOrigins
  BY <1>2, <1>3, <1>4, <1>5
<1> HIDE DEF visit, indoor
<1>8. PICK night \in BOOLEAN : night <=> ("night" \in Told(listing))
  OBVIOUS
<1>12. PICK crowd \in BOOLEAN : crowd <=> ("crowd" \in Told(listing))
  OBVIOUS
<1>13. PICK shut \in BOOLEAN : shut <=> ("closed down" \in Told(listing))
  OBVIOUS
<1>14. night = ("night" \in Told(listing))
  BY <1>8
<1>15. crowd = ("crowd" \in Told(listing))
  BY <1>12
<1>11. shut = ("closed down" \in Told(listing))
  BY <1>13
<1>9. Candidate(listing, page) =
        [key |-> listing.key, section |-> listing.section, name |-> listing.name,
         content |-> listing.content, address |-> listing.address, details |-> listing.details,
         edited |-> listing.edited, place |-> listing.place, closed |-> listing.closed,
         sources |-> origins, score |-> 0, visit |-> visit, indoor |-> indoor,
         night |-> night, crowd |-> crowd, shut |-> shut]
  BY <1>6, <1>14, <1>15, <1>11, Zenon DEF visit, indoor
<1>10. /\ Candidate(listing, page) \in Sights
       /\ Candidate(listing, page).key = listing.key
       /\ Candidate(listing, page).closed = listing.closed
       /\ Candidate(listing, page).shut = shut
  BY <1>1, <1>7, <1>9 DEF Sights
<1> QED BY <1>11, <1>10, Zenon

\* The union of two finite sets is finite.
LEMMA FiniteUnion ==
  ASSUME NEW S, NEW T, IsFiniteSet(S), IsFiniteSet(T)
  PROVE  IsFiniteSet(S \cup T)
  BY FS_Union

\* A merged attraction is closed when either is, and shut when either is.
LEMMA MergedTyped ==
  ASSUME NEW old \in Sights, NEW new \in Sights
  PROVE  /\ Merged(old, new) \in Sights
         /\ Merged(old, new).key = old.key
         /\ Merged(old, new).closed = old.closed \cup new.closed
         /\ Merged(old, new).shut = (old.shut \/ new.shut)
<1>1. PICK poi : poi = Merged(old, new)
  OBVIOUS
<1>2. PICK address, edited, content, place :
        /\ address = (IF "address" \in old.details THEN old.address ELSE new.address)
        /\ edited = (IF "edited" \in old.details THEN old.edited ELSE new.edited)
        /\ content = (IF new.content.length > old.content.length THEN new.content ELSE old.content)
        /\ place = (IF old.place = NoPlace THEN new.place ELSE old.place)
  OBVIOUS
<1>3. /\ address \in SUBSET STRING /\ edited \in SomeAges
      /\ content \in [length: Nat, words: SUBSET STRING]
      /\ place \in Places \cup {NoPlace, HalfPlace}
  BY <1>2, SightFields
<1>4. old.sources \cup new.sources \in SomeOrigins
  BY SightFields, FiniteUnion DEF SomeOrigins
<1>5. poi = [old EXCEPT
        !.sources = old.sources \cup new.sources, !.details = old.details \cup new.details,
        !.address = address, !.edited = edited, !.content = content, !.place = place,
        !.night = old.night \/ new.night, !.crowd = old.crowd \/ new.crowd,
        !.shut = old.shut \/ new.shut, !.closed = old.closed \cup new.closed]
  BY <1>1, <1>2 DEF Merged, Sights
<1>6. poi = [key |-> old.key, section |-> old.section, name |-> old.name, content |-> content,
             address |-> address, details |-> old.details \cup new.details, edited |-> edited,
             place |-> place, closed |-> old.closed \cup new.closed,
             sources |-> old.sources \cup new.sources, score |-> old.score, visit |-> old.visit,
             indoor |-> old.indoor, night |-> old.night \/ new.night,
             crowd |-> old.crowd \/ new.crowd, shut |-> old.shut \/ new.shut]
  BY <1>5 DEF Sights
<1>7. old.details \cup new.details \in SUBSET STRING /\ old.closed \cup new.closed \in SUBSET (0..6)
  BY SightFields
<1>8. poi \in Sights
  BY <1>3, <1>4, <1>6, <1>7, SightFields DEF Sights
<1> QED BY <1>1, <1>6, <1>8

\* A place leaves the rest of an attraction as it is.
LEMMA PlacedTyped ==
  ASSUME NEW poi \in Sights, NEW place \in Places \cup {NoPlace, HalfPlace}
  PROVE  /\ [poi EXCEPT !.place = place] \in Sights
         /\ [poi EXCEPT !.place = place].key = poi.key
         /\ [poi EXCEPT !.place = place].closed = poi.closed
         /\ [poi EXCEPT !.place = place].shut = poi.shut
  BY DEF Sights

\* A score leaves the rest of an attraction as it is.
LEMMA ScoredTyped ==
  ASSUME NEW poi \in Sights, NEW score \in Nat
  PROVE  /\ [poi EXCEPT !.score = score] \in Sights
         /\ [poi EXCEPT !.score = score].key = poi.key
         /\ [poi EXCEPT !.score = score].closed = poi.closed
         /\ [poi EXCEPT !.score = score].shut = poi.shut
         /\ [poi EXCEPT !.score = score].place = poi.place
         /\ [poi EXCEPT !.score = score].visit = poi.visit
         /\ [poi EXCEPT !.score = score].score = score
  BY DEF Sights

-----------------------------------------------------------------------------
(* Scores *)

\* Halving 10000 again and again gives a natural number.
LEMMA Halved ==
  ASSUME NEW h \in Nat
  PROVE  (CHOOSE g : g = [n \in 0..h |-> IF n = 0 THEN 10000 ELSE g[n - 1] \div 2])[h] \in Nat
<1> DEFINE Halves(f) == f = [n \in 0..h |-> IF n = 0 THEN 10000 ELSE f[n - 1] \div 2]
<1>1. PICK S : S = Nat
  OBVIOUS
<1>2. PICK step : step = [q \in (1..h) \X S |-> q[2] \div 2]
  OBVIOUS
<1>0. PICK full : full = 10000
  OBVIOUS
<1>3. step \in [(1..h) \X S -> S] /\ full \in S
  BY <1>0, <1>1, <1>2
<1>4. PICK f \in [0..h -> S] : Computes(f, h, full, step)
  BY <1>3, Recursion
<1>5. ASSUME NEW n \in 0..h PROVE f[n] = IF n = 0 THEN 10000 ELSE f[n - 1] \div 2
  <2>1. CASE n = 0
    BY <1>0, <1>4, <2>1 DEF Computes
  <2>2. CASE n # 0
    <3>1. n \in 1..h /\ n - 1 \in 0..h
      BY <2>2
    <3>2. PICK x \in S : x = f[n - 1]
      BY <3>1
    <3>3. f[n] = step[<<n, x>>]
      BY <1>4, <3>1, <3>2 DEF Computes
    <3>4. step[<<n, x>>] = x \div 2
      BY <1>2, <3>1
    <3> QED BY <2>2, <3>2, <3>3, <3>4
  <2> QED BY <2>1, <2>2
<1>6. Halves(f)
  BY <1>5
<1> HIDE DEF Halves
<1>7. PICK left : left = CHOOSE g : Halves(g)
  OBVIOUS
<1>8. Halves(left)
  BY <1>6, <1>7
<1>9. \A n \in 0..h : left[n] = IF n = 0 THEN 10000 ELSE left[n - 1] \div 2
  BY <1>8 DEF Halves
<1> DEFINE A == {n \in 0..h : left[n] \in Nat}
<1>10. 0 \in A
  BY <1>9
<1>11. ASSUME NEW n \in 1..h, n - 1 \in A PROVE n \in A
  <2>1. n \in 0..h /\ n # 0
    OBVIOUS
  <2>2. left[n] = left[n - 1] \div 2
    BY <1>9, <2>1
  <2>3. PICK x \in Nat : x = left[n - 1]
    BY <1>11
  <2>4. x \div 2 \in Nat
    BY <2>3
  <2> QED BY <2>1, <2>2, <2>3, <2>4
<1>14. (CHOOSE g : g = [n \in 0..h |-> IF n = 0 THEN 10000 ELSE g[n - 1] \div 2])[h] = left[h]
  BY <1>7 DEF Halves
<1> HIDE DEF A
<1>12. \A n \in 0..h : n \in A
  BY <1>10, <1>11, StepByStep
<1>13. h \in 0..h
  OBVIOUS
<1> QED BY <1>12, <1>13, <1>14 DEF A

\* An attraction has finitely many dates.
LEMMA AgesFinite ==
  ASSUME NEW poi \in Sights
  PROVE  Ages(poi) \in SUBSET Nat /\ IsFiniteSet(Ages(poi))
<1> DEFINE told == {s.age : s \in poi.sources}
<1>1. /\ poi.sources \in SUBSET Origins /\ IsFiniteSet(poi.sources)
      /\ poi.edited \in SUBSET Nat /\ IsFiniteSet(poi.edited)
  BY SightFields DEF SomeOrigins, SomeAges
<1>2. \A s \in poi.sources : s.age \in SUBSET Nat /\ IsFiniteSet(s.age)
  BY <1>1 DEF Origins, SomeAges
<1>3. IsFiniteSet(told)
  <2>1. PICK f : f = [s \in poi.sources |-> s.age]
    OBVIOUS
  <2>2. told = {f[s] : s \in poi.sources}
    BY <2>1
  <2> HIDE DEF told
  <2> QED BY <1>1, <2>2, ImageFinite
<1>4. \A T \in told : T \in SUBSET Nat /\ IsFiniteSet(T)
  BY <1>2
<1> HIDE DEF told
<1>5. IsFiniteSet(UNION told)
  BY <1>3, <1>4, FS_UNION
<1>6. UNION told \in SUBSET Nat
  BY <1>4
<1>7. IsFiniteSet(poi.edited \cup UNION told)
  BY <1>1, <1>5, FiniteUnion
<1> QED BY <1>1, <1>6, <1>7 DEF Ages, told

\* The freshness of an attraction is a natural number.
LEMMA FreshnessTyped ==
  ASSUME NEW poi \in Sights
  PROVE  Freshness(poi) \in Nat
<1>1. CASE Ages(poi) = {}
  BY <1>1 DEF Freshness
<1>2. CASE Ages(poi) # {}
  <2>1. Min(Ages(poi)) \in Nat
    <3>1. PICK S : S = Ages(poi)
      OBVIOUS
    <3>2. S \in SUBSET Nat /\ S \in SUBSET Int /\ IsFiniteSet(S) /\ S # {}
      BY <1>2, <3>1, AgesFinite
    <3>3. Min(S) \in S
      BY <3>2, LeastOfFinite
    <3> QED BY <3>1, <3>2, <3>3
  <2>2. PICK h : h = Min(Ages(poi)) \div 730
    OBVIOUS
  <2>3. h \in Nat
    BY <2>1, <2>2
  <2>4. (CHOOSE g : g = [n \in 0..h |-> IF n = 0 THEN 10000 ELSE g[n - 1] \div 2])[h] \in Nat
    BY <2>3, Halved
  <2>5. Freshness(poi) =
          (CHOOSE g : g = [n \in 0..h |-> IF n = 0 THEN 10000 ELSE g[n - 1] \div 2])[h]
    BY <1>2, <2>2 DEF Freshness
  <2> QED BY <2>4, <2>5
<1> QED BY <1>1, <1>2

\* A share in hundredths of a percent is an integer.
LEMMA Portion ==
  ASSUME NEW n \in Nat, NEW k \in Nat, k # 0
  PROVE  (10000 * n) \div k \in Int
<1>1. PICK m \in Int : m = 10000 * n
  OBVIOUS
<1>2. m \div k \in Int
  OBVIOUS
<1> QED BY <1>1, <1>2

\* Scores are natural numbers.
LEMMA ScoreTyped ==
  ASSUME NEW poi \in Sights, NEW interests \in SUBSET STRING, IsFiniteSet(interests)
  PROVE  Score(poi, interests) \in Nat
<1>1. CrossPage(poi) \in Int
  <2> DEFINE all == {s.kind : s \in poi.sources}
             named == {s.title : s \in poi.sources}
  <2>1. IsFiniteSet(poi.sources)
    BY SightFields DEF SomeOrigins
  <2>2. IsFiniteSet(all)
    <3>1. PICK f : f = [s \in poi.sources |-> s.kind]
      OBVIOUS
    <3>2. all = {f[s] : s \in poi.sources}
      BY <3>1
    <3> HIDE DEF all
    <3> QED BY <2>1, <3>2, ImageFinite
  <2>3. IsFiniteSet(named)
    <3>1. PICK f : f = [s \in poi.sources |-> s.title]
      OBVIOUS
    <3>2. named = {f[s] : s \in poi.sources}
      BY <3>1
    <3> HIDE DEF named
    <3> QED BY <2>1, <3>2, ImageFinite
  <2>4. IsFiniteSet(all \cap {"city", "district", "itinerary"})
    <3> HIDE DEF all
    <3> QED BY <2>2, FS_Intersection
  <2>5. PICK kinds : kinds = Cardinality(all \cap {"city", "district", "itinerary"})
    OBVIOUS
  <2>6. PICK titles : titles = Cardinality(named)
    OBVIOUS
  <2>7. kinds \in Int /\ titles \in Int
    <3> HIDE DEF all, named
    <3> QED BY <2>3, <2>4, <2>5, <2>6, FS_CardinalityType
  <2>8. PICK most : most = Max({0, titles - kinds})
    OBVIOUS
  <2>9. most \in Int
    <3>1. 0 \in Int /\ titles - kinds \in Int
      BY <2>7
    <3>2. most = IF 0 >= titles - kinds THEN 0 ELSE titles - kinds
      BY <2>8, <3>1, MinMaxTwo
    <3> QED BY <3>1, <3>2
  <2>10. PICK points \in Int : points = (10000 * kinds) \div 3 + 800 * most
    BY <2>7, <2>9
  <2>11. Min({10000, points}) \in Int
    BY MinMaxTwo
  <2>12. CrossPage(poi) = Min({10000, points})
    BY <2>5, <2>6, <2>8, <2>10 DEF CrossPage
  <2> QED BY <2>11, <2>12
<1>2. Completeness(poi) \in Int
  <2>1. IsFiniteSet({"hours", "price", "website"})
    <3>1. IsFiniteSet({"hours"}) /\ IsFiniteSet({"price"}) /\ IsFiniteSet({"website"})
      BY FS_Singleton
    <3>2. IsFiniteSet({"hours"} \cup {"price"})
      BY <3>1, FiniteUnion
    <3>3. IsFiniteSet(({"hours"} \cup {"price"}) \cup {"website"})
      BY <3>1, <3>2, FiniteUnion
    <3>4. {"hours", "price", "website"} = ({"hours"} \cup {"price"}) \cup {"website"}
      OBVIOUS
    <3> QED BY <3>3, <3>4
  <2>2. IsFiniteSet(poi.details \cap {"hours", "price", "website"})
    BY <2>1, FS_Intersection
  <2>3. Cardinality(poi.details \cap {"hours", "price", "website"}) \in Nat
    BY <2>2, FS_CardinalityType
  <2>4. PICK n \in Nat : n = Cardinality(poi.details \cap {"hours", "price", "website"})
    BY <2>3
  <2>5. Completeness(poi) = 2500 * ((IF Located(poi) THEN 1 ELSE 0) + n)
    BY <2>4 DEF Completeness
  <2> QED BY <2>5
<1>3. Editorial(poi) \in Int
  <2>1. PICK base \in Int : base = IF poi.section = "see" THEN 8000 ELSE 7500
    OBVIOUS
  <2>2. PICK most \in Int : most = Min({10000, base + 2000})
    <3>1. PICK more \in Int : more = base + 2000
      OBVIOUS
    <3>2. 10000 \in Int
      OBVIOUS
    <3>3. Min({10000, more}) = IF 10000 <= more THEN 10000 ELSE more
      BY <3>2, MinMaxTwo
    <3> QED BY <3>1, <3>3
  <2>3. PICK praised \in Int :
          praised = IF "recommended" \in Words(poi) THEN Min({10000, base + 2000}) ELSE base
    BY <2>2
  <2>4. Editorial(poi) = IF poi.content.length < 20 THEN praised - 1500 ELSE praised
    BY <2>1, <2>3 DEF Editorial
  <2> QED BY <2>4
<1>4. Preference(poi, interests) \in Int
  <2>1. CASE interests = {}
    BY <2>1 DEF Preference
  <2>2. CASE interests # {}
    <3>1. Cardinality(interests) \in Nat /\ Cardinality(interests) # 0
      BY <2>2, FS_CardinalityType, FS_EmptySet
    <3>2. IsFiniteSet(interests \cap Words(poi))
      BY FS_Intersection
    <3>3. Cardinality(interests \cap Words(poi)) \in Nat
      BY <3>2, FS_CardinalityType
    <3>4. (10000 * Cardinality(interests \cap Words(poi))) \div Cardinality(interests) \in Int
      BY <3>1, <3>3, Portion
    <3>5. PICK value \in Int :
            value = (10000 * Cardinality(interests \cap Words(poi))) \div Cardinality(interests)
      BY <3>4
    <3>6. Preference(poi, interests) = IF interests = {} THEN 5000 ELSE value
      BY <3>5 DEF Preference
    <3> QED BY <3>6
  <2> QED BY <2>1, <2>2
<1>5. Freshness(poi) \in Int
  BY FreshnessTyped
<1>6. Penalty(poi) \in Int
  BY DEF Penalty
<1>7. PICK cross \in Int, complete \in Int, editorial \in Int, preference \in Int, fresh \in Int,
           penalty \in Int :
        /\ cross = CrossPage(poi) /\ complete = Completeness(poi) /\ editorial = Editorial(poi)
        /\ preference = Preference(poi, interests) /\ fresh = Freshness(poi)
        /\ penalty = Penalty(poi)
  BY <1>1, <1>2, <1>3, <1>4, <1>5, <1>6
<1>8. PICK points \in Int :
        points = (20 * cross + 20 * complete + 20 * editorial + 25 * preference + 15 * fresh) \div 100
                 - penalty
  OBVIOUS
<1>9. Max({0, points}) \in Nat
  <2>1. 0 \in Int /\ points \in Int
    OBVIOUS
  <2>2. Max({0, points}) = IF 0 >= points THEN 0 ELSE points
    BY <2>1, MinMaxTwo
  <2> QED BY <2>1, <2>2
<1>10. Score(poi, interests) = Max({0, points})
  BY <1>7, <1>8 DEF Score
<1> QED BY <1>9, <1>10

-----------------------------------------------------------------------------
(* The pages collected from Wikivoyage *)

-----------------------------------------------------------------------------
(* Pages *)

\* UpTo keeps at most n elements of a sequence.
LEMMA UpToTyped ==
  ASSUME NEW D, NEW seq \in Seq(D), NEW n \in Nat
  PROVE  UpTo(seq, n) \in Seq(D) /\ Len(UpTo(seq, n)) <= n
<1>1. PICK size \in Nat : size = Len(seq)
  OBVIOUS
<1>2. n \in Int /\ size \in Int
  OBVIOUS
<1>3. PICK least : least = Min({n, size})
  OBVIOUS
<1>4. least = IF n <= size THEN n ELSE size
  BY <1>2, <1>3, MinMaxTwo
<1>5. least \in 0..size /\ least <= n
  BY <1>4
<1>6. UpTo(seq, n) = SubSeq(seq, 1, least)
  BY <1>1, <1>3 DEF UpTo
<1>7. \A i \in 1..least : seq[i] \in D
  BY <1>1, <1>5
<1>8. SubSeq(seq, 1, least) \in Seq(D) /\ Len(SubSeq(seq, 1, least)) = least
  BY <1>5, <1>7, SubSeqProperties
<1> QED BY <1>5, <1>6, <1>8

\* A part of a sequence has elements of the same kind.
LEMMA PartTyped ==
  ASSUME NEW D, NEW seq \in Seq(D), NEW S \in SUBSET DOMAIN seq
  PROVE  PartOf(seq, S) \in Seq(D)
  BY PartFacts

\* PartOf keeps exactly the elements at the positions given.
LEMMA PartElements ==
  ASSUME NEW D, NEW seq \in Seq(D), NEW S \in SUBSET DOMAIN seq
  PROVE  /\ Cardinality(S) \in Nat /\ DOMAIN PartOf(seq, S) = 1..Cardinality(S)
         /\ \A n \in 1..Cardinality(S) : \E i \in S : PartOf(seq, S)[n] = seq[i]
         /\ \A i \in S : \E n \in 1..Cardinality(S) : PartOf(seq, S)[n] = seq[i]
<1>1. PICK at \in [1..Cardinality(S) -> S] :
        /\ Cardinality(S) \in Nat /\ IsFiniteSet(S)
        /\ PartOf(seq, S) \in Seq(D) /\ Len(PartOf(seq, S)) = Cardinality(S)
        /\ DOMAIN PartOf(seq, S) = 1..Cardinality(S)
        /\ \A n \in 1..Cardinality(S) : PartOf(seq, S)[n] = seq[at[n]] /\ PartOf(seq, S)[n] \in D
        /\ \A m, n \in 1..Cardinality(S) : m < n => at[m] < at[n]
        /\ \A m, n \in 1..Cardinality(S) : at[m] = at[n] => m = n
        /\ \A x \in S : \E n \in 1..Cardinality(S) : at[n] = x
  BY PartFacts
<1>2. \A n \in 1..Cardinality(S) : at[n] \in S
  BY <1>1
<1> QED BY <1>1, <1>2

Hit == [exact: BOOLEAN, fits: BOOLEAN, page: SourcePages \cup {NoPage}]

\* The hits of a search are hits of the wiki.
LEMMA HitsTyped ==
  ASSUME NEW wiki \in Seq(Hit), NEW limit \in Nat
  PROVE  Hits(wiki, limit) \in Seq(Hit)
<1>1. PICK most \in Nat : most = Min({3 * limit, 30})
  <2>1. PICK x \in Nat : x = 3 * limit
    OBVIOUS
  <2>2. x \in Int /\ 30 \in Int
    OBVIOUS
  <2>3. Min({x, 30}) = IF x <= 30 THEN x ELSE 30
    BY <2>2, MinMaxTwo
  <2>4. Min({x, 30}) \in Nat
    BY <2>3
  <2> QED BY <2>1, <2>4
<1>2. PICK results \in Seq(Hit) : results = UpTo(wiki, most)
  BY UpToTyped
<1>3. PICK exact \in SUBSET DOMAIN results : exact = {i \in DOMAIN results : results[i].exact}
  OBVIOUS
<1>4. PartOf(results, exact) \in Seq(Hit) /\ PartOf(results, DOMAIN results \ exact) \in Seq(Hit)
  BY PartTyped
<1>5. PICK both \in Seq(Hit) :
        both = PartOf(results, exact) \o PartOf(results, DOMAIN results \ exact)
  BY <1>4, ConcatProperties
<1>6. PICK twice \in Nat : twice = 2 * limit
  OBVIOUS
<1>7. UpTo(both, twice) \in Seq(Hit)
  BY UpToTyped
<1>8. Hits(wiki, limit) = UpTo(both, twice)
  BY <1>1, <1>2, <1>3, <1>5, <1>6 DEF Hits
<1> QED BY <1>7, <1>8

\* The pages collected are pages of the wiki.
LEMMA PagesTyped ==
  ASSUME NEW wiki \in Wikis, NEW limit \in 1..15
  PROVE  CollectedPages(wiki, limit) \in Seq(SourcePages)
<1>1. wiki \in Seq(Hit) /\ limit \in Nat
  <2>1. Wikis \subseteq Seq(Hit)
    BY WikisAssumption, Zenon DEF Hit
  <2>2. wiki \in Seq(Hit)
    BY <2>1, Zenon
  <2>3. limit \in Nat
    OBVIOUS
  <2> QED BY <2>2, <2>3
<1> DEFINE hits == Hits(wiki, limit)
           fit == {i \in DOMAIN hits : hits[i].exact \/ hits[i].fits}
           fitting == PartOf(hits, fit)
           chosen == IF fitting = <<>> THEN UpTo(hits, 1) ELSE UpTo(fitting, limit)
           there == {i \in DOMAIN chosen : chosen[i].page # NoPage}
           found == PartOf(chosen, there)
<1>2. hits \in Seq(Hit)
  BY <1>1, HitsTyped
<1>3. fitting \in Seq(Hit)
  <2>1. fit \in SUBSET DOMAIN hits
    OBVIOUS
  <2> HIDE DEF hits, fit
  <2> QED BY <1>2, <2>1, PartTyped
<1>4. chosen \in Seq(Hit)
  <2> HIDE DEF hits, fitting
  <2> QED BY <1>1, <1>2, <1>3, UpToTyped
<1>5. CollectedPages(wiki, limit) = [n \in DOMAIN found |-> found[n].page]
  BY DEF CollectedPages
<1> HIDE DEF chosen
<1>6. there \in SUBSET DOMAIN chosen /\ \A i \in there : chosen[i].page # NoPage
  OBVIOUS
<1> HIDE DEF there
<1>7. /\ Cardinality(there) \in Nat /\ DOMAIN PartOf(chosen, there) = 1..Cardinality(there)
      /\ \A n \in 1..Cardinality(there) : \E i \in there : PartOf(chosen, there)[n] = chosen[i]
  BY <1>4, <1>6, PartElements
<1>8. PICK size \in Nat : size = Cardinality(there)
  BY <1>7
<1>9. DOMAIN found = 1..size /\ \A n \in 1..size : \E i \in there : found[n] = chosen[i]
  BY <1>7, <1>8
<1> HIDE DEF found
<1>10. ASSUME NEW n \in 1..size PROVE found[n].page \in SourcePages
  <2>1. PICK i \in there : found[n] = chosen[i]
    BY <1>9
  <2>2. chosen[i] \in Hit /\ chosen[i].page # NoPage
    BY <1>4, <1>6
  <2> QED BY <2>1, <2>2 DEF Hit
<1>11. [n \in 1..size |-> found[n].page] \in Seq(SourcePages)
  BY <1>10
<1> QED BY <1>5, <1>9, <1>11

-----------------------------------------------------------------------------
(* Sequences of sequences *)

\* A concatenation has the elements of both sequences.
LEMMA ConcatElements ==
  ASSUME NEW D, NEW a \in Seq(D), NEW b \in Seq(D)
  PROVE  a \o b \in Seq(D) /\ ToSet(a \o b) = ToSet(a) \cup ToSet(b)
<1>1. PICK m \in Nat, n \in Nat : m = Len(a) /\ n = Len(b) /\ DOMAIN a = 1..m /\ DOMAIN b = 1..n
  OBVIOUS
<1>2. /\ a \o b \in Seq(D) /\ Len(a \o b) = m + n
      /\ \A i \in 1..(m + n) : (a \o b)[i] = IF i <= m THEN a[i] ELSE b[i - m]
  BY <1>1, ConcatProperties
<1>3. DOMAIN (a \o b) = 1..(m + n)
  BY <1>1, <1>2
<1>4. ASSUME NEW x \in ToSet(a \o b) PROVE x \in ToSet(a) \cup ToSet(b)
  <2>1. PICK i \in 1..(m + n) : x = IF i <= m THEN a[i] ELSE b[i - m]
    BY <1>2, <1>3, <1>4 DEF ToSet
  <2>2. CASE i <= m
    <3>1. i \in 1..m
      BY <2>2
    <3> QED BY <1>1, <2>1, <2>2, <3>1 DEF ToSet
  <2>3. CASE ~(i <= m)
    <3>1. i - m \in 1..n
      BY <2>3
    <3> QED BY <1>1, <2>1, <2>3, <3>1 DEF ToSet
  <2> QED BY <2>2, <2>3
<1>5. ASSUME NEW x \in ToSet(a) PROVE x \in ToSet(a \o b)
  <2>1. PICK i \in 1..m : x = a[i]
    BY <1>1, <1>5 DEF ToSet
  <2>2. i \in 1..(m + n) /\ i <= m
    OBVIOUS
  <2>3. (a \o b)[i] = x
    BY <1>2, <2>1, <2>2
  <2> QED BY <1>3, <2>2, <2>3 DEF ToSet
<1>6. ASSUME NEW x \in ToSet(b) PROVE x \in ToSet(a \o b)
  <2>1. PICK i \in 1..n : x = b[i]
    BY <1>1, <1>6 DEF ToSet
  <2>2. i + m \in 1..(m + n) /\ ~(i + m <= m) /\ (i + m) - m = i
    OBVIOUS
  <2>3. (a \o b)[i + m] = x
    BY <1>2, <2>1, <2>2
  <2> QED BY <1>3, <2>2, <2>3 DEF ToSet
<1> QED BY <1>2, <1>4, <1>5, <1>6

\* A flattened sequence has the elements of all its sequences.
LEMMA FlattenFacts ==
  ASSUME NEW D, NEW seqs \in Seq(Seq(D))
  PROVE  /\ FlattenSeq(seqs) \in Seq(D)
         /\ \A x : x \in ToSet(FlattenSeq(seqs)) <=> \E i \in DOMAIN seqs : x \in ToSet(seqs[i])
<1>1. PICK n \in Nat : n = Len(seqs) /\ DOMAIN seqs = 1..n
  OBVIOUS
<1>2. CASE n = 0
  <2>1. seqs = <<>>
    BY <1>1, <1>2
  <2>2. FlattenSeq(seqs) = seqs
    BY <1>1, <1>2 DEF FlattenSeq
  <2>3. DOMAIN seqs = {} /\ seqs \in Seq(D)
    BY <1>1, <1>2, <2>1
  <2>4. ToSet(seqs) = {}
    BY <2>3 DEF ToSet
  <2> QED BY <2>2, <2>3, <2>4
<1>3. CASE n # 0
  <2> DEFINE Flattens(f) == f = [i \in 1..n |-> IF i = 1 THEN seqs[i] ELSE f[i - 1] \o seqs[i]]
  <2>1. PICK S : S = Seq(D)
    OBVIOUS
  <2>2. PICK k \in Nat : n = k + 1
    BY <1>3
  <2>3. PICK step : step = [q \in (1..k) \X S |-> q[2] \o seqs[q[1] + 1]]
    OBVIOUS
  <2>4. step \in [(1..k) \X S -> S]
    <3>1. ASSUME NEW i \in 1..k, NEW s \in S PROVE s \o seqs[i + 1] \in S
      BY <2>2, <1>1, <2>1, ConcatProperties
    <3> QED BY <2>3, <3>1
  <2>5. PICK first \in S : first = seqs[1]
    <3>1. 1 \in 1..n
      BY <1>3
    <3> QED BY <1>1, <2>1, <3>1
  <2>6. PICK g \in [0..k -> S] : Computes(g, k, first, step)
    BY <2>4, Recursion
  <2>7. PICK f : f = [i \in 1..n |-> g[i - 1]]
    OBVIOUS
  <2>8. ASSUME NEW i \in 1..n PROVE f[i] = IF i = 1 THEN seqs[i] ELSE f[i - 1] \o seqs[i]
    <3>1. CASE i = 1
      <4>1. f[1] = g[0]
        BY <2>7, <3>1
      <4> QED BY <2>5, <2>6, <3>1, <4>1 DEF Computes
    <3>2. CASE i # 1
      <4>1. PICK j \in 1..k : i = j + 1
        BY <2>2, <3>2
      <4>2. f[i] = g[j] /\ f[j] = g[j - 1] /\ i - 1 = j /\ j - 1 \in 0..k
        BY <2>2, <2>7, <4>1
      <4>3. PICK s \in S : s = g[j - 1]
        BY <4>2
      <4>4. g[j] = step[<<j, s>>]
        BY <2>6, <4>3 DEF Computes
      <4>5. step[<<j, s>>] = s \o seqs[j + 1]
        BY <2>3
      <4> QED BY <3>2, <4>1, <4>2, <4>3, <4>4, <4>5
    <3> QED BY <3>1, <3>2
  <2>9. Flattens(f)
    <3>1. f = [i \in 1..n |-> f[i]]
      BY <2>7
    <3> QED BY <2>8, <3>1
  <2> HIDE DEF Flattens
  <2>10. PICK h : h = CHOOSE b : Flattens(b)
    OBVIOUS
  <2>11. Flattens(h)
    BY <2>9, <2>10
  <2>12. \A i \in 1..n : h[i] = IF i = 1 THEN seqs[i] ELSE h[i - 1] \o seqs[i]
    BY <2>11 DEF Flattens
  <2>13. FlattenSeq(seqs) = h[n]
    <3>1. Len(seqs) = n /\ n # 0
      BY <1>1, <1>3
    <3> QED BY <2>10, <3>1 DEF FlattenSeq, Flattens
  <2> DEFINE Right(i) == /\ h[i] \in Seq(D)
                         /\ \A x : x \in ToSet(h[i]) <=> \E j \in 1..i : x \in ToSet(seqs[j])
             A == {i \in 0..k : Right(i + 1)}
  <2>14. 0 \in A
    <3>1. 1 \in 1..n /\ 0 \in 0..k
      BY <1>3
    <3>2. h[1] = seqs[1] /\ seqs[1] \in Seq(D)
      BY <1>1, <2>12, <3>1
    <3>3. \A j \in 1..1 : j = 1
      OBVIOUS
    <3>4. Right(1)
      BY <3>2, <3>3
    <3> HIDE DEF Right
    <3> QED BY <3>1, <3>4
  <2>15. ASSUME NEW i \in 1..k, i - 1 \in A PROVE i \in A
    <3>1. Right(i)
      <4>1. (i - 1) + 1 = i
        OBVIOUS
      <4> HIDE DEF Right
      <4> QED BY <2>15, <4>1
    <3>2. i + 1 \in 1..n /\ i + 1 # 1 /\ (i + 1) - 1 = i /\ i \in 0..k
      BY <2>2
    <3>3. h[i + 1] = h[i] \o seqs[i + 1] /\ seqs[i + 1] \in Seq(D)
      <4>1. h[i + 1] = h[i] \o seqs[i + 1]
        BY <2>12, <3>2
      <4>2. seqs[i + 1] \in Seq(D)
        BY <1>1, <3>2
      <4> QED BY <4>1, <4>2
    <3>4. PICK a \in Seq(D), b \in Seq(D) : a = h[i] /\ b = seqs[i + 1]
      BY <3>1, <3>3
    <3>5. a \o b \in Seq(D) /\ ToSet(a \o b) = ToSet(a) \cup ToSet(b)
      BY ConcatElements
    <3>6. ASSUME NEW x PROVE x \in ToSet(a \o b) <=> \E j \in 1..(i + 1) : x \in ToSet(seqs[j])
      BY <3>1, <3>4, <3>5
    <3>7. Right(i + 1)
      BY <3>3, <3>4, <3>5, <3>6
    <3> HIDE DEF Right
    <3> QED BY <3>2, <3>7
  <2>16. k \in A
    <3> HIDE DEF A, Right
    <3>1. \A i \in 0..k : i \in A
      BY <2>14, <2>15, StepByStep
    <3>2. k \in 0..k
      OBVIOUS
    <3> QED BY <3>1, <3>2
  <2>17. Right(n)
    <3> HIDE DEF Right
    <3> QED BY <2>2, <2>16
  <2> QED BY <1>1, <2>13, <2>17
<1> QED BY <1>2, <1>3

-----------------------------------------------------------------------------
(* One attraction per key, whatever pages list it *)

TellsAll(poi, told) ==
  /\ \A w \in 0..6 : w \in poi.closed <=> \E c \in told : c.key = poi.key /\ w \in c.closed
  /\ poi.shut <=> \E c \in told : c.key = poi.key /\ c.shut

MergedFrom(list, told) ==
  /\ list \in Seq(Sights) /\ Distinct(list)
  /\ \A c \in told : \E i \in DOMAIN list : list[i].key = c.key
  /\ \A i \in DOMAIN list : TellsAll(list[i], told)

\* One more candidate is merged into the list, or added to it.
LEMMA WithCandidateFacts ==
  ASSUME NEW list, NEW told \in SUBSET Sights, NEW c \in Sights, MergedFrom(list, told)
  PROVE  MergedFrom(WithCandidate(list, c), told \cup {c})
<1>1. list \in Seq(Sights) /\ Distinct(list)
  BY DEF MergedFrom
<1>2. PICK n \in Nat : n = Len(list) /\ DOMAIN list = 1..n
  BY <1>1
<1>3. \A i \in 1..n : list[i] \in Sights
  BY <1>1, <1>2
<1>4. PICK same : same = {i \in DOMAIN list : list[i].key = c.key}
  OBVIOUS
<1>5. CASE same = {}
  <2>1. \A i \in 1..n : list[i].key # c.key
    BY <1>2, <1>4, <1>5
  <2>2. WithCandidate(list, c) = Append(list, c)
    BY <1>4, <1>5 DEF WithCandidate
  <2>3. PICK new \in Seq(Sights) : new = Append(list, c)
    BY <1>1, AppendProperties
  <2>4. /\ DOMAIN new = 1..(n + 1) /\ new[n + 1] = c
        /\ \A i \in 1..n : new[i] = list[i]
    BY <1>1, <1>2, <2>3, AppendProperties
  <2>5. \A i \in 1..(n + 1) : i \in 1..n \/ i = n + 1
    OBVIOUS
  <2>6. Distinct(new)
    <3>1. ASSUME NEW i \in 1..(n + 1), NEW j \in 1..(n + 1), new[i].key = new[j].key PROVE i = j
      <4>1. CASE i \in 1..n /\ j \in 1..n
        BY <1>1, <1>2, <2>4, <3>1, <4>1 DEF Distinct
      <4>2. CASE i \in 1..n /\ j = n + 1
        BY <2>1, <2>4, <3>1, <4>2
      <4>3. CASE i = n + 1 /\ j \in 1..n
        BY <2>1, <2>4, <3>1, <4>3
      <4> QED BY <2>5, <4>1, <4>2, <4>3
    <3> QED BY <2>4, <3>1 DEF Distinct
  <2>7. ASSUME NEW d \in told \cup {c} PROVE \E i \in DOMAIN new : new[i].key = d.key
    <3>1. CASE d \in told
      <4>1. PICK i \in 1..n : list[i].key = d.key
        BY <1>2, <3>1 DEF MergedFrom
      <4>2. i \in 1..(n + 1)
        OBVIOUS
      <4> QED BY <2>4, <4>1, <4>2
    <3>2. CASE d = c
      BY <2>4, <3>2
    <3> QED BY <3>1, <3>2
  <2>8. ASSUME NEW i \in DOMAIN new PROVE TellsAll(new[i], told \cup {c})
    <3>1. CASE i \in 1..n
      <4>1. TellsAll(list[i], told) /\ new[i] = list[i] /\ c.key # list[i].key
        BY <1>2, <2>1, <2>4, <3>1 DEF MergedFrom
      <4> QED BY <4>1 DEF TellsAll
    <3>2. CASE i = n + 1
      <4>1. \A d \in told : d.key # c.key
        BY <1>2, <2>1 DEF MergedFrom
      <4> QED BY <2>4, <3>2, <4>1 DEF TellsAll
    <3> QED BY <2>4, <2>5, <3>1, <3>2
  <2> QED BY <2>2, <2>3, <2>6, <2>7, <2>8 DEF MergedFrom
<1>6. CASE same # {}
  <2>1. PICK k \in 1..n : list[k].key = c.key
    BY <1>2, <1>4, <1>6
  <2>2. \A i \in 1..n : i \in same <=> i = k
    BY <1>1, <1>2, <1>4, <2>1 DEF Distinct
  <2>3. PICK new : new = [i \in 1..n |-> IF i = k THEN Merged(list[i], c) ELSE list[i]]
    OBVIOUS
  <2>4. WithCandidate(list, c) = new
    BY <1>4, <1>6, <1>2, <2>2, <2>3 DEF WithCandidate
  <2>5. /\ Merged(list[k], c) \in Sights
        /\ Merged(list[k], c).key = list[k].key
        /\ Merged(list[k], c).closed = list[k].closed \cup c.closed
        /\ Merged(list[k], c).shut = (list[k].shut \/ c.shut)
    BY <1>3, MergedTyped
  <2>6. /\ \A i \in 1..n : i # k => new[i] = list[i]
        /\ new[k] = Merged(list[k], c)
    BY <2>3
  <2>7. \A i \in 1..n : new[i] \in Sights /\ new[i].key = list[i].key
    BY <1>3, <2>5, <2>6
  <2>8. new \in Seq(Sights) /\ DOMAIN new = 1..n
    BY <2>3, <2>7
  <2>9. Distinct(new)
    BY <1>1, <1>2, <2>7, <2>8 DEF Distinct
  <2>10. ASSUME NEW d \in told \cup {c} PROVE \E i \in DOMAIN new : new[i].key = d.key
    <3>1. CASE d \in told
      <4>1. PICK i \in 1..n : list[i].key = d.key
        BY <1>2, <3>1 DEF MergedFrom
      <4> QED BY <2>7, <2>8, <4>1
    <3>2. CASE d = c
      BY <2>1, <2>7, <2>8, <3>2
    <3> QED BY <3>1, <3>2
  <2>11. ASSUME NEW i \in DOMAIN new PROVE TellsAll(new[i], told \cup {c})
    <3>1. TellsAll(list[i], told) /\ i \in 1..n
      BY <1>2, <2>8 DEF MergedFrom
    <3>2. CASE i # k
      <4>1. new[i] = list[i] /\ list[i].key # c.key
        BY <1>1, <1>2, <2>1, <2>6, <3>1, <3>2 DEF Distinct
      <4> QED BY <3>1, <4>1 DEF TellsAll
    <3>3. CASE i = k
      <4>1. PICK old, merged : old = list[k] /\ merged = new[k]
        OBVIOUS
      <4>2. /\ merged.key = old.key /\ old.key = c.key
            /\ merged.closed = old.closed \cup c.closed
            /\ merged.shut = (old.shut \/ c.shut)
        BY <2>1, <2>5, <2>6, <4>1
      <4>3. TellsAll(old, told)
        BY <3>1, <3>3, <4>1
      <4>4. \A w \in 0..6 : w \in merged.closed <=>
              \E d \in told \cup {c} : d.key = merged.key /\ w \in d.closed
        BY <4>2, <4>3 DEF TellsAll
      <4>5. merged.shut <=> (old.shut \/ c.shut)
        BY <4>2
      <4>6. merged.shut <=> \E d \in told \cup {c} : d.key = merged.key /\ d.shut
        BY <4>2, <4>3, <4>5 DEF TellsAll
      <4> QED BY <3>3, <4>1, <4>4, <4>6 DEF TellsAll
    <3> QED BY <3>2, <3>3
  <2> QED BY <2>4, <2>8, <2>9, <2>10, <2>11 DEF MergedFrom
<1> QED BY <1>5, <1>6

\* The listings of one page that count, and what the pages tell of an attraction.
Counts(listing) == listing.section \in {"see", "do"}

\* The candidates of a page are its listings to see and to do.
LEMMA CandidatesFacts ==
  ASSUME NEW page \in SourcePages
  PROVE  /\ Candidates(page) \in Seq(Sights)
         /\ \A x : x \in ToSet(Candidates(page)) <=>
              \E listing \in ToSet(page.listings) :
                Counts(listing) /\ x = Candidate(listing, page)
<1>1. PICK all \in Seq(Listings) : all = page.listings
  BY DEF SourcePages
<1>2. PICK kept \in SUBSET DOMAIN all : kept = {l \in DOMAIN all : Counts(all[l])}
  OBVIOUS
<1>3. PICK some : some = PartOf(all, kept)
  OBVIOUS
<1>4. PICK size : size = Cardinality(kept)
  OBVIOUS
<1>5. /\ size \in Nat /\ DOMAIN some = 1..size
      /\ \A n \in 1..size : \E i \in kept : some[n] = all[i]
      /\ \A i \in kept : \E n \in 1..size : some[n] = all[i]
  BY <1>3, <1>4, PartElements
<1>6. PICK list : list = [l \in 1..size |-> Candidate(some[l], page)]
  OBVIOUS
<1>7. Candidates(page) = list
  <2>1. Candidates(page) = [l \in DOMAIN some |-> Candidate(some[l], page)]
    BY <1>1, <1>2, <1>3 DEF Candidates, Counts
  <2> QED BY <1>5, <1>6, <2>1
<1>8. \A l \in 1..size : some[l] \in Listings
  BY <1>5
<1>9. \A l \in 1..size : list[l] \in Sights
  <2>1. ASSUME NEW l \in 1..size PROVE list[l] \in Sights
    BY <1>8, CandidateTyped, <1>6
  <2> QED BY <2>1
<1>10. list \in Seq(Sights) /\ DOMAIN list = 1..size
  BY <1>5, <1>6, <1>9
<1>11. ASSUME NEW x \in ToSet(list)
       PROVE  \E listing \in ToSet(all) : Counts(listing) /\ x = Candidate(listing, page)
  <2>1. PICK l \in 1..size : x = list[l]
    BY <1>10 DEF ToSet
  <2>2. PICK i \in kept : some[l] = all[i]
    BY <1>5
  <2>3. all[i] \in ToSet(all) /\ Counts(all[i]) /\ x = Candidate(all[i], page)
    BY <1>2, <1>6, <2>1, <2>2 DEF ToSet
  <2> QED BY <2>3
<1>12. ASSUME NEW listing \in ToSet(all), Counts(listing)
       PROVE  Candidate(listing, page) \in ToSet(list)
  <2>1. PICK i \in DOMAIN all : listing = all[i]
    BY DEF ToSet
  <2>2. PICK l \in 1..size : some[l] = all[i]
    BY <1>2, <1>5, <1>12, <2>1
  <2>3. list[l] = Candidate(listing, page)
    BY <1>6, <2>1, <2>2
  <2> QED BY <1>10, <2>3 DEF ToSet
<1> QED BY <1>1, <1>7, <1>10, <1>11, <1>12

\* The loop over all candidates merges each of them.
LEMMA MergesAll ==
  ASSUME NEW candidates \in Seq(Sights)
  PROVE  LET merged[n \in 0..Len(candidates)] ==
               IF n = 0 THEN <<>> ELSE WithCandidate(merged[n - 1], candidates[n])
         IN  MergedFrom(merged[Len(candidates)], ToSet(candidates))
<1>1. PICK N \in Nat : N = Len(candidates) /\ DOMAIN candidates = 1..N
  OBVIOUS
<1> DEFINE Merges(f) ==
      f = [n \in 0..N |-> IF n = 0 THEN <<>> ELSE WithCandidate(f[n - 1], candidates[n])]
    told == [n \in 0..N |-> {candidates[m] : m \in 1..n}]
    Right(n, list) == MergedFrom(list, told[n])
<1>2. \A n \in 0..N : told[n] \in SUBSET Sights
  BY <1>1
<1>3. \A n \in 1..N : told[n] = told[n - 1] \cup {candidates[n]}
  <2>1. ASSUME NEW n \in 1..N PROVE told[n] = told[n - 1] \cup {candidates[n]}
    <3>1. n - 1 \in 0..N /\ n \in 0..N /\ \A m : m \in 1..n <=> m \in 1..(n - 1) \/ m = n
      OBVIOUS
    <3>2. told[n] = {candidates[m] : m \in 1..n} /\ told[n - 1] = {candidates[m] : m \in 1..(n - 1)}
      BY <3>1
    <3> HIDE DEF told
    <3> QED BY <3>1, <3>2
  <2> QED BY <2>1
<1>4. told[0] = {}
  <2>1. 0 \in 0..N /\ 1..0 = {}
    OBVIOUS
  <2> QED BY <2>1
<1>5. told[N] = ToSet(candidates)
  BY <1>1 DEF ToSet
<1> HIDE DEF told
<1>6. Right(0, <<>>)
  BY <1>4 DEF MergedFrom, Distinct
<1>7. \A n \in 1..N, list \in Seq(Sights) :
        Right(n - 1, list) => WithCandidate(list, candidates[n]) \in Seq(Sights)
                              /\ Right(n, WithCandidate(list, candidates[n]))
  <2>1. ASSUME NEW n \in 1..N, NEW list \in Seq(Sights), Right(n - 1, list)
        PROVE  /\ WithCandidate(list, candidates[n]) \in Seq(Sights)
               /\ Right(n, WithCandidate(list, candidates[n]))
    <3>1. candidates[n] \in Sights /\ n - 1 \in 0..N
      BY <1>1
    <3>2. PICK before \in SUBSET Sights : before = told[n - 1]
      BY <1>2, <3>1
    <3>3. MergedFrom(list, before)
      BY <2>1, <3>2
    <3>4. MergedFrom(WithCandidate(list, candidates[n]), before \cup {candidates[n]})
      BY <3>1, <3>3, WithCandidateFacts
    <3>5. before \cup {candidates[n]} = told[n]
      BY <1>3, <3>2
    <3>6. Right(n, WithCandidate(list, candidates[n]))
      BY <3>4, <3>5
    <3>7. WithCandidate(list, candidates[n]) \in Seq(Sights)
      BY <3>4 DEF MergedFrom
    <3> QED BY <3>6, <3>7
  <2> HIDE DEF Right
  <2> QED BY <2>1
<1> HIDE DEF Right
<1>8. PICK S : S = {s \in (0..N) \X Seq(Sights) : Right(s[1], s[2])}
  OBVIOUS
<1>9. PICK step : step = [q \in (1..N) \X S |->
                            IF q[2][1] = q[1] - 1
                              THEN <<q[1], WithCandidate(q[2][2], candidates[q[1]])>> ELSE q[2]]
  OBVIOUS
<1>10. step \in [(1..N) \X S -> S]
  <2>1. ASSUME NEW n \in 1..N, NEW s \in S, s[1] = n - 1
        PROVE  <<n, WithCandidate(s[2], candidates[n])>> \in S
    BY <1>8, <2>1, <1>7
  <2> QED BY <1>9, <2>1
<1>11. PICK start \in S : start = <<0, <<>>>>
  <2>1. 0 \in 0..N /\ <<>> \in Seq(Sights)
    OBVIOUS
  <2> QED BY <1>6, <1>8, <2>1
<1>12. PICK g \in [0..N -> S] : Computes(g, N, start, step)
  BY <1>10, Recursion
<1>13. \A n \in 0..N : g[n][1] = n
  <2> DEFINE A == {n \in 0..N : g[n][1] = n}
  <2>1. 0 \in A
    BY <1>11, <1>12 DEF Computes
  <2>2. ASSUME NEW n \in 1..N, n - 1 \in A PROVE n \in A
    <3>1. PICK s \in S : s = g[n - 1] /\ s[1] = n - 1
      BY <2>2
    <3>2. g[n] = step[<<n, s>>]
      BY <1>12, <3>1 DEF Computes
    <3>3. step[<<n, s>>] = <<n, WithCandidate(s[2], candidates[n])>>
      BY <1>9, <3>1
    <3> QED BY <3>2, <3>3
  <2> HIDE DEF A
  <2>3. \A n \in 0..N : n \in A
    BY <2>1, <2>2, StepByStep
  <2> QED BY <2>3 DEF A
<1>14. PICK f : f = [n \in 0..N |-> g[n][2]]
  OBVIOUS
<1>15. ASSUME NEW n \in 0..N
       PROVE  f[n] = IF n = 0 THEN <<>> ELSE WithCandidate(f[n - 1], candidates[n])
  <2>1. CASE n = 0
    BY <1>11, <1>12, <1>14, <2>1 DEF Computes
  <2>2. CASE n # 0
    <3>1. n \in 1..N /\ n - 1 \in 0..N
      BY <2>2
    <3>2. PICK s \in S : s = g[n - 1] /\ s[1] = n - 1
      BY <1>12, <1>13, <3>1
    <3>3. g[n] = step[<<n, s>>]
      BY <1>12, <3>1, <3>2 DEF Computes
    <3>4. step[<<n, s>>] = <<n, WithCandidate(s[2], candidates[n])>>
      BY <1>9, <3>1, <3>2
    <3>5. f[n] = g[n][2] /\ f[n - 1] = s[2]
      BY <1>14, <3>1, <3>2
    <3> QED BY <2>2, <3>3, <3>4, <3>5
  <2> QED BY <2>1, <2>2
<1>16. Merges(f)
  <2>1. f = [n \in 0..N |-> f[n]]
    BY <1>14
  <2> QED BY <1>15, <2>1
<1> HIDE DEF Merges
<1>17. PICK h : h = CHOOSE b : Merges(b)
  OBVIOUS
<1>18. Merges(h)
  BY <1>16, <1>17
<1>19. \A n \in 0..N : h[n] = IF n = 0 THEN <<>> ELSE WithCandidate(h[n - 1], candidates[n])
  BY <1>18 DEF Merges
<1>20. \A n \in 0..N : h[n] \in Seq(Sights) /\ Right(n, h[n])
  <2> DEFINE A == {n \in 0..N : h[n] \in Seq(Sights) /\ Right(n, h[n])}
  <2>1. 0 \in A
    <3>1. h[0] = <<>> /\ <<>> \in Seq(Sights) /\ 0 \in 0..N
      BY <1>19
    <3> QED BY <1>6, <3>1
  <2>2. ASSUME NEW n \in 1..N, n - 1 \in A PROVE n \in A
    <3>1. PICK list \in Seq(Sights) : list = h[n - 1] /\ Right(n - 1, list)
      BY <2>2
    <3>2. n \in 0..N /\ n # 0
      OBVIOUS
    <3>3. h[n] = WithCandidate(list, candidates[n])
      BY <1>19, <3>1, <3>2
    <3> QED BY <1>7, <3>1, <3>2, <3>3
  <2> HIDE DEF A
  <2>3. \A n \in 0..N : n \in A
    BY <2>1, <2>2, StepByStep
  <2> QED BY <2>3 DEF A
<1>21. MergedFrom(h[N], ToSet(candidates))
  <2>1. N \in 0..N
    OBVIOUS
  <2> QED BY <1>5, <1>20, <2>1 DEF Right
<1> QED BY <1>1, <1>17, <1>21 DEF Merges

\* The extracted attractions are a catalogue of the pages.
LEMMA ExtractedFacts ==
  ASSUME NEW book \in Seq(SourcePages)
  PROVE  CatalogueOf(Extracted(book), book)
<1>1. PICK N \in Nat : N = Len(book) /\ DOMAIN book = 1..N
  OBVIOUS
<1>2. PICK lists : lists = [n \in 1..N |-> Candidates(book[n])]
  OBVIOUS
<1>3. \A n \in 1..N : book[n] \in SourcePages
  BY <1>1
<1>4. ASSUME NEW n \in 1..N PROVE lists[n] \in Seq(Sights)
  BY <1>3, CandidatesFacts, <1>2
<1>5. lists \in Seq(Seq(Sights)) /\ DOMAIN lists = 1..N
  <2>1. PICK S : S = Seq(Sights)
    OBVIOUS
  <2>2. lists \in [1..N -> S]
    BY <1>2, <1>4, <2>1
  <2> QED BY <2>1, <2>2
<1>6. PICK candidates \in Seq(Sights) :
        /\ candidates = FlattenSeq(lists)
        /\ \A x : x \in ToSet(candidates) <=> \E n \in 1..N : x \in ToSet(lists[n])
  BY <1>5, FlattenFacts
<1>7. MergedFrom(Extracted(book), ToSet(candidates))
  <2>1. candidates = FlattenSeq([n \in DOMAIN book |-> Candidates(book[n])])
    BY <1>1, <1>2, <1>6
  <2> HIDE DEF MergedFrom, ToSet
  <2> QED BY <2>1, MergesAll DEF Extracted
<1>8. PICK list \in Seq(Sights) : list = Extracted(book)
  BY <1>7 DEF MergedFrom
<1>9. \A x \in ToSet(candidates) : \E n \in 1..N : \E listing \in ToSet(book[n].listings) :
        Counts(listing) /\ x = Candidate(listing, book[n])
  <2>1. ASSUME NEW x \in ToSet(candidates)
        PROVE  \E n \in 1..N : \E listing \in ToSet(book[n].listings) :
                 Counts(listing) /\ x = Candidate(listing, book[n])
    <3>1. PICK n \in 1..N : x \in ToSet(Candidates(book[n]))
      BY <1>2, <1>6
    <3>2. PICK page \in SourcePages : page = book[n]
      BY <1>3
    <3>3. \E listing \in ToSet(page.listings) : Counts(listing) /\ x = Candidate(listing, page)
      BY <3>1, <3>2, CandidatesFacts
    <3> QED BY <3>2, <3>3
  <2> QED BY <2>1
<1>10. \A n \in 1..N : \A listing \in ToSet(book[n].listings) :
         Counts(listing) => Candidate(listing, book[n]) \in ToSet(candidates)
  <2>1. ASSUME NEW n \in 1..N, NEW listing \in ToSet(book[n].listings), Counts(listing)
        PROVE  Candidate(listing, book[n]) \in ToSet(candidates)
    <3>1. PICK page \in SourcePages : page = book[n]
      BY <1>3
    <3>2. Candidate(listing, page) \in ToSet(Candidates(page))
      BY <2>1, <3>1, CandidatesFacts
    <3> QED BY <1>2, <1>6, <3>1, <3>2
  <2> QED BY <2>1
<1>11. \A n \in 1..N : \A listing \in ToSet(book[n].listings) :
         /\ Candidate(listing, book[n]).key = listing.key
         /\ Candidate(listing, book[n]).closed = listing.closed
         /\ Candidate(listing, book[n]).shut <=> "closed down" \in Told(listing)
  <2>1. ASSUME NEW n \in 1..N, NEW listing \in ToSet(book[n].listings)
        PROVE  /\ Candidate(listing, book[n]).key = listing.key
               /\ Candidate(listing, book[n]).closed = listing.closed
               /\ Candidate(listing, book[n]).shut <=> "closed down" \in Told(listing)
    <3>1. PICK page \in SourcePages : page = book[n]
      BY <1>3
    <3>2. page.listings \in Seq(Listings)
      BY DEF SourcePages
    <3>3. listing \in Listings
      BY <3>1, <3>2 DEF ToSet
    <3>4. /\ Candidate(listing, page).key = listing.key
          /\ Candidate(listing, page).closed = listing.closed
          /\ Candidate(listing, page).shut = ("closed down" \in Told(listing))
      BY <3>3, CandidateTyped
    <3> QED BY <3>1, <3>4
  <2> QED BY <2>1
<1>12. \A key, listing : listing \in ListedIn(book, key) <=>
         \E n \in 1..N : /\ listing \in ToSet(book[n].listings)
                         /\ Counts(listing) /\ listing.key = key
  <2>1. \A page : page \in ToSet(book) <=> \E n \in 1..N : page = book[n]
    BY <1>1 DEF ToSet
  <2>2. PICK all : all = UNION {ToSet(page.listings) : page \in ToSet(book)}
    OBVIOUS
  <2>3. \A listing : listing \in all <=> \E n \in 1..N : listing \in ToSet(book[n].listings)
    <3> HIDE DEF ToSet
    <3>1. \A listing : listing \in all <=> \E page \in ToSet(book) : listing \in ToSet(page.listings)
      BY <2>2
    <3> QED BY <2>1, <3>1
  <2>4. \A key : ListedIn(book, key) = {listing \in all : Counts(listing) /\ listing.key = key}
    BY <2>2, Zenon DEF ListedIn, Counts
  <2> HIDE DEF Counts, ToSet
  <2>5. \A key, listing : listing \in ListedIn(book, key) <=>
          listing \in all /\ Counts(listing) /\ listing.key = key
    BY <2>4, Zenon
  <2> QED BY <2>3, <2>5, Zenon
<1>13. ASSUME NEW i \in DOMAIN list PROVE TellsOf(list[i], book)
  <2>1. PICK poi : poi = list[i]
    OBVIOUS
  <2>2. TellsAll(poi, ToSet(candidates))
    BY <1>7, <1>8, <2>1 DEF MergedFrom
  <2>3. ASSUME NEW w \in 0..6
        PROVE  w \in poi.closed <=> \E listing \in ListedIn(book, poi.key) : w \in listing.closed
    <3>1. ASSUME w \in poi.closed
          PROVE  \E listing \in ListedIn(book, poi.key) : w \in listing.closed
      <4>1. PICK c \in ToSet(candidates) : c.key = poi.key /\ w \in c.closed
        BY <2>2, <3>1 DEF TellsAll
      <4>5. PICK n \in 1..N : \E listing \in ToSet(book[n].listings) :
              Counts(listing) /\ c = Candidate(listing, book[n])
        BY <1>9
      <4>2. PICK listing \in ToSet(book[n].listings) :
              Counts(listing) /\ c = Candidate(listing, book[n])
        BY <4>5
      <4>3. listing.key = poi.key /\ w \in listing.closed
        BY <1>11, <4>1, <4>2
      <4>4. listing \in ListedIn(book, poi.key)
        BY <1>12, <4>2, <4>3
      <4> QED BY <4>3, <4>4
    <3>2. ASSUME NEW listing \in ListedIn(book, poi.key), w \in listing.closed
          PROVE  w \in poi.closed
      <4>1. PICK n \in 1..N : /\ listing \in ToSet(book[n].listings)
                              /\ Counts(listing) /\ listing.key = poi.key
        BY <1>12, <3>2
      <4>2. PICK c \in ToSet(candidates) : c = Candidate(listing, book[n])
        BY <1>10, <4>1
      <4>3. c.key = poi.key /\ w \in c.closed
        BY <1>11, <3>2, <4>1, <4>2
      <4> QED BY <2>2, <4>3 DEF TellsAll
    <3> QED BY <3>1, <3>2
  <2>4. poi.shut <=> \E listing \in ListedIn(book, poi.key) : "closed down" \in Told(listing)
    <3>1. ASSUME poi.shut
          PROVE  \E listing \in ListedIn(book, poi.key) : "closed down" \in Told(listing)
      <4>1. PICK c \in ToSet(candidates) : c.key = poi.key /\ c.shut
        BY <2>2, <3>1 DEF TellsAll
      <4>5. PICK n \in 1..N : \E listing \in ToSet(book[n].listings) :
              Counts(listing) /\ c = Candidate(listing, book[n])
        BY <1>9
      <4>2. PICK listing \in ToSet(book[n].listings) :
              Counts(listing) /\ c = Candidate(listing, book[n])
        BY <4>5
      <4>3. listing.key = poi.key /\ "closed down" \in Told(listing)
        BY <1>11, <4>1, <4>2
      <4>4. listing \in ListedIn(book, poi.key)
        BY <1>12, <4>2, <4>3
      <4> QED BY <4>3, <4>4
    <3>2. ASSUME NEW listing \in ListedIn(book, poi.key), "closed down" \in Told(listing)
          PROVE  poi.shut
      <4>1. PICK n \in 1..N : /\ listing \in ToSet(book[n].listings)
                              /\ Counts(listing) /\ listing.key = poi.key
        BY <1>12, <3>2
      <4>2. PICK c \in ToSet(candidates) : c = Candidate(listing, book[n])
        BY <1>10, <4>1
      <4>3. c.key = poi.key /\ c.shut
        BY <1>11, <3>2, <4>1, <4>2
      <4> QED BY <2>2, <4>3 DEF TellsAll
    <3> QED BY <3>1, <3>2
  <2> QED BY <2>1, <2>3, <2>4 DEF TellsOf
<1> QED BY <1>7, <1>8, <1>13 DEF MergedFrom, CatalogueOf

DrawnFrom(other, list) ==
  \E at \in [DOMAIN other -> DOMAIN list] :
    /\ \A m, n \in DOMAIN other : at[m] = at[n] => m = n
    /\ \A n \in DOMAIN other : /\ other[n].key = list[at[n]].key
                               /\ other[n].closed = list[at[n]].closed
                               /\ other[n].shut = list[at[n]].shut

\* A selection of the attractions, in any order, is one again.
LEMMA CatalogueChosen ==
  ASSUME NEW book, NEW list, CatalogueOf(list, book), NEW other \in Seq(Sights),
         DrawnFrom(other, list)
  PROVE  CatalogueOf(other, book)
<1>0. PICK at \in [DOMAIN other -> DOMAIN list] :
        /\ \A m, n \in DOMAIN other : at[m] = at[n] => m = n
        /\ \A n \in DOMAIN other : /\ other[n].key = list[at[n]].key
                                   /\ other[n].closed = list[at[n]].closed
                                   /\ other[n].shut = list[at[n]].shut
  BY DEF DrawnFrom
<1>1. Distinct(other)
  BY <1>0 DEF Distinct, CatalogueOf
<1>2. ASSUME NEW n \in DOMAIN other PROVE TellsOf(other[n], book)
  <2>1. PICK poi, old : poi = other[n] /\ old = list[at[n]]
    OBVIOUS
  <2>2. poi.key = old.key /\ poi.closed = old.closed /\ poi.shut = old.shut
    BY <1>0, <2>1
  <2>3. TellsOf(old, book)
    BY <1>0, <2>1 DEF CatalogueOf
  <2>4. TellsOf(poi, book)
    BY <2>2, <2>3 DEF TellsOf
  <2> QED BY <2>1, <2>4
<1> QED BY <1>1, <1>2 DEF CatalogueOf

-----------------------------------------------------------------------------
(* Weather and calendar *)

\* Clamp keeps a value between 0 and 100.
LEMMA Clamped ==
  ASSUME NEW value \in Int
  PROVE  Clamp(value) \in 0..100
<1>1. value \in Int /\ 100 \in Int /\ 0 \in Int
  OBVIOUS
<1>2. PICK less \in Int : less = Min({value, 100}) /\ less <= 100
  BY <1>1, MinMaxTwo
<1>3. Max({0, less}) = IF 0 >= less THEN 0 ELSE less
  BY <1>1, MinMaxTwo
<1>4. Max({0, less}) \in 0..100
  BY <1>2, <1>3
<1> QED BY <1>2, <1>4 DEF Clamp

\* The badness of the weather is a percentage.
LEMMA WeatherTyped ==
  ASSUME NEW w \in Weathers
  PROVE  /\ WeatherScore(w) \in Int
         /\ WeatherBadness(w) \in 0..100
<1>1. /\ w.sunshine \in Int /\ w.daylight \in Int /\ w.rain \in Int /\ w.temp \in Int
      /\ w.wind \in Int
  BY DEF Weathers
<1>2. PICK rain \in 0..100 : rain = Clamp(w.rain)
  BY <1>1, Clamped
<1>3. PICK heat \in 0..100 : heat = Heat(w)
  <2>1. 10 * (w.temp - 30) \in Int
    BY <1>1
  <2> QED BY <2>1, Clamped DEF Heat
<1>4. PICK wind \in 0..100 : wind = Wind(w)
  <2>1. (100 * (w.wind - 20)) \div 30 \in Int
    <3>1. PICK x \in Int : x = w.wind
      BY <1>1
    <3>2. (100 * (x - 20)) \div 30 \in Int
      OBVIOUS
    <3> QED BY <3>1, <3>2
  <2> QED BY <2>1, Clamped DEF Wind
<1>5. PICK sun \in 0..100 : sun = Sunshine(w)
  <2>1. CASE w.daylight > 0
    <3>1. PICK x \in Int, y \in Int : x = 100 * w.sunshine /\ y = w.daylight
      BY <1>1
    <3>2. x \div y \in Int
      BY <2>1, <3>1
    <3>3. Clamp(x \div y) \in 0..100
      BY <3>2, Clamped
    <3>4. Sunshine(w) = Clamp(x \div y)
      BY <2>1, <3>1 DEF Sunshine
    <3> QED BY <3>3, <3>4
  <2>2. CASE ~(w.daylight > 0)
    <3>1. Sunshine(w) = 0
      BY <2>2 DEF Sunshine
    <3> QED BY <3>1
  <2> QED BY <2>1, <2>2
<1>6. WeatherScore(w) = 45 * sun - 35 * rain - 10 * heat - 10 * wind
  BY <1>2, <1>3, <1>4, <1>5 DEF WeatherScore
<1>7. WeatherBadness(w) = (50 * rain + 25 * wind + 25 * heat) \div 100
  BY <1>2, <1>3, <1>4 DEF WeatherBadness
<1>8. WeatherScore(w) \in Int
  BY <1>6
<1>9. (50 * rain + 25 * wind + 25 * heat) \div 100 \in 0..100
  <2>1. PICK x \in Int : x = 50 * rain + 25 * wind + 25 * heat /\ x >= 0 /\ x <= 100 * 100
    OBVIOUS
  <2>2. PICK y \in Int : y = x \div 100 /\ y >= 0 /\ y <= 100
    BY <2>1, Quotient
  <2> QED BY <2>1, <2>2
<1> QED BY <1>7, <1>8, <1>9

\* The complete rows are days with weather.
LEMMA RowsTyped ==
  ASSUME NEW fc \in Forecasts, NEW dates
  PROVE  CompleteRows(fc, dates) \in Seq(DayRows)
<1> DEFINE Row == [date: Nat, weather: Weathers \cup {Missing}]
           kept == {i \in DOMAIN fc : /\ dates = {} \/ fc[i].date \in dates
                                      /\ fc[i].weather # Missing}
<1>1. fc \in Seq(Row)
  BY ForecastsAssumption
<1>2. kept \in SUBSET DOMAIN fc /\ \A i \in kept : fc[i].weather # Missing
  OBVIOUS
<1>3. CompleteRows(fc, dates) = PartOf(fc, kept)
  BY DEF CompleteRows
<1> HIDE DEF kept
<1>4. PICK rows : rows = PartOf(fc, kept)
  OBVIOUS
<1>5. PICK size : size = Cardinality(kept)
  OBVIOUS
<1>6. /\ size \in Nat /\ DOMAIN rows = 1..size
      /\ \A n \in 1..size : \E i \in kept : rows[n] = fc[i]
  <2> HIDE DEF Row
  <2> QED BY <1>1, <1>2, <1>4, <1>5, PartElements
<1>7. rows \in Seq(Row)
  <2> HIDE DEF Row
  <2> QED BY <1>1, <1>2, <1>4, PartTyped
<1>8. ASSUME NEW n \in 1..size PROVE rows[n] \in DayRows
  <2>1. PICK i \in kept : rows[n] = fc[i]
    BY <1>6
  <2>2. fc[i] \in Row /\ fc[i].weather # Missing
    <3>1. i \in DOMAIN fc /\ fc[i].weather # Missing
      BY <1>2
    <3> HIDE DEF Row
    <3>2. fc[i] \in Row
      BY <1>1, <3>1
    <3> QED BY <3>1, <3>2
  <2>3. rows[n] \in Row /\ rows[n].weather # Missing
    BY <2>1, <2>2
  <2> QED BY <2>3 DEF DayRows
<1>9. rows \in Seq(DayRows)
  BY <1>6, <1>7, <1>8
<1> QED BY <1>3, <1>4, <1>9

\* The window from this start is the one recommended, and none is ranked before it.
BestStart(rows, best, n) ==
  /\ BestWindow(rows, n) = DaysFrom(rows, best, n)
  /\ \A s \in Windows(rows, n) :
       ~Before(Merit(DaysFrom(rows, best, n)), Merit(DaysFrom(rows, s, n)))

\* The window has as many days as the trip.
LEMMA BestWindowTyped ==
  ASSUME NEW rows \in Seq(DayRows), NEW n \in 1..7, Windows(rows, n) # {}
  PROVE  /\ BestWindow(rows, n) \in Seq(DayRows) /\ Len(BestWindow(rows, n)) = n
         /\ BestWindow(rows, n) \in [1..n -> DayRows]
         /\ \E best \in Windows(rows, n) : BestStart(rows, best, n)
<1>1. PICK size \in Nat : size = Len(rows) /\ DOMAIN rows = 1..size
  OBVIOUS
<1>2. PICK starts : starts = Windows(rows, n)
  OBVIOUS
<1>3. starts \in SUBSET (1..(size - n + 1)) /\ starts # {}
  BY <1>1, <1>2 DEF Windows
<1>4. starts \in SUBSET Int /\ IsFiniteSet(starts)
  <2>1. PICK last \in Int : last = size - n + 1
    OBVIOUS
  <2>2. 1 \in Int
    OBVIOUS
  <2>3. IsFiniteSet(1..last)
    BY <2>2, FS_Interval
  <2>4. starts \in SUBSET (1..last)
    BY <1>3, <2>1
  <2>5. IsFiniteSet(starts)
    BY <2>3, <2>4, FS_Subset
  <2> QED BY <2>4, <2>5
<1>5. ASSUME NEW s \in starts
      PROVE  DaysFrom(rows, s, n) \in Seq(DayRows) /\ Len(DaysFrom(rows, s, n)) = n
  <2>1. PICK e \in Int : e = s + n - 1
    BY <1>4
  <2>2. s \in Int /\ s >= 1 /\ e <= size /\ s <= e /\ e - s + 1 = n
    BY <1>3, <2>1
  <2>3. \A i \in s..e : rows[i] \in DayRows
    BY <1>1, <2>2
  <2>4. /\ SubSeq(rows, s, e) \in Seq(DayRows)
        /\ Len(SubSeq(rows, s, e)) = IF s <= e THEN e - s + 1 ELSE 0
    BY <2>2, <2>3, SubSeqProperties
  <2>5. Len(SubSeq(rows, s, e)) = n
    BY <2>2, <2>4
  <2> QED BY <2>1, <2>4, <2>5 DEF DaysFrom
<1>6. ASSUME NEW some \in Seq(DayRows), Len(some) = n
      PROVE  Merit(some)[1] \in Int /\ Merit(some)[2] \in Int
  <2> DEFINE scores == [i \in DOMAIN some |-> WeatherScore(some[i].weather)]
  <2>1. DOMAIN some = 1..n /\ IsFiniteSet(1..n)
    BY UpToSize, <1>6
  <2>2. \A i \in 1..n : scores[i] \in Int
    <3>1. ASSUME NEW i \in 1..n PROVE scores[i] \in Int
      <4>1. some[i] \in DayRows
        BY <2>1
      <4>2. some[i].weather \in Weathers
        BY <4>1 DEF DayRows
      <4>3. WeatherScore(some[i].weather) \in Int
        BY <4>2, WeatherTyped
      <4> QED BY <2>1, <4>3
    <3> QED BY <3>1
  <2>3. DOMAIN scores = 1..n
    BY <2>1
  <2>4. Merit(some) = <<Rounded(SumFunction(scores), n), Min(ToSet(scores))>>
    BY <1>6 DEF Merit
  <2> HIDE DEF scores
  <2>5. PICK S : S = 1..n
    OBVIOUS
  <2>6. SumFunctionOnSet(scores, S) \in Int
    BY <2>1, <2>2, <2>5, SumFacts
  <2>7. SumFunction(scores) \in Int
    BY <2>3, <2>5, <2>6 DEF SumFunction
  <2>9. Rounded(SumFunction(scores), n) \in Int
    <3>1. n \in Nat /\ n > 0
      OBVIOUS
    <3>2. PICK total \in Int : total = SumFunction(scores)
      BY <2>7
    <3> QED BY <3>1, <3>2, RoundedNear
  <2>8. Min(ToSet(scores)) \in Int
    <3>1. PICK values : values = ToSet(scores)
      OBVIOUS
    <3>2. values = {scores[i] : i \in S}
      BY <2>3, <2>5, <3>1 DEF ToSet
    <3>3. IsFiniteSet(values)
      BY <2>1, <2>5, <3>2, ImageFinite
    <3>4. values \in SUBSET Int
      BY <2>2, <2>5, <3>2
    <3>5. values # {}
      <4>1. 1 \in S
        BY <2>5
      <4> QED BY <3>2, <4>1
    <3>6. Min(values) \in values
      BY <3>3, <3>4, <3>5, LeastOfFinite
    <3> QED BY <3>1, <3>4, <3>6
  <2> QED BY <2>4, <2>8, <2>9
<1> DEFINE least == [s \in starts |->
                       LET merit == Merit(DaysFrom(rows, s, n)) IN <<-merit[1], -merit[2]>>]
<1> DEFINE merits == [s \in starts |-> Merit(DaysFrom(rows, s, n))]
<1>7. \A s \in starts : /\ merits[s][1] \in Int /\ merits[s][2] \in Int
                        /\ least[s][1] = -merits[s][1] /\ least[s][2] = -merits[s][2]
  <2>1. ASSUME NEW s \in starts
        PROVE  /\ merits[s][1] \in Int /\ merits[s][2] \in Int
               /\ least[s][1] = -merits[s][1] /\ least[s][2] = -merits[s][2]
    <3>1. PICK merit : merit = Merit(DaysFrom(rows, s, n))
      OBVIOUS
    <3>2. merit[1] \in Int /\ merit[2] \in Int
      BY <1>5, <1>6, <3>1
    <3>3. least[s] = <<-merit[1], -merit[2]>> /\ merits[s] = merit
      BY <3>1
    <3>4. least[s][1] = -merit[1] /\ least[s][2] = -merit[2]
      BY <3>3
    <3> QED BY <3>2, <3>3, <3>4
  <2> QED BY <2>1
<1>8. BestWindow(rows, n) = DaysFrom(rows, FirstMin(Ascending(starts), least), n)
  BY <1>2 DEF BestWindow
<1> DEFINE best == FirstMin(Ascending(starts), least)
<1>81. \A s \in starts : merits[s] = Merit(DaysFrom(rows, s, n))
  OBVIOUS
<1> HIDE DEF least, merits, best
<1>9. PICK order \in Seq(starts) : order = Ascending(starts) /\ ToSet(order) = starts
  BY <1>4, AscendingFacts
<1>10. order # <<>>
  BY <1>3, <1>9 DEF ToSet
<1>11. best \in starts /\ \A s \in starts : ~Before(least[s], least[best])
  <2>1. \A s \in ToSet(order) : least[s][1] \in Int /\ least[s][2] \in Int
    BY <1>7, <1>9
  <2> QED BY <1>9, <1>10, <2>1, FirstMinFacts DEF best
<1>12. PICK chosen \in Seq(DayRows) :
         chosen = BestWindow(rows, n) /\ Len(chosen) = n /\ chosen = DaysFrom(rows, best, n)
  BY <1>5, <1>8, <1>11 DEF best
<1>13. chosen \in [1..n -> DayRows]
  BY <1>12
<1>14. \A s \in starts : ~Before(merits[best], merits[s])
  BY <1>7, <1>11, SMTT(30) DEF Before
<1>15. BestStart(rows, best, n)
  BY <1>2, <1>11, <1>12, <1>14, <1>81 DEF BestStart
<1> QED BY <1>2, <1>11, <1>12, <1>13, <1>15

-----------------------------------------------------------------------------
(* Ranking and selection *)

\* The fields of the request, one by one.
LEMMA AskFields ==
  ASSUME AskTyped
  PROVE  /\ ask.trip \in 1..7 /\ ask.most \in 3..35 /\ ask.related \in 1..15
         /\ ask.interests \in SUBSET STRING /\ IsFiniteSet(ask.interests)
  BY DEF AskTyped

Positions(at, seq, S) ==
  /\ at \in [1..Cardinality(S) -> S] /\ Cardinality(S) \in Nat
  /\ DOMAIN PartOf(seq, S) = 1..Cardinality(S)
  /\ \A n \in 1..Cardinality(S) : PartOf(seq, S)[n] = seq[at[n]]
  /\ \A m, n \in 1..Cardinality(S) : m < n => at[m] < at[n]
  /\ \A m, n \in 1..Cardinality(S) : at[m] = at[n] => m = n
  /\ \A x \in S : \E n \in 1..Cardinality(S) : at[n] = x

\* PartOf lists the elements by increasing positions.
LEMMA PartPositions ==
  ASSUME NEW D, NEW seq \in Seq(D), NEW S \in SUBSET DOMAIN seq
  PROVE  /\ PartOf(seq, S) \in Seq(D) /\ Len(PartOf(seq, S)) = Cardinality(S)
         /\ \E at : Positions(at, seq, S)
<1>1. PICK at \in [1..Cardinality(S) -> S] :
        /\ Cardinality(S) \in Nat /\ IsFiniteSet(S)
        /\ PartOf(seq, S) \in Seq(D) /\ Len(PartOf(seq, S)) = Cardinality(S)
        /\ DOMAIN PartOf(seq, S) = 1..Cardinality(S)
        /\ \A n \in 1..Cardinality(S) : PartOf(seq, S)[n] = seq[at[n]] /\ PartOf(seq, S)[n] \in D
        /\ \A m, n \in 1..Cardinality(S) : m < n => at[m] < at[n]
        /\ \A m, n \in 1..Cardinality(S) : at[m] = at[n] => m = n
        /\ \A x \in S : \E n \in 1..Cardinality(S) : at[n] = x
  BY PartFacts
<1>2. Positions(at, seq, S)
  BY <1>1 DEF Positions
<1> QED BY <1>1, <1>2

\* A part of a catalogue is a catalogue.
LEMMA PartOfCatalogue ==
  ASSUME NEW book, NEW list, CatalogueOf(list, book), NEW S \in SUBSET DOMAIN list
  PROVE  CatalogueOf(PartOf(list, S), book)
<1>1. list \in Seq(Sights)
  BY DEF CatalogueOf
<1>2. PICK other : other = PartOf(list, S)
  OBVIOUS
<1>3. other \in Seq(Sights) /\ \E at : Positions(at, list, S)
  BY <1>1, <1>2, PartPositions
<1>4. PICK at : Positions(at, list, S)
  BY <1>3
<1>5. DOMAIN other = 1..Cardinality(S) /\ at \in [1..Cardinality(S) -> S]
  BY <1>2, <1>4 DEF Positions
<1>6. at \in [DOMAIN other -> DOMAIN list]
  BY <1>5
<1>7. \A n \in DOMAIN other : other[n] = list[at[n]]
  BY <1>2, <1>4, <1>5 DEF Positions
<1>8. \A m, n \in DOMAIN other : at[m] = at[n] => m = n
  BY <1>4, <1>5 DEF Positions
<1>9. DrawnFrom(other, list)
  BY <1>6, <1>7, <1>8 DEF DrawnFrom
<1>10. CatalogueOf(other, book)
  BY <1>3, <1>9, CatalogueChosen
<1> QED BY <1>2, <1>10

\* The filter leaves a catalogue.
LEMMA FilteredFacts ==
  ASSUME NEW book, NEW list, CatalogueOf(list, book), NEW excludes
  PROVE  CatalogueOf(Filtered(list, excludes), book)
<1>1. PICK kept \in SUBSET DOMAIN list : kept = {i \in DOMAIN list : "campus" \notin list[i].name}
  OBVIOUS
<1>2. CatalogueOf(PartOf(list, kept), book)
  BY PartOfCatalogue
<1> QED BY <1>1, <1>2 DEF Filtered

-----------------------------------------------------------------------------
(* Rank *)

\* Ranking leaves a catalogue of usable attractions.
LEMMA RankFacts ==
  ASSUME AskTyped, CatalogueOf(pois, pages), Rank
  PROVE  CatalogueOf(pois', pages) /\ Usables(pois')
<1>0. PICK scored :
        /\ scored = [i \in DOMAIN pois |->
                       [pois[i] EXCEPT !.score = Score(pois[i], ask.interests)]]
        /\ LET usable == {i \in DOMAIN pois : Usable(i)}
               higher == [i \in usable |->
                            {j \in usable : \/ scored[j].score > scored[i].score
                                            \/ scored[j].score = scored[i].score /\ j < i}]
               ranked == Sorted(usable, higher)
           IN  pois' = [n \in DOMAIN ranked |-> scored[ranked[n]]]
  BY ZenonT(60) DEF Rank
<1> DEFINE usable == {i \in DOMAIN pois : Usable(i)}
           higher == [i \in usable |->
                        {j \in usable : \/ scored[j].score > scored[i].score
                                        \/ scored[j].score = scored[i].score /\ j < i}]
           ranked == Sorted(usable, higher)
<1>1. pois' = [n \in DOMAIN ranked |-> scored[ranked[n]]]
  BY <1>0
<1>2. PICK N \in Nat : N = Len(pois) /\ DOMAIN pois = 1..N
  BY DEF CatalogueOf
<1>3. ASSUME NEW i \in 1..N
      PROVE  /\ scored[i] \in Sights /\ scored[i].key = pois[i].key
             /\ scored[i].closed = pois[i].closed /\ scored[i].shut = pois[i].shut
             /\ scored[i].place = pois[i].place /\ scored[i].visit = pois[i].visit
             /\ scored[i].score \in Nat
  <2>1. pois[i] \in Sights
    BY <1>2 DEF CatalogueOf
  <2>2. PICK poi \in Sights : poi = pois[i]
    BY <2>1
  <2>3. PICK score \in Nat : score = Score(poi, ask.interests)
    BY AskFields, ScoreTyped
  <2>4. scored[i] = [poi EXCEPT !.score = score]
    BY <1>0, <1>2, <2>2, <2>3
  <2> QED BY <2>2, <2>4, ScoredTyped
<1>4. \A i \in usable : scored[i].score \in Nat /\ i \in Nat
  BY <1>2, <1>3
<1>5. usable \in SUBSET (1..N) /\ IsFiniteSet(usable)
  <2>1. IsFiniteSet(1..N)
    BY UpToSize
  <2>2. usable \in SUBSET (1..N)
    BY <1>2
  <2> HIDE DEF usable
  <2> QED BY <2>1, <2>2, FS_Subset
<1>6. \A i \in usable : ~pois[i].shut /\ Located(pois[i]) /\ pois[i].visit <= Capacity
  BY DEF Usable
<1> HIDE DEF usable
<1>7. TotalOrder(usable, higher)
  <2>1. ASSUME NEW x \in usable
        PROVE  higher[x] = {j \in usable : \/ scored[j].score > scored[x].score
                                           \/ scored[j].score = scored[x].score /\ j < x}
    OBVIOUS
  <2> QED BY <1>4 DEF TotalOrder
<1> HIDE DEF higher
<1>8. /\ Cardinality(usable) \in Nat
      /\ ranked \in [1..Cardinality(usable) -> usable]
      /\ \A m, n \in 1..Cardinality(usable) : ranked[m] = ranked[n] => m = n
  BY <1>5, <1>7, SortedFacts
<1> HIDE DEF ranked
<1>9. PICK size \in Nat : size = Cardinality(usable)
  BY <1>8
<1>10. \A n \in 1..size : ranked[n] \in usable /\ ranked[n] \in 1..N
  BY <1>5, <1>8, <1>9
<1>11. PICK new : new = [n \in 1..size |-> scored[ranked[n]]]
  OBVIOUS
<1>12. pois' = new
  BY <1>1, <1>8, <1>9, <1>11
<1>13. \A n \in 1..size : new[n] \in Sights /\ new[n] = scored[ranked[n]]
  BY <1>3, <1>10, <1>11
<1>14. new \in Seq(Sights) /\ DOMAIN new = 1..size
  BY <1>11, <1>13
<1>15. CatalogueOf(new, pages)
  <2>1. PICK at \in [DOMAIN new -> DOMAIN pois] : \A n \in DOMAIN new : at[n] = ranked[n]
    <3>1. PICK at : at = [n \in 1..size |-> ranked[n]]
      OBVIOUS
    <3> QED BY <1>2, <1>10, <1>14, <3>1, SMTT(30)
  <2>2. \A m, n \in DOMAIN new : at[m] = at[n] => m = n
    BY <1>8, <1>9, <1>14, <2>1
  <2>3. \A n \in DOMAIN new : /\ new[n].key = pois[at[n]].key
                              /\ new[n].closed = pois[at[n]].closed
                              /\ new[n].shut = pois[at[n]].shut
    BY <1>3, <1>10, <1>13, <1>14, <2>1
  <2>4. DrawnFrom(new, pois)
    BY <2>2, <2>3 DEF DrawnFrom
  <2> QED BY <1>14, <2>4, CatalogueChosen
<1>16. Usables(new)
  <2>1. ASSUME NEW n \in 1..size
        PROVE  ~new[n].shut /\ Located(new[n]) /\ new[n].visit <= Capacity
    <3>1. PICK i \in 1..N : i = ranked[n] /\ i \in usable
      BY <1>10
    <3>2. /\ new[n].shut = pois[i].shut /\ new[n].place = pois[i].place
          /\ new[n].visit = pois[i].visit
      BY <1>3, <1>13, <3>1
    <3> QED BY <1>6, <3>1, <3>2 DEF Located
  <2> QED BY <1>14, <2>1 DEF Usables
<1> QED BY <1>12, <1>15, <1>16

-----------------------------------------------------------------------------
(* Select *)

\* Some attractions, taken from the list in its order.
TakenFrom(some, list, n) ==
  \E at \in [1..Len(some) -> 1..n] :
    /\ \A k \in 1..Len(some) : some[k] = list[at[k]]
    /\ \A j, k \in 1..Len(some) : at[j] = at[k] => j = k

\* What is taken from a longer prefix: as before, or with its last element.
LEMMA TakenLater ==
  ASSUME NEW list \in Seq(Sights), NEW some \in Seq(Sights), NEW n \in 1..Len(list),
         TakenFrom(some, list, n - 1)
  PROVE  TakenFrom(some, list, n) /\ TakenFrom(Append(some, list[n]), list, n)
<1>1. PICK size \in Nat : size = Len(some)
  OBVIOUS
<1>2. PICK at \in [1..size -> 1..(n - 1)] :
        /\ \A k \in 1..size : some[k] = list[at[k]]
        /\ \A j, k \in 1..size : at[j] = at[k] => j = k
  BY <1>1 DEF TakenFrom
<1>3. \A k \in 1..size : at[k] \in 1..n /\ at[k] # n
  <2>1. ASSUME NEW k \in 1..size PROVE at[k] \in 1..n /\ at[k] # n
    <3>1. at[k] \in 1..(n - 1)
      BY <1>2
    <3> QED BY <3>1
  <2> QED BY <2>1
<1>4. TakenFrom(some, list, n)
  <2>1. at \in [1..size -> 1..n]
    BY <1>2, <1>3
  <2> QED BY <1>1, <1>2, <2>1 DEF TakenFrom
<1>5. PICK more : more = [k \in 1..(size + 1) |-> IF k = size + 1 THEN n ELSE at[k]]
  OBVIOUS
<1>6. \A k \in 1..(size + 1) : k \in 1..size \/ k = size + 1
  OBVIOUS
<1>7. /\ \A k \in 1..size : more[k] = at[k]
      /\ more[size + 1] = n
  BY <1>5
<1>8. more \in [1..(size + 1) -> 1..n]
  BY <1>3, <1>5
<1>9. PICK longer \in Seq(Sights) : longer = Append(some, list[n])
  <2>1. list[n] \in Sights
    OBVIOUS
  <2> QED BY <2>1, AppendProperties
<1>10. /\ Len(longer) = size + 1 /\ longer[size + 1] = list[n]
       /\ \A k \in 1..size : longer[k] = some[k]
  <2>1. list[n] \in Sights
    OBVIOUS
  <2> QED BY <1>1, <1>9, <2>1, AppendProperties
<1>11. \A k \in 1..(size + 1) : longer[k] = list[more[k]]
  BY <1>2, <1>6, <1>7, <1>10
<1>12. \A j, k \in 1..(size + 1) : more[j] = more[k] => j = k
  <2>1. ASSUME NEW j \in 1..(size + 1), NEW k \in 1..(size + 1), more[j] = more[k] PROVE j = k
    <3>1. CASE j \in 1..size /\ k \in 1..size
      BY <1>2, <1>7, <2>1, <3>1
    <3>2. CASE j \in 1..size /\ k = size + 1
      BY <1>3, <1>7, <2>1, <3>2
    <3>3. CASE j = size + 1 /\ k \in 1..size
      BY <1>3, <1>7, <2>1, <3>3
    <3> QED BY <1>6, <3>1, <3>2, <3>3
  <2> QED BY <2>1
<1>13. TakenFrom(longer, list, n)
  <2>1. \E a \in [1..(size + 1) -> 1..n] :
          /\ \A k \in 1..(size + 1) : longer[k] = list[a[k]]
          /\ \A j, k \in 1..(size + 1) : a[j] = a[k] => j = k
    BY <1>8, <1>11, <1>12
  <2>2. 1..Len(longer) = 1..(size + 1)
    BY <1>10
  <2>3. TakenFrom(longer, list, n) =
          \E a \in [1..Len(longer) -> 1..n] :
            /\ \A k \in 1..Len(longer) : longer[k] = list[a[k]]
            /\ \A j, k \in 1..Len(longer) : a[j] = a[k] => j = k
    BY DEF TakenFrom
  <2> QED BY <2>1, <2>2, <2>3, Zenon
<1> QED BY <1>4, <1>9, <1>13

\* The bounds of visiting time, indoor share and score.
LEMMA SightNumbers ==
  ASSUME NEW poi \in Sights
  PROVE  /\ poi.visit \in Int /\ poi.visit >= 30 /\ poi.visit <= 480
         /\ poi.indoor \in Int /\ poi.indoor >= 0 /\ poi.indoor <= 100
         /\ poi.score \in Int /\ poi.score >= 0
<1>1. poi.visit \in 30..480 /\ poi.indoor \in 0..100 /\ poi.score \in Nat
  BY SightFields
<1> QED BY <1>1

\* The selection takes attractions of the catalogue in order, none twice.
LEMMA SelectionTaken ==
  ASSUME pois \in Seq(Sights)
  PROVE  Selection \in Seq(Sights) /\ TakenFrom(Selection, pois, Len(pois))
<1>1. PICK N \in Nat : N = Len(pois) /\ DOMAIN pois = 1..N
  OBVIOUS
<1> DEFINE load(kept, n) == kept.load + pois[n].visit + (IF kept.list = <<>> THEN 0 ELSE 15)
    takes(kept, n) == Room(kept.list, ask.most)
                      /\ (Len(kept.list) < ask.trip \/ load(kept, n) <= ask.trip * Capacity)
    next(kept, n) == IF takes(kept, n)
                       THEN [list |-> Append(kept.list, pois[n]), load |-> load(kept, n)]
                       ELSE kept
    empty == [list |-> <<>>, load |-> 0]
    Keeps(f) == f = [n \in 0..N |-> IF n = 0 THEN empty ELSE next(f[n - 1], n)]
<1>2. PICK S : S = [list: Seq(Sights), load: Int]
  OBVIOUS
<1>3. empty \in S
  BY <1>2
<1>4. ASSUME NEW kept \in S, NEW n \in 1..N
      PROVE  /\ next(kept, n) \in S
             /\ next(kept, n).list = kept.list \/ next(kept, n).list = Append(kept.list, pois[n])
  <2>1. pois[n] \in Sights
    BY <1>1
  <2>2. pois[n].visit \in Int /\ kept.load \in Int /\ kept.list \in Seq(Sights)
    <3>1. pois[n].visit \in Int
      <4>1. PICK poi \in Sights : poi = pois[n]
        BY <2>1
      <4>2. poi.visit \in Int
        BY SightNumbers
      <4> QED BY <4>1, <4>2, Zenon
    <3>2. kept.load \in Int /\ kept.list \in Seq(Sights)
      BY <1>2
    <3> QED BY <3>1, <3>2
  <2>3. load(kept, n) \in Int
    BY <2>2
  <2>4. Append(kept.list, pois[n]) \in Seq(Sights)
    BY <2>1, <2>2, AppendProperties
  <2> HIDE DEF load
  <2>5. [list |-> Append(kept.list, pois[n]), load |-> load(kept, n)] \in S
    BY <1>2, <2>3, <2>4
  <2> HIDE DEF takes
  <2> QED BY <2>5
<1> HIDE DEF load, takes
<1>5. Selection = (CHOOSE f : Keeps(f))[N].list
  BY <1>1 DEF Selection, load, takes
<1> HIDE DEF next
<1>6. PICK step : step = [q \in (1..N) \X S |-> next(q[2], q[1])]
  OBVIOUS
<1>7. step \in [(1..N) \X S -> S]
  BY <1>4, <1>6
<1>8. PICK start \in S : start = empty
  BY <1>3
<1> HIDE DEF empty
<1>9. PICK f \in [0..N -> S] : Computes(f, N, start, step)
  BY <1>7, Recursion
<1>10. ASSUME NEW n \in 0..N PROVE f[n] = IF n = 0 THEN empty ELSE next(f[n - 1], n)
  <2>1. CASE n = 0
    BY <1>8, <1>9, <2>1 DEF Computes
  <2>2. CASE n # 0
    <3>1. n \in 1..N /\ n - 1 \in 0..N
      BY <2>2
    <3>2. PICK x \in S : x = f[n - 1]
      BY <3>1
    <3>3. f[n] = step[<<n, x>>]
      BY <1>9, <3>1, <3>2 DEF Computes
    <3>4. step[<<n, x>>] = next(x, n)
      BY <1>6, <3>1
    <3> QED BY <2>2, <3>2, <3>3, <3>4
  <2> QED BY <2>1, <2>2
<1>11. Keeps(f)
  <2>1. f = [n \in 0..N |-> f[n]]
    BY <1>9
  <2> QED BY <1>10, <2>1
<1> HIDE DEF Keeps
<1>12. PICK h : h = CHOOSE b : Keeps(b)
  OBVIOUS
<1>13. Keeps(h)
  BY <1>11, <1>12
<1>14. \A n \in 0..N : h[n] = IF n = 0 THEN empty ELSE next(h[n - 1], n)
  BY <1>13 DEF Keeps
<1> DEFINE A == {n \in 0..N : h[n] \in S /\ TakenFrom(h[n].list, pois, n)}
<1>15. 0 \in A
  <2>1. 0 \in 0..N /\ h[0] = empty
    BY <1>14
  <2>2. empty.list = <<>> /\ <<>> \in Seq(Sights) /\ Len(<<>>) = 0
    BY DEF empty
  <2>3. TakenFrom(<<>>, pois, 0)
    <3>1. PICK at : at = [k \in 1..0 |-> k]
      OBVIOUS
    <3>2. at \in [1..0 -> 1..0]
      BY <3>1
    <3>3. \A k \in 1..0 : FALSE
      OBVIOUS
    <3> QED BY <2>2, <3>2, <3>3 DEF TakenFrom
  <2> QED BY <1>8, <2>1, <2>2, <2>3
<1>16. ASSUME NEW n \in 1..N, n - 1 \in A PROVE n \in A
  <2>1. PICK kept \in S : kept = h[n - 1] /\ TakenFrom(kept.list, pois, n - 1)
    BY <1>16
  <2>2. n \in 0..N /\ n # 0 /\ n \in 1..Len(pois)
    BY <1>1
  <2>3. h[n] = next(kept, n)
    BY <1>14, <2>1, <2>2
  <2>4. PICK list \in Seq(Sights) : list = kept.list
    BY <1>2
  <2>5. TakenFrom(list, pois, n) /\ TakenFrom(Append(list, pois[n]), pois, n)
    BY <2>1, <2>2, <2>4, TakenLater
  <2>6. h[n] \in S /\ TakenFrom(h[n].list, pois, n)
    BY <1>4, <2>3, <2>4, <2>5
  <2> QED BY <2>2, <2>6
<1>17. N \in A
  <2> HIDE DEF A
  <2>1. \A n \in 0..N : n \in A
    BY <1>15, <1>16, StepByStep
  <2>2. N \in 0..N
    OBVIOUS
  <2> QED BY <2>1, <2>2
<1>18. h[N] \in S /\ TakenFrom(h[N].list, pois, N)
  BY <1>17
<1>19. Selection = h[N].list
  BY <1>5, <1>12
<1> QED BY <1>1, <1>2, <1>18, <1>19

\* The selection is a catalogue of usable attractions.
LEMMA SelectionFacts ==
  ASSUME CatalogueOf(pois, pages), Usables(pois)
  PROVE  CatalogueOf(Selection, pages) /\ Usables(Selection)
<1>1. pois \in Seq(Sights)
  BY DEF CatalogueOf
<1>2. PICK some \in Seq(Sights) : some = Selection /\ TakenFrom(some, pois, Len(pois))
  BY <1>1, SelectionTaken
<1>3. PICK at \in [1..Len(some) -> 1..Len(pois)] :
        /\ \A k \in 1..Len(some) : some[k] = pois[at[k]]
        /\ \A j, k \in 1..Len(some) : at[j] = at[k] => j = k
  BY <1>2 DEF TakenFrom
<1>4. DOMAIN some = 1..Len(some) /\ DOMAIN pois = 1..Len(pois)
  BY <1>1
<1>5. \A k \in DOMAIN some : at[k] \in DOMAIN pois /\ some[k] = pois[at[k]]
  BY <1>3, <1>4
<1>6. \A j, k \in DOMAIN some : at[j] = at[k] => j = k
  BY <1>3, <1>4
<1>7. CatalogueOf(some, pages)
  BY <1>3, <1>4, <1>5, <1>6, CatalogueChosen, SMTT(30) DEF DrawnFrom
<1>8. Usables(some)
  BY <1>5 DEF Usables
<1> QED BY <1>2, <1>7, <1>8

-----------------------------------------------------------------------------
(* The medoids *)

-----------------------------------------------------------------------------
(* Distances *)

\* The attractions selected, their number and the times between them.
LEMMA StopsFacts ==
  ASSUME Measured
  PROVE  /\ Len(pois) \in Nat /\ DOMAIN pois = Stops /\ IsFiniteSet(Stops)
         /\ Cardinality(Stops) = Len(pois) /\ Stops \in SUBSET Int
         /\ \A i \in Stops : pois[i] \in Sights
         /\ \A i, j \in Stops : travel[i][j] \in Nat
<1>1. pois \in Seq(Sights) /\ travel \in [1..Len(pois) -> [1..Len(pois) -> Nat]]
  BY DEF Measured
<1>2. Len(pois) \in Nat /\ DOMAIN pois = 1..Len(pois)
  BY <1>1
<1>3. IsFiniteSet(1..Len(pois)) /\ Cardinality(1..Len(pois)) = Len(pois)
  BY <1>2, UpToSize
<1>4. \A i \in 1..Len(pois) : pois[i] \in Sights
  BY <1>1
<1>5. \A i, j \in 1..Len(pois) : travel[i][j] \in Nat
  BY <1>1
<1>6. 1..Len(pois) \in SUBSET Int
  BY <1>2
<1> QED BY <1>2, <1>3, <1>4, <1>5, <1>6 DEF Stops

\* The distance of two attractions is a natural number.
LEMMA ApartTyped ==
  ASSUME Measured, NEW i \in Stops, NEW j \in Stops
  PROVE  Apart(i, j) \in Int /\ Apart(i, j) \in Nat
<1>1. PICK a \in Nat, b \in Nat : a = travel[i][j] /\ b = travel[j][i]
  BY StopsFacts
<1>2. Apart(i, j) = IF i = j THEN 0 ELSE a + b
  BY <1>1 DEF Apart
<1> QED BY <1>2

\* The distance to the nearest of some attractions is an integer.
LEMMA NearestTyped ==
  ASSUME Measured, NEW i \in Stops, NEW S \in SUBSET Stops, S # {}
  PROVE  Min({Apart(i, m) : m \in S}) \in Int
<1>1. PICK f : f = [m \in S |-> Apart(i, m)]
  OBVIOUS
<1>2. PICK T : T = {f[m] : m \in S}
  OBVIOUS
<1>3. T = {Apart(i, m) : m \in S}
  BY <1>1, <1>2
<1>4. IsFiniteSet(S)
  BY StopsFacts, FS_Subset
<1>5. IsFiniteSet(T)
  BY <1>2, <1>4, ImageFinite
<1>6. \A m \in S : f[m] \in Int
  <2>1. ASSUME NEW m \in S PROVE f[m] \in Int
    <3>1. Apart(i, m) \in Int
      BY ApartTyped
    <3> QED BY <1>1, <3>1
  <2> QED BY <2>1
<1>7. T \in SUBSET Int /\ T # {}
  BY <1>2, <1>6
<1>8. Min(T) \in T
  BY <1>5, <1>7, LeastOfFinite
<1>9. Min(T) \in Int
  BY <1>7, <1>8
<1> QED BY <1>3, <1>9

\* Medoids are distinct attractions.
LEMMA SpreadFacts ==
  ASSUME Measured, NEW list, Spread(list)
  PROVE  /\ list \in Seq(Stops) /\ list # <<>> /\ Len(list) \in Nat /\ Len(list) >= 1
         /\ DOMAIN list = 1..Len(list) /\ list \in [1..Len(list) -> Stops]
         /\ ToSet(list) \in SUBSET Stops /\ ToSet(list) # {}
         /\ IsFiniteSet(ToSet(list)) /\ Cardinality(ToSet(list)) = Len(list)
<1>1. list \in Seq(Stops) /\ list # <<>>
  BY DEF Spread
<1>2. PICK n \in Nat : n = Len(list) /\ n >= 1 /\ DOMAIN list = 1..n
  <2>1. Len(list) \in Nat /\ Len(list) # 0 /\ DOMAIN list = 1..Len(list)
    BY <1>1
  <2>2. PICK n : n = Len(list)
    OBVIOUS
  <2>3. n \in Nat /\ n >= 1 /\ DOMAIN list = 1..n
    BY <2>1, <2>2
  <2> QED BY <2>2, <2>3
<1>3. list \in [1..n -> Stops]
  BY <1>1, <1>2
<1>4. PICK T : T = {list[a] : a \in 1..n}
  OBVIOUS
<1>5. ToSet(list) = T
  BY <1>2, <1>4 DEF ToSet
<1>6. T \in SUBSET Stops /\ T # {}
  BY <1>2, <1>3, <1>4
<1>7. IsFiniteSet(T)
  BY <1>6, StopsFacts, FS_Subset
<1>8. Cardinality(T) = n
  <2>1. PICK P : P = 1..n
    OBVIOUS
  <2>2. IsFiniteSet(P) /\ Cardinality(P) = n
    BY <2>1, UpToSize
  <2>3. PICK f : f = [a \in P |-> list[a]]
    OBVIOUS
  <2>4. \A a, b \in P : f[a] = f[b] => a = b
    BY <1>2, <2>1, <2>3 DEF Spread
  <2>5. f \in Surjection(P, T)
    BY <1>4, <2>1, <2>3 DEF Surjection
  <2>6. f \in [P -> T]
    BY <2>5 DEF Surjection
  <2>7. f \in Injection(P, T)
    BY <2>4, <2>6 DEF Injection, IsInjective
  <2>8. Cardinality(T) = Cardinality(P)
    BY <2>2, <2>5, <2>7, FS_Surjection
  <2> QED BY <2>2, <2>8
<1> QED BY <1>1, <1>2, <1>3, <1>5, <1>6, <1>7, <1>8

\* Another attraction may be added to the medoids.
LEMMA SpreadFurther ==
  ASSUME Measured, NEW list, Spread(list), NEW x \in Stops, x \notin ToSet(list)
  PROVE  Spread(Append(list, x)) /\ Len(Append(list, x)) = Len(list) + 1
<1>1. PICK n \in Nat : n = Len(list) /\ DOMAIN list = 1..n
  BY SpreadFacts
<1>2. list \in Seq(Stops)
  BY SpreadFacts
<1>3. PICK new \in Seq(Stops) : new = Append(list, x) /\ new # <<>>
  BY <1>2, AppendProperties
<1>4. /\ Len(new) = n + 1 /\ new[n + 1] = x
      /\ \A a \in 1..n : new[a] = list[a]
  BY <1>1, <1>2, <1>3, AppendProperties
<1>5. \A a \in 1..(n + 1) : a \in 1..n \/ a = n + 1
  OBVIOUS
<1>6. \A a \in 1..n : list[a] # x
  BY <1>1 DEF ToSet
<1>7. ASSUME NEW a \in 1..(n + 1), NEW b \in 1..(n + 1), new[a] = new[b] PROVE a = b
  <2>1. CASE a \in 1..n /\ b \in 1..n
    BY <1>1, <1>4, <1>7, <2>1 DEF Spread
  <2>2. CASE a \in 1..n /\ b = n + 1
    BY <1>4, <1>6, <1>7, <2>2
  <2>3. CASE a = n + 1 /\ b \in 1..n
    BY <1>4, <1>6, <1>7, <2>3
  <2> QED BY <1>5, <2>1, <2>2, <2>3
<1>8. Spread(new)
  <2>1. 1..Len(new) = 1..(n + 1)
    BY <1>4
  <2> QED BY <1>3, <1>7, <2>1 DEF Spread
<1> QED BY <1>1, <1>3, <1>4, <1>8

-----------------------------------------------------------------------------
(* The first medoids *)

Farthest(medoids) ==
  LET others == DOMAIN pois \ ToSet(medoids)
  IN  FirstMin(Ascending(others),
               [i \in others |-> <<-Min({Apart(i, m) : m \in ToSet(medoids)}), -pois[i].score>>])

\* The attraction farthest from the medoids is not one of them.
LEMMA FarthestIsNew ==
  ASSUME Measured, NEW medoids, Spread(medoids), Len(medoids) < Len(pois)
  PROVE  Farthest(medoids) \in Stops /\ Farthest(medoids) \notin ToSet(medoids)
<1>1. PICK T \in SUBSET Stops : T = ToSet(medoids) /\ T # {} /\ IsFiniteSet(T)
                                /\ Cardinality(T) = Len(medoids)
  BY SpreadFacts
<1>2. PICK others : others = Stops \ T
  OBVIOUS
<1>3. others \in SUBSET Int /\ others \in SUBSET Stops /\ IsFiniteSet(others)
  BY <1>2, StopsFacts, FS_Subset
<1>4. others # {}
  <2>1. SUFFICES ASSUME others = {} PROVE FALSE
    OBVIOUS
  <2>2. T = Stops
    BY <1>2, <2>1
  <2>3. Len(medoids) = Len(pois) /\ Len(pois) \in Nat
    BY <1>1, <2>2, StopsFacts
  <2> QED BY <2>3
<1>5. PICK order \in Seq(others) : order = Ascending(others) /\ ToSet(order) = others
  BY <1>3, AscendingFacts
<1>6. order # <<>>
  BY <1>4, <1>5 DEF ToSet
<1>7. PICK key : key = [i \in others |-> <<-Min({Apart(i, m) : m \in T}), -pois[i].score>>]
  OBVIOUS
<1>8. \A i \in others : key[i][1] \in Int /\ key[i][2] \in Int
  <2>1. ASSUME NEW i \in others PROVE key[i][1] \in Int /\ key[i][2] \in Int
    <3>1. PICK d \in Int : d = Min({Apart(i, m) : m \in T})
      BY <1>1, <1>3, NearestTyped
    <3>2. PICK poi \in Sights : poi = pois[i]
      BY <1>3, StopsFacts
    <3>3. PICK s \in Int : s = poi.score
      BY SightNumbers
    <3>4. key[i] = <<-d, -s>>
      BY <1>7, <3>1, <3>2, <3>3
    <3> QED BY <3>4
  <2> QED BY <2>1
<1>9. FirstMin(order, key) \in others
  BY <1>5, <1>6, <1>8, FirstMinFacts
<1>10. Farthest(medoids) = FirstMin(order, key)
  <2>1. DOMAIN pois = Stops
    BY StopsFacts
  <2> QED BY <1>1, <1>2, <1>5, <1>7, <2>1 DEF Farthest
<1> QED BY <1>1, <1>2, <1>9, <1>10

\* The first medoids are as many distinct attractions as there are days.
LEMMA MedoidsSpread ==
  ASSUME Measured, ask.trip \in 1..7, ask.trip <= Len(pois)
  PROVE  Spread(InitialMedoids) /\ Len(InitialMedoids) = ask.trip
<1>1. PICK N \in Nat : N = Len(pois)
  BY StopsFacts
<1>2. PICK k \in Nat : ask.trip = k + 1 /\ k < N
  BY <1>1
<1> DEFINE first == FirstMin(All, [i \in DOMAIN pois |-> <<-pois[i].score, 0>>])
           Chooses(f) == f = [n \in 1..ask.trip |->
                                IF n = 1 THEN <<first>> ELSE Append(f[n - 1], Farthest(f[n - 1]))]
<1>3. InitialMedoids = (CHOOSE f : Chooses(f))[ask.trip]
  BY DEF InitialMedoids, Farthest
<1>4. first \in Stops
  <2>1. PICK all : all = [i \in 1..N |-> i]
    OBVIOUS
  <2>2. all = All /\ Stops = 1..N /\ DOMAIN pois = Stops
    BY <1>1, <2>1, StopsFacts DEF All, Stops
  <2>3. all \in Seq(Stops) /\ all # <<>> /\ ToSet(all) = Stops
    <3>1. all \in [1..N -> Stops]
      BY <2>1, <2>2
    <3>2. all \in Seq(Stops)
      BY <3>1
    <3>3. 1 \in 1..N /\ DOMAIN all = 1..N
      BY <1>2, <2>1
    <3>4. all # <<>>
      BY <3>3
    <3>5. ToSet(all) = Stops
      BY <2>1, <2>2 DEF ToSet
    <3> QED BY <3>2, <3>4, <3>5
  <2>4. PICK key : key = [i \in Stops |-> <<-pois[i].score, 0>>]
    OBVIOUS
  <2>5. \A i \in Stops : key[i][1] \in Int /\ key[i][2] \in Int
    <3>1. ASSUME NEW i \in Stops PROVE key[i][1] \in Int /\ key[i][2] \in Int
      <4>1. PICK poi \in Sights : poi = pois[i]
        BY StopsFacts
      <4>2. PICK s \in Int : s = poi.score
        BY SightNumbers
      <4>3. key[i] = <<-s, 0>>
        BY <2>4, <4>1, <4>2
      <4> QED BY <4>3
    <3> QED BY <3>1
  <2>6. FirstMin(all, key) \in Stops
    BY <2>3, <2>5, FirstMinFacts
  <2>7. first = FirstMin(all, key)
    BY <2>2, <2>4
  <2> QED BY <2>6, <2>7
<1> HIDE DEF first
<1>5. Spread(<<first>>) /\ Len(<<first>>) = 1
  <2>0. PICK x \in Stops : x = first
    BY <1>4
  <2>4. <<x>> \in Seq(Stops) /\ Len(<<x>>) = 1
    OBVIOUS
  <2>1. PICK one \in Seq(Stops) : one = <<first>> /\ Len(one) = 1
    BY <2>0, <2>4
  <2>2. \A a, b \in 1..1 : a = b
    OBVIOUS
  <2>3. Spread(one)
    BY <2>1, <2>2 DEF Spread
  <2> QED BY <2>1, <2>3
<1>6. PICK S : S = {list \in Seq(Stops) : Spread(list)}
  OBVIOUS
<1> DEFINE next(list) == IF Len(list) < N THEN Append(list, Farthest(list)) ELSE list
<1>7. ASSUME NEW list \in S
      PROVE  next(list) \in S /\ (Len(list) < N => Len(next(list)) = Len(list) + 1)
  <2>1. Spread(list) /\ list \in Seq(Stops)
    BY <1>6
  <2>2. CASE Len(list) < N
    <3>1. PICK x \in Stops : x = Farthest(list) /\ x \notin ToSet(list)
      BY <1>1, <2>1, <2>2, FarthestIsNew
    <3>2. Spread(Append(list, x)) /\ Len(Append(list, x)) = Len(list) + 1
      BY <2>1, <3>1, SpreadFurther
    <3>3. Append(list, x) \in Seq(Stops)
      BY <3>2 DEF Spread
    <3>4. next(list) = Append(list, x)
      BY <2>2, <3>1
    <3> HIDE DEF next
    <3> QED BY <1>6, <3>2, <3>3, <3>4
  <2>3. CASE ~(Len(list) < N)
    BY <2>3
  <2> QED BY <2>2, <2>3
<1> HIDE DEF next
<1>8. PICK step : step = [q \in (1..k) \X S |-> next(q[2])]
  OBVIOUS
<1>9. step \in [(1..k) \X S -> S]
  BY <1>7, <1>8
<1>10. PICK start \in S : start = <<first>>
  BY <1>5, <1>6 DEF Spread
<1>11. PICK g \in [0..k -> S] : Computes(g, k, start, step)
  BY <1>9, Recursion
<1>12. \A n \in 1..k : g[n] = next(g[n - 1])
  <2>1. ASSUME NEW n \in 1..k PROVE g[n] = next(g[n - 1])
    <3>1. PICK x \in S : x = g[n - 1]
      OBVIOUS
    <3>2. g[n] = step[<<n, x>>]
      BY <1>11, <3>1 DEF Computes
    <3>3. step[<<n, x>>] = next(x)
      BY <1>8
    <3> QED BY <3>1, <3>2, <3>3
  <2> QED BY <2>1
<1>13. \A n \in 0..k : Len(g[n]) = n + 1
  <2> DEFINE A == {n \in 0..k : Len(g[n]) = n + 1}
  <2>1. 0 \in A
    BY <1>5, <1>10, <1>11 DEF Computes
  <2>2. ASSUME NEW n \in 1..k, n - 1 \in A PROVE n \in A
    <3>1. PICK x \in S : x = g[n - 1] /\ Len(x) = n
      BY <2>2
    <3>2. Len(x) < N
      BY <1>2, <3>1
    <3> QED BY <1>7, <1>12, <3>1, <3>2
  <2> HIDE DEF A
  <2>3. \A n \in 0..k : n \in A
    BY <2>1, <2>2, StepByStep
  <2> QED BY <2>3 DEF A
<1>14. PICK f : f = [n \in 1..ask.trip |-> g[n - 1]]
  OBVIOUS
<1>15. ASSUME NEW n \in 1..ask.trip
       PROVE  f[n] = IF n = 1 THEN <<first>> ELSE Append(f[n - 1], Farthest(f[n - 1]))
  <2>1. CASE n = 1
    BY <1>14, <2>1, <1>10, <1>11 DEF Computes
  <2>2. CASE n # 1
    <3>1. PICK j \in 1..k : n = j + 1
      BY <1>2, <2>2
    <3>2. f[n] = g[j] /\ f[j] = g[j - 1] /\ n - 1 = j /\ j - 1 \in 0..k
      BY <1>2, <1>14, <3>1
    <3>3. PICK x \in S : x = g[j - 1] /\ Len(x) = j
      BY <1>13, <3>2
    <3>4. Len(x) < N
      BY <1>2, <3>3
    <3>5. next(x) = Append(x, Farthest(x))
      BY <3>4 DEF next
    <3>6. g[j] = next(x)
      BY <1>12, <3>3
    <3> QED BY <2>2, <3>2, <3>3, <3>5, <3>6
  <2> QED BY <2>1, <2>2
<1>16. Chooses(f)
  BY <1>14, <1>15
<1> HIDE DEF Chooses
<1>17. PICK h : h = CHOOSE b : Chooses(b)
  OBVIOUS
<1>18. Chooses(h)
  BY <1>16, <1>17
<1>19. \A n \in 1..ask.trip :
         h[n] = IF n = 1 THEN <<first>> ELSE Append(h[n - 1], Farthest(h[n - 1]))
  BY <1>18 DEF Chooses
<1>20. \A n \in 0..k : Spread(h[n + 1]) /\ Len(h[n + 1]) = n + 1
  <2> DEFINE A == {n \in 0..k : Spread(h[n + 1]) /\ Len(h[n + 1]) = n + 1}
  <2>1. 0 \in A
    BY <1>2, <1>19, <1>5
  <2>2. ASSUME NEW n \in 1..k, n - 1 \in A PROVE n \in A
    <3>1. PICK x : x = h[n] /\ Spread(x) /\ Len(x) = n
      <4>1. (n - 1) + 1 = n
        OBVIOUS
      <4> QED BY <2>2, <4>1
    <3>2. n + 1 \in 1..ask.trip /\ n + 1 # 1 /\ (n + 1) - 1 = n /\ n \in 0..k /\ n < N
      BY <1>2
    <3>3. h[n + 1] = Append(x, Farthest(x))
      BY <1>19, <3>1, <3>2
    <3>4. PICK y \in Stops : y = Farthest(x) /\ y \notin ToSet(x)
      BY <1>1, <3>1, <3>2, FarthestIsNew
    <3>5. Spread(Append(x, y)) /\ Len(Append(x, y)) = n + 1
      BY <3>1, <3>4, SpreadFurther
    <3> QED BY <3>2, <3>3, <3>4, <3>5
  <2> HIDE DEF A
  <2>3. \A n \in 0..k : n \in A
    BY <2>1, <2>2, StepByStep
  <2> QED BY <2>3 DEF A
<1>21. Spread(h[ask.trip]) /\ Len(h[ask.trip]) = ask.trip
  <2>1. k \in 0..k
    OBVIOUS
  <2> QED BY <1>2, <1>20, <2>1
<1> QED BY <1>3, <1>17, <1>21

-----------------------------------------------------------------------------
(* Groups that share nothing *)

\* Sorting by a pair of integers, the greatest first, then by position.
Ranks(S, key, earlier) ==
  earlier = [i \in S |-> {j \in S : \/ Before(key[i], key[j])
                                    \/ key[i] = key[j] /\ j < i}]

\* Attractions are ordered by rank, and by position at equal ranks.
LEMMA RankedOrder ==
  ASSUME NEW S \in SUBSET Int, NEW key \in [S -> Int \X Int],
         NEW earlier, Ranks(S, key, earlier)
  PROVE  TotalOrder(S, earlier)
<1>1. earlier \in [S -> SUBSET S]
  BY DEF Ranks
<1>2. \A x, y \in S : x \in earlier[y] <=> Before(key[y], key[x]) \/ (key[y] = key[x] /\ x < y)
  BY DEF Ranks
<1>3. \A x \in S : key[x][1] \in Int /\ key[x][2] \in Int /\ x \in Int
                   /\ key[x] = <<key[x][1], key[x][2]>>
  OBVIOUS
<1>4. \A x \in S : x \notin earlier[x]
  <2>1. ASSUME NEW x \in S PROVE x \notin earlier[x]
    <3>1. ~Before(key[x], key[x])
      BY <1>3, BeforeOrder
    <3>2. ~(x < x)
      BY <1>3
    <3> QED BY <1>2, <3>1, <3>2
  <2> QED BY <2>1
<1>5. ASSUME NEW x \in S, NEW y \in S, x \in earlier[y] PROVE earlier[x] \subseteq earlier[y]
  <2>1. ASSUME NEW z \in earlier[x] PROVE z \in earlier[y]
    <3>1. z \in S
      BY <1>1
    <3>2. PICK a, b, c : a = key[x] /\ b = key[y] /\ c = key[z]
      OBVIOUS
    <3>3. /\ a[1] \in Int /\ a[2] \in Int /\ b[1] \in Int /\ b[2] \in Int /\ c[1] \in Int
          /\ c[2] \in Int
      BY <1>3, <3>1, <3>2
    <3>4. Before(b, a) \/ (b = a /\ x < y)
      BY <1>2, <1>5, <3>2
    <3>5. Before(a, c) \/ (a = c /\ z < x)
      BY <1>2, <2>1, <3>1, <3>2
    <3>6. x \in Int /\ y \in Int /\ z \in Int
      BY <3>1
    <3>7. Before(b, a) /\ Before(a, c) => Before(b, c)
      BY <3>3, BeforeOrder
    <3>8. x < y /\ z < x => z < y
      BY <3>6
    <3>9. Before(b, c) \/ (b = c /\ z < y)
      BY <3>4, <3>5, <3>7, <3>8
    <3> QED BY <1>2, <3>1, <3>2, <3>9
  <2> QED BY <2>1
<1>6. ASSUME NEW x \in S, NEW y \in S, x # y PROVE x \in earlier[y] \/ y \in earlier[x]
  <2>1. PICK a, b : a = key[x] /\ b = key[y]
    OBVIOUS
  <2>2. /\ a[1] \in Int /\ a[2] \in Int /\ b[1] \in Int /\ b[2] \in Int
        /\ a = <<a[1], a[2]>> /\ b = <<b[1], b[2]>>
    BY <1>3, <2>1
  <2>3. Before(a, b) \/ Before(b, a) \/ a = b
    <3>1. ~Before(a, b) /\ ~Before(b, a) => a[1] = b[1] /\ a[2] = b[2]
      BY <2>2, BeforeOrder
    <3> QED BY <2>2, <3>1
  <2>4. x < y \/ y < x
    BY <1>3, <1>6
  <2> QED BY <1>2, <2>1, <2>3, <2>4
<1> QED BY <1>1, <1>4, <1>5, <1>6 DEF TotalOrder

-----------------------------------------------------------------------------
(* Groups *)

\* The groups stay apart when another attraction is left out.
LEMMA OneMoreLeft ==
  ASSUME NEW k \in Nat, NEW gs, NEW left, NEW some, GroupsOf(gs, left, some, k),
         NEW x \in Stops, x \notin some
  PROVE  GroupsOf(gs, left \cup {x}, some \cup {x}, k)
<1>1. left \cup {x} \in SUBSET Stops
  BY DEF GroupsOf
<1>2. ASSUME NEW g \in 1..k, NEW m \in DOMAIN gs[g] PROVE gs[g][m] \notin left \cup {x}
  <2>1. gs[g] \in Seq(Stops)
    BY DEF GroupsOf
  <2>2. gs[g][m] \in Stops
    BY <2>1
  <2>3. gs[g][m] \notin left /\ gs[g][m] \in some
    BY <2>2 DEF GroupsOf
  <2> QED BY <2>3
<1>3. \A i \in Stops : i \in some \cup {x} <=>
        i \in left \cup {x} \/ \E g \in 1..k : \E m \in DOMAIN gs[g] : gs[g][m] = i
  BY DEF GroupsOf
<1> QED BY <1>1, <1>2, <1>3 DEF GroupsOf

\* The groups stay apart when another attraction joins one of them.
LEMMA OneMorePlaced ==
  ASSUME NEW k \in Nat, NEW gs, NEW left, NEW some, GroupsOf(gs, left, some, k),
         NEW x \in Stops, x \notin some, NEW at \in 1..k
  PROVE  GroupsOf([gs EXCEPT ![at] = Append(gs[at], x)], left, some \cup {x}, k)
<1>1. /\ gs \in [1..k -> Seq(Stops)] /\ left \in SUBSET Stops
      /\ \A g \in 1..k : gs[g] # <<>>
  BY DEF GroupsOf
<1>2. PICK old \in Seq(Stops) : old = gs[at]
  BY <1>1
<1>3. PICK size \in Nat : size = Len(old) /\ DOMAIN old = 1..size
  OBVIOUS
<1>4. PICK longer \in Seq(Stops) : longer = Append(old, x) /\ longer # <<>>
  BY AppendProperties
<1>5. /\ DOMAIN longer = 1..(size + 1) /\ longer[size + 1] = x
      /\ \A m \in 1..size : longer[m] = old[m]
  <2>1. /\ Len(longer) = size + 1 /\ longer[size + 1] = x
        /\ \A m \in 1..size : longer[m] = old[m]
    BY <1>3, <1>4, AppendProperties
  <2>2. DOMAIN longer = 1..Len(longer)
    OBVIOUS
  <2> QED BY <2>1, <2>2
<1>6. PICK new : new = [gs EXCEPT ![at] = longer]
  OBVIOUS
<1>7. /\ new \in [1..k -> Seq(Stops)] /\ new[at] = longer
      /\ \A g \in 1..k : g # at => new[g] = gs[g]
  BY <1>1, <1>6
<1>8. \A g \in 1..k : new[g] # <<>>
  BY <1>1, <1>4, <1>7
<1>9. \A g \in 1..k : \A m \in DOMAIN gs[g] : gs[g][m] # x /\ gs[g][m] \in Stops
  <2>1. ASSUME NEW g \in 1..k, NEW m \in DOMAIN gs[g] PROVE gs[g][m] # x /\ gs[g][m] \in Stops
    <3>1. gs[g] \in Seq(Stops)
      BY <1>1
    <3>2. gs[g][m] \in Stops
      BY <3>1
    <3>3. gs[g][m] \in some
      BY <3>2 DEF GroupsOf
    <3> QED BY <3>2, <3>3
  <2> QED BY <2>1
<1>10. ASSUME NEW g \in 1..k, NEW m \in DOMAIN new[g]
       PROVE  \/ g = at /\ m = size + 1 /\ new[g][m] = x
              \/ m \in DOMAIN gs[g] /\ new[g][m] = gs[g][m]
  <2>1. CASE g = at
    <3>1. m \in 1..size \/ m = size + 1
      BY <1>5, <1>7, <2>1
    <3> QED BY <1>2, <1>3, <1>5, <1>7, <2>1, <3>1
  <2>2. CASE g # at
    BY <1>7, <2>2
  <2> QED BY <2>1, <2>2
<1>11. ASSUME NEW g \in 1..k, NEW h \in 1..k, NEW m \in DOMAIN new[g], NEW n \in DOMAIN new[h],
              new[g][m] = new[h][n]
       PROVE  g = h /\ m = n
  <2>1. CASE m \in DOMAIN gs[g] /\ n \in DOMAIN gs[h] /\ new[g][m] = gs[g][m] /\ new[h][n] = gs[h][n]
    <3>1. gs[g][m] = gs[h][n]
      BY <1>11, <2>1
    <3>2. \A a, b \in 1..k : \A c \in DOMAIN gs[a], d \in DOMAIN gs[b] :
            gs[a][c] = gs[b][d] => a = b /\ c = d
      BY DEF GroupsOf
    <3> QED BY <2>1, <3>1, <3>2
  <2>2. CASE g = at /\ m = size + 1 /\ new[g][m] = x
    <3>1. ~(n \in DOMAIN gs[h] /\ new[h][n] = gs[h][n])
      BY <1>9, <1>11, <2>2
    <3> QED BY <1>10, <2>2, <3>1
  <2>3. CASE h = at /\ n = size + 1 /\ new[h][n] = x
    <3>1. ~(m \in DOMAIN gs[g] /\ new[g][m] = gs[g][m])
      BY <1>9, <1>11, <2>3
    <3> QED BY <1>10, <2>3, <3>1
  <2> QED BY <1>10, <2>1, <2>2, <2>3
<1>12. x \notin left
  BY DEF GroupsOf
<1>13. ASSUME NEW g \in 1..k, NEW m \in DOMAIN new[g] PROVE new[g][m] \notin left
  <2>1. CASE new[g][m] = x
    BY <1>12, <2>1
  <2>2. CASE m \in DOMAIN gs[g] /\ new[g][m] = gs[g][m]
    BY <2>2 DEF GroupsOf
  <2> QED BY <1>10, <2>1, <2>2
<1>14. ASSUME NEW i \in Stops
       PROVE  i \in some \cup {x} <=>
                i \in left \/ \E g \in 1..k : \E m \in DOMAIN new[g] : new[g][m] = i
  <2>1. ASSUME i \in some \cup {x}
        PROVE  i \in left \/ \E g \in 1..k : \E m \in DOMAIN new[g] : new[g][m] = i
    <3>1. CASE i = x
      <4>1. size + 1 \in DOMAIN new[at] /\ new[at][size + 1] = x
        BY <1>5, <1>7
      <4> QED BY <3>1, <4>1
    <3>2. CASE i # x
      <4>1. i \in left \/ \E g \in 1..k : \E m \in DOMAIN gs[g] : gs[g][m] = i
        BY <2>1, <3>2 DEF GroupsOf
      <4>2. ASSUME NEW g \in 1..k, NEW m \in DOMAIN gs[g]
            PROVE  m \in DOMAIN new[g] /\ new[g][m] = gs[g][m]
        <5>1. CASE g = at
          <6>1. m \in 1..size /\ m \in 1..(size + 1)
            BY <1>2, <1>3, <5>1
          <6> QED BY <1>2, <1>5, <1>7, <5>1, <6>1
        <5>2. CASE g # at
          BY <1>7, <5>2
        <5> QED BY <5>1, <5>2
      <4> QED BY <4>1, <4>2
    <3> QED BY <3>1, <3>2
  <2>2. ASSUME NEW g \in 1..k, NEW m \in DOMAIN new[g], new[g][m] = i PROVE i \in some \cup {x}
    <3>1. CASE new[g][m] = x
      BY <2>2, <3>1
    <3>2. CASE m \in DOMAIN gs[g] /\ new[g][m] = gs[g][m]
      <4>1. gs[g][m] = i
        BY <2>2, <3>2
      <4> QED BY <3>2, <4>1 DEF GroupsOf
    <3> QED BY <1>10, <3>1, <3>2
  <2>3. i \in left => i \in some \cup {x}
    BY DEF GroupsOf
  <2> QED BY <2>1, <2>2, <2>3
<1>15. GroupsOf(new, left, some \cup {x}, k)
  BY <1>1, <1>7, <1>8, <1>11, <1>13, <1>14 DEF GroupsOf
<1> QED BY <1>2, <1>4, <1>6, <1>15

-----------------------------------------------------------------------------
(* One attraction placed in a group *)

\* The regret is a pair of integers.
LEMMA RegretTyped ==
  ASSUME Measured, NEW medoids, Spread(medoids), NEW i \in Stops
  PROVE  Regret(i, medoids) \in Int \X Int
<1>1. PICK T \in SUBSET Stops : T = ToSet(medoids) /\ T # {}
  BY SpreadFacts
<1>2. medoids \in Seq(Stops) /\ medoids # <<>>
  BY SpreadFacts
<1>3. PICK key : key = [m \in T |-> <<Apart(i, m), 0>>]
  OBVIOUS
<1>4. \A m \in T : key[m][1] \in Int /\ key[m][2] \in Int
  <2>1. ASSUME NEW m \in T PROVE key[m][1] \in Int /\ key[m][2] \in Int
    <3>1. Apart(i, m) \in Int
      BY ApartTyped
    <3> QED BY <1>3, <3>1
  <2> QED BY <2>1
<1>5. PICK nearest \in T : nearest = FirstMin(medoids, key)
  BY <1>1, <1>2, <1>4, FirstMinFacts
<1>6. PICK others \in SUBSET Stops : others = T \ {nearest}
  OBVIOUS
<1>7. PICK near \in Int : near = Apart(i, nearest)
  BY ApartTyped
<1>8. PICK second : second = Min({Apart(i, m) : m \in others})
  OBVIOUS
<1>9. others # {} => second \in Int
  BY <1>8, NearestTyped
<1>10. PICK visit \in Int : visit = pois[i].visit
  <2>1. PICK poi \in Sights : poi = pois[i]
    BY StopsFacts
  <2> QED BY <2>1, SightNumbers
<1>11. Regret(i, medoids) = <<IF others = {} THEN near ELSE second - near, visit>>
  BY <1>1, <1>3, <1>5, <1>6, <1>7, <1>8, <1>10 DEF Regret
<1>12. (IF others = {} THEN near ELSE second - near) \in Int
  BY <1>9
<1> QED BY <1>11, <1>12

\* The attractions in the order in which _assign_to_medoids gives them a group.
RegretQueue(medoids) ==
  LET others == DOMAIN pois \ ToSet(medoids)
      regret == [i \in others |-> Regret(i, medoids)]
      sooner == [i \in others |->
                   {j \in others : \/ Before(regret[i], regret[j])
                                   \/ regret[i] = regret[j] /\ j < i}]
  IN  Sorted(others, sooner)

\* Every attraction that is no medoid is in the queue once.
LEMMA QueueFacts ==
  ASSUME Measured, NEW medoids, Spread(medoids)
  PROVE  /\ RegretQueue(medoids) \in Seq(Stops)
         /\ Len(RegretQueue(medoids)) \in Nat
         /\ \A m, n \in 1..Len(RegretQueue(medoids)) :
              RegretQueue(medoids)[m] = RegretQueue(medoids)[n] => m = n
         /\ \A i \in Stops : i \in ToSet(medoids) <=>
              ~\E n \in 1..Len(RegretQueue(medoids)) : RegretQueue(medoids)[n] = i
<1>1. PICK others : others = Stops \ ToSet(medoids)
  OBVIOUS
<1>2. others \in SUBSET Int /\ others \in SUBSET Stops /\ IsFiniteSet(others)
  BY <1>1, StopsFacts, FS_Subset
<1>3. PICK regret : regret = [i \in others |-> Regret(i, medoids)]
  OBVIOUS
<1>4. regret \in [others -> Int \X Int]
  BY <1>2, RegretTyped, <1>3
<1>5. PICK sooner : Ranks(others, regret, sooner)
  BY DEF Ranks
<1>6. TotalOrder(others, sooner)
  BY <1>2, <1>4, <1>5, RankedOrder
<1>7. PICK size \in Nat : size = Cardinality(others)
  BY <1>2, FS_CardinalityType
<1>8. PICK queue : queue = Sorted(others, sooner)
  OBVIOUS
<1>9. /\ queue \in Seq(others) /\ Len(queue) = size
      /\ \A m, n \in 1..size : queue[m] = queue[n] => m = n
      /\ \A x \in others : \E n \in 1..size : queue[n] = x
      /\ \A n \in 1..size : queue[n] \in others
  <2>1. queue \in Seq(others) /\ Len(queue) = size
    BY <1>2, <1>6, <1>7, <1>8, SortedSequence
  <2>2. /\ \A m, n \in 1..size : queue[m] = queue[n] => m = n
        /\ \A x \in others : \E n \in 1..size : queue[n] = x
        /\ queue \in [1..size -> others]
    BY <1>2, <1>6, <1>7, <1>8, SortedFacts
  <2> QED BY <2>1, <2>2
<1>10. RegretQueue(medoids) = queue
  <2>1. DOMAIN pois = Stops
    BY StopsFacts
  <2>2. DOMAIN pois \ ToSet(medoids) = others
    BY <1>1, <2>1
  <2> QED BY <1>3, <1>5, <1>8, <2>2, Zenon DEF RegretQueue, Ranks
<1>11. queue \in Seq(Stops)
  <2>1. queue \in [1..size -> others]
    BY <1>2, <1>6, <1>7, <1>8, SortedFacts
  <2>2. queue \in [1..size -> Stops]
    BY <1>2, <2>1
  <2> QED BY <1>7, <2>2
<1>12. \A i \in Stops : i \in ToSet(medoids) <=> ~\E n \in 1..size : queue[n] = i
  BY <1>1, <1>9
<1> QED BY <1>7, <1>9, <1>10, <1>11, <1>12

-----------------------------------------------------------------------------

\* The state of _assign_to_medoids: the groups so far, their loads, what is left out.
Assignments(k) == [groups : [1..k -> Seq(Stops)], loads : [1..k -> Int], left : SUBSET Stops]

PlaceOne(acc, i, medoids) ==
  LET size == Len(medoids)
      needs == pois[i].visit + 15
      feasible == {g \in 1..size : acc.loads[g] + needs <= Capacity}
      g == FirstMin(Ascending(feasible),
                    [x \in feasible |-> <<Apart(i, medoids[x]), acc.loads[x]>>])
  IN  IF feasible = {} THEN [acc EXCEPT !.left = @ \cup {i}]
      ELSE [acc EXCEPT !.groups[g] = Append(@, i), !.loads[g] = @ + needs]

Moved(acc, new, i, k) ==
  \/ new.groups = acc.groups /\ new.left = acc.left \cup {i}
  \/ \E at \in 1..k : /\ new.groups = [acc.groups EXCEPT ![at] = Append(acc.groups[at], i)]
                      /\ new.left = acc.left

\* The next attraction is left out or joins one group.
LEMMA PlaceOneFacts ==
  ASSUME Measured, NEW medoids, Spread(medoids), NEW k \in Nat, k = Len(medoids),
         NEW acc \in Assignments(k), NEW i \in Stops
  PROVE  /\ PlaceOne(acc, i, medoids) \in Assignments(k)
         /\ Moved(acc, PlaceOne(acc, i, medoids), i, k)
<1>1. PICK gs, loads, left : gs = acc.groups /\ loads = acc.loads /\ left = acc.left
  OBVIOUS
<1>2. /\ gs \in [1..k -> Seq(Stops)] /\ loads \in [1..k -> Int] /\ left \in SUBSET Stops
      /\ acc = [groups |-> gs, loads |-> loads, left |-> left]
  BY <1>1 DEF Assignments
<1>3. PICK needs \in Int : needs = pois[i].visit + 15
  <2>1. PICK poi \in Sights : poi = pois[i]
    BY StopsFacts
  <2>2. PICK v \in Int : v = poi.visit
    BY SightNumbers
  <2> QED BY <2>1, <2>2
<1>4. PICK feasible : feasible = {g \in 1..k : loads[g] + needs <= Capacity}
  OBVIOUS
<1>5. feasible \in SUBSET (1..k) /\ feasible \in SUBSET Int
  BY <1>4
<1>6. IsFiniteSet(feasible)
  <2>1. IsFiniteSet(1..k)
    BY UpToSize
  <2> QED BY <1>5, <2>1, FS_Subset
<1>7. PICK key : key = [x \in feasible |-> <<Apart(i, medoids[x]), loads[x]>>]
  OBVIOUS
<1>8. PICK g : g = FirstMin(Ascending(feasible), key)
  OBVIOUS
<1>9. PlaceOne(acc, i, medoids) =
        IF feasible = {} THEN [acc EXCEPT !.left = @ \cup {i}]
        ELSE [acc EXCEPT !.groups[g] = Append(@, i), !.loads[g] = @ + needs]
  BY <1>1, <1>3, <1>4, <1>7, <1>8 DEF PlaceOne
<1>10. CASE feasible = {}
  BY <1>2, <1>9, <1>10, <1>1 DEF Assignments, Moved
<1>11. CASE feasible # {}
  <2>1. \A x \in feasible : key[x][1] \in Int /\ key[x][2] \in Int
    <3>1. ASSUME NEW x \in feasible PROVE key[x][1] \in Int /\ key[x][2] \in Int
      <4>1. PICK m \in Stops : m = medoids[x]
        BY <1>5, SpreadFacts
      <4>2. Apart(i, m) \in Int
        BY ApartTyped
      <4>3. loads[x] \in Int
        BY <1>2, <1>5
      <4> QED BY <1>7, <4>1, <4>2, <4>3
    <3> QED BY <3>1
  <2>2. PICK order \in Seq(feasible) : order = Ascending(feasible) /\ ToSet(order) = feasible
    BY <1>5, <1>6, AscendingFacts
  <2>3. order # <<>>
    BY <1>11, <2>2 DEF ToSet
  <2>4. g \in feasible
    BY <1>8, <2>1, <2>2, <2>3, FirstMinFacts
  <2>5. g \in 1..k
    BY <1>5, <2>4
  <2>6. PICK new : new = [gs EXCEPT ![g] = Append(gs[g], i)]
    OBVIOUS
  <2>7. PICK sums : sums = [loads EXCEPT ![g] = loads[g] + needs]
    OBVIOUS
  <2>8. PlaceOne(acc, i, medoids) = [groups |-> new, loads |-> sums, left |-> left]
    BY <1>2, <1>9, <1>11, <2>6, <2>7
  <2>9. new \in [1..k -> Seq(Stops)]
    BY <1>2, <2>5, AppendProperties, <2>6
  <2>10. sums \in [1..k -> Int]
    <3>1. loads[g] \in Int
      BY <1>2, <2>5
    <3>2. loads[g] + needs \in Int
      BY <3>1
    <3> QED BY <1>2, <2>5, <2>7, <3>2
  <2>11. PlaceOne(acc, i, medoids) \in Assignments(k)
    BY <1>2, <2>8, <2>9, <2>10 DEF Assignments
  <2>12. Moved(acc, PlaceOne(acc, i, medoids), i, k)
    <3>1. PICK placed : placed = PlaceOne(acc, i, medoids)
      OBVIOUS
    <3>2. placed.groups = new /\ placed.left = left
      BY <2>8, <3>1
    <3>3. /\ placed.groups = [acc.groups EXCEPT ![g] = Append(acc.groups[g], i)]
          /\ placed.left = acc.left
      BY <1>1, <2>6, <3>2
    <3>4. Moved(acc, placed, i, k)
      BY <2>5, <3>3 DEF Moved
    <3> QED BY <3>1, <3>4
  <2> QED BY <2>11, <2>12
<1> QED BY <1>10, <1>11

\* The groups stay apart when the next attraction is placed.
LEMMA MovedGroups ==
  ASSUME NEW k \in Nat, NEW acc, NEW new, NEW i \in Stops, Moved(acc, new, i, k),
         NEW some, i \notin some, GroupsOf(acc.groups, acc.left, some, k)
  PROVE  GroupsOf(new.groups, new.left, some \cup {i}, k)
<1>1. CASE new.groups = acc.groups /\ new.left = acc.left \cup {i}
  BY <1>1, OneMoreLeft
<1>2. CASE \E at \in 1..k : /\ new.groups = [acc.groups EXCEPT ![at] = Append(acc.groups[at], i)]
                            /\ new.left = acc.left
  <2>1. PICK at \in 1..k : /\ new.groups = [acc.groups EXCEPT ![at] = Append(acc.groups[at], i)]
                           /\ new.left = acc.left
    BY <1>2
  <2>2. GroupsOf([acc.groups EXCEPT ![at] = Append(acc.groups[at], i)], acc.left, some \cup {i}, k)
    BY OneMorePlaced
  <2> QED BY <2>1, <2>2
<1> QED BY <1>1, <1>2 DEF Moved

\* At first every group has its medoid alone.
LEMMA FirstGroups ==
  ASSUME Measured, NEW medoids, Spread(medoids), NEW k \in Nat, k = Len(medoids)
  PROVE  GroupsOf([g \in 1..k |-> <<medoids[g]>>], {}, ToSet(medoids), k)
<1>1. PICK gs : gs = [g \in 1..k |-> <<medoids[g]>>]
  OBVIOUS
<1>2. medoids \in [1..k -> Stops] /\ DOMAIN medoids = 1..k
  BY SpreadFacts
<1>3. ASSUME NEW g \in 1..k
      PROVE  gs[g] \in Seq(Stops) /\ gs[g] # <<>> /\ DOMAIN gs[g] = {1} /\ gs[g][1] = medoids[g]
  <2>1. PICK m \in Stops : m = medoids[g]
    BY <1>2
  <2>2. gs[g] = <<m>>
    BY <1>1, <2>1
  <2>3. <<m>> \in Seq(Stops) /\ <<m>> # <<>> /\ DOMAIN <<m>> = {1} /\ <<m>>[1] = m
    OBVIOUS
  <2> QED BY <2>1, <2>2, <2>3
<1>4. gs \in [1..k -> Seq(Stops)]
  BY <1>1, <1>3
<1>5. \A g, h \in 1..k : medoids[g] = medoids[h] => g = h
  BY DEF Spread
<1>6. \A g, h \in 1..k : \A m \in DOMAIN gs[g], n \in DOMAIN gs[h] :
        gs[g][m] = gs[h][n] => g = h /\ m = n
  BY <1>3, <1>5
<1>7. \A i \in Stops : i \in ToSet(medoids) <=>
         i \in {} \/ \E g \in 1..k : \E m \in DOMAIN gs[g] : gs[g][m] = i
  BY <1>2, <1>3 DEF ToSet
<1>8. GroupsOf(gs, {}, ToSet(medoids), k)
  BY <1>3, <1>4, <1>6, <1>7 DEF GroupsOf
<1> QED BY <1>1, <1>8

-----------------------------------------------------------------------------
(* One round of capacitated_k_medoids *)

\* A round partitions the attractions into groups and those left out.
LEMMA AssignedFacts ==
  ASSUME Measured, NEW medoids, Spread(medoids), NEW k \in Nat, k = Len(medoids)
  PROVE  GroupsOf(Assigned(medoids).groups, Assigned(medoids).left, Stops, k)
<1>1. PICK queue : queue = RegretQueue(medoids)
  OBVIOUS
<1>2. PICK N \in Nat : N = Len(queue) /\ DOMAIN queue = 1..N
  <2>1. queue \in Seq(Stops)
    BY <1>1, QueueFacts
  <2> QED BY <2>1
<1>3. /\ queue \in [1..N -> Stops]
      /\ \A m, n \in 1..N : queue[m] = queue[n] => m = n
      /\ \A i \in Stops : i \in ToSet(medoids) <=> ~\E n \in 1..N : queue[n] = i
  BY <1>1, QueueFacts, <1>2
<1>4. PICK start : start = [groups |-> [g \in 1..k |-> <<medoids[g]>>],
                            loads |-> [g \in 1..k |-> pois[medoids[g]].visit], left |-> {}]
  OBVIOUS
<1>5. GroupsOf(start.groups, start.left, ToSet(medoids), k)
  BY <1>4, FirstGroups
<1>6. start \in Assignments(k)
  <2>1. PICK loads : loads = [g \in 1..k |-> pois[medoids[g]].visit]
    OBVIOUS
  <2>2. ASSUME NEW g \in 1..k PROVE loads[g] \in Int
    <3>1. PICK m \in Stops : m = medoids[g]
      BY SpreadFacts
    <3>2. PICK poi \in Sights : poi = pois[m]
      BY StopsFacts
    <3>3. poi.visit \in Int
      BY SightNumbers
    <3> QED BY <2>1, <3>1, <3>2, <3>3
  <2>3. loads \in [1..k -> Int]
    BY <2>1, <2>2
  <2>4. start.groups \in [1..k -> Seq(Stops)]
    BY <1>5 DEF GroupsOf
  <2>5. PICK gs : gs = start.groups
    OBVIOUS
  <2>6. start = [groups |-> gs, loads |-> loads, left |-> {}]
    BY <1>4, <2>1, <2>5
  <2> QED BY <2>3, <2>4, <2>5, <2>6 DEF Assignments
<1> DEFINE Fix(b) == b = [n \in 0..N |->
                            IF n = 0 THEN start ELSE PlaceOne(b[n - 1], queue[n], medoids)]
<1>7. Assigned(medoids) = (CHOOSE b : Fix(b))[N]
  BY <1>1, <1>2, <1>4 DEF Assigned, RegretQueue, PlaceOne
<1>8. PICK A : A = Assignments(k)
  OBVIOUS
<1>9. PICK step : step = [x \in (1..N) \X A |-> PlaceOne(x[2], queue[x[1]], medoids)]
  OBVIOUS
<1>10. step \in [(1..N) \X A -> A]
  <2>1. ASSUME NEW n \in 1..N, NEW acc \in A PROVE PlaceOne(acc, queue[n], medoids) \in A
    <3>1. PICK i \in Stops : i = queue[n]
      BY <1>3
    <3> QED BY <1>8, <3>1, PlaceOneFacts
  <2> QED BY <1>9, <2>1
<1>11. PICK f \in [0..N -> A] : Computes(f, N, start, step)
  BY <1>6, <1>8, <1>10, Recursion
<1>12. ASSUME NEW n \in 0..N
       PROVE  f[n] = IF n = 0 THEN start ELSE PlaceOne(f[n - 1], queue[n], medoids)
  <2>1. CASE n = 0
    BY <1>11, <2>1 DEF Computes
  <2>2. CASE n # 0
    <3>1. n \in 1..N /\ n - 1 \in 0..N
      BY <2>2
    <3>2. PICK acc \in A : acc = f[n - 1]
      BY <3>1
    <3>3. f[n] = step[<<n, acc>>]
      BY <1>11, <3>1, <3>2 DEF Computes
    <3>4. step[<<n, acc>>] = PlaceOne(acc, queue[n], medoids)
      BY <1>9, <3>1
    <3> QED BY <2>2, <3>2, <3>3, <3>4
  <2> QED BY <2>1, <2>2
<1>13. Fix(f)
  BY <1>12
<1> HIDE DEF Fix
<1>14. PICK h : h = CHOOSE b : Fix(b)
  OBVIOUS
<1>15. Fix(h)
  BY <1>13, <1>14
<1>16. \A n \in 0..N : h[n] = IF n = 0 THEN start ELSE PlaceOne(h[n - 1], queue[n], medoids)
  BY <1>15 DEF Fix
<1> DEFINE some(n) == ToSet(medoids) \cup {queue[m] : m \in 1..n}
           B == {n \in 0..N : h[n] \in A /\ GroupsOf(h[n].groups, h[n].left, some(n), k)}
<1>17. 0 \in B
  <2>1. 0 \in 0..N /\ h[0] = start
    BY <1>16
  <2>2. 1..0 = {}
    OBVIOUS
  <2>3. some(0) = ToSet(medoids)
    BY <2>2
  <2> HIDE DEF some
  <2> QED BY <1>5, <1>6, <1>8, <2>1, <2>3
<1>18. ASSUME NEW n \in 1..N, n - 1 \in B PROVE n \in B
  <2>1. PICK acc \in A : acc = h[n - 1] /\ GroupsOf(acc.groups, acc.left, some(n - 1), k)
    BY <1>18
  <2>2. PICK x \in Stops : x = queue[n]
    BY <1>3
  <2>3. PICK new : new = PlaceOne(acc, x, medoids)
    OBVIOUS
  <2>4. h[n] = new /\ n \in 0..N
    BY <1>16, <2>1, <2>2, <2>3
  <2>5. new \in A /\ Moved(acc, new, x, k)
    BY <1>8, <2>3, PlaceOneFacts
  <2>6. x \notin some(n - 1)
    <3>1. x \notin ToSet(medoids)
      BY <1>3, <2>2
    <3>2. \A m \in 1..(n - 1) : queue[m] # x
      <4>1. ASSUME NEW m \in 1..(n - 1) PROVE queue[m] # x
        BY <1>3, <2>2
      <4> QED BY <4>1
    <3> QED BY <3>1, <3>2
  <2>7. some(n) = some(n - 1) \cup {x}
    <3>1. 1..n = (1..(n - 1)) \cup {n}
      OBVIOUS
    <3>2. {queue[m] : m \in 1..n} = {queue[m] : m \in 1..(n - 1)} \cup {x}
      BY <2>2, <3>1, Zenon
    <3> QED BY <3>2
  <2> HIDE DEF some
  <2>8. GroupsOf(new.groups, new.left, some(n - 1) \cup {x}, k)
    BY <2>1, <2>5, <2>6, MovedGroups
  <2> QED BY <2>4, <2>5, <2>7, <2>8
<1>19. N \in B
  <2> HIDE DEF B
  <2>1. \A n \in 0..N : n \in B
    BY <1>17, <1>18, StepByStep
  <2> QED BY <2>1
<1>20. PICK last : last = h[N] /\ GroupsOf(last.groups, last.left, some(N), k)
  BY <1>19
<1>21. \A i \in Stops : i \in some(N)
  BY <1>3
<1>22. GroupsOf(last.groups, last.left, Stops, k)
  <2> HIDE DEF some
  <2> QED BY <1>20, <1>21 DEF GroupsOf
<1> QED BY <1>7, <1>14, <1>20, <1>22

-----------------------------------------------------------------------------

\* The distance from all members of a group is an integer.
LEMMA ApartFromAllTyped ==
  ASSUME Measured, NEW i \in Stops, NEW list \in Seq(Stops)
  PROVE  ApartFromAll(i, list) \in Int
<1>1. PICK n \in Nat : n = Len(list) /\ DOMAIN list = 1..n
  OBVIOUS
<1>2. PICK P : P = 1..n
  OBVIOUS
<1>3. IsFiniteSet(P)
  BY <1>2, UpToSize
<1>4. PICK f : f = [a \in P |-> Apart(i, list[a])]
  OBVIOUS
<1>5. \A a \in P : f[a] \in Int
  <2>1. ASSUME NEW a \in P PROVE f[a] \in Int
    <3>1. PICK j \in Stops : j = list[a]
      BY <1>1, <1>2
    <3>2. Apart(i, j) \in Int
      BY ApartTyped
    <3> QED BY <1>4, <3>1, <3>2
  <2> QED BY <2>1
<1>6. SumFunctionOnSet(f, P) \in Int
  BY <1>3, <1>5, SumFacts
<1>7. DOMAIN f = P
  BY <1>4
<1>8. ApartFromAll(i, list) = SumFunction(f)
  BY <1>1, <1>2, <1>4, Zenon DEF ApartFromAll
<1> QED BY <1>6, <1>7, <1>8 DEF SumFunction

\* A group is a sequence of distinct attractions, with at least one.
LEMMA GroupMembers ==
  ASSUME NEW k \in Nat, NEW gs, NEW left, NEW some, GroupsOf(gs, left, some, k), NEW g \in 1..k
  PROVE  /\ gs[g] \in Seq(Stops) /\ gs[g] # <<>> /\ ToSet(gs[g]) \in SUBSET Stops
         /\ Len(gs[g]) \in Nat /\ DOMAIN gs[g] = 1..Len(gs[g])
         /\ \A n \in DOMAIN gs[g] : gs[g][n] \in Stops
         /\ \A m, n \in DOMAIN gs[g] : gs[g][m] = gs[g][n] => m = n
         /\ \A i \in ToSet(gs[g]) : i \in Stops /\ \E n \in DOMAIN gs[g] : gs[g][n] = i
<1>1. gs[g] \in Seq(Stops) /\ gs[g] # <<>>
  BY DEF GroupsOf
<1>2. PICK list \in Seq(Stops) : list = gs[g]
  BY <1>1
<1>3. Len(list) \in Nat /\ DOMAIN list = 1..Len(list) /\ \A n \in DOMAIN list : list[n] \in Stops
  OBVIOUS
<1>4. \A m, n \in DOMAIN gs[g] : gs[g][m] = gs[g][n] => m = n
  BY DEF GroupsOf
<1>5. \A i \in ToSet(list) : i \in Stops /\ \E n \in DOMAIN list : list[n] = i
  BY <1>3 DEF ToSet
<1> QED BY <1>1, <1>2, <1>3, <1>4, <1>5

\* The new medoids are distinct: each is of its own group.
LEMMA RecentredFacts ==
  ASSUME Measured, NEW k \in Nat, k >= 1, NEW gs, NEW left, NEW some, GroupsOf(gs, left, some, k)
  PROVE  Spread(Recentred(gs)) /\ Len(Recentred(gs)) = k
<1>1. DOMAIN gs = 1..k
  BY DEF GroupsOf
<1>2. PICK new : new = Recentred(gs)
  OBVIOUS
<1>3. ASSUME NEW g \in 1..k PROVE new[g] \in ToSet(gs[g]) /\ new[g] \in Stops
  <2>1. PICK list \in Seq(Stops) : list = gs[g] /\ list # <<>> /\ ToSet(list) \in SUBSET Stops
    BY GroupMembers
  <2>2. PICK key : key = [i \in ToSet(list) |-> <<ApartFromAll(i, list), 0>>]
    OBVIOUS
  <2>3. \A i \in ToSet(list) : key[i][1] \in Int /\ key[i][2] \in Int
    BY <2>1, ApartFromAllTyped, <2>2
  <2>4. FirstMin(list, key) \in ToSet(list) /\ FirstMin(list, key) \in Stops
    BY <2>1, <2>3, FirstMinFacts
  <2>5. new[g] = FirstMin(list, key)
    BY <1>1, <1>2, <2>1, <2>2 DEF Recentred
  <2> QED BY <2>1, <2>4, <2>5
<1>4. new \in [1..k -> Stops]
  BY <1>1, <1>2, <1>3 DEF Recentred
<1>5. new \in Seq(Stops) /\ Len(new) = k /\ new # <<>>
  BY <1>4
<1>6. ASSUME NEW g \in 1..k, NEW h \in 1..k, new[g] = new[h] PROVE g = h
  <2>1. PICK m \in DOMAIN gs[g] : gs[g][m] = new[g]
    <3>1. \A i \in ToSet(gs[g]) : \E m \in DOMAIN gs[g] : gs[g][m] = i
      BY GroupMembers, ZenonT(60)
    <3> QED BY <1>3, <3>1
  <2>2. PICK n \in DOMAIN gs[h] : gs[h][n] = new[h]
    <3>1. \A i \in ToSet(gs[h]) : \E n \in DOMAIN gs[h] : gs[h][n] = i
      BY GroupMembers
    <3> QED BY <1>3, <3>1
  <2>3. gs[g][m] = gs[h][n]
    BY <1>6, <2>1, <2>2
  <2> QED BY <2>3 DEF GroupsOf
<1>7. Spread(new)
  BY <1>5, <1>6 DEF Spread
<1> QED BY <1>2, <1>5, <1>7

-----------------------------------------------------------------------------
(* Trimming a group *)

\* A group without one of its attractions, which is left out.
LEMMA TrimKeeps ==
  ASSUME NEW k \in Nat, NEW gs, NEW left, GroupsOf(gs, left, Stops, k), NEW at \in 1..k,
         Len(gs[at]) > 1, NEW least \in ToSet(gs[at]),
         NEW kept, kept = {n \in DOMAIN gs[at] : gs[at][n] # least}
  PROVE  GroupsOf([gs EXCEPT ![at] = PartOf(gs[at], kept)], left \cup {least}, Stops, k)
<1>1. PICK old \in Seq(Stops) : old = gs[at]
  BY GroupMembers
<1>2. PICK size \in Nat : size = Len(old) /\ DOMAIN old = 1..size /\ size > 1
  BY <1>1
<1>3. /\ \A m, n \in 1..size : old[m] = old[n] => m = n
      /\ least \in Stops /\ \E n \in 1..size : old[n] = least
      /\ \A n \in 1..size : old[n] \in Stops
  <2>1. \A m, n \in DOMAIN old : old[m] = old[n] => m = n
    BY <1>1, GroupMembers
  <2>2. \A i \in ToSet(old) : i \in Stops /\ \E n \in DOMAIN old : old[n] = i
    BY <1>1, GroupMembers
  <2>3. \A m, n \in 1..size : old[m] = old[n] => m = n
    BY <1>2, <2>1
  <2>4. least \in ToSet(old)
    BY <1>1
  <2>5. least \in Stops /\ \E n \in 1..size : old[n] = least
    BY <1>2, <2>2, <2>4
  <2>6. \A n \in 1..size : old[n] \in Stops
    BY <1>1, <1>2
  <2> QED BY <2>3, <2>5, <2>6
<1>4. kept \in SUBSET DOMAIN old /\ kept = {n \in 1..size : old[n] # least}
  BY <1>1, <1>2
<1>5. PICK short \in Seq(Stops) : short = PartOf(old, kept) /\ \E p : Positions(p, old, kept)
  BY <1>4, PartPositions
<1>6. PICK p : Positions(p, old, kept)
  BY <1>5
<1>7. PICK s \in Nat : s = Cardinality(kept)
  BY <1>6 DEF Positions
<1>8. /\ DOMAIN short = 1..s /\ p \in [1..s -> kept]
      /\ \A n \in 1..s : short[n] = old[p[n]]
      /\ \A m, n \in 1..s : p[m] = p[n] => m = n
      /\ \A x \in kept : \E n \in 1..s : p[n] = x
  BY <1>5, <1>6, <1>7 DEF Positions
<1>9. short # <<>>
  <2>1. 1 \in 1..size /\ 2 \in 1..size /\ 1 # 2
    BY <1>2
  <2>2. old[1] # least \/ old[2] # least
    BY <1>3, <2>1
  <2>3. PICK x : x \in kept
    BY <1>4, <2>1, <2>2
  <2>4. PICK n : n \in DOMAIN short
    BY <1>8, <2>3
  <2>5. DOMAIN <<>> = {}
    OBVIOUS
  <2> QED BY <2>4, <2>5
<1>10. ASSUME NEW n \in DOMAIN short
       PROVE  \E m \in 1..size : short[n] = old[m] /\ p[n] = m /\ old[m] # least
  BY <1>4, <1>8
<1>11. \A m, n \in DOMAIN short : short[m] = short[n] => m = n
  <2>1. ASSUME NEW m \in DOMAIN short, NEW n \in DOMAIN short, short[m] = short[n] PROVE m = n
    BY <1>10, <2>1, <1>3, <1>8
  <2> QED BY <2>1
<1>12. \A i \in Stops : (\E n \in DOMAIN short : short[n] = i)
                          <=> (i # least /\ \E m \in 1..size : old[m] = i)
  <2>1. ASSUME NEW m \in 1..size, old[m] # least PROVE \E n \in DOMAIN short : short[n] = old[m]
    <3>1. m \in kept
      BY <1>4, <2>1
    <3>2. PICK n \in 1..s : p[n] = m
      BY <1>8, <3>1
    <3>3. short[n] = old[m] /\ n \in DOMAIN short
      BY <1>8, <3>2
    <3> QED BY <3>3
  <2>2. ASSUME NEW n \in DOMAIN short PROVE \E m \in 1..size : old[m] = short[n] /\ old[m] # least
    BY <1>10
  <2>3. ASSUME NEW i \in Stops, NEW n \in DOMAIN short, short[n] = i
        PROVE  i # least /\ \E m \in 1..size : old[m] = i
    BY <2>2, <2>3
  <2>4. ASSUME NEW i \in Stops, i # least, NEW m \in 1..size, old[m] = i
        PROVE  \E n \in DOMAIN short : short[n] = i
    BY <2>1, <2>4
  <2> QED BY <2>3, <2>4
<1>13. PICK new : new = [gs EXCEPT ![at] = short]
  OBVIOUS
<1>14. /\ new \in [1..k -> Seq(Stops)] /\ new[at] = short
       /\ \A g \in 1..k : g # at => new[g] = gs[g]
       /\ \A g \in 1..k : new[g] # <<>>
  BY <1>13, <1>9 DEF GroupsOf
\* What the groups held they still hold, except the attraction left out.
<1>15. ASSUME NEW g \in 1..k, NEW n \in DOMAIN new[g]
       PROVE  \E m \in DOMAIN gs[g] : new[g][n] = gs[g][m] /\ gs[g][m] # least
  <2>1. CASE g = at
    BY <1>1, <1>2, <1>10, <1>14, <2>1, SMTT(30)
  <2>2. CASE g # at
    <3>1. PICK m \in DOMAIN gs[g] : m = n /\ new[g][n] = gs[g][m]
      BY <1>14, <2>2
    <3>2. PICK x \in 1..size : old[x] = least
      BY <1>3
    <3>3. x \in DOMAIN gs[at] /\ gs[at][x] = least
      BY <1>1, <1>2, <3>2
    <3>4. \A a, b \in 1..k : \A c \in DOMAIN gs[a], d \in DOMAIN gs[b] :
            gs[a][c] = gs[b][d] => a = b /\ c = d
      BY DEF GroupsOf
    <3>5. gs[g][m] # least
      BY <2>2, <3>3, <3>4
    <3> QED BY <3>1, <3>5
  <2> QED BY <2>1, <2>2
<1>16. ASSUME NEW g \in 1..k, NEW m \in DOMAIN gs[g], gs[g][m] # least
       PROVE  \E n \in DOMAIN new[g] : new[g][n] = gs[g][m]
  <2>1. CASE g = at
    <3>1. m \in 1..size /\ old[m] = gs[g][m] /\ old[m] # least /\ old[m] \in Stops
      BY <1>1, <1>2, <1>3, <1>16, <2>1
    <3>2. \E n \in DOMAIN short : short[n] = old[m]
      BY <1>12, <3>1
    <3> QED BY <1>14, <2>1, <3>1, <3>2
  <2>2. CASE g # at
    BY <1>14, <2>2
  <2> QED BY <2>1, <2>2
<1>17. ASSUME NEW g \in 1..k, NEW h \in 1..k, NEW m \in DOMAIN new[g], NEW n \in DOMAIN new[h],
              new[g][m] = new[h][n]
       PROVE  g = h /\ m = n
  <2>1. PICK a \in DOMAIN gs[g] : new[g][m] = gs[g][a]
    BY <1>15
  <2>2. PICK b \in DOMAIN gs[h] : new[h][n] = gs[h][b]
    BY <1>15
  <2>3. \A x, y \in 1..k : \A c \in DOMAIN gs[x], d \in DOMAIN gs[y] :
          gs[x][c] = gs[y][d] => x = y /\ c = d
    BY DEF GroupsOf
  <2>4. g = h /\ a = b
    <3>1. gs[g][a] = gs[h][b]
      BY <1>17, <2>1, <2>2
    <3> QED BY <2>3, <3>1
  <2>5. CASE g = at
    BY <1>14, <1>17, <2>4, <2>5, <1>11
  <2>6. CASE g # at
    BY <1>14, <1>17, <2>4, <2>6, <2>3
  <2> QED BY <2>5, <2>6
<1>18. \A g \in 1..k : \A n \in DOMAIN new[g] : new[g][n] \notin left \cup {least}
  BY <1>15 DEF GroupsOf
<1>19. \A i \in Stops : i \in Stops <=>
         i \in left \cup {least} \/ \E g \in 1..k : \E n \in DOMAIN new[g] : new[g][n] = i
  <2>1. \A i \in Stops : i \in left \/ \E g \in 1..k : \E m \in DOMAIN gs[g] : gs[g][m] = i
    BY DEF GroupsOf
  <2>2. ASSUME NEW i \in Stops
        PROVE  i \in left \cup {least} \/ \E g \in 1..k : \E n \in DOMAIN new[g] : new[g][n] = i
    <3>1. CASE i \in left \/ i = least
      BY <3>1
    <3>2. CASE i \notin left /\ i # least
      <4>1. PICK g \in 1..k : \E m \in DOMAIN gs[g] : gs[g][m] = i
        BY <2>1, <3>2
      <4>2. PICK m \in DOMAIN gs[g] : gs[g][m] = i
        BY <4>1
      <4> QED BY <1>16, <3>2, <4>2
    <3> QED BY <3>1, <3>2
  <2> QED BY <2>2
<1>20. left \cup {least} \in SUBSET Stops
  BY <1>3 DEF GroupsOf
<1>21. GroupsOf(new, left \cup {least}, Stops, k)
  BY <1>14, <1>17, <1>18, <1>19, <1>20 DEF GroupsOf
<1> QED BY <1>1, <1>5, <1>13, <1>21

-----------------------------------------------------------------------------
(* What a group costs on a day *)

\* The members of a group, one by one.
LEMMA VisitsOf ==
  ASSUME Measured, NEW group \in Seq(Stops), group # <<>>
  PROVE  LET visits == [n \in DOMAIN group |-> pois[group[n]].visit]
             indoors == [n \in DOMAIN group |-> pois[group[n]].visit * pois[group[n]].indoor]
         IN  /\ IsFiniteSet(DOMAIN group)
             /\ \A n \in DOMAIN group : visits[n] \in Int /\ visits[n] >= 30
             /\ \A n \in DOMAIN group : /\ indoors[n] \in Int /\ indoors[n] >= 0
                                        /\ indoors[n] <= 100 * visits[n]
<1> DEFINE visits == [n \in DOMAIN group |-> pois[group[n]].visit]
           indoors == [n \in DOMAIN group |-> pois[group[n]].visit * pois[group[n]].indoor]
<1>1. IsFiniteSet(DOMAIN group)
  BY UpToSize
<1>2. ASSUME NEW n \in DOMAIN group
      PROVE  /\ visits[n] \in Int /\ visits[n] >= 30
             /\ indoors[n] \in Int /\ indoors[n] >= 0 /\ indoors[n] <= 100 * visits[n]
  <2>1. PICK i \in Stops : i = group[n]
    OBVIOUS
  <2>2. PICK poi \in Sights : poi = pois[i]
    BY StopsFacts
  <2>3. PICK v \in Int, d \in Int :
          v = poi.visit /\ d = poi.indoor /\ v >= 30 /\ d >= 0 /\ d <= 100
    <3>1. PICK v \in Int : v = poi.visit /\ v >= 30
      BY SightNumbers
    <3>2. PICK d \in Int : d = poi.indoor /\ d >= 0 /\ d <= 100
      BY SightNumbers
    <3> QED BY <3>1, <3>2
  <2>4. visits[n] = v /\ indoors[n] = v * d
    BY <2>1, <2>2, <2>3
  <2>5. v * d \in Int /\ v * d >= 0 /\ v * d <= 100 * v
    BY <2>3
  <2> HIDE DEF visits, indoors
  <2> QED BY <2>3, <2>4, <2>5
<1> QED BY <1>1, <1>2

\* A sum of numbers none of which is negative is not negative.
LEMMA SumOfNone ==
  ASSUME NEW S, IsFiniteSet(S), NEW f, \A x \in S : f[x] \in Int /\ f[x] >= 0
  PROVE  SumFunctionOnSet(f, S) \in Int /\ SumFunctionOnSet(f, S) >= 0
<1> DEFINE A == {s \in SUBSET S : SumFunctionOnSet(f, s) >= 0}
<1>1. {} \in A
  BY SumFacts
<1>2. ASSUME NEW s \in SUBSET S, NEW x \in S \ s, s \in A PROVE s \cup {x} \in A
  <2>1. PICK a \in Int, b \in Int : a = SumFunctionOnSet(f, s) /\ b = f[x]
    BY SumFacts
  <2>2. SumFunctionOnSet(f, s \cup {x}) = b + a
    BY <2>1, SumFacts
  <2>3. a >= 0 /\ b >= 0
    BY <1>2, <2>1
  <2> QED BY <2>2, <2>3
<1> HIDE DEF A
<1>3. S \in A
  BY <1>1, <1>2, ElementByElement
<1>4. SumFunctionOnSet(f, S) \in Int
  BY SumFacts
<1> QED BY <1>3, <1>4 DEF A

\* A sum of multiples is the multiple of the sum.
LEMMA SumsScaled ==
  ASSUME NEW S, IsFiniteSet(S), NEW f, \A x \in S : f[x] \in Int, NEW e,
         \A x \in S : e[x] = 100 * f[x]
  PROVE  SumFunctionOnSet(e, S) = 100 * SumFunctionOnSet(f, S)
<1>1. \A x \in S : e[x] \in Int
  OBVIOUS
<1> DEFINE A == {s \in SUBSET S : SumFunctionOnSet(e, s) = 100 * SumFunctionOnSet(f, s)}
<1>2. {} \in A
  BY <1>1, SumFacts
<1>3. ASSUME NEW s \in SUBSET S, NEW x \in S \ s, s \in A PROVE s \cup {x} \in A
  <2>1. PICK a \in Int, b \in Int : a = SumFunctionOnSet(f, s) /\ b = f[x]
    BY SumFacts
  <2>2. SumFunctionOnSet(f, s \cup {x}) = b + a
    BY <2>1, SumFacts
  <2>3. SumFunctionOnSet(e, s) = 100 * a /\ e[x] = 100 * b
    BY <1>3, <2>1
  <2>4. SumFunctionOnSet(e, s \cup {x}) = e[x] + SumFunctionOnSet(e, s)
    BY <1>1, SumFacts
  <2> QED BY <2>2, <2>3, <2>4
<1> HIDE DEF A
<1>4. S \in A
  BY <1>2, <1>3, ElementByElement
<1> QED BY <1>4 DEF A

\* A sum over at least one element is at least as much as each may be.
LEMMA SumPositive ==
  ASSUME NEW S, IsFiniteSet(S), NEW f, \A x \in S : f[x] \in Int /\ f[x] >= 30, NEW y \in S
  PROVE  SumFunctionOnSet(f, S) \in Int /\ SumFunctionOnSet(f, S) >= 30
<1>1. PICK s \in SUBSET S : s = S \ {y}
  OBVIOUS
<1>2. y \in S \ s /\ S = s \cup {y} /\ IsFiniteSet(s)
  BY <1>1, FS_Subset
<1>3. SumFunctionOnSet(f, s) \in Int /\ SumFunctionOnSet(f, s) >= 0
  BY <1>2, SumOfNone
<1>4. SumFunctionOnSet(f, s \cup {y}) = f[y] + SumFunctionOnSet(f, s)
  BY <1>2, SumFacts
<1>5. f[y] \in Int /\ f[y] >= 30
  OBVIOUS
<1> QED BY <1>2, <1>3, <1>4, <1>5

\* Some of the members of a group are at most all of them.
LEMMA SomeOfThem ==
  ASSUME NEW D, NEW group \in Seq(D), group # <<>>, NEW S \in SUBSET DOMAIN group
  PROVE  /\ Cardinality(S) \in Int /\ Cardinality(S) >= 0 /\ Cardinality(S) <= Len(group)
         /\ Len(group) \in Int /\ Len(group) >= 1
<1>1. PICK n \in Nat : n = Len(group) /\ DOMAIN group = 1..n /\ n >= 1
  OBVIOUS
<1>2. IsFiniteSet(1..n) /\ Cardinality(1..n) = n
  BY UpToSize
<1>3. Cardinality(S) \in Nat /\ Cardinality(S) <= n
  BY <1>1, <1>2, FS_Subset, FS_CardinalityType
<1> QED BY <1>1, <1>3

\* Whether something in the group is closed on a date.
Meets(group, date) == Conflicts(group, date) # {}

\* What a day costs a group: less than 13500, and the penalty if something is closed.
LEMMA CostParts ==
  ASSUME Measured, NEW group \in Seq(Stops), group # <<>>, NEW day \in DayRows
  PROVE  /\ Cost(group, day) \in Int /\ Cost(group, day) >= 0
         /\ ~Meets(group, day.date) => Cost(group, day) <= 13500
         /\ Meets(group, day.date) => Cost(group, day) >= 1000000
         /\ Meets(group, day.date) => Cost(group, day) <= 1013500
<1> DEFINE visits == [n \in DOMAIN group |-> pois[group[n]].visit]
           tripled == [n \in DOMAIN group |-> pois[group[n]].visit * pois[group[n]].indoor]
           busy == {n \in DOMAIN group : pois[group[n]].crowd}
<1>1. PICK badness \in Int : badness = WeatherBadness(day.weather) /\ badness >= 0 /\ badness <= 100
  <2>1. PICK w \in Weathers : w = day.weather
    BY DEF DayRows
  <2>2. WeatherBadness(w) \in 0..100
    BY WeatherTyped
  <2> QED BY <2>1, <2>2
<1>2. /\ IsFiniteSet(DOMAIN group) /\ \A n \in DOMAIN group : visits[n] \in Int /\ visits[n] >= 30
      /\ \A n \in DOMAIN group : tripled[n] \in Int /\ tripled[n] >= 0
      /\ \A n \in DOMAIN group : tripled[n] <= 100 * visits[n]
  BY VisitsOf
<1>3. DOMAIN visits = DOMAIN group /\ DOMAIN tripled = DOMAIN group
  OBVIOUS
<1> HIDE DEF visits, tripled
<1>4. PICK y : y \in DOMAIN group
  OBVIOUS
<1>5. PICK total \in Int : total = SumFunctionOnSet(visits, DOMAIN group) /\ total >= 30
  BY <1>2, <1>4, SumPositive
<1>6. PICK indoors \in Int :
        indoors = SumFunctionOnSet(tripled, DOMAIN group) /\ indoors >= 0 /\ indoors <= 100 * total
  <2>1. SumFunctionOnSet(tripled, DOMAIN group) \in Int
        /\ SumFunctionOnSet(tripled, DOMAIN group) >= 0
    BY <1>2, SumOfNone
  <2>2. PICK e : e = [n \in DOMAIN group |-> 100 * visits[n]]
    OBVIOUS
  <2>3. \A n \in DOMAIN group : e[n] = 100 * visits[n] /\ e[n] \in Int /\ visits[n] \in Int
    BY <1>2, <2>2
  <2>4. SumFunctionOnSet(e, DOMAIN group) = 100 * total
    BY <1>2, <1>5, <2>3, SumsScaled
  <2>5. \A n \in DOMAIN group : tripled[n] \in Int /\ e[n] \in Int /\ tripled[n] <= e[n]
    BY <1>2, <2>3
  <2>6. SumFunctionOnSet(tripled, DOMAIN group) <= SumFunctionOnSet(e, DOMAIN group)
    BY <1>2, <2>5, SumsCompare
  <2> QED BY <2>1, <2>4, <2>6
<1>7. Visits(group, pois) = total
  BY <1>3, <1>5 DEF Visits, SumFunction, visits
<1>8. SumFunction(tripled) = indoors
  BY <1>3, <1>6 DEF SumFunction
<1>9. PICK indoor \in Int : indoor = indoors \div total /\ indoor >= 0 /\ indoor <= 100
  BY <1>5, <1>6, Quotient
<1>10. PICK crowd \in Int :
         crowd = (1200 * Cardinality(busy)) \div Len(group) /\ crowd >= 0 /\ crowd <= 1200
  <2>1. busy \in SUBSET DOMAIN group
    OBVIOUS
  <2>2. PICK c \in Int, n \in Int : c = Cardinality(busy) /\ n = Len(group) /\ c >= 0 /\ c <= n /\ n >= 1
    <3>1. PICK T \in SUBSET DOMAIN group : T = busy
      OBVIOUS
    <3> HIDE DEF busy
    <3>2. /\ Cardinality(T) \in Int /\ Cardinality(T) >= 0 /\ Cardinality(T) <= Len(group)
          /\ Len(group) \in Int /\ Len(group) >= 1
      BY SomeOfThem
    <3> QED BY <3>1, <3>2
  <2>3. 1200 * c \in Int /\ 1200 * c >= 0 /\ 1200 * c <= 1200 * n
    BY <2>2
  <2>4. PICK a \in Int : a = 1200 * c /\ a >= 0 /\ a <= 1200 * n
    BY <2>3
  <2>5. a \div n \in Int /\ a \div n >= 0 /\ a \div n <= 1200
    <3>1. PICK most \in Nat : most = 1200 /\ a <= most * n
      BY <2>4
    <3> QED BY <2>2, <2>4, <3>1, Quotient, SMTT(30)
  <2>6. a \div n = (1200 * Cardinality(busy)) \div Len(group)
    BY <2>2, <2>4
  <2> HIDE DEF busy
  <2> QED BY <2>5, <2>6
<1>11. PICK weather \in Int : weather = badness * (100 - indoor) /\ weather >= 0 /\ weather <= 10000
  <2>1. PICK d \in Int : d = 100 - indoor /\ d >= 0 /\ d <= 100
    BY <1>9
  <2>2. badness * d \in Int /\ badness * d >= 0
    BY <1>1, <2>1
  <2>3. badness * d <= 100 * d /\ 100 * d <= 10000
    BY <1>1, <2>1
  <2> QED BY <2>1, <2>2, <2>3
<1> DEFINE atNight == \E i \in ToSet(group) : pois[i].night
           share == IF Visits(group, pois) > 0
                      THEN SumFunction([n \in DOMAIN group |->
                                          pois[group[n]].visit * pois[group[n]].indoor])
                           \div Visits(group, pois)
                      ELSE 50
           closing == IF Conflicts(group, day.date) # {} THEN ClosedPenalty ELSE 0
           crowding == IF Weekday(day.date) >= 5 THEN (1200 * Cardinality(busy)) \div Len(group) ELSE 0
           evening == IF atNight /\ WeatherBadness(day.weather) >= 55 THEN 2000 ELSE 0
           dusk == IF atNight THEN 300 ELSE 0
<1>12. Cost(group, day) = WeatherBadness(day.weather) * (100 - share) + closing + crowding + evening + dusk
  BY Zenon DEF Cost
<1>13. Cost(group, day) = weather + closing + crowding + evening + dusk
  <2>1. share = indoor
    BY <1>8, <1>5, <1>7, <1>9 DEF tripled
  <2> HIDE DEF share, closing, evening, dusk, busy, crowding
  <2> QED BY <1>1, <1>11, <1>12, <2>1
<1>14. /\ Meets(group, day.date) => closing = 1000000
       /\ ~Meets(group, day.date) => closing = 0
  BY DEF ClosedPenalty, Meets
<1>15. crowding \in Int /\ crowding >= 0 /\ crowding <= 1200
  <2> HIDE DEF busy
  <2> QED BY <1>10
<1>16. (evening = 2000 \/ evening = 0) /\ (dusk = 300 \/ dusk = 0)
  <2> HIDE DEF atNight
  <2>1. evening = 2000 \/ evening = 0
    OBVIOUS
  <2>2. dusk = 300 \/ dusk = 0
    OBVIOUS
  <2> QED BY <2>1, <2>2
<1> HIDE DEF share, closing, evening, dusk, busy, crowding
<1>17. PICK other \in Int : other = weather + crowding + evening + dusk /\ other >= 0 /\ other <= 13500
  BY <1>16, <1>11, <1>15
<1>18. closing \in Int => Cost(group, day) = other + closing
  BY <1>11, <1>13, <1>15, <1>16, <1>17
<1>19. CASE ~Meets(group, day.date)
  BY <1>14, <1>17, <1>18, <1>19
<1>20. CASE Meets(group, day.date)
  BY <1>14, <1>17, <1>18, <1>20
<1> QED BY <1>19, <1>20

-----------------------------------------------------------------------------
(* The invariant of a call *)

\* The sets of phases, phase by phase.
LEMMA Phases ==
  /\ "asked" \notin WhenDated /\ "asked" \notin WhenSearched /\ "asked" \notin WhenCollected
  /\ "failed" \notin WhenDated /\ "failed" \notin WhenSearched /\ "failed" \notin WhenCollected
  /\ "dated" \in WhenDated /\ "dated" \notin WhenSearched /\ "dated" \notin WhenCollected
  /\ "searched" \in WhenDated /\ "searched" \in WhenSearched /\ "searched" \notin WhenCollected
  /\ WhenCollected \subseteq WhenDated /\ WhenCollected \subseteq WhenSearched
  /\ {"collected", "located", "ranked", "selected"} \subseteq WhenCollected
  /\ {"collected", "located"} \cap WhenRanked = {} /\ WhenRanked \subseteq WhenCollected
  /\ "ranked" \in WhenRanked /\ "ranked" \notin WhenSelected
  /\ "selected" \in WhenRanked /\ "selected" \in WhenSelected /\ "selected" \notin WhenMeasured
  /\ WhenMeasured \subseteq WhenSelected /\ WhenSelected \subseteq WhenRanked
  /\ {"measured", "clustering", "trimming", "matching", "done"} = WhenMeasured
  /\ {"trimming", "matching", "done"} = WhenGrouped /\ WhenGrouped \subseteq WhenMeasured
  /\ {"matching", "done"} = WhenMatched /\ AtEnd = {"done"}
  BY DEF WhenDated, WhenSearched, WhenCollected, WhenRanked, WhenSelected, WhenMeasured, WhenGrouped,
         WhenMatched, AtEnd

-----------------------------------------------------------------------------
(* What a step leaves unchanged *)

\* Measured says nothing of the other variables.
LEMMA SameMeasured ==
  ASSUME Measured, UNCHANGED <<pois, travel>>
  PROVE  Measured'
  BY DEF Measured

\* Grouped says nothing of the other variables.
LEMMA SameGrouped ==
  ASSUME Grouped, UNCHANGED <<pois, ask, groups, dropped>>
  PROVE  Grouped'
  BY DEF Grouped, GroupsOf, Stops

\* The costs depend on groups, days and travel only.
LEMMA SamePriced ==
  ASSUME UNCHANGED <<pois, ask, groups, days, travel>>
  PROVE  CostMatrix' = CostMatrix /\ (NoOverfull => NoOverfull')
<1>1. CostMatrix' = CostMatrix
  BY DEF CostMatrix, Cost, Conflicts
<1>2. NoOverfull => NoOverfull'
  BY DEF NoOverfull, Overfull, Capacity
<1> QED BY <1>1, <1>2

-----------------------------------------------------------------------------
(* The steps *)

\* A call begins with the invariant.
LEMMA InitPlanner == Init => PlannerInv
<1> SUFFICES ASSUME Init PROVE PlannerInv
  OBVIOUS
<1>1. phase = "asked" /\ ask \in Asks /\ forecast \in Forecasts /\ outcome = "none"
  BY DEF Init
<1>2. AskTyped
  BY <1>1, AsksAssumption DEF AskTyped
<1>3. \A p : p = "asked" => /\ p \notin WhenDated /\ p \notin WhenSearched /\ p \notin WhenCollected
                            /\ p \notin WhenRanked /\ p \notin WhenSelected /\ p \notin WhenMeasured
                            /\ p \notin WhenGrouped /\ p \notin WhenMatched /\ p \notin AtEnd
                            /\ p # "clustering"
  BY Phases
<1> QED BY <1>1, <1>2, <1>3 DEF PlannerInv

\* A call that fails keeps the invariant.
LEMMA FailedKeeps ==
  ASSUME PlannerInv, NEW code, Failed(code)
  PROVE  PlannerInv'
<1>1. phase' = "failed" /\ ask' = ask
  BY DEF Failed
<1>2. AskTyped'
  BY <1>1 DEF PlannerInv, AskTyped
<1>3. \A p : p = "failed" => /\ p \notin WhenDated /\ p \notin WhenSearched /\ p \notin WhenCollected
                            /\ p \notin WhenRanked /\ p \notin WhenSelected /\ p \notin WhenMeasured
                            /\ p \notin WhenGrouped /\ p \notin WhenMatched /\ p \notin AtEnd
                            /\ p # "clustering" /\ p # "asked"
  BY Phases
<1> QED BY <1>1, <1>2, <1>3 DEF PlannerInv

\* Every error return keeps the invariant.
LEMMA FailuresKeep ==
  ASSUME PlannerInv,
         \/ WeatherUnavailable \/ ForecastOutOfRange \/ NoCompleteWindow \/ SourcesFail \/ TooFew
         \/ MatrixFails \/ GeocodeFails
  PROVE  PlannerInv'
<1>1. \E code : Failed(code)
  BY DEF WeatherUnavailable, ForecastOutOfRange, NoCompleteWindow, SourcesFail, TooFew, MatrixFails,
         GeocodeFails
<1> QED BY <1>1, FailedKeeps

\* Recommending a window keeps the invariant.
LEMMA RecommendKeeps ==
  ASSUME PlannerInv, Recommend
  PROVE  PlannerInv'
<1>1. /\ phase = "asked" /\ phase' = "dated" /\ Windows(Rows, ask.trip) # {}
      /\ days' = BestWindow(Rows, ask.trip) /\ ask' = [ask EXCEPT !.dates = {}]
  BY DEF Recommend
<1>2. AskTyped /\ forecast \in Forecasts
  BY <1>1 DEF PlannerInv
<1>3. AskTyped' /\ ask'.trip = ask.trip /\ ask.trip \in 1..7
  BY <1>1, <1>2 DEF AskTyped
<1>4. Rows \in Seq(DayRows)
  BY <1>2, RowsTyped DEF Rows
<1>5. days' \in Seq(DayRows) /\ Len(days') = ask'.trip
  BY <1>1, <1>3, <1>4, BestWindowTyped
<1> QED BY <1>1, <1>3, <1>5, Phases DEF PlannerInv

\* The search for pages keeps the invariant.
LEMMA SearchKeeps ==
  ASSUME PlannerInv, Search
  PROVE  PlannerInv'
<1>1. /\ phase = "dated" /\ phase' = "searched" /\ UNCHANGED <<ask, days>>
      /\ \E wiki \in Wikis : pages' = CollectedPages(wiki, ask.related)
  BY DEF Search
<1>2. AskTyped /\ days \in Seq(DayRows) /\ Len(days) = ask.trip
  BY <1>1, Phases DEF PlannerInv
<1>3. pages' \in Seq(SourcePages)
  BY <1>1, <1>2, PagesTyped, AskFields
<1>4. AskTyped'
  BY <1>1, <1>2 DEF AskTyped
<1> QED BY <1>1, <1>2, <1>3, <1>4, Phases DEF PlannerInv

\* The extraction of attractions keeps the invariant.
LEMMA CollectKeeps ==
  ASSUME PlannerInv, Collect
  PROVE  PlannerInv'
<1>1. phase = "searched"
  BY DEF Collect
<1>2. AskTyped /\ days \in Seq(DayRows) /\ Len(days) = ask.trip /\ pages \in Seq(SourcePages)
  BY <1>1, Phases DEF PlannerInv
<1>3. CASE \E code : Failed(code)
  BY <1>3, FailedKeeps
<1>4. CASE /\ pois' = Filtered(Extracted(pages), ask.excludes) /\ phase' = "collected"
           /\ UNCHANGED <<ask, days, pages>>
  <2>1. CatalogueOf(pois', pages')
    BY <1>2, <1>4, ExtractedFacts, FilteredFacts
  <2>2. AskTyped'
    BY <1>2, <1>4 DEF AskTyped
  <2> QED BY <1>2, <1>4, <2>1, <2>2, Phases DEF PlannerInv
<1> QED BY <1>3, <1>4 DEF Collect, NothingListed

\* Geocoding keeps the invariant, whatever it finds.
LEMMA GeocodeKeeps ==
  ASSUME PlannerInv, Geocode
  PROVE  PlannerInv'
<1>1. phase = "collected" /\ phase' = "located" /\ UNCHANGED <<ask, days, pages>>
  BY DEF Geocode
<1>2. /\ AskTyped /\ days \in Seq(DayRows) /\ Len(days) = ask.trip /\ pages \in Seq(SourcePages)
      /\ CatalogueOf(pois, pages)
  BY <1>1, Phases DEF PlannerInv
<1>3. PICK found \in SUBSET Unplaced(pois) : \E at \in [found -> Places] :
        pois' = [i \in DOMAIN pois |->
                   IF i \in found THEN [pois[i] EXCEPT !.place = at[i]] ELSE pois[i]]
  BY DEF Geocode
<1>4. PICK at \in [found -> Places] :
        pois' = [i \in DOMAIN pois |->
                   IF i \in found THEN [pois[i] EXCEPT !.place = at[i]] ELSE pois[i]]
  BY <1>3
<1>5. PICK N \in Nat : N = Len(pois) /\ DOMAIN pois = 1..N /\ pois \in [1..N -> Sights]
  <2>1. pois \in Seq(Sights)
    BY <1>2 DEF CatalogueOf
  <2> QED BY <2>1
<1>6. ASSUME NEW i \in 1..N
      PROVE  /\ pois'[i] \in Sights /\ pois'[i].key = pois[i].key
             /\ pois'[i].closed = pois[i].closed /\ pois'[i].shut = pois[i].shut
  <2>1. PICK poi \in Sights : poi = pois[i]
    BY <1>5
  <2>2. CASE i \in found
    <3>1. PICK place \in Places \cup {NoPlace, HalfPlace} : place = at[i]
      BY <1>4, <2>2
    <3>2. pois'[i] = [poi EXCEPT !.place = place]
      BY <1>4, <1>5, <2>1, <2>2, <3>1
    <3> QED BY <2>1, <3>2, PlacedTyped
  <2>3. CASE i \notin found
    BY <1>4, <1>5, <2>1, <2>3
  <2> QED BY <2>2, <2>3
<1>7. pois' \in [1..N -> Sights]
  BY <1>4, <1>5, <1>6
<1>8. pois' \in Seq(Sights) /\ DOMAIN pois' = 1..N
  BY <1>7
<1>9. DrawnFrom(pois', pois)
  <2>1. PICK here : here = [i \in 1..N |-> i]
    OBVIOUS
  <2>2. here \in [DOMAIN pois' -> DOMAIN pois] /\ \A i \in 1..N : here[i] = i
    BY <1>5, <1>8, <2>1
  <2> QED BY <1>6, <1>8, <2>2 DEF DrawnFrom
<1>10. CatalogueOf(pois', pages)
  BY <1>2, <1>8, <1>9, CatalogueChosen
<1>11. AskTyped'
  BY <1>1, <1>2 DEF AskTyped
<1>12. CatalogueOf(pois', pages')
  BY <1>1, <1>10
<1> QED BY <1>1, <1>2, <1>11, <1>12, Phases DEF PlannerInv

\* Ranking keeps the invariant.
LEMMA RankKeeps ==
  ASSUME PlannerInv, Rank
  PROVE  PlannerInv'
<1>1. phase = "located" /\ phase' = "ranked" /\ UNCHANGED <<ask, days, pages>>
  BY DEF Rank
<1>2. /\ AskTyped /\ days \in Seq(DayRows) /\ Len(days) = ask.trip /\ pages \in Seq(SourcePages)
      /\ CatalogueOf(pois, pages)
  BY <1>1, Phases DEF PlannerInv
<1>3. CatalogueOf(pois', pages) /\ Usables(pois')
  BY <1>2, RankFacts
<1>4. AskTyped'
  BY <1>1, <1>2 DEF AskTyped
<1>5. CatalogueOf(pois', pages')
  BY <1>1, <1>3
<1> QED BY <1>1, <1>2, <1>3, <1>4, <1>5, Phases DEF PlannerInv

\* The selection keeps the invariant.
LEMMA SelectKeeps ==
  ASSUME PlannerInv, Select
  PROVE  PlannerInv'
<1>1. phase = "ranked"
  BY DEF Select
<1>2. /\ AskTyped /\ days \in Seq(DayRows) /\ Len(days) = ask.trip /\ pages \in Seq(SourcePages)
      /\ CatalogueOf(pois, pages) /\ Usables(pois)
  BY <1>1, Phases DEF PlannerInv
<1>3. CASE \E code : Failed(code)
  BY <1>3, FailedKeeps
<1>4. CASE /\ ~(Len(Selection) < ask.trip) /\ pois' = Selection /\ phase' = "selected"
           /\ UNCHANGED <<ask, days, pages>>
  <2>1. CatalogueOf(pois', pages') /\ Usables(pois')
    BY <1>2, <1>4, SelectionFacts
  <2>2. AskTyped'
    BY <1>2, <1>4 DEF AskTyped
  <2>3. ask'.trip <= Len(pois')
    BY <2>1, <1>2, AskFields, <1>4 DEF CatalogueOf
  <2> QED BY <1>2, <1>4, <2>1, <2>2, <2>3, Phases DEF PlannerInv
<1> QED BY <1>3, <1>4 DEF Select

-----------------------------------------------------------------------------
(* Every step keeps the invariant *)

\* What the steps after the selection find established.
Chosen ==
  /\ AskTyped /\ days \in Seq(DayRows) /\ Len(days) = ask.trip /\ pages \in Seq(SourcePages)
  /\ CatalogueOf(pois, pages) /\ Usables(pois) /\ ask.trip <= Len(pois)

\* After the selection, what was selected is known.
LEMMA ChosenKnown ==
  ASSUME PlannerInv, phase \in WhenSelected
  PROVE  Chosen
  BY Phases DEF PlannerInv, Chosen

\* Chosen says nothing of the other variables.
LEMMA SameChosen ==
  ASSUME Chosen, UNCHANGED <<ask, days, pages, pois>>
  PROVE  Chosen'
<1>1. AskTyped'
  BY DEF Chosen, AskTyped
<1>2. Usables(pois)'
  BY DEF Chosen, Usables, Capacity
<1>3. CatalogueOf(pois, pages)'
  BY DEF Chosen
<1> QED BY <1>1, <1>2, <1>3 DEF Chosen

\* Travel times between places are natural numbers.
LEMMA DurationsTyped ==
  ASSUME NEW poi \in Sights, NEW other \in Sights, Located(poi), Located(other)
  PROVE  Durations[poi.place][other.place] \in Nat
<1>1. poi.place \in Places /\ other.place \in Places
  BY SightFields DEF Located
<1> QED BY <1>1, PlacesAssumption

\* The travel matrix keeps the invariant.
LEMMA MeasureKeeps ==
  ASSUME PlannerInv, Measure
  PROVE  PlannerInv'
<1>1. phase = "selected" /\ phase' = "measured" /\ UNCHANGED <<ask, days, pages, pois>>
  BY DEF Measure
<1>2. Chosen /\ Chosen'
  BY <1>1, ChosenKnown, SameChosen, Phases
<1>3. PICK N \in Nat : N = Len(pois) /\ DOMAIN pois = 1..N /\ pois \in [1..N -> Sights]
  <2>1. pois \in Seq(Sights)
    BY <1>2 DEF Chosen, CatalogueOf
  <2> QED BY <2>1
<1>4. travel' = [i \in 1..N |-> [j \in 1..N |-> Durations[pois[i].place][pois[j].place]]]
  BY <1>3 DEF Measure
<1>5. \A i, j \in 1..N : Durations[pois[i].place][pois[j].place] \in Nat
  <2>1. ASSUME NEW i \in 1..N, NEW j \in 1..N
        PROVE  Durations[pois[i].place][pois[j].place] \in Nat
    <3>1. PICK a \in Sights, b \in Sights : a = pois[i] /\ b = pois[j]
      BY <1>3
    <3>2. Located(a) /\ Located(b)
      BY <1>2, <1>3, <3>1 DEF Chosen, Usables
    <3>3. Durations[a.place][b.place] \in Nat
      BY <3>2, DurationsTyped
    <3> QED BY <3>1, <3>3
  <2> QED BY <2>1
<1>6. travel' \in [1..N -> [1..N -> Nat]]
  BY <1>4, <1>5
<1>7. Measured'
  <2>1. pois' \in Seq(Sights) /\ Len(pois') = N
    BY <1>1, <1>2, <1>3 DEF Chosen, CatalogueOf
  <2> QED BY <1>6, <2>1 DEF Measured
<1> QED BY <1>1, <1>2, <1>7, Phases DEF Chosen, PlannerInv

\* The first medoids keep the invariant.
LEMMA SeedKeeps ==
  ASSUME PlannerInv, Seed
  PROVE  PlannerInv'
<1>1. /\ phase = "measured" /\ phase' = "clustering" /\ UNCHANGED <<ask, days, pages, pois, travel>>
      /\ search' = [NoSearch EXCEPT !.medoids = InitialMedoids, !.left = DOMAIN pois]
  BY DEF Seed
<1>2. Chosen /\ Chosen' /\ Measured /\ Measured'
  BY <1>1, ChosenKnown, SameChosen, SameMeasured, Phases DEF PlannerInv
<1>3. Spread(InitialMedoids) /\ Len(InitialMedoids) = ask.trip
  BY <1>2, MedoidsSpread, AskFields DEF Chosen
<1>4. search'.medoids = InitialMedoids /\ search'.rounds = 0
  BY <1>1 DEF NoSearch
<1>5. Stops' = Stops
  BY <1>1 DEF Stops
<1>6. SearchInv'
  <2>1. PICK list : list = InitialMedoids /\ Spread(list) /\ Len(list) = ask.trip
    BY <1>3
  <2>2. list \in Seq(Stops') /\ list # <<>> /\ \A a, b \in 1..Len(list) : list[a] = list[b] => a = b
    BY <1>5, <2>1 DEF Spread
  <2>3. Spread(search.medoids)'
    BY <1>4, <2>1, <2>2 DEF Spread
  <2>4. Len(search'.medoids) = ask'.trip
    BY <1>1, <1>4, <2>1
  <2>5. search'.rounds \in 0..(MaxIterations - 1) /\ ~(search'.rounds > 0)
    BY <1>4, LimitsAssumption
  <2> QED BY <2>3, <2>4, <2>5 DEF SearchInv
<1> QED BY <1>1, <1>2, <1>6, Phases DEF Chosen, PlannerInv

\* A round of the medoids keeps the invariant, also the last.
LEMMA RefineKeeps ==
  ASSUME PlannerInv, Refine
  PROVE  PlannerInv'
<1>1. phase = "clustering" /\ UNCHANGED <<ask, days, pages, pois, travel>>
  BY DEF Refine
<1>2. Chosen /\ Chosen' /\ Measured /\ Measured' /\ SearchInv
  BY <1>1, ChosenKnown, SameChosen, SameMeasured, Phases DEF PlannerInv
<1>3. PICK medoids : medoids = search.medoids /\ Spread(medoids) /\ Len(medoids) = ask.trip
  BY <1>2 DEF SearchInv
<1>4. PICK k \in Nat : k = ask.trip /\ k >= 1
  BY <1>2, AskFields DEF Chosen
<1>5. PICK assigned : assigned = Assigned(medoids)
  OBVIOUS
<1>6. GroupsOf(assigned.groups, assigned.left, Stops, k)
  BY <1>2, <1>3, <1>4, <1>5, AssignedFacts
<1>7. PICK next : next = Recentred(assigned.groups) /\ Spread(next) /\ Len(next) = k
  BY <1>2, <1>4, <1>6, RecentredFacts
<1>8. PICK better \in BOOLEAN :
        better = (search.rounds = 0 \/ Objective(assigned, medoids) < search.objective)
  OBVIOUS
<1>9. PICK best : best = IF better THEN [groups |-> assigned.groups, left |-> assigned.left]
                         ELSE [groups |-> search.groups, left |-> search.left]
  OBVIOUS
<1>10. GroupsOf(best.groups, best.left, Stops, k)
  <2>1. CASE better
    BY <1>9, <2>1, <1>6
  <2>2. CASE ~better
    <3>1. best.groups = search.groups /\ best.left = search.left
      BY <1>9, <2>2
    <3>2. search.rounds > 0
      <4>1. search.rounds # 0
        BY <1>8, <2>2, Zenon
      <4>2. PICK rounds \in Nat : rounds = search.rounds
        BY <1>2, LimitsAssumption DEF SearchInv
      <4> QED BY <4>1, <4>2
    <3> QED BY <1>2, <1>4, <3>1, <3>2 DEF SearchInv
  <2> QED BY <2>1, <2>2
<1>11. \/ phase' = "trimming" /\ groups' = best.groups /\ dropped' = best.left
       \/ /\ phase' = phase /\ search'.medoids = next /\ search'.rounds = search.rounds + 1
          /\ search'.groups = best.groups /\ search'.left = best.left
          /\ search.rounds + 1 # MaxIterations
  <2>1. \/ phase' = "trimming" /\ groups' = best.groups /\ dropped' = best.left
        \/ /\ phase' = phase
           /\ search' = [medoids |-> next, rounds |-> search.rounds + 1,
                         groups |-> best.groups, left |-> best.left,
                         objective |-> IF better THEN Objective(assigned, medoids)
                                       ELSE search.objective]
           /\ search.rounds + 1 # MaxIterations
    BY <1>3, <1>5, <1>7, <1>8, <1>9 DEF Refine
  <2> QED BY <2>1
<1>12. Stops' = Stops
  BY <1>1 DEF Stops
<1>13. CASE phase' = "trimming" /\ groups' = best.groups /\ dropped' = best.left
  <2>1. Grouped'
    BY <1>1, <1>4, <1>10, <1>12, <1>13 DEF Grouped, GroupsOf
  <2> QED BY <1>2, <1>13, <2>1, Phases DEF Chosen, PlannerInv
<1>14. CASE /\ phase' = phase /\ search'.medoids = next /\ search'.rounds = search.rounds + 1
            /\ search'.groups = best.groups /\ search'.left = best.left
            /\ search.rounds + 1 # MaxIterations
  <2>1. Spread(search.medoids)'
    BY <1>7, <1>12, <1>14 DEF Spread
  <2>2. GroupsOf(search.groups, search.left, Stops, ask.trip)'
    BY <1>1, <1>4, <1>10, <1>12, <1>14, SMTT(30) DEF GroupsOf
  <2>3. search'.rounds \in 0..(MaxIterations - 1)
    <3>1. PICK rounds \in Int : rounds = search.rounds /\ rounds \in 0..(MaxIterations - 1)
      BY <1>2 DEF SearchInv
    <3> QED BY <1>14, <3>1, LimitsAssumption
  <2>4. Len(search'.medoids) = ask'.trip
    BY <1>1, <1>4, <1>7, <1>14
  <2>5. SearchInv'
    BY <2>1, <2>2, <2>3, <2>4 DEF SearchInv
  <2> QED BY <1>1, <1>2, <1>14, <2>5, Phases DEF Chosen, PlannerInv
<1> QED BY <1>11, <1>13, <1>14

\* A trim leaves one attraction of one group out.
Trimmed(g, least, kept) ==
  /\ g \in DOMAIN groups /\ Len(groups[g]) > 1 /\ least \in ToSet(groups[g])
  /\ kept = {n \in DOMAIN groups[g] : groups[g][n] # least}
  /\ groups' = [groups EXCEPT ![g] = PartOf(groups[g], kept)]
  /\ dropped' = dropped \cup {least}

\* Every trim is one: the group keeps all but its least attraction.
LEMMA TrimParts ==
  ASSUME PlannerInv, Trim
  PROVE  \E g, least, kept : Trimmed(g, least, kept)
<1>2. Chosen /\ Measured /\ Grouped
  BY ChosenKnown, Phases DEF PlannerInv, Trim
<1>3. PICK k \in Nat : k = ask.trip
  BY <1>2, AskFields DEF Chosen
<1>4. GroupsOf(groups, dropped, Stops, k) /\ DOMAIN groups = 1..k
  BY <1>2, <1>3 DEF Grouped, GroupsOf
<1>5. PICK g \in 1..k :
        /\ Overfull(g)
        /\ LET least == FirstMin(groups[g], [i \in ToSet(groups[g]) |->
                                               <<pois[i].score, -pois[i].visit>>])
               kept == {n \in DOMAIN groups[g] : groups[g][n] # least}
           IN  /\ groups' = [groups EXCEPT ![g] = PartOf(@, kept)]
               /\ dropped' = dropped \cup {least}
  BY <1>4 DEF Trim
<1>6. PICK list \in Seq(Stops) : list = groups[g] /\ list # <<>> /\ ToSet(list) \in SUBSET Stops
  BY <1>4, GroupMembers
<1>7. PICK key : key = [i \in ToSet(list) |-> <<pois[i].score, -pois[i].visit>>]
  OBVIOUS
<1>8. \A i \in ToSet(list) : key[i][1] \in Int /\ key[i][2] \in Int
  <2>1. ASSUME NEW i \in ToSet(list) PROVE key[i][1] \in Int /\ key[i][2] \in Int
    <3>1. PICK poi \in Sights : poi = pois[i]
      BY <1>2, <1>6, StopsFacts
    <3>2. poi.score \in Int /\ poi.visit \in Int
      BY SightNumbers
    <3>3. key[i] = <<poi.score, -poi.visit>>
      BY <1>7, <3>1
    <3> QED BY <3>2, <3>3
  <2> QED BY <2>1
<1>9. PICK least : least = FirstMin(list, key) /\ least \in ToSet(list)
  BY <1>6, <1>8, FirstMinFacts
<1>10. PICK kept : kept = {n \in DOMAIN list : list[n] # least}
  OBVIOUS
<1>11. groups' = [groups EXCEPT ![g] = PartOf(list, kept)] /\ dropped' = dropped \cup {least}
  BY <1>4, <1>5, <1>6, <1>7, <1>9, <1>10
<1>12. Len(list) > 1
  BY <1>5, <1>6 DEF Overfull
<1> QED BY <1>4, <1>6, <1>9, <1>10, <1>11, <1>12 DEF Trimmed

\* A trim leaves groups that share nothing, and loses nothing.
LEMMA TrimStep ==
  ASSUME PlannerInv, Trim
  PROVE  Grouped'
<1>1. phase = "trimming" /\ UNCHANGED <<ask, pois, travel>>
  BY DEF Trim
<1>2. Chosen /\ Grouped
  BY <1>1, ChosenKnown, Phases DEF PlannerInv
<1>3. PICK k \in Nat : k = ask.trip
  BY <1>2, AskFields DEF Chosen
<1>4. GroupsOf(groups, dropped, Stops, k) /\ DOMAIN groups = 1..k
  BY <1>2, <1>3 DEF Grouped, GroupsOf
<1>5. PICK g, least, kept : Trimmed(g, least, kept)
  BY TrimParts
<1>6. GroupsOf([groups EXCEPT ![g] = PartOf(groups[g], kept)], dropped \cup {least}, Stops, k)
  BY <1>4, <1>5, TrimKeeps DEF Trimmed
<1>7. Stops' = Stops
  BY <1>1 DEF Stops
<1>8. groups' = [groups EXCEPT ![g] = PartOf(groups[g], kept)] /\ dropped' = dropped \cup {least}
  BY <1>5 DEF Trimmed
<1> QED BY <1>1, <1>3, <1>6, <1>7, <1>8 DEF Grouped, GroupsOf

\* A trim keeps the invariant.
LEMMA TrimStays ==
  ASSUME PlannerInv, Trim
  PROVE  PlannerInv'
<1>1. phase = "trimming" /\ phase' = phase /\ UNCHANGED <<ask, days, pages, pois, travel>>
  BY DEF Trim
<1>2. Chosen /\ Chosen' /\ Measured /\ Measured'
  BY <1>1, ChosenKnown, SameChosen, SameMeasured, Phases DEF PlannerInv
<1>3. Grouped'
  BY TrimStep
<1> QED BY <1>1, <1>2, <1>3, Phases DEF Chosen, PlannerInv

\* The costs are a square matrix of natural numbers.
LEMMA CostsTyped ==
  ASSUME Chosen, Measured, Grouped, NEW k \in Nat, k = ask.trip
  PROVE  /\ Matrix(CostMatrix, k) /\ DOMAIN groups = 1..k /\ DOMAIN days = 1..k
         /\ \A g, d \in 1..k : CostMatrix[g][d] = Cost(groups[g], days[d]) /\ CostMatrix[g][d] >= 0
<1>1. DOMAIN groups = 1..k
  BY DEF Grouped, GroupsOf
<1>2. DOMAIN days = 1..k /\ days \in [1..k -> DayRows]
  BY DEF Chosen
<1>3. PICK table : table = CostMatrix
  OBVIOUS
<1>4. table = [g \in 1..k |-> [d \in 1..k |-> Cost(groups[g], days[d])]]
  BY <1>1, <1>2, <1>3 DEF CostMatrix
<1>5. \A g, d \in 1..k : Cost(groups[g], days[d]) \in Int /\ Cost(groups[g], days[d]) >= 0
  <2>1. ASSUME NEW g \in 1..k, NEW d \in 1..k
        PROVE  Cost(groups[g], days[d]) \in Int /\ Cost(groups[g], days[d]) >= 0
    <3>1. PICK list \in Seq(Stops) : list = groups[g] /\ list # <<>>
      BY GroupMembers DEF Grouped
    <3>2. PICK day \in DayRows : day = days[d]
      BY <1>2
    <3>3. Cost(list, day) \in Int /\ Cost(list, day) >= 0
      BY <3>1, CostParts
    <3> QED BY <3>1, <3>2, <3>3
  <2> QED BY <2>1
<1>6. table \in [1..k -> [1..k -> Int]] /\ \A g, d \in 1..k : table[g][d] = Cost(groups[g], days[d])
  BY <1>4, <1>5
<1> QED BY <1>1, <1>2, <1>3, <1>5, <1>6 DEF Matrix

\* Setting up the matching keeps the invariant.
LEMMA WeighKeeps ==
  ASSUME PlannerInv, Weigh
  PROVE  PlannerInv'
<1>1. /\ phase = "trimming" /\ phase' = "matching" /\ NoOverfull
      /\ UNCHANGED <<ask, days, pages, pois, travel, groups, dropped>>
      /\ costs' = CostMatrix /\ match' = MatchStart(ask.trip)
  BY DEF Weigh, NoOverfull, CostMatrix
<1>2. Chosen /\ Chosen' /\ Measured /\ Measured' /\ Grouped /\ Grouped'
  BY <1>1, ChosenKnown, SameChosen, SameMeasured, SameGrouped, Phases DEF PlannerInv
<1>3. PICK k \in Nat : k = ask.trip /\ k >= 1
  BY <1>2, AskFields, SMTT(30) DEF Chosen
<1>4. Matrix(CostMatrix, k) /\ \A g, d \in 1..k : CostMatrix[g][d] >= 0
  BY <1>2, <1>3, CostsTyped
<1>5. MatchInv(MatchStart(k), CostMatrix, k)
  BY <1>3, <1>4, MatchStarts
<1>6. CostMatrix' = CostMatrix /\ NoOverfull'
  BY <1>1, SamePriced
<1>7. MatchInv(match, costs, ask.trip)'
  BY <1>1, <1>3, <1>5
<1>8. Priced'
  BY <1>1, <1>6, <1>7 DEF Priced
<1> QED BY <1>1, <1>2, <1>8, Phases DEF Chosen, PlannerInv

\* The passes of the matching keep the invariant.
LEMMA MatchingKeeps ==
  ASSUME PlannerInv, Scan \/ Augment
  PROVE  PlannerInv'
<1>1. /\ phase = "matching" /\ phase' = phase
      /\ UNCHANGED <<ask, days, pages, pois, travel, groups, dropped, costs>>
  BY DEF Scan, Augment
<1>2. Chosen /\ Chosen' /\ Measured /\ Measured' /\ Grouped /\ Grouped' /\ Priced
  BY <1>1, ChosenKnown, SameChosen, SameMeasured, SameGrouped, Phases DEF PlannerInv
<1>3. PICK k \in Nat : k = ask.trip /\ k >= 1
  BY <1>2, AskFields DEF Chosen
<1>4. Matrix(costs, k) /\ MatchInv(match, costs, k)
  BY <1>2, <1>3, CostsTyped DEF Priced
<1>5. MatchInv(match', costs, k)
  <2>1. CASE Scan
    <3>1. ~Augmentable(match) /\ match.row <= k /\ match' = Scanned(match, costs, k)
      <4>1. match.row \in Nat
        BY <1>4, RegisterTypes DEF MatchInv
      <4> QED BY <1>3, <2>1, <4>1 DEF Scan, Placed
    <3> QED BY <1>3, <1>4, <3>1, ScanKeeps
  <2>2. CASE Augment
    BY <1>3, <2>2, <1>4, AugmentKeeps DEF Augment
  <2> QED BY <2>1, <2>2
<1>6. CostMatrix' = CostMatrix /\ NoOverfull'
  BY <1>1, <1>2, SamePriced DEF Priced
<1>7. MatchInv(match, costs, ask.trip)'
  BY <1>1, <1>3, <1>5
<1>8. Priced'
  BY <1>1, <1>2, <1>6, <1>7 DEF Priced
<1> QED BY <1>1, <1>2, <1>8, Phases DEF Chosen, PlannerInv

\* Building the itinerary keeps the invariant.
LEMMA BuildKeeps ==
  ASSUME PlannerInv, Build
  PROVE  PlannerInv'
<1>1. /\ phase = "matching" /\ phase' = "done" /\ Placed(match, ask.trip)
      /\ UNCHANGED <<ask, days, pages, pois, travel, groups, dropped, costs, match>>
      /\ plan' = [d \in DOMAIN days |-> DayPlan(d)]
  BY DEF Build, DayPlan, GroupOn
<1>2. Chosen /\ Chosen' /\ Measured /\ Measured' /\ Grouped /\ Grouped' /\ Priced
  BY <1>1, ChosenKnown, SameChosen, SameMeasured, SameGrouped, Phases DEF PlannerInv
<1>3. PICK k \in Nat : k = ask.trip /\ k >= 1
  BY <1>2, AskFields, SMTT(30) DEF Chosen
<1>4. match.row = k + 1
  <2>1. match.row \in Nat /\ match.row <= k + 1
    BY <1>2, <1>3, RegisterTypes DEF Priced, MatchInv
  <2> QED BY <1>1, <1>3, <2>1 DEF Placed
<1>5. CostMatrix' = CostMatrix /\ NoOverfull'
  BY <1>1, <1>2, SamePriced DEF Priced
<1>6. MatchInv(match, costs, ask.trip)'
  BY <1>1, <1>2 DEF Priced
<1>7. Priced'
  BY <1>1, <1>2, <1>5, <1>6 DEF Priced
<1>8. \A d : DayPlan(d)' = DayPlan(d)
  BY <1>1 DEF DayPlan, GroupOn, Conflicts
<1>9. Planned'
  BY <1>1, <1>3, <1>4, <1>8 DEF Planned
<1> QED BY <1>1, <1>2, <1>7, <1>9, Phases DEF Chosen, PlannerInv

\* A returned call keeps the invariant.
LEMMA StutterKeeps ==
  ASSUME PlannerInv, UNCHANGED vars
  PROVE  PlannerInv'
<1>1. UNCHANGED <<phase, outcome, ask, forecast, days, pages, pois, travel, search, groups, dropped,
                  costs, match, plan>>
  BY DEF vars
<1>2. AskTyped'
  BY <1>1 DEF PlannerInv, AskTyped
<1>3. phase \in WhenRanked => Usables(pois)'
  BY <1>1 DEF PlannerInv, Usables, Capacity
<1>4. phase \in WhenCollected => CatalogueOf(pois, pages)'
  BY <1>1 DEF PlannerInv
<1>5. phase \in WhenMeasured => Measured'
  BY <1>1, SameMeasured DEF PlannerInv
<1>6. phase = "clustering" => SearchInv'
  <2>1. SearchInv' <=> SearchInv
    BY <1>1 DEF SearchInv, Spread, GroupsOf, Stops
  <2> QED BY <2>1 DEF PlannerInv
<1>7. phase \in WhenGrouped => Grouped'
  BY <1>1, SameGrouped DEF PlannerInv
<1>8. phase \in WhenMatched => Priced'
  BY <1>1, SamePriced DEF PlannerInv, Priced
<1>9. phase \in AtEnd => Planned'
  <2>1. \A d : DayPlan(d)' = DayPlan(d)
    BY <1>1 DEF DayPlan, GroupOn, Conflicts
  <2> QED BY <1>1, <2>1 DEF PlannerInv, Planned
<1> QED BY <1>1, <1>2, <1>3, <1>4, <1>5, <1>6, <1>7, <1>8, <1>9 DEF PlannerInv

\* What each phase has established stays: the inductive invariant of the planner.
THEOREM PlannerInvariant == Spec => []PlannerInv
<1>1. Init => PlannerInv
  BY InitPlanner
<1>2. PlannerInv /\ [Next]_vars => PlannerInv'
  <2> SUFFICES ASSUME PlannerInv, [Next]_vars PROVE PlannerInv'
    OBVIOUS
  <2>1. CASE WeatherUnavailable \/ ForecastOutOfRange \/ NoCompleteWindow \/ SourcesFail \/ TooFew
             \/ MatrixFails \/ GeocodeFails
    BY <2>1, FailuresKeep
  <2>2. CASE Recommend
    BY <2>2, RecommendKeeps
  <2>3. CASE Search
    BY <2>3, SearchKeeps
  <2>4. CASE Collect
    BY <2>4, CollectKeeps
  <2>5. CASE Geocode
    BY <2>5, GeocodeKeeps
  <2>6. CASE Rank
    BY <2>6, RankKeeps
  <2>7. CASE Select
    BY <2>7, SelectKeeps
  <2>8. CASE Measure
    BY <2>8, MeasureKeeps
  <2>9. CASE Seed
    BY <2>9, SeedKeeps
  <2>10. CASE Refine
    BY <2>10, RefineKeeps
  <2>11. CASE Trim
    BY <2>11, TrimStays
  <2>12. CASE Weigh
    BY <2>12, WeighKeeps
  <2>13. CASE Scan \/ Augment
    BY <2>13, MatchingKeeps
  <2>14. CASE Build
    BY <2>14, BuildKeeps
  <2>15. CASE Returned
    BY <2>15, StutterKeeps DEF Returned
  <2>16. CASE UNCHANGED vars
    BY <2>16, StutterKeeps
  <2> QED BY <2>1, <2>2, <2>3, <2>4, <2>5, <2>6, <2>7, <2>8, <2>9, <2>10, <2>11, <2>12, <2>13,
             <2>14, <2>15, <2>16 DEF Next
<1> QED BY <1>1, <1>2, PTL DEF Spec

-----------------------------------------------------------------------------
(* Potentials and groups *)

\* In every pass of the matching the potentials underestimate every cost and are exact
\* on the pairs matched, whatever the forecast, the city and the distances.
THEOREM PotentialsAreFeasible == Spec => []PotentialsFeasible
<1>1. PlannerInv => PotentialsFeasible
  <2> SUFFICES ASSUME PlannerInv, phase \in {"matching", "done"},
                      NEW row \in 1..ask.trip, NEW day \in 1..ask.trip
               PROVE  /\ match.u[row] + match.v[day] <= costs[row][day]
                      /\ match.p[day] = row => match.u[row] + match.v[day] = costs[row][day]
    BY DEF PotentialsFeasible
  <2>1. MatchInv(match, costs, ask.trip)
    BY Phases DEF PlannerInv, Priced
  <2>2. match.u[row] + match.v[day] <= costs[row][day]
    BY <2>1 DEF MatchInv, Feasible
  <2>3. row # 0
    <3>1. ask.trip \in Int
      BY AskFields DEF PlannerInv
    <3> QED BY <3>1
  <2>4. match.p[day] = row => match.u[row] + match.v[day] = costs[row][day]
    BY <2>1, <2>3 DEF MatchInv, RowsMatched
  <2> QED BY <2>2, <2>4
<1> QED BY <1>1, PlannerInvariant, PTL

-----------------------------------------------------------------------------
(* What the pages say of the attractions *)

\* The listings of an attraction are those of its key on the pages.
LEMMA ListingsAre ==
  ASSUME NEW poi
  PROVE  ListingsOf(poi) = ListedIn(pages, poi.key)
  BY DEF ListingsOf, ListedIn

\* There are seven weekdays.
LEMMA WeekdayTyped ==
  ASSUME NEW day \in DayRows
  PROVE  Weekday(day.date) \in 0..6
<1>1. PICK n \in Nat : n = day.date
  BY DEF DayRows
<1>2. n % 7 \in 0..6
  OBVIOUS
<1> QED BY <1>1, <1>2 DEF Weekday

\* An attraction is closed on the weekdays any page tells.
LEMMA ClosedTold ==
  ASSUME Chosen, NEW i \in DOMAIN pois, NEW day \in DayRows
  PROVE  ClosedOn(pois[i], day.date) <=> Weekday(day.date) \in pois[i].closed
<1>1. PICK poi : poi = pois[i]
  OBVIOUS
<1>2. TellsOf(poi, pages)
  BY <1>1 DEF Chosen, CatalogueOf
<1>3. PICK w \in 0..6 : w = Weekday(day.date)
  BY WeekdayTyped
<1>4. w \in poi.closed <=> \E listing \in ListedIn(pages, poi.key) : w \in listing.closed
  BY <1>2, <1>3 DEF TellsOf
<1>5. ClosedOn(poi, day.date) <=> \E listing \in ListedIn(pages, poi.key) : w \in listing.closed
  BY <1>3, ListingsAre DEF ClosedOn
<1> QED BY <1>1, <1>3, <1>4, <1>5

\* No page says of a selected attraction that it has closed down.
LEMMA NoneIsShut ==
  ASSUME Chosen, NEW i \in DOMAIN pois, NEW listing \in ListingsOf(pois[i])
  PROVE  "closed down" \notin Told(listing)
<1>1. PICK poi : poi = pois[i]
  OBVIOUS
<1>2. TellsOf(poi, pages)
  BY <1>1 DEF Chosen, CatalogueOf
<1>3. ~poi.shut
  BY <1>1 DEF Chosen, Usables
<1>4. listing \in ListedIn(pages, poi.key)
  BY <1>1, ListingsAre
<1> QED BY <1>2, <1>3, <1>4 DEF TellsOf

-----------------------------------------------------------------------------
(* Groups partition the attractions *)

\* A group has no attraction twice.
LEMMA GroupSize ==
  ASSUME Measured, Grouped, NEW k \in Nat, k = ask.trip, NEW g \in 1..k
  PROVE  groups[g] # <<>> /\ Cardinality(ToSet(groups[g])) = Len(groups[g])
<1>1. PICK list \in Seq(Stops) : list = groups[g] /\ list # <<>>
  BY GroupMembers DEF Grouped
<1>2. \A m, n \in DOMAIN list : list[m] = list[n] => m = n
  BY <1>1, GroupMembers DEF Grouped
<1>3. Spread(list)
  BY <1>1, <1>2 DEF Spread
<1> QED BY <1>1, <1>3, SpreadFacts

\* Groups share nothing with one another or with what was dropped.
LEMMA GroupsApart ==
  ASSUME Grouped, NEW k \in Nat, k = ask.trip
  PROVE  /\ \A g, h \in 1..k : g # h => ToSet(groups[g]) \cap ToSet(groups[h]) = {}
         /\ \A g \in 1..k : ToSet(groups[g]) \cap dropped = {}
         /\ \A g \in 1..k : ToSet(groups[g]) \subseteq Stops
         /\ \A i \in Stops : i \in dropped \/ \E g \in 1..k : i \in ToSet(groups[g])
<1>1. GroupsOf(groups, dropped, Stops, k)
  BY DEF Grouped
<1>2. \A g \in 1..k : \A i : i \in ToSet(groups[g]) <=> \E n \in DOMAIN groups[g] : groups[g][n] = i
  BY DEF ToSet
<1>3. \A g, h \in 1..k : \A m \in DOMAIN groups[g], n \in DOMAIN groups[h] :
        groups[g][m] = groups[h][n] => g = h /\ m = n
  BY <1>1 DEF GroupsOf
<1>4. \A g, h \in 1..k : g # h => ToSet(groups[g]) \cap ToSet(groups[h]) = {}
  BY <1>2, <1>3
<1>5. \A g \in 1..k : \A n \in DOMAIN groups[g] : groups[g][n] \notin dropped
  BY <1>1 DEF GroupsOf
<1>6. \A g \in 1..k : ToSet(groups[g]) \cap dropped = {}
  BY <1>2, <1>5
<1>7. \A g \in 1..k : ToSet(groups[g]) \subseteq Stops
  BY <1>1, GroupMembers
<1>8. \A i \in Stops : i \in dropped \/ \E g \in 1..k : \E n \in DOMAIN groups[g] : groups[g][n] = i
  BY <1>1 DEF GroupsOf
<1>9. \A i \in Stops : i \in dropped \/ \E g \in 1..k : i \in ToSet(groups[g])
  BY <1>2, <1>8
<1> QED BY <1>4, <1>6, <1>7, <1>9

\* Through all rounds and trims every attraction selected is in one group or among the
\* dropped, every day keeps a group, and none is planned twice or shut.
THEOREM NothingIsLost == Spec => []NothingLost
<1>1. PlannerInv => NothingLost
  <2> SUFFICES ASSUME PlannerInv, phase \in {"trimming", "matching", "done"} PROVE NothingLost
    BY DEF NothingLost
  <2>1. Chosen /\ Measured /\ Grouped
    BY ChosenKnown, Phases DEF PlannerInv
  <2>2. PICK k \in Nat : k = ask.trip
    BY <2>1, AskFields DEF Chosen
  <2>3. DOMAIN groups = 1..k /\ Len(groups) = ask.trip
    BY <2>1, <2>2 DEF Grouped, GroupsOf
  <2> DEFINE members == [g \in DOMAIN groups |-> ToSet(groups[g])]
  <2>4. \A i, j \in DOMAIN pois : i # j => pois[i].key # pois[j].key
    BY <2>1 DEF Chosen, CatalogueOf, Distinct
  <2>5. \A i \in DOMAIN pois : \A listing \in ListingsOf(pois[i]) : "closed down" \notin Told(listing)
    BY <2>1, NoneIsShut
  <2>6. \A g \in DOMAIN groups : members[g] = ToSet(groups[g])
    OBVIOUS
  <2>7. \A g \in DOMAIN groups : groups[g] # <<>> /\ Cardinality(members[g]) = Len(groups[g])
    BY <2>1, <2>2, <2>3, <2>6, GroupSize
  <2>8. /\ \A g, h \in 1..k : g # h => members[g] \cap members[h] = {}
        /\ \A g \in 1..k : members[g] \cap dropped = {} /\ members[g] \subseteq Stops
        /\ \A i \in Stops : i \in dropped \/ \E g \in 1..k : i \in members[g]
    BY <2>1, <2>2, <2>3, <2>6, GroupsApart, ZenonT(60)
  <2>9. UNION ToSet(members) = UNION {members[g] : g \in 1..k}
    <3>1. DOMAIN members = 1..k
      BY <2>3
    <3> QED BY <3>1 DEF ToSet
  <2>10. dropped \subseteq Stops /\ DOMAIN pois = Stops
    BY <2>1, StopsFacts DEF Grouped, GroupsOf
  <2>11. /\ \A g, h \in DOMAIN groups : g # h => members[g] \cap members[h] = {}
         /\ (UNION ToSet(members)) \cup dropped = DOMAIN pois
         /\ (UNION ToSet(members)) \cap dropped = {}
    <3> HIDE DEF members
    <3>1. \A g, h \in DOMAIN groups : g # h => members[g] \cap members[h] = {}
      BY <2>3, <2>8
    <3>2. PICK all : all = UNION {members[g] : g \in 1..k}
      OBVIOUS
    <3>3. \A i : i \in all <=> \E g \in 1..k : i \in members[g]
      BY <3>2, Zenon
    <3>4. all \cup dropped = Stops
      BY <2>8, <2>10, <3>3
    <3>5. all \cap dropped = {}
      BY <2>8, <3>3
    <3>6. UNION ToSet(members) = all
      BY <2>9, <3>2, Zenon
    <3>7. (UNION ToSet(members)) \cup dropped = DOMAIN pois /\ (UNION ToSet(members)) \cap dropped = {}
      <4> DEFINE joined == UNION ToSet(members)
      <4>1. joined = all
        BY <3>6
      <4> HIDE DEF joined
      <4>2. joined \cup dropped = DOMAIN pois /\ joined \cap dropped = {}
        BY <2>10, <3>4, <3>5, <4>1
      <4> QED BY <4>2 DEF joined
    <3> QED BY <3>1, <3>7
  <2>12. /\ \A i, j \in DOMAIN pois : i # j => pois[i].key # pois[j].key
         /\ \A i \in DOMAIN pois :
              \A listing \in ListingsOf(pois[i]) : "closed down" \notin Told(listing)
         /\ Len(groups) = ask.trip
         /\ \A g \in DOMAIN groups : groups[g] # <<>> /\ Cardinality(members[g]) = Len(groups[g])
         /\ \A g, h \in DOMAIN groups : g # h => members[g] \cap members[h] = {}
         /\ (UNION ToSet(members)) \cup dropped = DOMAIN pois
         /\ (UNION ToSet(members)) \cap dropped = {}
    <3> HIDE DEF members
    <3> QED BY <2>3, <2>4, <2>5, <2>7, <2>11
  <2> QED BY <2>12, Zenon DEF NothingLost
<1> QED BY <1>1, PlannerInvariant, PTL

-----------------------------------------------------------------------------
(* The assignment of days is minimal *)

\* One column for every row.
Assigns(f, k) ==
  /\ f \in [1..k -> 1..k]
  /\ \A g, h \in 1..k : f[g] = f[h] => g = h
  /\ \A d \in 1..k : \E g \in 1..k : f[g] = d

\* A one-to-one assignment of k groups to k days uses every day.
LEMMA OneToOneOnto ==
  ASSUME NEW k \in Nat, NEW f \in [1..k -> 1..k], \A g, h \in 1..k : f[g] = f[h] => g = h
  PROVE  Assigns(f, k)
<1>1. PICK S : S = 1..k
  OBVIOUS
<1>2. IsFiniteSet(S) /\ f \in [S -> S] /\ \A g, h \in S : f[g] = f[h] => g = h
  BY <1>1, UpToSize
<1>3. \A d \in S : \E g \in S : f[g] = d
  <2>1. PICK T : T = S
    OBVIOUS
  <2>2. /\ IsFiniteSet(S) /\ IsFiniteSet(T) /\ Cardinality(S) = Cardinality(T)
        /\ f \in [S -> T] /\ \A x, y \in S : f[x] = f[y] => x = y
    BY <1>2, <2>1
  <2>3. \A d \in T : \E g \in S : f[g] = d
    BY <2>2, OneToOneIsOnto, SMTT(30)
  <2> QED BY <2>1, <2>3
<1> QED BY <1>1, <1>3 DEF Assigns

\* The matchings of the properties are the one-to-one assignments.
LEMMA MatchingsAre ==
  ASSUME NEW k \in Nat, k = ask.trip, NEW other \in Matchings
  PROVE  Assigns(other, k)
<1>1. PICK S : S = 1..k
  OBVIOUS
<1>2. Cardinality(S) = k
  BY <1>1, UpToSize
<1>3. other \in {f \in [1..k -> S] : \A i, j \in 1..k : i # j => f[i] # f[j]}
  BY <1>1, <1>2 DEF Matchings, SetToSeqs
<1>4. other \in [1..k -> 1..k] /\ \A g, h \in 1..k : other[g] = other[h] => g = h
  BY <1>1, <1>3
<1> QED BY <1>4, OneToOneOnto

\* When every row is placed the columns are a permutation of the rows.
LEMMA AssignmentFacts ==
  ASSUME NEW k \in Nat, k >= 1, NEW cost, NEW m, MatchInv(m, cost, k), m.row = k + 1
  PROVE  /\ Assigns(Assignment(m, k), k)
         /\ \A row \in 1..k : m.p[Assignment(m, k)[row]] = row
<1>1. PICK a : a = Assignment(m, k)
  OBVIOUS
<1>2. \A row \in 1..k : \E c \in 1..k : m.p[c] = row
  BY DEF MatchInv, RowsMatched
<1>3. a = [row \in 1..k |-> CHOOSE c \in 1..k : m.p[c] = row]
  BY <1>1 DEF Assignment
<1>4. \A row \in 1..k : a[row] \in 1..k /\ m.p[a[row]] = row
  BY <1>2, <1>3
<1>5. a \in [1..k -> 1..k]
  BY <1>3, <1>4
<1>6. \A g, h \in 1..k : a[g] = a[h] => g = h
  <2>1. ASSUME NEW g \in 1..k, NEW h \in 1..k, a[g] = a[h] PROVE g = h
    BY <1>4, <2>1
  <2> QED BY <2>1
<1>7. Assigns(a, k)
  BY <1>5, <1>6, OneToOneOnto
<1> QED BY <1>1, <1>4, <1>7

\* The group of each day and the day of each group.
LEMMA DaysChosen ==
  ASSUME Chosen, Grouped, Priced, Planned, NEW k \in Nat, k = ask.trip, k >= 1
  PROVE  /\ ChosenDays = Assignment(match, k) /\ Assigns(ChosenDays, k)
         /\ DOMAIN plan = 1..k /\ DOMAIN groups = 1..k /\ DOMAIN days = 1..k
         /\ \A d \in 1..k : /\ plan[d] = DayPlan(d) /\ plan[d].group = GroupOn(d)
                            /\ GroupOn(d) \in 1..k /\ ChosenDays[GroupOn(d)] = d
         /\ \A g \in 1..k : match.p[ChosenDays[g]] = g
<1>1. DOMAIN groups = 1..k
  BY DEF Grouped, GroupsOf
<1>2. DOMAIN days = 1..k
  BY DEF Chosen
<1>3. plan = [d \in 1..k |-> DayPlan(d)] /\ match.row = k + 1
  BY <1>2 DEF Planned
<1>4. PICK a : a = Assignment(match, k)
  OBVIOUS
<1>5. Assigns(a, k) /\ \A row \in 1..k : match.p[a[row]] = row
  BY <1>3, <1>4, AssignmentFacts DEF Priced
<1>6. \A d \in 1..k : GroupOn(d) = CHOOSE g \in 1..k : a[g] = d
  BY <1>1, <1>4 DEF GroupOn
<1>7. \A d \in 1..k : GroupOn(d) \in 1..k /\ a[GroupOn(d)] = d
  <2>1. ASSUME NEW d \in 1..k PROVE GroupOn(d) \in 1..k /\ a[GroupOn(d)] = d
    <3>1. \E g \in 1..k : a[g] = d
      BY <1>5 DEF Assigns
    <3>2. PICK c : c = CHOOSE g \in 1..k : a[g] = d
      OBVIOUS
    <3>3. c \in 1..k /\ a[c] = d
      BY <3>1, <3>2
    <3> QED BY <1>6, <3>2, <3>3
  <2> QED BY <2>1
<1>8. \A d \in 1..k : plan[d] = DayPlan(d)
  BY <1>3
<1>9. \A d \in 1..k : DayPlan(d).group = GroupOn(d)
  BY DEF DayPlan
<1>10. DOMAIN plan = 1..k
  BY <1>3
<1>11. \A g \in 1..k : (CHOOSE d \in 1..k : plan[d].group = g) = a[g]
  <2>1. ASSUME NEW g \in 1..k PROVE (CHOOSE d \in 1..k : plan[d].group = g) = a[g]
    <3>1. a[g] \in 1..k
      BY <1>5 DEF Assigns
    <3>2. GroupOn(a[g]) = g
      BY <1>5, <1>7, <3>1 DEF Assigns
    <3>3. plan[a[g]].group = g
      BY <1>8, <1>9, <3>1, <3>2
    <3>4. PICK c : c = CHOOSE d \in 1..k : plan[d].group = g
      OBVIOUS
    <3>5. c \in 1..k /\ plan[c].group = g
      BY <3>1, <3>3, <3>4
    <3>6. GroupOn(c) = g
      BY <1>8, <1>9, <3>5
    <3>7. c = a[g]
      BY <1>7, <3>5, <3>6
    <3> QED BY <3>4, <3>7
  <2> QED BY <2>1
<1>12. ChosenDays = a
  <2>1. ChosenDays = [g \in 1..k |-> CHOOSE d \in 1..k : plan[d].group = g]
    BY <1>1, <1>10 DEF ChosenDays
  <2>2. a = [g \in 1..k |-> a[g]]
    BY <1>5 DEF Assigns
  <2> QED BY <1>11, <2>1, <2>2
<1> QED BY <1>1, <1>2, <1>4, <1>5, <1>7, <1>8, <1>9, <1>10, <1>12

-----------------------------------------------------------------------------
(* Duality: the potentials add up to the cost of no matching less than theirs *)

\* Feasible potentials that are tight on a matching show that it is cheapest.
LEMMA CostsCompare ==
  ASSUME NEW k \in Nat, k >= 1, NEW m, MatchInv(m, costs, k), Matrix(costs, k),
         NEW best, Assigns(best, k), \A g \in 1..k : m.p[best[g]] = g,
         NEW other, Assigns(other, k)
  PROVE  CostOf(best) <= CostOf(other)
<1>1. PICK S : S = 1..k
  OBVIOUS
<1>2. IsFiniteSet(S)
  BY <1>1, UpToSize
<1>3. \A f : Assigns(f, k) => /\ f \in [S -> S] /\ \A x, y \in S : f[x] = f[y] => x = y
                              /\ \A y \in S : \E x \in S : f[x] = y
  BY <1>1 DEF Assigns
<1>4. PICK u, v : /\ u = [g \in S |-> m.u[g]] /\ v = [d \in S |-> m.v[d]]
  OBVIOUS
<1>5. \A x \in S : u[x] \in Int /\ v[x] \in Int /\ u[x] = m.u[x] /\ v[x] = m.v[x]
  BY RegisterTypes, <1>1, <1>4 DEF MatchInv
<1>6. \A g, d \in S : costs[g][d] \in Int /\ u[g] + v[d] <= costs[g][d]
  <2>1. \A g, d \in S : costs[g][d] \in Int
    BY <1>1 DEF Matrix
  <2>2. \A g, d \in S : m.u[g] + m.v[d] <= costs[g][d]
    BY <1>1 DEF MatchInv, Feasible
  <2> QED BY <1>5, <2>1, <2>2
<1> DEFINE Paid(f) == [g \in S |-> costs[g][f[g]]]
           Dual(f) == [g \in S |-> u[g] + v[f[g]]]
           Of(f) == [g \in S |-> v[f[g]]]
           total == SumFunctionOnSet(u, S) + SumFunctionOnSet(v, S)
<1>7. ASSUME NEW f, Assigns(f, k)
      PROVE  /\ SumFunctionOnSet(Dual(f), S) = total
             /\ CostOf(f) = SumFunctionOnSet(Paid(f), S)
  <2>1. f \in [S -> S] /\ (\A x, y \in S : f[x] = f[y] => x = y) /\ \A y \in S : \E x \in S : f[x] = y
    BY <1>3, <1>7
  <2>2. PICK e : e = Of(f)
    OBVIOUS
  <2>3. \A x \in S : e[x] = v[f[x]] /\ e[x] \in Int
    BY <1>5, <2>1, <2>2
  <2>4. SumFunctionOnSet(e, S) = SumFunctionOnSet(v, S)
    BY <1>2, <1>5, <2>1, <2>3, SumsReindex
  <2>5. PICK dual : dual = Dual(f)
    OBVIOUS
  <2>6. \A x \in S : u[x] \in Int /\ e[x] \in Int /\ dual[x] = u[x] + e[x]
    BY <1>5, <2>3, <2>5
  <2>7. SumFunctionOnSet(dual, S) = SumFunctionOnSet(u, S) + SumFunctionOnSet(e, S)
    BY <1>2, <2>6, SumsAdd
  <2>8. DOMAIN f = S
    BY <2>1
  <2>9. CostOf(f) = SumFunctionOnSet(Paid(f), S)
    BY <2>8 DEF CostOf, SumFunction
  <2> QED BY <2>4, <2>5, <2>7, <2>9
<1>8. CostOf(best) = total
  <2>1. PICK paid, dual : paid = Paid(best) /\ dual = Dual(best)
    OBVIOUS
  <2>2. best \in [S -> S]
    BY <1>3
  <2>3. ASSUME NEW g \in S PROVE paid[g] \in Int /\ paid[g] = dual[g]
    <3>1. PICK d \in S : d = best[g]
      BY <2>2
    <3>2. m.p[d] = g /\ g # 0 /\ d \in 1..k
      BY <1>1, <3>1
    <3>3. m.u[g] + m.v[d] = costs[g][d]
      BY <3>2 DEF MatchInv, RowsMatched
    <3>4. paid[g] = costs[g][d] /\ dual[g] = u[g] + v[d]
      BY <2>1, <3>1
    <3> QED BY <1>5, <1>6, <3>3, <3>4
  <2>4. SumFunctionOnSet(paid, S) = SumFunctionOnSet(dual, S)
    BY <1>2, <2>3, SumsAgree
  <2> HIDE DEF Paid, Dual, total
  <2> QED BY <1>7, <2>1, <2>4
<1>9. total <= CostOf(other)
  <2>1. PICK paid, dual : paid = Paid(other) /\ dual = Dual(other)
    OBVIOUS
  <2>2. other \in [S -> S]
    BY <1>3
  <2>3. ASSUME NEW g \in S PROVE dual[g] \in Int /\ paid[g] \in Int /\ dual[g] <= paid[g]
    <3>1. PICK d \in S : d = other[g]
      BY <2>2
    <3>2. paid[g] = costs[g][d] /\ dual[g] = u[g] + v[d]
      BY <2>1, <3>1
    <3> QED BY <1>5, <1>6, <3>2
  <2>4. SumFunctionOnSet(dual, S) <= SumFunctionOnSet(paid, S)
    BY <1>2, <2>3, SumsCompare
  <2> HIDE DEF Paid, Dual, total
  <2> QED BY <1>7, <2>1, <2>4
<1> HIDE DEF total
<1> QED BY <1>8, <1>9

\* What the invariant says of a finished call.
LEMMA DoneFacts ==
  ASSUME PlannerInv, phase = "done"
  PROVE  Chosen /\ Measured /\ Grouped /\ Priced /\ Planned
  BY ChosenKnown, Phases DEF PlannerInv

\* Every group has a day of its own and no other assignment of groups to days is
\* cheaper, for every matrix of costs.
THEOREM DaysAreCheapest == Spec => []CheapestDays
<1>1. PlannerInv => CheapestDays
  <2> SUFFICES ASSUME PlannerInv, phase = "done"
               PROVE  /\ \A g \in DOMAIN groups : \E d \in DOMAIN plan : plan[d].group = g
                      /\ \A other \in Matchings : CostOf(ChosenDays) <= CostOf(other)
    BY DEF CheapestDays
  <2>1. Chosen /\ Measured /\ Grouped /\ Priced /\ Planned
    BY DoneFacts
  <2>2. PICK k \in Nat : k = ask.trip /\ k >= 1
    BY <2>1, AskFields DEF Chosen
  <2>3. /\ Assigns(ChosenDays, k) /\ DOMAIN plan = 1..k /\ DOMAIN groups = 1..k
        /\ \A d \in 1..k : /\ plan[d].group = GroupOn(d) /\ GroupOn(d) \in 1..k
                           /\ ChosenDays[GroupOn(d)] = d
        /\ \A g \in 1..k : match.p[ChosenDays[g]] = g
    BY <2>1, <2>2, DaysChosen
  <2>4. ASSUME NEW g \in 1..k PROVE \E d \in 1..k : plan[d].group = g
    <3>1. PICK d \in 1..k : d = ChosenDays[g]
      BY <2>3 DEF Assigns
    <3>2. GroupOn(d) = g
      BY <2>3, <3>1 DEF Assigns
    <3> QED BY <2>3, <3>2
  <2>5. MatchInv(match, costs, k) /\ Matrix(costs, k)
    BY <2>1, <2>2, CostsTyped DEF Priced
  <2>6. ASSUME NEW other \in Matchings PROVE CostOf(ChosenDays) <= CostOf(other)
    <3>1. Assigns(other, k)
      BY <2>2, MatchingsAre
    <3> QED BY <2>2, <2>3, <2>5, <3>1, CostsCompare
  <2> QED BY <2>3, <2>4, <2>6
<1> QED BY <1>1, PlannerInvariant, PTL

-----------------------------------------------------------------------------
(* Closed attractions *)

\* The groups that meet something closed on their days.
ConflictsOf(dayOf) ==
  {g \in DOMAIN groups : Conflicts(groups[g], days[dayOf[g]].date) # {}}

\* What any page tells to be closed is what the merged attractions say.
LEMMA ConflictsTold ==
  ASSUME Chosen, Measured, Grouped, NEW k \in Nat, k = ask.trip, NEW g \in 1..k, NEW d \in 1..k
  PROVE  {i \in ToSet(groups[g]) : ClosedOn(pois[i], days[d].date)}
           = Conflicts(groups[g], days[d].date)
<1>1. PICK day \in DayRows : day = days[d]
  <2>1. days \in [1..k -> DayRows]
    BY DEF Chosen
  <2> QED BY <2>1
<1>2. \A i \in ToSet(groups[g]) : i \in DOMAIN pois
  BY GroupsApart, StopsFacts, SMT
<1>3. \A i \in ToSet(groups[g]) :
        ClosedOn(pois[i], day.date) <=> Weekday(day.date) \in pois[i].closed
  BY <1>2, ClosedTold
<1> QED BY <1>1, <1>3 DEF Conflicts

\* How many elements of s are in C.
Within(C, s) == Cardinality(C \cap s)

\* One more element of s is in C or not.
LEMMA OneMoreWithin ==
  ASSUME NEW C, NEW s, IsFiniteSet(s), NEW x, x \notin s
  PROVE  /\ Within(C, s) \in Int /\ Cardinality(s) \in Int
         /\ Cardinality(s \cup {x}) = Cardinality(s) + 1
         /\ x \in C => Within(C, s \cup {x}) = Within(C, s) + 1
         /\ x \notin C => Within(C, s \cup {x}) = Within(C, s)
<1>1. PICK r : r = C \cap s
  OBVIOUS
<1>2. IsFiniteSet(r) /\ x \notin r
  <2>1. r \in SUBSET s
    BY <1>1
  <2> QED BY <1>1, <2>1, FS_Subset
<1>3. Cardinality(r \cup {x}) = Cardinality(r) + 1 /\ Cardinality(r) \in Nat
  BY <1>2, FS_AddElement, FS_CardinalityType
<1>4. Cardinality(s \cup {x}) = Cardinality(s) + 1 /\ Cardinality(s) \in Nat
  BY FS_AddElement, FS_CardinalityType
<1>5. Within(C, s) = Cardinality(r)
  BY <1>1, Zenon DEF Within
<1>6. ASSUME x \in C PROVE Within(C, s \cup {x}) = Cardinality(r \cup {x})
  BY <1>1, <1>6, Zenon DEF Within
<1>7. ASSUME x \notin C PROVE Within(C, s \cup {x}) = Cardinality(r)
  <2>1. C \cap (s \cup {x}) = r
    BY <1>1, <1>7
  <2> QED BY <2>1, Zenon DEF Within
<1> QED BY <1>3, <1>4, <1>5, <1>6, <1>7

\* What the groups cost: a million for each conflict and, all together, less than one more.
LEMMA CostBounds ==
  ASSUME Chosen, Measured, Grouped, NEW k \in Nat, k = ask.trip, costs = CostMatrix,
         NEW dayOf, Assigns(dayOf, k)
  PROVE  /\ Cardinality(ConflictsOf(dayOf)) \in Int /\ CostOf(dayOf) \in Int
         /\ 1000000 * Cardinality(ConflictsOf(dayOf)) <= CostOf(dayOf)
         /\ CostOf(dayOf) <= 1000000 * Cardinality(ConflictsOf(dayOf)) + 13500 * k
<1>1. PICK S : S = 1..k
  OBVIOUS
<1>2. IsFiniteSet(S) /\ Cardinality(S) = k
  BY <1>1, UpToSize
<1>3. DOMAIN groups = S /\ \A g, d \in S : costs[g][d] = Cost(groups[g], days[d])
  BY <1>1, CostsTyped
<1>4. PICK C : C = ConflictsOf(dayOf)
  OBVIOUS
<1>5. C = {g \in S : Conflicts(groups[g], days[dayOf[g]].date) # {}}
  BY <1>3, <1>4 DEF ConflictsOf
<1>6. PICK paid : paid = [g \in S |-> costs[g][dayOf[g]]]
  OBVIOUS
<1>7. ASSUME NEW g \in S
      PROVE  /\ paid[g] \in Int
             /\ g \notin C => paid[g] >= 0 /\ paid[g] <= 13500
             /\ g \in C => paid[g] >= 1000000 /\ paid[g] <= 1013500
  <2>1. PICK d \in S : d = dayOf[g]
    BY <1>1 DEF Assigns
  <2>2. PICK day \in DayRows : day = days[d]
    BY <1>1 DEF Chosen
  <2>3. PICK list \in Seq(Stops) : list = groups[g] /\ list # <<>>
    BY <1>1, GroupMembers DEF Grouped
  <2>4. paid[g] = Cost(list, day)
    BY <1>3, <1>6, <2>1, <2>2, <2>3
  <2>5. g \in C <=> Meets(list, day.date)
    BY <1>5, <2>1, <2>2, <2>3 DEF Meets
  <2>6. /\ Cost(list, day) \in Int /\ Cost(list, day) >= 0
        /\ ~Meets(list, day.date) => Cost(list, day) <= 13500
        /\ Meets(list, day.date) => Cost(list, day) >= 1000000 /\ Cost(list, day) <= 1013500
    <3>1. day \in DayRows /\ list \in Seq(Stops) /\ list # <<>>
      BY <2>2, <2>3, SMT
    <3>2. Cost(list, day) \in Int /\ Cost(list, day) >= 0
      BY <3>1, CostParts, SMT
    <3>3. ~Meets(list, day.date) => Cost(list, day) <= 13500
      BY <3>1, CostParts, SMT
    <3>4. Meets(list, day.date) => Cost(list, day) >= 1000000 /\ Cost(list, day) <= 1013500
      BY <3>1, CostParts, SMT
    <3> QED BY <3>2, <3>3, <3>4, SMT
  <2> QED BY <2>4, <2>5, <2>6, SMT
<1>8. \A x \in S : paid[x] \in Int
  BY <1>7
<1> DEFINE A == {s \in SUBSET S :
                   /\ 1000000 * Within(C, s) <= SumFunctionOnSet(paid, s)
                   /\ SumFunctionOnSet(paid, s) <= 1000000 * Within(C, s) + 13500 * Cardinality(s)}
<1>9. {} \in A
  BY FS_EmptySet, SMT, <1>2, <1>8, SumFacts DEF Within
<1>10. ASSUME NEW s \in SUBSET S, NEW x \in S \ s, s \in A PROVE s \cup {x} \in A
  <2>1. PICK sum \in Int : sum = SumFunctionOnSet(paid, s)
    BY <1>2, <1>8, SumFacts
  <2>2. SumFunctionOnSet(paid, s \cup {x}) = paid[x] + sum
    BY <1>2, <1>8, <2>1, SumFacts
  <2>3. IsFiniteSet(s) /\ x \notin s
    BY <1>2, FS_Subset
  <2>4. PICK n \in Int, c \in Int : n = Cardinality(s) /\ c = Within(C, s)
    BY <2>3, OneMoreWithin, Zenon, FS_CardinalityType, SMT
  <2>5. 1000000 * c <= sum /\ sum <= 1000000 * c + 13500 * n
    BY <1>10, <2>1, <2>4, SMT
  <2>6. PICK t : t = s \cup {x} /\ t \in SUBSET S
    OBVIOUS
  <2>7. /\ Cardinality(t) = n + 1 /\ SumFunctionOnSet(paid, t) = paid[x] + sum
        /\ x \in C => Within(C, t) = c + 1
        /\ x \notin C => Within(C, t) = c
    BY <2>2, <2>3, <2>4, <2>6, OneMoreWithin, SMT
  <2>8. CASE x \in C
    <3>1. PICK p \in Int : p = paid[x] /\ p >= 1000000 /\ p <= 1013500
      BY <1>7, <2>8, SMT
    <3>2. 1000000 * (c + 1) <= p + sum /\ p + sum <= 1000000 * (c + 1) + 13500 * (n + 1)
      BY <2>5, <3>1, SMT
    <3> QED BY <2>6, <2>7, <2>8, <3>1, <3>2, SMT
  <2>9. CASE x \notin C
    <3>1. PICK p \in Int : p = paid[x] /\ p >= 0 /\ p <= 13500
      BY <1>7, <2>9, SMT
    <3>2. 1000000 * c <= p + sum /\ p + sum <= 1000000 * c + 13500 * (n + 1)
      BY <2>5, <3>1, SMT
    <3> QED BY <2>6, <2>7, <2>9, <3>1, <3>2, SMT
  <2> QED BY <2>8, <2>9, SMT
<1>11. S \in A
  <2> HIDE DEF A
  <2> QED BY <1>2, <1>9, <1>10, ElementByElement
<1>12. CostOf(dayOf) = SumFunctionOnSet(paid, S)
  <2>1. DOMAIN dayOf = S
    BY <1>1 DEF Assigns
  <2> QED BY <1>6, <2>1 DEF CostOf, SumFunction
<1>13. PICK total \in Int : total = SumFunctionOnSet(paid, S)
  BY <1>2, <1>8, SumFacts
<1>14. PICK c \in Int : c = Cardinality(C) /\ Within(C, S) = c
  <2>1. C \cap S = C /\ IsFiniteSet(C)
    BY <1>2, <1>5, FS_Subset
  <2>2. Cardinality(C) \in Nat
    BY <2>1, FS_CardinalityType
  <2> HIDE DEF A
  <2>3. Within(C, S) = Cardinality(C)
    BY <2>1, Zenon DEF Within
  <2> QED BY <2>2, <2>3, SMT
<1>15. 1000000 * c <= total /\ total <= 1000000 * c + 13500 * k
  BY <1>2, <1>11, <1>13, <1>14, SMT
<1> HIDE DEF A
<1> QED BY <1>4, <1>12, <1>13, <1>14, <1>15, SMT

\* The attractions of group g that are closed on the date of day d.
ClosedAt(g, d) == {i \in ToSet(groups[g]) : ClosedOn(pois[i], days[d].date)}

ClosedGroups(dayOf) == {g \in DOMAIN groups : ClosedAt(g, dayOf[g]) # {}}

\* No assignment of groups to days meets something closed on fewer days, and the
\* itinerary warns of exactly the conflicts left.
THEOREM ClosedOnlyWhenUnavoidable == Spec => []ClosedOnlyIfUnavoidable
<1>1. PlannerInv => ClosedOnlyIfUnavoidable
  <2> SUFFICES ASSUME PlannerInv, phase = "done" PROVE ClosedOnlyIfUnavoidable
    BY DEF ClosedOnlyIfUnavoidable
  <2>1. Chosen /\ Measured /\ Grouped /\ Priced /\ Planned
    BY DoneFacts
  <2>2. PICK k \in Nat : k = ask.trip /\ k >= 1 /\ k <= 7
    BY <2>1, AskFields DEF Chosen
  <2>3. /\ Assigns(ChosenDays, k) /\ DOMAIN plan = 1..k /\ DOMAIN groups = 1..k
        /\ \A d \in 1..k : plan[d] = DayPlan(d) /\ plan[d].group = GroupOn(d) /\ GroupOn(d) \in 1..k
        /\ \A g \in 1..k : match.p[ChosenDays[g]] = g
    BY <2>1, <2>2, DaysChosen
  <2>4. \A g, d \in 1..k : ClosedAt(g, d) = Conflicts(groups[g], days[d].date)
    BY <2>1, <2>2, ConflictsTold DEF ClosedAt
  <2>5. ASSUME NEW dayOf, Assigns(dayOf, k) PROVE ClosedGroups(dayOf) = ConflictsOf(dayOf)
    <3>1. \A g \in 1..k : dayOf[g] \in 1..k
      BY <2>5 DEF Assigns
    <3>2. \A g \in 1..k : ClosedAt(g, dayOf[g]) = Conflicts(groups[g], days[dayOf[g]].date)
      BY <2>4, <3>1
    <3> QED BY <2>3, <3>2 DEF ConflictsOf, ClosedGroups
  <2>6. ASSUME NEW other \in Matchings
        PROVE  Cardinality(ClosedGroups(ChosenDays)) <= Cardinality(ClosedGroups(other))
    <3>1. Assigns(other, k)
      BY <2>2, MatchingsAre
    <3>2. CostOf(ChosenDays) <= CostOf(other)
      BY <2>1, <2>2, <2>3, <3>1, CostsCompare, CostsTyped DEF Priced
    <3>3. PICK few \in Int, cheap \in Int :
            /\ few = Cardinality(ConflictsOf(ChosenDays)) /\ cheap = CostOf(ChosenDays)
            /\ 1000000 * few <= cheap
      BY <2>1, <2>2, <2>3, CostBounds, SMT DEF Priced
    <3>4. PICK more \in Int, dear \in Int :
            /\ more = Cardinality(ConflictsOf(other)) /\ dear = CostOf(other)
            /\ dear <= 1000000 * more + 13500 * k
      BY <2>1, <2>2, <3>1, CostBounds, SMT DEF Priced
    <3>5. few <= more
      BY <2>2, <3>2, <3>3, <3>4, SMT
    <3> QED BY <2>3, <2>5, <3>1, <3>3, <3>4, <3>5
  <2>7. ASSUME NEW d \in DOMAIN plan PROVE plan[d].conflicts = ClosedAt(plan[d].group, d)
    BY <2>3, <2>4 DEF DayPlan
  <2>8. /\ \A other \in Matchings :
             Cardinality(ClosedGroups(ChosenDays)) <= Cardinality(ClosedGroups(other))
        /\ \A d \in DOMAIN plan : plan[d].conflicts = ClosedAt(plan[d].group, d)
    BY <2>6, <2>7
  <2> QED BY <2>8, Zenon DEF ClosedOnlyIfUnavoidable, ClosedAt, ClosedGroups
<1> QED BY <1>1, PlannerInvariant, PTL

-----------------------------------------------------------------------------
(* The exact search for a shortest open path *)

\* A function on 1..n is a sequence of n elements.
LEMMA FunctionIsSeq ==
  ASSUME NEW S, NEW n \in Nat, NEW f \in [1..n -> S]
  PROVE  f \in Seq(S) /\ Len(f) = n /\ DOMAIN f = 1..n
  OBVIOUS

\* The legs of a path of at most one stop.
LEMMA NoLegs ==
  ASSUME NEW S, NEW path \in Seq(S), Len(path) <= 1, NEW W
  PROVE  LegsOf(path, W) = 0
<1>1. 1..(Len(path) - 1) = {}
  OBVIOUS
<1>2. PICK legs : legs = [i \in 1..(Len(path) - 1) |-> W[path[i]][path[i + 1]]]
  OBVIOUS
<1>3. LegsOf(path, W) = SumFunctionOnSet(legs, {})
  BY <1>1, <1>2 DEF LegsOf, SumFunction
<1>4. PICK N : N = {}
  OBVIOUS
<1>5. IsFiniteSet(N) /\ \A x \in N : legs[x] \in Int
  BY <1>4, FS_EmptySet
<1> QED BY <1>3, <1>5, SumFacts

\* The lengths of the legs between the stops of S.
Distances(W, S) == \A a, b \in S : W[a][b] \in Int

\* p goes one stop further than q.
Prolongs(p, q, n, S) ==
  p \in [1..(n + 1) -> S] /\ q \in [1..n -> S] /\ \A i \in 1..n : q[i] = p[i]

\* One more stop is one more leg.
LEMMA LegsGrow ==
  ASSUME NEW S, NEW W, Distances(W, S), NEW n \in Nat, n >= 1,
         NEW p, NEW q, Prolongs(p, q, n, S)
  PROVE  /\ LegsOf(p, W) \in Int /\ LegsOf(q, W) \in Int
         /\ LegsOf(p, W) = LegsOf(q, W) + W[q[n]][p[n + 1]]
<1>0. p \in [1..(n + 1) -> S] /\ q \in [1..n -> S] /\ \A i \in 1..n : q[i] = p[i]
  BY DEF Prolongs
<1>1. Len(p) = n + 1 /\ Len(q) = n
  BY <1>0, FunctionIsSeq
<1>2. PICK R : R = 1..(n - 1)
  OBVIOUS
<1>3. PICK U : U = 1..n
  OBVIOUS
<1>4. PICK lp : lp = [i \in U |-> W[p[i]][p[i + 1]]]
  OBVIOUS
<1>5. PICK lq : lq = [i \in R |-> W[q[i]][q[i + 1]]]
  OBVIOUS
<1>6. LegsOf(p, W) = SumFunctionOnSet(lp, U)
  BY <1>1, <1>3, <1>4 DEF LegsOf, SumFunction
<1>7. LegsOf(q, W) = SumFunctionOnSet(lq, R)
  BY <1>1, <1>2, <1>5 DEF LegsOf, SumFunction
<1>8. IsFiniteSet(U) /\ R \in SUBSET U /\ n \in U \ R /\ U = R \cup {n} /\ IsFiniteSet(R)
  BY <1>3, UpToSize, <1>2, FS_Subset
<1>9. \A i \in U : lp[i] \in Int
  BY <1>0, <1>3, <1>4 DEF Distances
<1>10. \A i \in R : lp[i] \in Int /\ lp[i] = lq[i]
  <2>1. \A i \in R : i \in 1..n /\ i + 1 \in 1..n
    BY <1>2
  <2>2. \A i \in R : q[i] = p[i] /\ q[i + 1] = p[i + 1]
    BY <1>0, <2>1
  <2> QED BY <1>4, <1>5, <1>8, <1>9, <2>2
<1>11. SumFunctionOnSet(lp, R) = SumFunctionOnSet(lq, R)
  BY <1>8, <1>10, SumsAgree
<1>12. SumFunctionOnSet(lp, R) \in Int /\ SumFunctionOnSet(lp, R \cup {n}) = lp[n] + SumFunctionOnSet(lp, R)
  <2>1. SumFunctionOnSet(lp, R) \in Int
    BY <1>8, <1>9, SumFacts
  <2>2. \A x \in U \ R : SumFunctionOnSet(lp, R \cup {x}) = lp[x] + SumFunctionOnSet(lp, R)
    <3>1. R \in SUBSET U /\ IsFiniteSet(U) /\ \A i \in U : lp[i] \in Int
      BY <1>8, <1>9
    <3>2. ASSUME NEW x \in U \ R
          PROVE  SumFunctionOnSet(lp, R \cup {x}) = lp[x] + SumFunctionOnSet(lp, R)
      BY <3>1, SumFacts
    <3> QED BY <3>2
  <2> QED BY <1>8, <2>1, <2>2
<1>13. lp[n] = W[q[n]][p[n + 1]] /\ lp[n] \in Int
  <2>1. n \in 1..n
    OBVIOUS
  <2>2. q[n] = p[n]
    BY <1>0, <2>1
  <2> QED BY <1>4, <1>8, <1>9, <2>2
<1>14. PICK a \in Int, b \in Int : a = lp[n] /\ b = SumFunctionOnSet(lp, R)
  BY <1>12, <1>13
<1>15. LegsOf(p, W) = a + b /\ LegsOf(q, W) = b
  BY <1>6, <1>7, <1>8, <1>11, <1>12, <1>14
<1> QED BY <1>13, <1>14, <1>15

\* The legs of a path are a number.
LEMMA LegsTyped ==
  ASSUME NEW S, NEW W, Distances(W, S), NEW n \in Nat, n >= 1,
         NEW p \in [1..n -> S]
  PROVE  LegsOf(p, W) \in Int
<1>1. PICK m \in Nat : n = m + 1
  OBVIOUS
<1>2. CASE m = 0
  <2>1. p \in Seq(S) /\ Len(p) <= 1
    <3>1. p \in Seq(S) /\ Len(p) = n
      BY FunctionIsSeq
    <3> QED BY <1>1, <1>2, <3>1
  <2>2. LegsOf(p, W) = 0
    BY <2>1, NoLegs
  <2> QED BY <2>2
<1>3. CASE m >= 1
  <2>1. PICK q \in [1..m -> S] : \A i \in 1..m : q[i] = p[i]
    <3>1. PICK q : q = [i \in 1..m |-> p[i]]
      OBVIOUS
    <3>2. q \in [1..m -> S] /\ \A i \in 1..m : q[i] = p[i]
      BY <1>1, <3>1
    <3> QED BY <3>2
  <2>2. p \in [1..(m + 1) -> S]
    BY <1>1
  <2>3. Prolongs(p, q, m, S)
    BY <2>1, <2>2 DEF Prolongs
  <2> QED BY <1>3, <2>3, LegsGrow
<1> QED BY <1>2, <1>3

\* A path through the stops V that ends at l.
PathTo(path, V, l) ==
  /\ path \in [1..Cardinality(V) -> V]
  /\ \A i, j \in 1..Cardinality(V) : path[i] = path[j] => i = j
  /\ path[Cardinality(V)] = l

\* A shortest such path with its length.
ShortestTo(r, V, l, W) ==
  /\ PathTo(r.path, V, l)
  /\ r.cost = LegsOf(r.path, W)
  /\ \A q : PathTo(q, V, l) => r.cost <= LegsOf(q, W)

Partial == [cost: Int, path: Seq(Nat)]

\* The stops of a state, the last one and those before.
Splits(s, V, l, U) == s[1] = V /\ s[2] = l /\ U = V \ {l}

\* The stops before the last one.
LEMMA StateFacts ==
  ASSUME NEW k \in Nat, NEW group, DOMAIN group = 1..k, NEW n \in 2..k, NEW s \in States(group, n),
         NEW V, NEW l, NEW U, Splits(s, V, l, U)
  PROVE  /\ V \in SUBSET (1..k) /\ l \in V /\ IsFiniteSet(V) /\ Cardinality(V) = n
         /\ U \in SUBSET (1..k) /\ IsFiniteSet(U) /\ Cardinality(U) = n - 1 /\ U # {}
         /\ U \in SUBSET Int
         /\ \A p \in U : <<U, p>> \in States(group, n - 1)
<1>1. V \in SUBSET (1..k) /\ l \in V /\ Cardinality(V) = n
  BY DEF States, Splits
<1>0. U = V \ {l}
  BY DEF Splits
<1>2. IsFiniteSet(V) /\ IsFiniteSet(U) /\ Cardinality(U) = n - 1
  <2>1. PICK S : S = 1..k
    OBVIOUS
  <2>2. IsFiniteSet(S) /\ V \in SUBSET S
    BY <1>1, <2>1, UpToSize
  <2>3. IsFiniteSet(V)
    BY <2>2, FS_Subset
  <2>4. IsFiniteSet(U) /\ Cardinality(U) = Cardinality(V) - 1
    BY <1>0, <1>1, <2>3, FS_RemoveElement
  <2> QED BY <1>1, <2>3, <2>4
<1>3. U # {}
  BY FS_EmptySet, <1>2
<1>4. U \in SUBSET (1..k) /\ U \in SUBSET Int
  BY <1>0, <1>1
<1>5. ASSUME NEW p \in U PROVE <<U, p>> \in States(group, n - 1)
  BY <1>2, <1>4 DEF States
<1> QED BY <1>1, <1>2, <1>3, <1>4, <1>5

\* What a state is reached from: the cheapest of the states before it.
Via(before, state, leg, via) ==
  LET visited == state[1] \ {state[2]}
      cost(p) == before[<<visited, p>>].cost + leg[p][state[2]]
  IN  /\ via \in visited
      /\ \A p \in visited : cost(via) <= cost(p)
      /\ Reached(before, state, leg)
           = [cost |-> cost(via), path |-> Append(before[<<visited, via>>].path, state[2])]

\* The state before is one that makes the path to a state shortest.
LEMMA ReachedVia ==
  ASSUME NEW k \in Nat, NEW group, DOMAIN group = 1..k, NEW n \in 2..k, NEW s \in States(group, n),
         NEW W, Distances(W, 1..k),
         NEW before \in [States(group, n - 1) -> Partial]
  PROVE  \E via : Via(before, s, W, via)
<1>0. PICK V, l, U : Splits(s, V, l, U)
  BY DEF Splits
<1>1. s[1] = V /\ s[2] = l /\ U = V \ {l}
  BY <1>0 DEF Splits
<1>2. /\ V \in SUBSET (1..k) /\ l \in V /\ U \in SUBSET (1..k) /\ IsFiniteSet(U) /\ U # {}
      /\ U \in SUBSET Int /\ \A p \in U : <<U, p>> \in States(group, n - 1)
  BY <1>0, StateFacts
<1>3. PICK cost : cost = [p \in U |-> before[<<U, p>>].cost + W[p][l]]
  OBVIOUS
<1>4. \A p \in U : cost[p] \in Int /\ cost[p] = before[<<U, p>>].cost + W[p][l]
  <2>1. ASSUME NEW p \in U PROVE before[<<U, p>>].cost + W[p][l] \in Int
    <3>1. before[<<U, p>>] \in Partial
      BY <1>2
    <3>2. PICK c \in Int : c = before[<<U, p>>].cost
      BY <3>1 DEF Partial
    <3>3. W[p][l] \in Int
      BY <1>2 DEF Distances
    <3> QED BY <3>2, <3>3
  <2> QED BY <1>3, <2>1
<1>5. PICK key : key = [p \in U |-> <<cost[p], 0>>]
  OBVIOUS
<1>6. PICK via : via = FirstMin(Ascending(U), key)
  OBVIOUS
<1>7. via \in U /\ \A p \in U : ~Before(key[p], key[via])
  <2>1. PICK list : list = Ascending(U)
    OBVIOUS
  <2>2. list \in Seq(U) /\ ToSet(list) = U
    BY <1>2, <2>1, AscendingFacts
  <2>3. list # <<>>
    BY <1>2, <2>2 DEF ToSet
  <2>4. \A p \in ToSet(list) : key[p][1] \in Int /\ key[p][2] \in Int
    <3>1. ASSUME NEW p \in U PROVE key[p][1] \in Int /\ key[p][2] \in Int
      <4>1. key[p] = <<cost[p], 0>>
        BY <1>5
      <4>2. PICK c \in Int : c = cost[p]
        BY <1>4
      <4> QED BY <4>1, <4>2
    <3> QED BY <2>2, <3>1
  <2> QED BY <1>6, <2>1, <2>2, <2>3, <2>4, FirstMinFacts
<1>8. \A p \in U : cost[via] <= cost[p]
  <2>1. ASSUME NEW p \in U PROVE cost[via] <= cost[p]
    <3>1. key[p] = <<cost[p], 0>> /\ key[via] = <<cost[via], 0>>
      BY <1>5, <1>7
    <3>2. ~(cost[p] < cost[via])
      BY <1>7, <3>1 DEF Before
    <3>3. PICK a \in Int, b \in Int : a = cost[p] /\ b = cost[via]
      BY <1>4, <1>7
    <3> QED BY <3>2, <3>3
  <2> QED BY <2>1
<1>9. Reached(before, s, W)
        = [cost |-> cost[via], path |-> Append(before[<<U, via>>].path, l)]
  BY <1>1, <1>3, <1>5, <1>6, Zenon DEF Reached
<1> QED BY <1>1, <1>4, <1>7, <1>8, <1>9, ZenonT(60) DEF Via

\* One step of the dynamic programming keeps partial paths shortest.
LEMMA ReachedShortest ==
  ASSUME NEW k \in Nat, NEW group, DOMAIN group = 1..k, NEW n \in 2..k, NEW s \in States(group, n),
         NEW W, Distances(W, 1..k),
         NEW before \in [States(group, n - 1) -> Partial]
  PROVE  /\ Reached(before, s, W) \in Partial
         /\ (\A t \in States(group, n - 1) : ShortestTo(before[t], t[1], t[2], W))
              => ShortestTo(Reached(before, s, W), s[1], s[2], W)
<1>0. PICK V, l, U : Splits(s, V, l, U)
  BY DEF Splits
<1>1. s[1] = V /\ s[2] = l /\ U = V \ {l}
  BY <1>0 DEF Splits
<1>2. /\ V \in SUBSET (1..k) /\ l \in V /\ Cardinality(V) = n
      /\ Cardinality(U) = n - 1 /\ U \in SUBSET (1..k)
  BY <1>0, StateFacts
<1>3. \A p \in U : <<U, p>> \in States(group, n - 1)
  BY <1>0, StateFacts
<1>4. PICK via : Via(before, s, W, via)
  BY ReachedVia
<1>5. /\ via \in U
      /\ \A p \in U : before[<<U, via>>].cost + W[via][l] <= before[<<U, p>>].cost + W[p][l]
  BY <1>1, <1>4, Zenon DEF Via
<1>6. Reached(before, s, W) = [cost |-> before[<<U, via>>].cost + W[via][l],
                               path |-> Append(before[<<U, via>>].path, l)]
  BY <1>1, <1>4, Zenon DEF Via
<1>7. PICK r \in Partial : r = before[<<U, via>>]
  BY <1>3, <1>5
<1>8. PICK cost \in Int, path \in Seq(Nat) : cost = r.cost /\ path = r.path
  BY DEF Partial
<1>9. PICK leg \in Int : leg = W[via][l]
  BY <1>2, <1>5 DEF Distances
<1>10. PICK longer : longer = Append(path, l)
  OBVIOUS
<1>11. Reached(before, s, W) = [cost |-> cost + leg, path |-> longer]
  BY <1>6, <1>7, <1>8, <1>9, <1>10
<1>12. Reached(before, s, W) \in Partial
  <2>1. longer \in Seq(Nat)
    <3>1. l \in Nat
      BY <1>2
    <3> QED BY <1>8, <1>10, <3>1
  <2>2. cost + leg \in Int
    BY <1>8, <1>9
  <2> QED BY <1>11, <2>1, <2>2 DEF Partial
<1>13. ASSUME \A t \in States(group, n - 1) : ShortestTo(before[t], t[1], t[2], W)
       PROVE  ShortestTo([cost |-> cost + leg, path |-> longer], V, l, W)
  <2>1. PICK m \in Nat : n = m + 1 /\ m >= 1 /\ Cardinality(U) = m
    BY <1>2
  <2>2. ASSUME NEW p \in U PROVE ShortestTo(before[<<U, p>>], U, p, W)
    <3>1. PICK t : t = <<U, p>>
      OBVIOUS
    <3>2. t[1] = U /\ t[2] = p
      BY <3>1
    <3>3. ShortestTo(before[t], t[1], t[2], W)
      BY <1>3, <1>13, <3>1
    <3> QED BY <3>1, <3>2, <3>3
  <2>3. ShortestTo(r, U, via, W)
    BY <1>5, <1>7, <2>2
  <2>4. /\ path \in [1..m -> U] /\ path[m] = via /\ cost = LegsOf(path, W)
        /\ \A i, j \in 1..m : path[i] = path[j] => i = j
    BY <1>8, <2>1, <2>3 DEF ShortestTo, PathTo
  <2>5. /\ longer \in [1..n -> V] /\ longer[n] = l
        /\ \A i \in 1..m : longer[i] = path[i]
    <3>1. path \in Seq(V) /\ Len(path) = m /\ l \in V
      <4>1. path \in [1..m -> V]
        BY <1>1, <2>4
      <4> QED BY <1>2, <4>1, FunctionIsSeq
    <3>2. longer \in Seq(V) /\ Len(longer) = n
      BY <1>10, <2>1, <3>1
    <3>3. longer \in [1..n -> V]
      BY <3>2
    <3>4. longer[n] = l
      BY <1>10, <2>1, <3>1
    <3>5. \A i \in 1..m : longer[i] = path[i]
      BY <1>10, <3>1
    <3> QED BY <3>3, <3>4, <3>5
  <2>6. ASSUME NEW i \in 1..n, NEW j \in 1..n, longer[i] = longer[j] PROVE i = j
    <3>1. CASE i \in 1..m /\ j \in 1..m
      BY <2>4, <2>5, <2>6, <3>1
    <3>2. \A h \in 1..m : longer[h] \in U
      BY <2>4, <2>5
    <3>3. l \notin U
      BY <1>1
    <3>4. i = n => j \notin 1..m
      BY <2>5, <2>6, <3>2, <3>3
    <3>5. j = n => i \notin 1..m
      BY <2>5, <2>6, <3>2, <3>3
    <3>6. (i \in 1..m \/ i = n) /\ (j \in 1..m \/ j = n)
      BY <2>1
    <3> QED BY <3>1, <3>4, <3>5, <3>6
  <2>7. PathTo(longer, V, l)
    BY <1>2, <2>5, <2>6 DEF PathTo
  <2>8. Distances(W, V)
    BY <1>2 DEF Distances
  <2>9. LegsOf(longer, W) = cost + leg
    <3>1. path \in [1..m -> V]
      BY <1>1, <2>4
    <3>2. longer \in [1..(m + 1) -> V] /\ longer[m + 1] = l
      BY <2>1, <2>5
    <3>3. \A i \in 1..m : path[i] = longer[i]
      BY <2>5
    <3>4. LegsOf(longer, W) = LegsOf(path, W) + W[path[m]][longer[m + 1]]
      <4>1. Prolongs(longer, path, m, V)
        BY <3>1, <3>2, <3>3 DEF Prolongs
      <4> QED BY <2>1, <2>8, <4>1, LegsGrow
    <3> QED BY <1>9, <2>4, <3>2, <3>4
  <2>10. ASSUME NEW q, PathTo(q, V, l) PROVE cost + leg <= LegsOf(q, W)
    <3>1. q \in [1..(m + 1) -> V] /\ q[m + 1] = l
          /\ \A i, j \in 1..(m + 1) : q[i] = q[j] => i = j
      BY <1>2, <2>1, <2>10 DEF PathTo
    <3>2. PICK h : h = [i \in 1..m |-> q[i]]
      OBVIOUS
    <3>3. \A i \in 1..m : h[i] = q[i] /\ h[i] \in U
      <4>1. ASSUME NEW i \in 1..m PROVE q[i] \in V /\ q[i] # l
        BY <2>1, <3>1
      <4> QED BY <1>1, <3>2, <4>1
    <3>4. h \in [1..m -> U] /\ \A i, j \in 1..m : h[i] = h[j] => i = j
      <4>1. h \in [1..m -> U]
        BY <3>2, <3>3
      <4>2. ASSUME NEW i \in 1..m, NEW j \in 1..m, h[i] = h[j] PROVE i = j
        BY <3>3, <4>2, <3>1
      <4> QED BY <4>1, <4>2
    <3>5. PICK p \in U : p = h[m]
      BY <2>1, <3>4
    <3>6. PathTo(h, U, p)
      BY <2>1, <3>4, <3>5 DEF PathTo
    <3>7. before[<<U, p>>].cost <= LegsOf(h, W)
      BY <2>2, <3>6 DEF ShortestTo
    <3>8. h \in [1..m -> V] /\ \A i \in 1..m : h[i] = q[i]
      BY <1>1, <3>3, <3>4
    <3>9. /\ LegsOf(q, W) \in Int /\ LegsOf(h, W) \in Int
          /\ LegsOf(q, W) = LegsOf(h, W) + W[h[m]][q[m + 1]]
      <4>1. Prolongs(q, h, m, V)
        BY <3>1, <3>8 DEF Prolongs
      <4> QED BY <2>1, <2>8, <4>1, LegsGrow
    <3>10. PICK c \in Int : c = before[<<U, p>>].cost
      BY <1>3 DEF Partial
    <3>11. PICK w \in Int : w = W[p][l]
      BY <1>2 DEF Distances
    <3>12. cost + leg <= c + w
      BY <1>5, <1>7, <1>8, <1>9, <3>10, <3>11
    <3>13. PICK x \in Int : x = LegsOf(h, W) /\ c <= x
      BY <3>7, <3>9, <3>10
    <3>14. LegsOf(q, W) = x + w
      BY <3>1, <3>5, <3>9, <3>11, <3>13
    <3> QED BY <3>12, <3>13, <3>14
  <2>11. PICK new : new = [cost |-> cost + leg, path |-> longer]
    OBVIOUS
  <2>12. new.cost = cost + leg /\ new.path = longer
    BY <2>11
  <2>13. ShortestTo(new, V, l, W)
    BY <2>7, <2>9, <2>10, <2>12 DEF ShortestTo
  <2> QED BY <2>11, <2>13
<1> QED BY <1>1, <1>11, <1>12, <1>13

-----------------------------------------------------------------------------
(* What the search keeps after every layer of subsets *)

\* The states of one stop: the path begins there.
LEMMA SingleStates ==
  ASSUME NEW k \in Nat, NEW group, DOMAIN group = 1..k, NEW s \in States(group, 1), NEW W
  PROVE  /\ [cost |-> 0, path |-> <<s[2]>>] \in Partial
         /\ ShortestTo([cost |-> 0, path |-> <<s[2]>>], s[1], s[2], W)
<1>1. PICK V, l : V = s[1] /\ l = s[2]
  OBVIOUS
<1>2. V \in SUBSET (1..k) /\ l \in V /\ Cardinality(V) = 1
  BY <1>1 DEF States
<1>3. PICK r : r = [cost |-> 0, path |-> <<l>>]
  OBVIOUS
<1>4. r.cost = 0 /\ r.path = <<l>>
  BY <1>3
<1>5. r \in Partial
  <2>1. <<l>> \in Seq(Nat)
    BY <1>2
  <2> QED BY <1>3, <2>1 DEF Partial
<1>6. PathTo(r.path, V, l)
  BY <1>2, <1>4 DEF PathTo
<1>7. ASSUME NEW q, PathTo(q, V, l) PROVE LegsOf(q, W) = 0
  <2>1. q \in [1..1 -> V]
    BY <1>2, <1>7 DEF PathTo
  <2>2. q \in Seq(V) /\ Len(q) = 1
    BY <2>1, FunctionIsSeq
  <2>3. q \in Seq(V) /\ Len(q) <= 1
    BY <2>2
  <2> QED BY <2>3, NoLegs
<1>8. ShortestTo(r, V, l, W)
  BY <1>4, <1>6, <1>7 DEF ShortestTo
<1> QED BY <1>1, <1>3, <1>5, <1>8

\* The layers of the dynamic programming: the states of n stops.
Layers(f, group, leg) ==
  f = [n \in 1..Len(group) |->
         IF n = 1 THEN [s \in States(group, 1) |-> [cost |-> 0, path |-> <<s[2]>>]]
         ELSE [s \in States(group, n) |-> Reached(f[n - 1], s, leg)]]

\* The exact search ends with its last layer, in which all stops are visited.
LEMMA AllVisitedFrom ==
  ASSUME NEW group, NEW leg
  PROVE  AllVisited(group, leg) = (CHOOSE f : Layers(f, group, leg))[Len(group)]
  BY Zenon DEF AllVisited, Layers

\* Layer after layer, the states are reached on shortest paths.
LEMMA AllVisitedFacts ==
  ASSUME NEW k \in Nat, k >= 1, NEW D, NEW group \in Seq(D), Len(group) = k,
         NEW W, Distances(W, 1..k)
  PROVE  /\ AllVisited(group, W) \in [States(group, k) -> Partial]
         /\ \A s \in States(group, k) : ShortestTo(AllVisited(group, W)[s], s[1], s[2], W)
<1>1. DOMAIN group = 1..k
  OBVIOUS
<1>2. PICK base : base = [s \in States(group, 1) |-> [cost |-> 0, path |-> <<s[2]>>]]
  OBVIOUS
<1>3. base \in [States(group, 1) -> Partial]
  BY <1>1, <1>2, SingleStates
<1>4. PICK S : S = UNION {[States(group, n) -> Partial] : n \in 1..k}
  OBVIOUS
<1>5. base \in S
  <2>1. 1 \in 1..k
    OBVIOUS
  <2> QED BY <1>3, <1>4, <2>1
<1> DEFINE next(n, x) == IF n \in 2..k /\ x \in [States(group, n - 1) -> Partial]
                           THEN [s \in States(group, n) |-> Reached(x, s, W)]
                           ELSE base
<1>6. ASSUME NEW n \in 2..k, NEW x \in [States(group, n - 1) -> Partial]
      PROVE  next(n, x) \in [States(group, n) -> Partial]
             /\ next(n, x) = [s \in States(group, n) |-> Reached(x, s, W)]
  <2>1. \A s \in States(group, n) : Reached(x, s, W) \in Partial
    BY <1>1, ReachedShortest
  <2>2. next(n, x) = [s \in States(group, n) |-> Reached(x, s, W)]
    OBVIOUS
  <2> HIDE DEF next
  <2> QED BY <2>1, <2>2
<1>7. ASSUME NEW n \in 1..k, NEW x \in S PROVE next(n, x) \in S
  <2>1. CASE n \in 2..k /\ x \in [States(group, n - 1) -> Partial]
    <3>1. next(n, x) \in [States(group, n) -> Partial]
      BY <1>6, <2>1
    <3> HIDE DEF next
    <3> QED BY <1>4, <3>1
  <2>2. CASE ~(n \in 2..k /\ x \in [States(group, n - 1) -> Partial])
    BY <1>5, <2>2
  <2> QED BY <2>1, <2>2
<1> HIDE DEF next
<1>8. PICK step : step = [q \in (1..k) \X S |-> next(q[1], q[2])]
  OBVIOUS
<1>9. step \in [(1..k) \X S -> S]
  BY <1>7, <1>8
<1>10. PICK g \in [0..k -> S] : Computes(g, k, base, step)
  BY <1>5, <1>9, Recursion
<1>11. ASSUME NEW n \in 1..k PROVE g[n] = next(n, g[n - 1])
  <2>1. PICK x \in S : x = g[n - 1]
    OBVIOUS
  <2>2. g[n] = step[<<n, x>>]
    BY <1>10, <2>1 DEF Computes
  <2>3. step[<<n, x>>] = next(n, x)
    BY <1>8
  <2> QED BY <2>1, <2>2, <2>3
<1>12. g[1] = base
  BY <1>11 DEF next
<1> DEFINE A == {n \in 0..k : n >= 1 => g[n] \in [States(group, n) -> Partial]}
<1>13. \A n \in 0..k : n \in A
  <2>1. 0 \in A
    OBVIOUS
  <2>2. ASSUME NEW n \in 1..k, n - 1 \in A PROVE n \in A
    <3>1. CASE n = 1
      BY <1>3, <1>12, <3>1
    <3>2. CASE n # 1
      <4>1. n \in 2..k /\ n \in 0..k
        BY <3>2
      <4>2. g[n - 1] \in [States(group, n - 1) -> Partial]
        BY <2>2, <4>1
      <4>3. next(n, g[n - 1]) \in [States(group, n) -> Partial]
        BY <1>6, <4>1, <4>2
      <4> QED BY <1>11, <4>1, <4>3
    <3> QED BY <3>1, <3>2
  <2> HIDE DEF A
  <2> QED BY <2>1, <2>2, StepByStep
<1>14. ASSUME NEW n \in 2..k
       PROVE  /\ g[n - 1] \in [States(group, n - 1) -> Partial]
              /\ g[n] = [s \in States(group, n) |-> Reached(g[n - 1], s, W)]
  BY <1>13, <1>6, <1>11
<1>15. PICK f : f = [n \in 1..k |-> g[n]]
  OBVIOUS
<1>16. Layers(f, group, W)
  <2>1. ASSUME NEW n \in 1..Len(group)
        PROVE  f[n] = IF n = 1 THEN [s \in States(group, 1) |-> [cost |-> 0, path |-> <<s[2]>>]]
                      ELSE [s \in States(group, n) |-> Reached(f[n - 1], s, W)]
    <3>1. CASE n = 1
      BY <1>2, <1>12, <1>15, <3>1
    <3>2. CASE n # 1
      BY <3>2, <1>15, <1>14
    <3> QED BY <3>1, <3>2
  <2>2. DOMAIN f = 1..Len(group) /\ f = [n \in DOMAIN f |-> f[n]]
    BY <1>15
  <2> QED BY <2>1, <2>2 DEF Layers
<1>17. PICK h : h = (CHOOSE e : Layers(e, group, W))
  OBVIOUS
<1>18. Layers(h, group, W)
  BY <1>16, <1>17
<1>19. /\ h[1] = base
       /\ \A n \in 2..k : h[n] = [s \in States(group, n) |-> Reached(h[n - 1], s, W)]
  <2>1. h = [n \in 1..k |->
               IF n = 1 THEN [s \in States(group, 1) |-> [cost |-> 0, path |-> <<s[2]>>]]
               ELSE [s \in States(group, n) |-> Reached(h[n - 1], s, W)]]
    BY <1>18 DEF Layers
  <2>2. h[1] = base
    BY <1>2, <2>1
  <2>3. ASSUME NEW n \in 2..k PROVE h[n] = [s \in States(group, n) |-> Reached(h[n - 1], s, W)]
    <3>1. n \in 1..k /\ n # 1
      OBVIOUS
    <3> QED BY <2>1, <3>1
  <2> QED BY <2>2, <2>3
<1> DEFINE B == {n \in 0..k : n >= 1 =>
                   /\ h[n] \in [States(group, n) -> Partial]
                   /\ \A s \in States(group, n) : ShortestTo(h[n][s], s[1], s[2], W)}
<1>20. ASSUME NEW n \in 1..k, n - 1 \in B PROVE n \in B
  <2>1. CASE n = 1
    <3>1. \A s \in States(group, 1) : ShortestTo(base[s], s[1], s[2], W)
      BY <1>1, <1>2, SingleStates
    <3> QED BY <1>3, <1>19, <2>1, <3>1
  <2>2. CASE n # 1
    <3>1. n \in 2..k /\ n \in 0..k
      BY <2>2
    <3>2. PICK x \in [States(group, n - 1) -> Partial] :
            x = h[n - 1] /\ \A s \in States(group, n - 1) : ShortestTo(x[s], s[1], s[2], W)
      BY <1>20, <3>1
    <3>3. h[n] = [s \in States(group, n) |-> Reached(x, s, W)]
      BY <1>19, <3>1, <3>2
    <3>4. \A s \in States(group, n) :
            Reached(x, s, W) \in Partial /\ ShortestTo(Reached(x, s, W), s[1], s[2], W)
      BY <1>1, <3>1, <3>2, ReachedShortest
    <3>5. h[n] \in [States(group, n) -> Partial]
      BY <3>3, <3>4
    <3>6. \A s \in States(group, n) : ShortestTo(h[n][s], s[1], s[2], W)
      BY <3>3, <3>4
    <3> QED BY <3>1, <3>5, <3>6
  <2> QED BY <2>1, <2>2
<1>21. \A n \in 0..k : n \in B
  <2>1. 0 \in B
    OBVIOUS
  <2> HIDE DEF B
  <2> QED BY <1>20, <2>1, StepByStep
<1>22. AllVisited(group, W) = h[k]
  BY <1>17, AllVisitedFrom
<1> QED BY <1>21, <1>22

-----------------------------------------------------------------------------
(* The exact search returns a shortest order *)

\* Two different lists of the same length are ordered.
LEMMA SmallerTotal ==
  ASSUME NEW k \in Nat, NEW p \in [1..k -> Nat], NEW q \in [1..k -> Nat],
         NEW x \in 1..k, p[x] # q[x]
  PROVE  Smaller(p, q) \/ Smaller(q, p)
<1>1. PICK unlike : unlike = {i \in 1..k : p[i] # q[i]}
  OBVIOUS
<1>0. unlike \in SUBSET Nat /\ unlike # {}
  <2>1. unlike \in SUBSET Nat
    BY <1>1
  <2>2. x \in unlike
    BY <1>1
  <2> QED BY <2>1, <2>2
<1>2. PICK i \in unlike : \A j \in unlike : i <= j
  BY <1>0, LeastNumber
<1>3. i \in 1..k /\ p[i] # q[i] /\ p[i] \in Nat /\ q[i] \in Nat
  BY <1>1
<1>4. \A j \in 1..(i - 1) : p[j] = q[j] /\ q[j] = p[j]
  BY <1>1, <1>2, <1>3
<1>5. DOMAIN p = 1..k /\ DOMAIN q = 1..k
  OBVIOUS
<1>6. CASE p[i] < q[i]
  BY <1>3, <1>4, <1>5, <1>6 DEF Smaller
<1>7. CASE q[i] < p[i]
  BY <1>3, <1>4, <1>5, <1>7 DEF Smaller
<1> QED BY <1>3, <1>6, <1>7

\* The order of lists is transitive, and no list is before itself.
LEMMA SmallerOrder ==
  ASSUME NEW k \in Nat, NEW p \in [1..k -> Nat], NEW q \in [1..k -> Nat], NEW r \in [1..k -> Nat]
  PROVE  /\ ~Smaller(p, p)
         /\ Smaller(p, q) /\ Smaller(q, r) => Smaller(p, r)
<1>1. ~Smaller(p, p)
  BY DEF Smaller
<1>2. ASSUME Smaller(p, q), Smaller(q, r) PROVE Smaller(p, r)
  <2>0. DOMAIN p = 1..k /\ DOMAIN q = 1..k
    OBVIOUS
  <2>1. PICK i \in 1..k : p[i] < q[i] /\ \A j \in 1..(i - 1) : p[j] = q[j]
    BY <1>2, <2>0 DEF Smaller
  <2>2. PICK h \in 1..k : q[h] < r[h] /\ \A j \in 1..(h - 1) : q[j] = r[j]
    BY <1>2, <2>0 DEF Smaller
  <2>3. p[i] \in Nat /\ q[i] \in Nat /\ r[i] \in Nat /\ p[h] \in Nat /\ q[h] \in Nat /\ r[h] \in Nat
    OBVIOUS
  <2>4. CASE i <= h
    <3>1. p[i] < r[i]
      <4>1. CASE i = h
        BY <2>1, <2>2, <2>3, <4>1
      <4>2. CASE i < h
        <5>1. i \in 1..(h - 1)
          BY <4>2
        <5> QED BY <2>1, <2>2, <5>1
      <4> QED BY <2>4, <4>1, <4>2
    <3>2. \A j \in 1..(i - 1) : p[j] = r[j]
      BY <2>4, <2>1, <2>2
    <3> QED BY <2>0, <3>1, <3>2 DEF Smaller
  <2>5. CASE h < i
    <3>1. p[h] < r[h]
      <4>1. h \in 1..(i - 1)
        BY <2>5
      <4> QED BY <2>1, <2>2, <4>1
    <3>2. \A j \in 1..(h - 1) : p[j] = r[j]
      BY <2>5, <2>1, <2>2
    <3> QED BY <2>0, <3>1, <3>2 DEF Smaller
  <2> QED BY <2>4, <2>5
<1> QED BY <1>1, <1>2

\* A finite set in a total order has a first element.
LEMMA FirstOfAll ==
  ASSUME NEW S, IsFiniteSet(S), S # {}, NEW earlier, TotalOrder(S, earlier)
  PROVE  \E a \in S : \A b \in S \ {a} : a \in earlier[b]
<1>1. PICK N \in Nat : N = Cardinality(S)
  BY FS_CardinalityType
<1>2. PICK sorted : sorted = Sorted(S, earlier)
  OBVIOUS
<1>3. /\ sorted \in [1..N -> S]
      /\ \A m, n \in 1..N : m < n => sorted[m] \in earlier[sorted[n]]
      /\ \A x \in S : \E n \in 1..N : sorted[n] = x
  BY <1>1, <1>2, SortedFacts
<1>4. 1 \in 1..N
  <2>1. PICK x \in S : TRUE
    OBVIOUS
  <2> QED BY <1>3, <2>1
<1>5. PICK a \in S : a = sorted[1]
  BY <1>3, <1>4
<1>6. ASSUME NEW b \in S \ {a} PROVE a \in earlier[b]
  <2>1. PICK n \in 1..N : sorted[n] = b
    BY <1>3
  <2>2. n # 1
    BY <1>5, <2>1
  <2> QED BY <1>3, <1>4, <1>5, <2>1, <2>2
<1> QED BY <1>6

\* Among finished paths that end differently one is the cheapest.
LEMMA CheapestEnd ==
  ASSUME NEW k \in Nat, k >= 1, NEW ends,
         \A x \in 1..k : /\ ends[x].cost \in Int /\ ends[x].path \in [1..k -> Nat]
                         /\ ends[x].path[k] = x
  PROVE  \E a \in 1..k : \A b \in (1..k) \ {a} : Cheaper(ends[a], ends[b])
<1>1. PICK S : S = 1..k
  OBVIOUS
<1>2. PICK earlier : earlier = [x \in S |-> {y \in S : Cheaper(ends[y], ends[x])}]
  OBVIOUS
<1>3. \A x, y \in S : y \in earlier[x] <=> Cheaper(ends[y], ends[x])
  BY <1>2
<1>4. ASSUME NEW x \in S, NEW y \in S, NEW z \in S
      PROVE  /\ ~Cheaper(ends[x], ends[x])
             /\ Cheaper(ends[x], ends[y]) /\ Cheaper(ends[y], ends[z]) => Cheaper(ends[x], ends[z])
             /\ x # y => Cheaper(ends[x], ends[y]) \/ Cheaper(ends[y], ends[x])
  <2>1. PICK a \in Int, b \in Int, c \in Int :
          a = ends[x].cost /\ b = ends[y].cost /\ c = ends[z].cost
    BY <1>1
  <2>2. PICK p \in [1..k -> Nat], q \in [1..k -> Nat], r \in [1..k -> Nat] :
          p = ends[x].path /\ q = ends[y].path /\ r = ends[z].path
    BY <1>1
  <2>3. p[k] = x /\ q[k] = y
    BY <1>1, <2>2
  <2>4. ~Smaller(p, p) /\ (Smaller(p, q) /\ Smaller(q, r) => Smaller(p, r))
    BY SmallerOrder
  <2>5. x # y => Smaller(p, q) \/ Smaller(q, p)
    <3>1. k \in 1..k
      OBVIOUS
    <3> QED BY <2>3, <3>1, SmallerTotal
  <2>6. /\ Cheaper(ends[x], ends[x]) <=> (a < a \/ (a = a /\ Smaller(p, p)))
        /\ Cheaper(ends[x], ends[y]) <=> (a < b \/ (a = b /\ Smaller(p, q)))
        /\ Cheaper(ends[y], ends[x]) <=> (b < a \/ (b = a /\ Smaller(q, p)))
        /\ Cheaper(ends[y], ends[z]) <=> (b < c \/ (b = c /\ Smaller(q, r)))
        /\ Cheaper(ends[x], ends[z]) <=> (a < c \/ (a = c /\ Smaller(p, r)))
    BY <2>1, <2>2, Zenon DEF Cheaper
  <2>7. ~Cheaper(ends[x], ends[x])
    BY <2>4, <2>6
  <2>8. Cheaper(ends[x], ends[y]) /\ Cheaper(ends[y], ends[z]) => Cheaper(ends[x], ends[z])
    BY <2>4, <2>6
  <2>9. x # y => Cheaper(ends[x], ends[y]) \/ Cheaper(ends[y], ends[x])
    BY <2>5, <2>6
  <2> QED BY <2>7, <2>8, <2>9
<1>5. TotalOrder(S, earlier)
  <2>1. earlier \in [S -> SUBSET S]
    BY <1>2
  <2>2. \A x \in S : x \notin earlier[x]
    BY <1>3, <1>4
  <2>3. \A x, y \in S : x \in earlier[y] => earlier[x] \subseteq earlier[y]
    BY <1>3, <1>4, <2>1
  <2>4. \A x, y \in S : x # y => x \in earlier[y] \/ y \in earlier[x]
    BY <1>3, <1>4
  <2> QED BY <2>1, <2>2, <2>3, <2>4 DEF TotalOrder
<1>6. IsFiniteSet(S) /\ Cardinality(S) = k
  BY <1>1, UpToSize
<1>7. PICK a \in S : \A b \in S \ {a} : a \in earlier[b]
  <2>1. S # {}
    BY <1>1
  <2> QED BY <1>5, <1>6, <2>1, FirstOfAll
<1> QED BY <1>1, <1>3, <1>7

-----------------------------------------------------------------------------
(* A path and its legs, visit by visit *)

\* A group in another order.
Along(group, q, k) == [i \in 1..k |-> group[q[i]]]

\* Numbers of stops in a group become the stops themselves.
LEMMA AlongTyped ==
  ASSUME NEW D, NEW k \in Nat, NEW group \in Seq(D), Len(group) = k, NEW q \in [1..k -> 1..k]
  PROVE  Along(group, q, k) \in [1..k -> D]
<1>1. \A i \in 1..k : group[q[i]] \in D
  <2>1. group \in [1..k -> D]
    OBVIOUS
  <2> QED BY <2>1
<1> QED BY <1>1 DEF Along

\* The legs of a path are the same by position and by attraction.
LEMMA LegsAlong ==
  ASSUME NEW D, NEW k \in Nat, NEW group \in Seq(D), Len(group) = k, NEW q \in [1..k -> 1..k],
         NEW minutes
  PROVE  LegsOf(Along(group, q, k), minutes) = LegsOf(q, LegsWithin(group, minutes))
<1>1. PICK W : W = LegsWithin(group, minutes)
  OBVIOUS
<1>2. \A a, b \in 1..k : W[a][b] = minutes[group[a]][group[b]]
  <2>1. DOMAIN group = 1..k
    OBVIOUS
  <2> QED BY <1>1, <2>1 DEF LegsWithin
<1>3. PICK path : path = Along(group, q, k)
  OBVIOUS
<1>4. path \in [1..k -> D] /\ \A i \in 1..k : path[i] = group[q[i]]
  <2>1. path \in [1..k -> D]
    BY <1>3, AlongTyped
  <2> QED BY <1>3, <2>1 DEF Along
<1>5. Len(path) = k /\ Len(q) = k
  BY <1>4, FunctionIsSeq
<1>6. \A i \in 1..(k - 1) : minutes[path[i]][path[i + 1]] = W[q[i]][q[i + 1]]
  <2>1. ASSUME NEW i \in 1..(k - 1) PROVE minutes[path[i]][path[i + 1]] = W[q[i]][q[i + 1]]
    <3>1. i \in 1..k /\ i + 1 \in 1..k
      OBVIOUS
    <3>2. path[i] = group[q[i]] /\ path[i + 1] = group[q[i + 1]] /\ q[i] \in 1..k /\ q[i + 1] \in 1..k
      BY <1>4, <3>1
    <3> QED BY <1>2, <3>2, SMTT(30)
  <2> QED BY <2>1
<1>7. PICK f, g : /\ f = [i \in 1..(k - 1) |-> minutes[path[i]][path[i + 1]]]
                  /\ g = [i \in 1..(k - 1) |-> W[q[i]][q[i + 1]]]
  OBVIOUS
<1>8. f = g
  BY <1>6, <1>7
<1>9. LegsOf(path, minutes) = SumFunction(f) /\ LegsOf(q, W) = SumFunction(g)
  BY <1>5, <1>7 DEF LegsOf
<1> QED BY <1>1, <1>3, <1>8, <1>9

\* The times between the stops of a group, by their numbers, are distances.
LEMMA LegsWithinTyped ==
  ASSUME NEW D, NEW k \in Nat, NEW group \in Seq(D), Len(group) = k,
         NEW minutes, Distances(minutes, D)
  PROVE  Distances(LegsWithin(group, minutes), 1..k)
<1>1. group \in [1..k -> D]
  OBVIOUS
<1>2. \A a, b \in 1..k : LegsWithin(group, minutes)[a][b] = minutes[group[a]][group[b]]
  BY <1>1 DEF LegsWithin
<1>3. \A a, b \in 1..k : minutes[group[a]][group[b]] \in Int
  <2>1. ASSUME NEW a \in 1..k, NEW b \in 1..k PROVE minutes[group[a]][group[b]] \in Int
    <3>1. PICK x \in D, y \in D : x = group[a] /\ y = group[b]
      BY <1>1
    <3> QED BY <3>1 DEF Distances
  <2> QED BY <2>1
<1> QED BY <1>2, <1>3 DEF Distances

\* The finished paths by last stop, and the cheapest of them.
Finished(group, minutes) ==
  [last \in DOMAIN group |-> AllVisited(group, LegsWithin(group, minutes))[<<DOMAIN group, last>>]]

CheapestOf(best, ends, all) ==
  best \in all /\ \A b \in all \ {best} : Cheaper(ends[best], ends[b])

\* ExactPath takes the stops of the cheapest finished path.
LEMMA ExactPathFrom ==
  ASSUME NEW group, NEW minutes, NEW ends, ends = Finished(group, minutes),
         \E best : CheapestOf(best, ends, DOMAIN group)
  PROVE  \E best : /\ CheapestOf(best, ends, DOMAIN group)
                   /\ ExactPath(group, minutes)
                        = [i \in DOMAIN group |-> group[ends[best].path[i]]]
<1> DEFINE best == CHOOSE a \in DOMAIN group : \A b \in DOMAIN group \ {a} :
                     Cheaper(Finished(group, minutes)[a], Finished(group, minutes)[b])
<1>1. ExactPath(group, minutes)
        = [i \in DOMAIN group |-> group[Finished(group, minutes)[best].path[i]]]
  BY Zenon DEF ExactPath, Finished
<1>3. \E a \in DOMAIN group : \A b \in DOMAIN group \ {a} :
        Cheaper(Finished(group, minutes)[a], Finished(group, minutes)[b])
  BY Zenon DEF CheapestOf
<1>4. best \in DOMAIN group /\ \A b \in DOMAIN group \ {best} :
        Cheaper(Finished(group, minutes)[best], Finished(group, minutes)[b])
  BY <1>3, Zenon
<1>5. CheapestOf(best, ends, DOMAIN group)
  BY <1>4, Zenon DEF CheapestOf
<1> HIDE DEF best
<1>6. [i \in DOMAIN group |-> group[Finished(group, minutes)[best].path[i]]]
        = [i \in DOMAIN group |-> group[ends[best].path[i]]]
  OBVIOUS
<1> QED BY <1>1, <1>5, <1>6

\* The dynamic programming finds a shortest order of the group.
LEMMA ExactPathFacts ==
  ASSUME NEW k \in Nat, k >= 1, NEW D, NEW group \in Seq(D), Len(group) = k,
         NEW minutes, Distances(minutes, D)
  PROVE  \E pi : /\ Assigns(pi, k) /\ ExactPath(group, minutes) = Along(group, pi, k)
                 /\ \A q : Assigns(q, k) =>
                      LegsOf(Along(group, pi, k), minutes) <= LegsOf(Along(group, q, k), minutes)
<1>1. PICK W : W = LegsWithin(group, minutes)
  OBVIOUS
<1>2. Distances(W, 1..k)
  BY <1>1, LegsWithinTyped
<1>3. PICK reached : reached = AllVisited(group, W)
  OBVIOUS
<1>4. /\ reached \in [States(group, k) -> Partial]
      /\ \A s \in States(group, k) : ShortestTo(reached[s], s[1], s[2], W)
  BY <1>2, <1>3, AllVisitedFacts
<1>5. PICK S : S = 1..k
  OBVIOUS
<1>6. DOMAIN group = S /\ IsFiniteSet(S) /\ Cardinality(S) = k
  BY <1>5, UpToSize
<1>0. PICK ends : ends = Finished(group, minutes)
  OBVIOUS
<1>7. ends = [last \in S |-> reached[<<S, last>>]]
  BY <1>0, <1>1, <1>3, <1>6 DEF Finished
<1>8. ASSUME NEW x \in S PROVE ends[x] \in Partial /\ ShortestTo(ends[x], S, x, W)
  <2>1. PICK s : s = <<S, x>>
    OBVIOUS
  <2>2. s \in States(group, k) /\ s[1] = S /\ s[2] = x
    BY <1>6, <2>1 DEF States
  <2>3. ends[x] = reached[s]
    BY <1>7, <2>1
  <2> QED BY <1>4, <2>2, <2>3
<1>9. \A x \in S : /\ ends[x].cost \in Int /\ ends[x].path \in [1..k -> Nat]
                   /\ ends[x].path[k] = x
  <2>1. ASSUME NEW x \in S
        PROVE  /\ ends[x].cost \in Int /\ ends[x].path \in [1..k -> Nat]
               /\ ends[x].path[k] = x
    <3>1. ends[x].cost \in Int
      BY <1>8 DEF Partial
    <3>2. ends[x].path \in [1..k -> S] /\ ends[x].path[k] = x
      BY <1>6, <1>8 DEF ShortestTo, PathTo
    <3>3. S \in SUBSET Nat
      BY <1>5
    <3> QED BY <3>1, <3>2, <3>3
  <2> QED BY <2>1
<1>10. \E best : CheapestOf(best, ends, S)
  BY <1>5, <1>9, CheapestEnd DEF CheapestOf
<1>11. PICK best : /\ CheapestOf(best, ends, S)
                   /\ ExactPath(group, minutes) = [i \in S |-> group[ends[best].path[i]]]
  BY <1>0, <1>6, <1>10, ExactPathFrom
<1>12. best \in S /\ \A b \in S \ {best} : Cheaper(ends[best], ends[b])
  BY <1>11 DEF CheapestOf
<1>13. PICK pi : pi = ends[best].path
  OBVIOUS
<1>14. ExactPath(group, minutes) = [i \in S |-> group[pi[i]]]
  BY <1>11, <1>13
<1>15. ExactPath(group, minutes) = Along(group, pi, k)
  BY <1>5, <1>14 DEF Along
<1>16. pi \in [1..k -> 1..k] /\ \A i, j \in 1..k : pi[i] = pi[j] => i = j
  BY <1>5, <1>6, <1>8, <1>12, <1>13 DEF ShortestTo, PathTo
<1>17. Assigns(pi, k)
  BY <1>16, OneToOneOnto
<1>18. ASSUME NEW q, Assigns(q, k)
       PROVE  LegsOf(Along(group, pi, k), minutes) <= LegsOf(Along(group, q, k), minutes)
  <2>1. q \in [1..k -> 1..k] /\ \A i, j \in 1..k : q[i] = q[j] => i = j
    BY <1>18 DEF Assigns
  <2>2. PICK x \in S : x = q[k]
    BY <1>5, <2>1
  <2>3. PathTo(q, S, x)
    BY <1>5, <1>6, <2>1, <2>2 DEF PathTo
  <2>4. ends[x].cost <= LegsOf(q, W)
    BY <1>8, <2>3 DEF ShortestTo
  <2>5. ends[best].cost = LegsOf(pi, W)
    BY <1>8, <1>12, <1>13 DEF ShortestTo
  <2>6. ends[best].cost <= ends[x].cost
    <3>1. PICK a \in Int, b \in Int : a = ends[best].cost /\ b = ends[x].cost
      BY <1>9, <1>12
    <3>2. x # best => a < b \/ a = b
      BY <1>12, <3>1 DEF Cheaper
    <3> QED BY <3>1, <3>2
  <2>7. LegsOf(q, W) \in Int /\ ends[best].cost \in Int /\ ends[x].cost \in Int
    BY <1>2, <1>9, <1>12, <2>1, LegsTyped
  <2>8. PICK a \in Int, b \in Int, c \in Int :
          a = ends[best].cost /\ b = ends[x].cost /\ c = LegsOf(q, W)
    BY <2>7
  <2>9. LegsOf(pi, W) <= LegsOf(q, W)
    BY <2>4, <2>5, <2>6, <2>8
  <2>10. LegsOf(Along(group, pi, k), minutes) = LegsOf(pi, W)
    BY <1>1, <1>16, LegsAlong
  <2>11. LegsOf(Along(group, q, k), minutes) = LegsOf(q, W)
    BY <1>1, <2>1, LegsAlong
  <2> QED BY <2>9, <2>10, <2>11
<1> QED BY <1>15, <1>17, <1>18

-----------------------------------------------------------------------------
(* The path grown stop by stop *)

\* Some stops of the group, each once.
Inside(path, group) == Spread(path) /\ ToSet(path) \subseteq ToSet(group)

\* All stops of the group, each once.
Reorders(path, group) == Inside(path, group) /\ Len(path) = Len(group)

\* The nearest stop is one the path has not visited.
LEMMA NearestIsNew ==
  ASSUME Measured, NEW group, Spread(group), NEW path, Inside(path, group), Len(path) < Len(group)
  PROVE  /\ Nearest(path, group, travel) \in Stops
         /\ Nearest(path, group, travel) \in ToSet(group) \ ToSet(path)
<1>1. PICK V \in SUBSET Stops : V = ToSet(group) /\ IsFiniteSet(V) /\ Cardinality(V) = Len(group)
  BY SpreadFacts
<1>2. PICK T \in SUBSET Stops : T = ToSet(path) /\ IsFiniteSet(T) /\ Cardinality(T) = Len(path)
  BY SpreadFacts DEF Inside
<1>3. PICK left : left = V \ T
  OBVIOUS
<1>4. left \in SUBSET Int /\ left \in SUBSET Stops /\ IsFiniteSet(left)
  BY <1>1, <1>3, StopsFacts, FS_Subset
<1>5. left # {}
  <2>1. SUFFICES ASSUME left = {} PROVE FALSE
    OBVIOUS
  <2>2. T \subseteq V
    BY <1>1, <1>2 DEF Inside
  <2>3. T = V
    BY <1>3, <2>1, <2>2
  <2>4. Len(path) = Len(group)
    BY <1>1, <1>2, <2>3
  <2>5. Len(path) \in Nat
    BY SpreadFacts DEF Inside
  <2> QED BY <2>4, <2>5
<1>6. PICK order \in Seq(left) : order = Ascending(left) /\ ToSet(order) = left
  BY <1>4, AscendingFacts
<1>7. order # <<>>
  BY <1>5, <1>6 DEF ToSet
<1>8. PICK last \in Stops : last = Last(path)
  BY SpreadFacts DEF Inside, Last
<1>9. PICK key : key = [x \in left |-> <<travel[last][x], 0>>]
  OBVIOUS
<1>10. \A x \in left : key[x][1] \in Int /\ key[x][2] \in Int
  <2>1. ASSUME NEW x \in left PROVE key[x][1] \in Int /\ key[x][2] \in Int
    <3>1. PICK d \in Nat : d = travel[last][x]
      BY <1>4, StopsFacts
    <3>2. key[x] = <<d, 0>>
      BY <1>9, <3>1
    <3> QED BY <3>2
  <2> QED BY <2>1
<1>11. FirstMin(order, key) \in left
  BY <1>6, <1>7, <1>10, FirstMinFacts
<1>12. Nearest(path, group, travel) = FirstMin(order, key)
  BY <1>1, <1>2, <1>3, <1>6, <1>8, <1>9 DEF Nearest
<1> QED BY <1>1, <1>2, <1>3, <1>4, <1>11, <1>12

\* A path with one more new stop stays inside the group.
LEMMA InsideFurther ==
  ASSUME Measured, NEW group, Spread(group), NEW path, Inside(path, group),
         NEW x \in Stops, x \in ToSet(group) \ ToSet(path)
  PROVE  Inside(Append(path, x), group) /\ Len(Append(path, x)) = Len(path) + 1
<1>1. Spread(path) /\ ToSet(path) \subseteq ToSet(group)
  BY DEF Inside
<1>2. Spread(Append(path, x)) /\ Len(Append(path, x)) = Len(path) + 1
  BY <1>1, SpreadFurther
<1>3. path \in Seq(Stops)
  BY <1>1, SpreadFacts
<1>4. ToSet(Append(path, x)) \subseteq ToSet(path) \cup {x}
  <2>1. PICK n \in Nat : n = Len(path) /\ DOMAIN path = 1..n
    BY <1>3
  <2>2. PICK new : new = Append(path, x)
    OBVIOUS
  <2>3. DOMAIN new = 1..(n + 1) /\ new[n + 1] = x /\ \A a \in 1..n : new[a] = path[a]
    BY <1>3, <2>1, <2>2
  <2>4. \A a \in 1..(n + 1) : a \in 1..n \/ a = n + 1
    BY <2>1
  <2> QED BY <2>1, <2>2, <2>3, <2>4 DEF ToSet
<1> QED BY <1>1, <1>2, <1>4 DEF Inside

\* A path of one stop is inside the group.
LEMMA StartInside ==
  ASSUME Measured, NEW group, Spread(group), NEW x \in ToSet(group)
  PROVE  Inside(<<x>>, group) /\ Len(<<x>>) = 1
<1>1. x \in Stops
  BY SpreadFacts
<1>2. PICK one \in Seq(Stops) : one = <<x>> /\ Len(one) = 1 /\ one # <<>> /\ DOMAIN one = 1..1
                                /\ one[1] = x
  <2>1. <<x>> \in Seq(Stops) /\ Len(<<x>>) = 1 /\ <<x>> # <<>>
    BY <1>1
  <2>2. PICK one \in Seq(Stops) : one = <<x>> /\ Len(one) = 1 /\ one # <<>>
    BY <2>1
  <2>3. DOMAIN one = 1..1
    BY <2>2
  <2>4. one[1] = x
    BY <2>2
  <2> QED BY <2>2, <2>3, <2>4
<1>3. \A a, b \in 1..1 : a = b
  OBVIOUS
<1>4. Spread(one)
  BY <1>2, <1>3 DEF Spread
<1>5. ToSet(one) \subseteq {x}
  BY <1>2 DEF ToSet
<1> QED BY <1>2, <1>4, <1>5 DEF Inside

\* The nearest stop by the nearest stop.
Grows(f, start, group) ==
  f = [n \in 0..(Len(group) - 1) |->
         IF n = 0 THEN <<start>> ELSE Append(f[n - 1], Nearest(f[n - 1], group, travel))]

\* The path grown from a start visits one more stop every time.
LEMMA GrownFrom ==
  ASSUME NEW start, NEW group
  PROVE  Grown(start, group, travel) = (CHOOSE f : Grows(f, start, group))[Len(group) - 1]
  BY Zenon DEF Grown, Grows

\* From any start the path reaches every stop of the group.
LEMMA GrownFacts ==
  ASSUME Measured, NEW group, Spread(group), NEW start \in ToSet(group)
  PROVE  Reorders(Grown(start, group, travel), group)
<1>1. PICK k \in Nat : Len(group) = k + 1
  BY SpreadFacts
<1>2. Inside(<<start>>, group) /\ Len(<<start>>) = 1
  BY StartInside
<1>3. PICK S : S = {path \in Seq(Stops) : Inside(path, group)}
  OBVIOUS
<1> DEFINE next(path) == IF Len(path) < k + 1 THEN Append(path, Nearest(path, group, travel)) ELSE path
<1>4. ASSUME NEW path, Inside(path, group), Len(path) < k + 1
      PROVE  /\ Inside(Append(path, Nearest(path, group, travel)), group)
             /\ Len(Append(path, Nearest(path, group, travel))) = Len(path) + 1
             /\ Append(path, Nearest(path, group, travel)) \in S
  <2>1. PICK x \in Stops : x = Nearest(path, group, travel) /\ x \in ToSet(group) \ ToSet(path)
    BY <1>1, <1>4, NearestIsNew
  <2>2. Inside(Append(path, x), group) /\ Len(Append(path, x)) = Len(path) + 1
    BY <1>4, <2>1, InsideFurther
  <2>3. Append(path, x) \in Seq(Stops)
    BY <2>2 DEF Inside, Spread
  <2> QED BY <1>3, <2>1, <2>2, <2>3
<1>5. ASSUME NEW path \in S
      PROVE  /\ next(path) \in S
             /\ Len(path) < k + 1 => /\ Len(next(path)) = Len(path) + 1
                                     /\ next(path) = Append(path, Nearest(path, group, travel))
  <2>1. Inside(path, group)
    BY <1>3
  <2>2. CASE Len(path) < k + 1
    BY <1>4, <2>1, <2>2
  <2>3. CASE ~(Len(path) < k + 1)
    BY <2>3
  <2> QED BY <2>2, <2>3
<1> HIDE DEF next
<1>6. PICK step : step = [q \in (1..k) \X S |-> next(q[2])]
  OBVIOUS
<1>7. step \in [(1..k) \X S -> S]
  BY <1>5, <1>6
<1>8. PICK first \in S : first = <<start>>
  BY <1>2, <1>3 DEF Inside, Spread
<1>9. PICK g \in [0..k -> S] : Computes(g, k, first, step)
  BY <1>7, Recursion
<1>10. \A n \in 1..k : g[n] = next(g[n - 1])
  <2>1. ASSUME NEW n \in 1..k PROVE g[n] = next(g[n - 1])
    <3>1. PICK x \in S : x = g[n - 1]
      OBVIOUS
    <3>2. g[n] = step[<<n, x>>]
      BY <1>9, <3>1 DEF Computes
    <3>3. step[<<n, x>>] = next(x)
      BY <1>6
    <3> QED BY <3>1, <3>2, <3>3
  <2> QED BY <2>1
<1>11. g[0] = <<start>>
  BY <1>8, <1>9 DEF Computes
<1>12. \A n \in 0..k : Len(g[n]) = n + 1
  <2> DEFINE A == {n \in 0..k : Len(g[n]) = n + 1}
  <2>1. 0 \in A
    BY <1>2, <1>11
  <2>2. ASSUME NEW n \in 1..k, n - 1 \in A PROVE n \in A
    <3>1. PICK x \in S : x = g[n - 1] /\ Len(x) = n
      BY <2>2
    <3>2. Len(x) < k + 1
      BY <3>1
    <3>3. Len(next(x)) = Len(x) + 1
      BY <1>5, <3>2
    <3>4. g[n] = next(x)
      BY <1>10, <3>1
    <3>5. n \in 0..k
      OBVIOUS
    <3> QED BY <3>1, <3>3, <3>4, <3>5
  <2> HIDE DEF A
  <2>3. \A n \in 0..k : n \in A
    BY <2>1, <2>2, StepByStep
  <2> QED BY <2>3 DEF A
<1>13. Grows(g, start, group)
  <2>1. ASSUME NEW n \in 0..k
        PROVE  g[n] = IF n = 0 THEN <<start>>
                      ELSE Append(g[n - 1], Nearest(g[n - 1], group, travel))
    <3>1. CASE n = 0
      BY <1>11, <3>1
    <3>2. CASE n # 0
      <4>1. n \in 1..k /\ n - 1 \in 0..k
        BY <3>2
      <4>2. PICK x \in S : x = g[n - 1] /\ Len(x) = n
        BY <1>12, <4>1
      <4>3. Len(x) < k + 1
        BY <4>1, <4>2
      <4> QED BY <1>5, <1>10, <3>2, <4>1, <4>2, <4>3
    <3> QED BY <3>1, <3>2
  <2>2. 0..k = 0..(Len(group) - 1)
    BY <1>1
  <2>3. g = [n \in 0..k |-> g[n]]
    OBVIOUS
  <2> QED BY <2>1, <2>2, <2>3 DEF Grows
<1>14. PICK h : h = CHOOSE f : Grows(f, start, group)
  OBVIOUS
<1>15. Grows(h, start, group)
  BY <1>13, <1>14
<1>16. \A n \in 0..k :
         h[n] = IF n = 0 THEN <<start>> ELSE Append(h[n - 1], Nearest(h[n - 1], group, travel))
  <2>1. 0..k = 0..(Len(group) - 1)
    BY <1>1
  <2> QED BY <1>15, <2>1 DEF Grows
<1>17. \A n \in 0..k : Inside(h[n], group) /\ Len(h[n]) = n + 1
  <2> DEFINE A == {n \in 0..k : Inside(h[n], group) /\ Len(h[n]) = n + 1}
  <2>1. 0 \in A
    <3>1. h[0] = <<start>>
      BY <1>16
    <3> QED BY <1>2, <3>1
  <2>2. ASSUME NEW n \in 1..k, n - 1 \in A PROVE n \in A
    <3>1. PICK x : x = h[n - 1] /\ Inside(x, group) /\ Len(x) = n
      BY <2>2
    <3>2. Len(x) < k + 1 /\ n \in 0..k /\ n # 0
      BY <3>1
    <3>3. h[n] = Append(x, Nearest(x, group, travel))
      BY <1>16, <3>1, <3>2
    <3> QED BY <1>4, <3>1, <3>2, <3>3
  <2> HIDE DEF A
  <2>3. \A n \in 0..k : n \in A
    BY <2>1, <2>2, StepByStep
  <2> QED BY <2>3 DEF A
<1>18. Grown(start, group, travel) = h[k]
  <2>1. Len(group) - 1 = k
    BY <1>1
  <2>2. Grown(start, group, travel) = (CHOOSE f : Grows(f, start, group))[Len(group) - 1]
    BY GrownFrom
  <2> QED BY <1>14, <2>1, <2>2
<1>19. Inside(h[k], group) /\ Len(h[k]) = k + 1
  BY <1>17
<1> QED BY <1>1, <1>18, <1>19 DEF Reorders

\* The greedy path takes every stop once.
LEMMA GreedyPathFacts ==
  ASSUME Measured, NEW group, Spread(group)
  PROVE  Reorders(GreedyPath(group, travel), group)
<1>1. PICK key : key = [start \in ToSet(group) |->
                          <<LegsOf(Grown(start, group, travel), travel), 0>>]
  OBVIOUS
<1>2. \A start \in ToSet(group) : key[start][1] \in Int /\ key[start][2] \in Int
  <2>1. ASSUME NEW start \in ToSet(group) PROVE key[start][1] \in Int /\ key[start][2] \in Int
    <3>1. PICK path : path = Grown(start, group, travel)
      OBVIOUS
    <3>2. Spread(path)
      BY <3>1, GrownFacts DEF Reorders, Inside
    <3>3. PICK n \in Nat : n = Len(path) /\ n >= 1 /\ path \in [1..n -> Stops]
      BY <3>2, SpreadFacts
    <3>4. Distances(travel, Stops)
      BY StopsFacts DEF Distances
    <3>5. PICK d \in Int : d = LegsOf(path, travel)
      BY <3>3, <3>4, LegsTyped
    <3>6. key[start] = <<d, 0>>
      BY <1>1, <3>1, <3>5
    <3> QED BY <3>6
  <2> QED BY <2>1
<1>3. FirstMin(group, key) \in ToSet(group)
  BY <1>2, FirstMinFacts DEF Spread
<1>4. GreedyPath(group, travel) = Grown(FirstMin(group, key), group, travel)
  BY <1>1 DEF GreedyPath
<1> QED BY <1>3, <1>4, GrownFacts

-----------------------------------------------------------------------------
(* Night views last *)

\* Every order of a group takes its stops once.
LEMMA AlongReorders ==
  ASSUME Measured, NEW group, Spread(group), NEW k \in Nat, Len(group) = k, NEW q \in [1..k -> 1..k],
         \A i, j \in 1..k : q[i] = q[j] => i = j
  PROVE  Reorders(Along(group, q, k), group)
<1>1. /\ group \in Seq(Stops) /\ k >= 1 /\ group \in [1..k -> Stops] /\ DOMAIN group = 1..k
      /\ \A a, b \in 1..k : group[a] = group[b] => a = b
  BY SpreadFacts DEF Spread
<1>2. PICK path : path = Along(group, q, k)
  OBVIOUS
<1>3. path \in [1..k -> Stops]
  BY <1>1, <1>2, AlongTyped
<1>4. \A i \in 1..k : path[i] = group[q[i]]
  BY <1>2 DEF Along
<1>5. path \in Seq(Stops) /\ Len(path) = k /\ DOMAIN path = 1..k
  BY <1>3, FunctionIsSeq
<1>6. path # <<>>
  BY <1>1, <1>5
<1>7. \A a, b \in 1..k : path[a] = path[b] => a = b
  BY <1>1, <1>4
<1>8. Spread(path)
  BY <1>5, <1>6, <1>7 DEF Spread
<1>9. ToSet(path) \subseteq ToSet(group)
  BY <1>1, <1>4, <1>5 DEF ToSet
<1> QED BY <1>2, <1>5, <1>8, <1>9 DEF Reorders, Inside

\* The orders that the exact search compares.
AllOrders(group, path, k) ==
  \A q : Assigns(q, k) => LegsOf(path, travel) <= LegsOf(Along(group, q, k), travel)

\* The open path takes every stop once and, as far as the exact search goes, no order is shorter.
LEMMA OpenPathFacts ==
  ASSUME Measured, NEW group, Spread(group), NEW k \in Nat, Len(group) = k
  PROVE  /\ Reorders(ShortestOpenPath(group, travel), group)
         /\ k <= ExactLimit => AllOrders(group, ShortestOpenPath(group, travel), k)
<1>1. group \in Seq(Stops) /\ k >= 1
  BY SpreadFacts
<1>2. PICK path : path = ShortestOpenPath(group, travel)
  OBVIOUS
<1>3. CASE k <= 1
  <2>1. path = group
    BY <1>2, <1>3 DEF ShortestOpenPath
  <2>2. Reorders(path, group)
    BY <2>1 DEF Reorders, Inside
  <2>3. ASSUME NEW q, Assigns(q, k) PROVE LegsOf(path, travel) <= LegsOf(Along(group, q, k), travel)
    <3>1. Along(group, q, k) \in [1..k -> Stops]
      BY <1>1, <2>3, AlongTyped DEF Assigns
    <3>2. Along(group, q, k) \in Seq(Stops) /\ Len(Along(group, q, k)) <= 1
      BY <1>3, <3>1, FunctionIsSeq
    <3>3. LegsOf(Along(group, q, k), travel) = 0
      BY <3>2, NoLegs
    <3>4. LegsOf(path, travel) = 0
      BY <1>1, <1>3, <2>1, NoLegs
    <3> QED BY <3>3, <3>4
  <2> QED BY <1>2, <2>2, <2>3 DEF AllOrders
<1>4. CASE k > 1 /\ k > ExactLimit
  BY <1>2, <1>4, LimitsAssumption, GreedyPathFacts DEF ShortestOpenPath
<1>5. CASE k > 1 /\ ~(k > ExactLimit)
  <2>1. path = ExactPath(group, travel)
    BY <1>2, <1>5 DEF ShortestOpenPath
  <2>2. Distances(travel, Stops)
    BY StopsFacts DEF Distances
  <2>3. PICK pi : /\ Assigns(pi, k) /\ ExactPath(group, travel) = Along(group, pi, k)
                  /\ \A q : Assigns(q, k) =>
                       LegsOf(Along(group, pi, k), travel) <= LegsOf(Along(group, q, k), travel)
    BY <1>1, <2>2, ExactPathFacts
  <2>4. pi \in [1..k -> 1..k] /\ \A i, j \in 1..k : pi[i] = pi[j] => i = j
    BY <2>3 DEF Assigns
  <2>5. Reorders(Along(group, pi, k), group)
    BY <2>4, AlongReorders
  <2> QED BY <1>2, <2>1, <2>3, <2>5 DEF AllOrders
<1> QED BY <1>1, <1>3, <1>4, <1>5, LimitsAssumption

\* A strictly increasing list of all of 1..k is 1, 2, ..., k.
LEMMA IncreasingIsIdentity ==
  ASSUME NEW k \in Nat, NEW at \in [1..k -> 1..k], \A m, n \in 1..k : m < n => at[m] < at[n]
  PROVE  \A n \in 1..k : at[n] = n
<1> DEFINE A == {n \in 0..k : n >= 1 => at[n] >= n}
           B == {n \in 0..k : n < k => at[k - n] <= k - n}
<1>1. \A n \in 0..k : n \in A
  <2>1. 0 \in A
    OBVIOUS
  <2>2. ASSUME NEW n \in 1..k, n - 1 \in A PROVE n \in A
    <3>1. at[n] \in 1..k
      OBVIOUS
    <3>2. CASE n = 1
      BY <3>1, <3>2
    <3>3. CASE n # 1
      BY <3>3, <2>2, <3>1
    <3> QED BY <3>2, <3>3
  <2> HIDE DEF A
  <2> QED BY <2>1, <2>2, StepByStep
<1>2. \A n \in 0..k : n \in B
  <2>1. 0 \in B
    OBVIOUS
  <2>2. ASSUME NEW n \in 1..k, n - 1 \in B PROVE n \in B
    <3>1. CASE n = k
      BY <3>1
    <3>2. CASE n # k
      <4>1. PICK m \in 1..k : m = k - n /\ m + 1 \in 1..k /\ m < m + 1 /\ k - (n - 1) = m + 1
        BY <3>2
      <4>2. at[m] < at[m + 1] /\ at[m] \in 1..k /\ at[m + 1] \in 1..k
        BY <4>1
      <4>3. at[m + 1] <= m + 1
        BY <2>2, <3>2, <4>1
      <4> QED BY <4>1, <4>2, <4>3
    <3> QED BY <3>1, <3>2
  <2> HIDE DEF B
  <2> QED BY <2>1, <2>2, StepByStep
<1>3. ASSUME NEW n \in 1..k PROVE at[n] = n
  <2>1. at[n] >= n
    BY <1>1
  <2>2. k - n \in 0..k /\ k - n < k /\ k - (k - n) = n
    OBVIOUS
  <2>3. at[n] <= n
    BY <1>2, <2>2
  <2> QED BY <2>1, <2>3
<1> QED BY <1>3

\* Where the stops of a day come from: the others first, the night views last.
NightsPlaced(path, at, k, others, nights) ==
  /\ at \in [1..k -> 1..k] /\ \A m, n \in 1..k : at[m] = at[n] => m = n
  /\ NightsLast(path, pois) = Along(path, at, k)
  /\ \E most \in Nat : /\ \A n \in 1..k : IF n <= most THEN at[n] \in others ELSE at[n] \in nights
                       /\ nights = {} => most = k
                       /\ \A m, n \in 1..most : m < n => at[m] < at[n]

\* A part of a path: its stops by position in the path.
TakenAt(part, path, S, n, at) ==
  /\ part \in Seq(Stops) /\ Len(part) = n /\ at \in [1..n -> S]
  /\ \A i \in 1..n : part[i] = path[at[i]]
  /\ \A i, j \in 1..n : i < j => at[i] < at[j]
  /\ \A i, j \in 1..n : at[i] = at[j] => i = j

\* A part of a path has its stops at the positions kept, in order.
LEMMA PartAt ==
  ASSUME NEW path \in Seq(Stops), NEW S, S \in SUBSET DOMAIN path
  PROVE  \E at : TakenAt(PartOf(path, S), path, S, Cardinality(S), at)
<1>2. /\ PartOf(path, S) \in Seq(Stops) /\ Len(PartOf(path, S)) = Cardinality(S)
      /\ \E at : Positions(at, path, S)
  BY PartPositions
<1>3. PICK at : Positions(at, path, S)
  BY <1>2
<1> QED BY <1>2, <1>3 DEF Positions, TakenAt

Joins(joined, first, last, D) == first \in Seq(D) /\ last \in Seq(D) /\ joined = first \o last

\* Two parts of a path joined visit the stops of both.
LEMMA JoinedFacts ==
  ASSUME NEW D, NEW first, NEW last, NEW joined, Joins(joined, first, last, D)
  PROVE  /\ joined \in Seq(D) /\ Len(joined) = Len(first) + Len(last)
         /\ \A n \in 1..(Len(first) + Len(last)) :
              joined[n] = IF n <= Len(first) THEN first[n] ELSE last[n - Len(first)]
<1>0. first \in Seq(D) /\ last \in Seq(D) /\ joined = first \o last
  BY DEF Joins
<1>1. /\ first \o last \in Seq(D) /\ Len(first \o last) = Len(first) + Len(last)
      /\ \A i \in 1..(Len(first) + Len(last)) :
           (first \o last)[i] = IF i <= Len(first) THEN first[i] ELSE last[i - Len(first)]
  BY <1>0, ConcatProperties
<1> QED BY <1>0, <1>1

\* The path with night views last is its other stops, then its night views.
LEMMA NightsLastAre ==
  ASSUME Measured, NEW path, Spread(path), NEW k \in Nat, Len(path) = k,
         NEW nights, nights = {n \in 1..k : pois[path[n]].night},
         NEW others, others = (1..k) \ nights
  PROVE  \E at : NightsPlaced(path, at, k, others, nights)
<1>1. path \in Seq(Stops) /\ path \in [1..k -> Stops] /\ DOMAIN path = 1..k
  BY SpreadFacts
<1>2. nights \in SUBSET (1..k) /\ others \in SUBSET (1..k) /\ IsFiniteSet(1..k)
  BY UpToSize
<1>3. IsFiniteSet(nights) /\ IsFiniteSet(others)
  BY <1>2, FS_Subset
<1>4. PICK a \in Nat : a = Cardinality(others)
  BY <1>3, FS_CardinalityType
<1>5. PICK b \in Nat : b = Cardinality(nights)
  BY <1>3, FS_CardinalityType
<1>6. a + b = k
  <2>1. PICK S : S = 1..k
    OBVIOUS
  <2>2. IsFiniteSet(S) /\ Cardinality(S) = k /\ nights \in SUBSET S /\ others = S \ nights
    BY <2>1, UpToSize
  <2>3. S \cap nights = nights
    BY <2>2
  <2>4. Cardinality(S \ nights) = Cardinality(S) - Cardinality(S \cap nights)
    BY <2>2, FS_Difference
  <2>5. a = k - b
    BY <1>4, <1>5, <2>2, <2>3, <2>4
  <2> QED BY <2>5
<1>7. PICK first : first = PartOf(path, others)
  OBVIOUS
<1>8. PICK last : last = PartOf(path, nights)
  OBVIOUS
<1>0. others \in SUBSET DOMAIN path /\ nights \in SUBSET DOMAIN path
  BY <1>1, <1>2
<1>9. PICK ta \in [1..a -> others] :
        /\ first \in Seq(Stops) /\ Len(first) = a
        /\ \A n \in 1..a : first[n] = path[ta[n]]
        /\ \A m, n \in 1..a : m < n => ta[m] < ta[n]
        /\ \A m, n \in 1..a : ta[m] = ta[n] => m = n
  <2>1. \E x : TakenAt(first, path, others, a, x)
    BY <1>0, <1>1, <1>4, <1>7, PartAt
  <2> QED BY <2>1 DEF TakenAt
<1>10. PICK tb \in [1..b -> nights] :
        /\ last \in Seq(Stops) /\ Len(last) = b
        /\ \A n \in 1..b : last[n] = path[tb[n]]
        /\ \A m, n \in 1..b : tb[m] = tb[n] => m = n
  <2>1. \E x : TakenAt(last, path, nights, b, x)
    BY <1>0, <1>1, <1>5, <1>8, PartAt
  <2> QED BY <2>1 DEF TakenAt
<1>11. PICK at : at = [n \in 1..k |-> IF n <= a THEN ta[n] ELSE tb[n - a]]
  OBVIOUS
<1>12. /\ \A n \in 1..k : n <= a => n \in 1..a /\ at[n] = ta[n] /\ at[n] \in others
       /\ \A n \in 1..k : ~(n <= a) => n - a \in 1..b /\ at[n] = tb[n - a] /\ at[n] \in nights
  BY <1>6, <1>9, <1>10, <1>11
<1>13. at \in [1..k -> 1..k]
  BY <1>2, <1>11, <1>12
<1>14. ASSUME NEW m \in 1..k, NEW n \in 1..k, at[m] = at[n] PROVE m = n
  <2>1. others \cap nights = {}
    OBVIOUS
  <2>2. CASE m <= a /\ n <= a
    BY <1>9, <1>12, <1>14, <2>2
  <2>3. CASE ~(m <= a) /\ ~(n <= a)
    <3>1. m - a = n - a
      BY <1>10, <1>12, <1>14, <2>3
    <3> QED BY <3>1
  <2>4. ~(m <= a /\ ~(n <= a)) /\ ~(n <= a /\ ~(m <= a))
    BY <1>12, <1>14, <2>1
  <2> QED BY <2>2, <2>3, <2>4
<1>15. NightsLast(path, pois) = Along(path, at, k)
  <2>1. NightsLast(path, pois) = first \o last
    BY <1>1, <1>7, <1>8 DEF NightsLast
  <2>2. PICK joined : joined = first \o last
    OBVIOUS
  <2>0. first \in Seq(Stops) /\ last \in Seq(Stops) /\ Len(first) = a /\ Len(last) = b
    BY <1>9, <1>10
  <2>7. Joins(joined, first, last, Stops)
    BY <2>0, <2>2 DEF Joins
  <2>3. joined \in Seq(Stops) /\ Len(joined) = Len(first) + Len(last)
    BY <2>7, JoinedFacts
  <2>4. \A n \in 1..k : joined[n] = IF n <= a THEN first[n] ELSE last[n - a]
    <3>1. \A n \in 1..(Len(first) + Len(last)) :
            joined[n] = IF n <= Len(first) THEN first[n] ELSE last[n - Len(first)]
      BY <2>7, JoinedFacts
    <3> QED BY <1>6, <2>0, <3>1
  <2>5. \A n \in 1..k : joined[n] = path[at[n]]
    BY <1>9, <1>10, <1>12, <2>4
  <2>6. joined = [n \in 1..k |-> joined[n]]
    <3>1. Len(joined) = k
      BY <1>6, <1>9, <1>10, <2>3
    <3> QED BY <2>3, <3>1
  <2> QED BY <2>1, <2>2, <2>5, <2>6 DEF Along
<1>16. nights = {} => a = k
  <2>1. Cardinality({}) = 0
    BY FS_EmptySet
  <2> QED BY <1>5, <1>6, <2>1
<1>17. ASSUME NEW m \in 1..a, NEW n \in 1..a, m < n PROVE at[m] < at[n]
  <2>1. m \in 1..k /\ n \in 1..k /\ m <= a /\ n <= a
    BY <1>6
  <2>2. at[m] = ta[m] /\ at[n] = ta[n]
    BY <1>12, <2>1
  <2>3. ta[m] < ta[n]
    BY <1>9, <1>17
  <2> QED BY <2>2, <2>3
<1> QED BY <1>12, <1>13, <1>14, <1>15, <1>16, <1>17 DEF NightsPlaced

\* Night views come last, and without any the order stays.
LEMMA NightsLastFacts ==
  ASSUME Measured, NEW path, Spread(path)
  PROVE  /\ Reorders(NightsLast(path, pois), path)
         /\ \A n \in 1..(Len(path) - 1) :
              pois[NightsLast(path, pois)[n]].night => pois[NightsLast(path, pois)[n + 1]].night
         /\ (\A i \in ToSet(path) : ~pois[i].night) => NightsLast(path, pois) = path
<1>1. PICK k \in Nat : k = Len(path) /\ path \in [1..k -> Stops] /\ DOMAIN path = 1..k
  BY SpreadFacts
<1>2. PICK nights : nights = {n \in 1..k : pois[path[n]].night}
  OBVIOUS
<1>3. PICK others : others = (1..k) \ nights
  OBVIOUS
<1>4. PICK at : NightsPlaced(path, at, k, others, nights)
  BY <1>1, <1>2, <1>3, NightsLastAre
<1>5. PICK order : order = NightsLast(path, pois)
  OBVIOUS
<1>6. /\ at \in [1..k -> 1..k] /\ \A m, n \in 1..k : at[m] = at[n] => m = n
      /\ order = Along(path, at, k)
  BY <1>4, <1>5 DEF NightsPlaced
<1>7. PICK most \in Nat : /\ \A n \in 1..k : IF n <= most THEN at[n] \in others ELSE at[n] \in nights
                          /\ nights = {} => most = k
                          /\ \A m, n \in 1..most : m < n => at[m] < at[n]
  BY <1>4 DEF NightsPlaced
<1>8. \A n \in 1..k : order[n] = path[at[n]]
  BY <1>6 DEF Along
<1>9. Reorders(order, path)
  BY <1>1, <1>6, AlongReorders
<1>10. ASSUME NEW n \in 1..(k - 1), pois[order[n]].night PROVE pois[order[n + 1]].night
  <2>1. n \in 1..k /\ n + 1 \in 1..k
    OBVIOUS
  <2>2. at[n] \in nights
    BY <1>2, <1>6, <1>8, <1>10, <2>1
  <2>3. ~(n <= most)
    BY <1>3, <1>7, <2>1, <2>2
  <2>4. at[n + 1] \in nights
    BY <1>7, <2>1, <2>3
  <2> QED BY <1>2, <1>8, <2>1, <2>4
<1>11. ASSUME \A i \in ToSet(path) : ~pois[i].night PROVE order = path
  <2>1. nights = {}
    BY <1>1, <1>2, <1>11 DEF ToSet
  <2>2. \A m, n \in 1..k : m < n => at[m] < at[n]
    BY <1>7, <2>1
  <2>3. \A n \in 1..k : at[n] = n
    BY <1>6, <2>2, IncreasingIsIdentity
  <2>4. \A n \in 1..k : order[n] = path[n]
    BY <1>8, <2>3
  <2>5. order = [n \in 1..k |-> order[n]]
    BY <1>6 DEF Along
  <2> QED BY <1>1, <2>4, <2>5
<1> QED BY <1>1, <1>5, <1>9, <1>10, <1>11

-----------------------------------------------------------------------------
(* The clock of a day *)

\* One stop: arriving there, eating there, leaving it.
Leg(a, b) == Rounded(travel[a][b], PerMinute)

There(before, i, order) == before.now + (IF i = 1 THEN 0 ELSE Leg(order[i - 1], order[i]))

Eats(before, i, order) == ~before.lunch /\ There(before, i, order) >= 690 /\ i > 1

Left(before, i, order) ==
  [now |-> There(before, i, order) + (IF Eats(before, i, order) THEN 60 ELSE 0) + pois[order[i]].visit,
   lunch |-> before.lunch \/ Eats(before, i, order)]

Clock(f, order) ==
  f = [i \in 0..Len(order) |-> IF i = 0 THEN [now |-> 540, lunch |-> FALSE]
                               ELSE Left(f[i - 1], i, order)]

\* The end of a day is that of its clock, an hour later when lunch is due.
LEMMA DayEndFrom ==
  ASSUME NEW order
  PROVE  DayEnd(order, pois, travel)
           = LET last == (CHOOSE f : Clock(f, order))[Len(order)]
             IN  IF last.lunch THEN last.now ELSE last.now + 60
  BY DEF DayEnd, Clock, Left, Eats, There, Leg

Times == [now: Int, lunch: BOOLEAN]

\* The minutes of the first stops and the rounded ones of the legs between them.
VisitOf(order, k) == [i \in 1..k |-> pois[order[i]].visit]
LegOf(order, k) == [i \in 1..(k - 1) |-> Leg(order[i], order[i + 1])]

Spent(order, k, i) ==
  SumFunctionOnSet(VisitOf(order, k), 1..i) + SumFunctionOnSet(LegOf(order, k), 1..(i - 1))

AreVisits(v, order, k) == \A i \in 1..k : v[i] \in Nat /\ v[i] = pois[order[i]].visit
AreLegs(w, order, k) ==
  \A i \in 1..(k - 1) : w[i] \in Nat /\ w[i] = Leg(order[i], order[i + 1])

\* The visits and the legs of a day are natural numbers.
LEMMA SpansTyped ==
  ASSUME Measured, NEW k \in Nat, NEW order \in [1..k -> Stops]
  PROVE  AreVisits(VisitOf(order, k), order, k) /\ AreLegs(LegOf(order, k), order, k)
<1>1. ASSUME NEW i \in 1..k
      PROVE  VisitOf(order, k)[i] \in Nat /\ VisitOf(order, k)[i] = pois[order[i]].visit
  <2>1. PICK poi \in Sights : poi = pois[order[i]]
    BY StopsFacts
  <2>2. poi.visit \in Nat
    BY SightNumbers
  <2> QED BY <2>1, <2>2 DEF VisitOf
<1>2. ASSUME NEW i \in 1..(k - 1)
      PROVE  LegOf(order, k)[i] \in Nat /\ LegOf(order, k)[i] = Leg(order[i], order[i + 1])
  <2>1. PICK time \in Nat : time = travel[order[i]][order[i + 1]]
    BY StopsFacts
  <2>2. PerMinute \in Nat /\ PerMinute > 0
    BY LimitsAssumption
  <2>3. Rounded(time, PerMinute) \in Int /\ Rounded(time, PerMinute) >= 0
    <3>1. time \in Int /\ time >= 0
      BY <2>1
    <3> QED BY <2>2, <3>1, RoundedNear
  <2> QED BY <2>1, <2>3 DEF LegOf, Leg
<1>3. AreVisits(VisitOf(order, k), order, k)
  BY <1>1 DEF AreVisits
<1>4. AreLegs(LegOf(order, k), order, k)
  BY <1>2 DEF AreLegs
<1> QED BY <1>3, <1>4

\* The sum over the first numbers grows by its last one.
LEMMA SumOneMore ==
  ASSUME NEW m \in Nat, NEW f, \A i \in 1..m : f[i] \in Nat, NEW n \in 1..m
  PROVE  /\ SumFunctionOnSet(f, 1..(n - 1)) \in Int /\ SumFunctionOnSet(f, 1..n) \in Int
         /\ SumFunctionOnSet(f, 1..n) = f[n] + SumFunctionOnSet(f, 1..(n - 1))
         /\ SumFunctionOnSet(f, 1..0) = 0
<1>1. PICK S : S = 1..m
  OBVIOUS
<1>2. IsFiniteSet(S) /\ \A i \in S : f[i] \in Int
  BY <1>1, UpToSize
<1>3. PICK s \in SUBSET S : s = 1..(n - 1)
  BY <1>1
<1>4. n \in S \ s /\ 1..n = s \cup {n}
  BY <1>1, <1>3
<1>5. SumFunctionOnSet(f, {}) = 0
  BY <1>2, SumFacts
<1>6. SumFunctionOnSet(f, s) \in Int
  BY <1>2, SumFacts
<1>7. ASSUME NEW x \in S \ s PROVE SumFunctionOnSet(f, s \cup {x}) = f[x] + SumFunctionOnSet(f, s)
  BY <1>2, SumFacts
<1>8. SumFunctionOnSet(f, 1..n) = f[n] + SumFunctionOnSet(f, s)
  BY <1>4, <1>7
<1>9. 1..0 = {}
  OBVIOUS
<1>10. f[n] \in Int
  OBVIOUS
<1> QED BY <1>3, <1>5, <1>6, <1>8, <1>9, <1>10

\* The minutes spent up to a stop are an integer.
LEMMA SpentTyped ==
  ASSUME Measured, NEW k \in Nat, k >= 1, NEW order \in [1..k -> Stops], NEW i \in 0..k
  PROVE  Spent(order, k, i) \in Int
<1>1. PICK v : v = VisitOf(order, k)
  OBVIOUS
<1>2. PICK w : w = LegOf(order, k)
  OBVIOUS
<1>0. AreVisits(v, order, k) /\ AreLegs(w, order, k)
  BY <1>1, <1>2, SpansTyped
<1>3. (\A n \in 1..k : v[n] \in Nat) /\ \A n \in 1..(k - 1) : w[n] \in Nat
  BY <1>0 DEF AreVisits, AreLegs
<1>4. SumFunctionOnSet(v, 1..i) \in Int
  <2>1. CASE i = 0
    <3>1. 1 \in 1..k
      OBVIOUS
    <3>2. SumFunctionOnSet(v, 1..0) = 0
      BY <1>3, <3>1, SumOneMore
    <3> QED BY <2>1, <3>2
  <2>2. CASE i # 0
    <3>1. i \in 1..k
      BY <2>2
    <3> QED BY <1>3, <3>1, SumOneMore
  <2> QED BY <2>1, <2>2
<1>5. SumFunctionOnSet(w, 1..(i - 1)) \in Int
  <2>1. CASE i <= 1
    <3>1. 1..(i - 1) = {} /\ IsFiniteSet({})
      BY <2>1, FS_EmptySet
    <3>2. PICK N : N = {}
      OBVIOUS
    <3>3. IsFiniteSet(N) /\ \A x \in N : w[x] \in Int
      BY <3>1, <3>2
    <3>4. SumFunctionOnSet(w, {}) = 0
      BY <3>3, SumFacts
    <3> QED BY <3>1, <3>4
  <2>2. CASE i > 1
    <3>1. PICK m \in Nat : m = k - 1
      OBVIOUS
    <3>2. PICK n \in 1..m : n = i - 1
      BY <2>2, <3>1
    <3>3. \A x \in 1..m : w[x] \in Nat
      BY <1>3, <3>1
    <3>4. SumFunctionOnSet(w, 1..n) \in Int
      BY <3>2, <3>3, SumOneMore
    <3> QED BY <3>2, <3>4
  <2> QED BY <2>1, <2>2
<1>6. PICK a \in Int, b \in Int : a = SumFunctionOnSet(v, 1..i) /\ b = SumFunctionOnSet(w, 1..(i - 1))
  BY <1>4, <1>5
<1> QED BY <1>1, <1>2, <1>6 DEF Spent

\* One more stop and, but for the first, one more leg.
LEMMA SpentMore ==
  ASSUME Measured, NEW k \in Nat, k >= 1, NEW order \in [1..k -> Stops], NEW i \in 1..k
  PROVE  /\ Spent(order, k, 0) = 0
         /\ Spent(order, k, i) = Spent(order, k, i - 1) + pois[order[i]].visit
                                 + (IF i = 1 THEN 0 ELSE Leg(order[i - 1], order[i]))
<1>1. PICK v : v = VisitOf(order, k)
  OBVIOUS
<1>2. PICK w : w = LegOf(order, k)
  OBVIOUS
<1>0. AreVisits(v, order, k) /\ AreLegs(w, order, k)
  BY <1>1, <1>2, SpansTyped
<1>3. (\A n \in 1..k : v[n] \in Nat) /\ \A n \in 1..(k - 1) : w[n] \in Nat
  BY <1>0 DEF AreVisits, AreLegs
<1>4. SumFunctionOnSet(w, {}) = 0
  <2>1. PICK N : N = {}
    OBVIOUS
  <2>2. IsFiniteSet(N) /\ \A x \in N : w[x] \in Int
    BY <2>1, FS_EmptySet
  <2> QED BY <2>2, SumFacts
<1>5. 1..(0 - 1) = {} /\ 1..(1 - 1) = {} /\ 1..((1 - 1) - 1) = {}
  OBVIOUS
<1>6. /\ SumFunctionOnSet(v, 1..(i - 1)) \in Int
      /\ SumFunctionOnSet(v, 1..i) = v[i] + SumFunctionOnSet(v, 1..(i - 1))
      /\ SumFunctionOnSet(v, 1..0) = 0
  BY <1>3, SumOneMore
<1>7. Spent(order, k, 0) = 0
  BY <1>1, <1>2, <1>4, <1>5, <1>6 DEF Spent
<1>8. PICK a \in Int, x \in Nat : /\ a = SumFunctionOnSet(v, 1..(i - 1)) /\ x = v[i]
                                  /\ x = pois[order[i]].visit
  BY <1>0, <1>6 DEF AreVisits
<1>9. CASE i = 1
  <2>1. Spent(order, k, 1) = SumFunctionOnSet(v, 1..1) + 0
    BY <1>1, <1>2, <1>4, <1>5 DEF Spent
  <2>2. SumFunctionOnSet(v, 1..1) = x + 0
    BY <1>6, <1>8, <1>9
  <2> QED BY <1>7, <1>8, <1>9, <2>1, <2>2
<1>10. CASE i # 1
  <2>1. PICK n \in 1..(k - 1) : n = i - 1 /\ i = n + 1
    BY <1>10
  <2>2. k - 1 \in Nat
    OBVIOUS
  <2>3. /\ SumFunctionOnSet(w, 1..(n - 1)) \in Int
        /\ SumFunctionOnSet(w, 1..n) = w[n] + SumFunctionOnSet(w, 1..(n - 1))
    BY <1>3, <2>2, SumOneMore
  <2>4. PICK b \in Int, y \in Nat : /\ b = SumFunctionOnSet(w, 1..(n - 1)) /\ y = w[n]
                                    /\ y = Leg(order[n], order[n + 1])
    BY <1>0, <2>3 DEF AreLegs
  <2>5. Spent(order, k, i) = (x + a) + (y + b)
    BY <1>1, <1>2, <1>6, <1>8, <2>1, <2>3, <2>4 DEF Spent
  <2>6. Spent(order, k, n) = a + b
    BY <1>1, <1>2, <1>8, <2>1, <2>4 DEF Spent
  <2>7. Leg(order[i - 1], order[i]) = y /\ Spent(order, k, i - 1) = a + b
    BY <2>1, <2>4, <2>6
  <2>8. Spent(order, k, i) = Spent(order, k, i - 1) + x + y
    BY <2>5, <2>7
  <2> QED BY <1>7, <1>8, <1>10, <2>7, <2>8
<1> QED BY <1>7, <1>9, <1>10

\* The clock after i stops: what was spent, and an hour if lunch was had.
LEMMA LeftTime ==
  ASSUME Measured, NEW k \in Nat, k >= 1, NEW order \in [1..k -> Stops], NEW i \in 1..k,
         NEW before \in Times
  PROVE  /\ Left(before, i, order) \in Times
         /\ before.now = 540 + Spent(order, k, i - 1) + (IF before.lunch THEN 60 ELSE 0)
              => Left(before, i, order).now
                   = 540 + Spent(order, k, i) + (IF Left(before, i, order).lunch THEN 60 ELSE 0)
<1>1. PICK now \in Int, lunch \in BOOLEAN : now = before.now /\ lunch = before.lunch
  BY DEF Times
<1>0. /\ \A n \in 1..k : pois[order[n]].visit \in Nat
      /\ \A n \in 1..(k - 1) : Leg(order[n], order[n + 1]) \in Nat
  BY SpansTyped DEF AreVisits, AreLegs
<1>2. PICK x \in Nat : x = pois[order[i]].visit
  BY <1>0
<1>3. PICK y \in Int : y = IF i = 1 THEN 0 ELSE Leg(order[i - 1], order[i])
  <2>1. CASE i = 1
    BY <2>1
  <2>2. CASE i # 1
    BY <2>2, <1>0
  <2> QED BY <2>1, <2>2
<1>4. There(before, i, order) = now + y
  BY <1>1, <1>3 DEF There
<1>5. PICK eats \in BOOLEAN : eats = Eats(before, i, order)
  BY DEF Eats
<1>6. eats => ~lunch
  BY <1>1, <1>5 DEF Eats
<1>7. PICK after : after = Left(before, i, order)
  OBVIOUS
<1>8. after = [now |-> now + y + (IF eats THEN 60 ELSE 0) + x, lunch |-> lunch \/ eats]
  BY <1>1, <1>2, <1>4, <1>5, <1>7 DEF Left
<1>9. after.now = now + y + (IF eats THEN 60 ELSE 0) + x /\ after.lunch = (lunch \/ eats)
  BY <1>8
<1>10. after \in Times
  BY <1>8 DEF Times
<1>11. PICK s \in Int : s = Spent(order, k, i - 1)
  <2>1. i - 1 \in 0..k
    OBVIOUS
  <2> QED BY <2>1, SpentTyped
<1>12. Spent(order, k, i) = s + x + y
  BY <1>2, <1>3, <1>11, SpentMore
<1>13. ASSUME now = 540 + s + (IF lunch THEN 60 ELSE 0)
       PROVE  after.now = 540 + (s + x + y) + (IF after.lunch THEN 60 ELSE 0)
  BY <1>6, <1>9, <1>13
<1> QED BY <1>1, <1>7, <1>10, <1>11, <1>12, <1>13

-----------------------------------------------------------------------------
(* Days that fit *)

\* The clock runs from stop to stop.
LEMMA ClockRuns ==
  ASSUME Measured, NEW k \in Nat, k >= 1, NEW order \in [1..k -> Stops]
  PROVE  \E f : Clock(f, order)
<1>1. Len(order) = k
  BY FunctionIsSeq
<1>2. PICK S : S = Times
  OBVIOUS
<1>3. PICK base \in S : base = [now |-> 540, lunch |-> FALSE]
  <2>1. [now |-> 540, lunch |-> FALSE] \in Times
    BY DEF Times
  <2> QED BY <1>2, <2>1
<1>4. PICK step : step = [q \in (1..k) \X S |-> Left(q[2], q[1], order)]
  OBVIOUS
<1>5. step \in [(1..k) \X S -> S]
  <2>1. ASSUME NEW n \in 1..k, NEW x \in S PROVE Left(x, n, order) \in S
    BY <1>2, LeftTime
  <2> QED BY <1>4, <2>1
<1>6. PICK g \in [0..k -> S] : Computes(g, k, base, step)
  BY <1>5, Recursion
<1>7. g[0] = base
  BY <1>6 DEF Computes
<1>8. ASSUME NEW n \in 1..k PROVE g[n] = Left(g[n - 1], n, order)
  <2>1. PICK x \in S : x = g[n - 1]
    OBVIOUS
  <2>2. g[n] = step[<<n, x>>]
    BY <1>6, <2>1 DEF Computes
  <2>3. step[<<n, x>>] = Left(x, n, order)
    BY <1>4
  <2> QED BY <2>1, <2>2, <2>3
<1>9. ASSUME NEW n \in 0..k
      PROVE  g[n] = IF n = 0 THEN [now |-> 540, lunch |-> FALSE] ELSE Left(g[n - 1], n, order)
  <2>1. CASE n = 0
    BY <1>3, <1>7, <2>1
  <2>2. CASE n # 0
    <3>1. n \in 1..k
      BY <2>2
    <3> QED BY <1>8, <2>2, <3>1
  <2> QED BY <2>1, <2>2
<1>10. g = [n \in 0..k |-> g[n]]
  OBVIOUS
<1> QED BY <1>1, <1>9, <1>10 DEF Clock

\* The day ends an hour for lunch, the visits and the rounded legs after nine.
LEMMA DayEndIs ==
  ASSUME Measured, NEW k \in Nat, k >= 1, NEW order \in [1..k -> Stops]
  PROVE  DayEnd(order, pois, travel) = 600 + Spent(order, k, k)
<1>1. Len(order) = k
  BY FunctionIsSeq
<1>2. PICK f : f = CHOOSE g : Clock(g, order)
  OBVIOUS
<1>3. Clock(f, order)
  BY <1>2, ClockRuns
<1>4. \A i \in 0..k : f[i] = IF i = 0 THEN [now |-> 540, lunch |-> FALSE] ELSE Left(f[i - 1], i, order)
  BY <1>1, <1>3 DEF Clock
<1> DEFINE Right(i) == /\ f[i] \in Times
                       /\ f[i].now = 540 + Spent(order, k, i) + (IF f[i].lunch THEN 60 ELSE 0)
           A == {i \in 0..k : Right(i)}
<1>5. 0 \in A
  <2>1. f[0] = [now |-> 540, lunch |-> FALSE]
    BY <1>4
  <2>2. f[0] \in Times /\ f[0].now = 540 /\ f[0].lunch = FALSE
    BY <2>1 DEF Times
  <2>3. Spent(order, k, 0) = 0
    <3>1. 1 \in 1..k
      OBVIOUS
    <3> QED BY <3>1, SpentMore
  <2> QED BY <2>2, <2>3
<1>6. ASSUME NEW i \in 1..k, i - 1 \in A PROVE i \in A
  <2>1. PICK before \in Times :
          /\ before = f[i - 1]
          /\ before.now = 540 + Spent(order, k, i - 1) + (IF before.lunch THEN 60 ELSE 0)
    BY <1>6
  <2>2. i \in 0..k /\ f[i] = Left(before, i, order)
    BY <1>4, <2>1
  <2>3. PICK after : after = Left(before, i, order)
    OBVIOUS
  <2>4. /\ after \in Times
        /\ after.now = 540 + Spent(order, k, i) + (IF after.lunch THEN 60 ELSE 0)
    BY <2>1, <2>3, LeftTime
  <2> QED BY <2>2, <2>3, <2>4
<1> HIDE DEF A
<1>7. \A i \in 0..k : i \in A
  BY <1>5, <1>6, StepByStep
<1>8. Right(k)
  <2>1. k \in A
    BY <1>7
  <2> QED BY <2>1 DEF A
<1>9. PICK last \in Times : last = f[k]
  BY <1>8
<1>10. DayEnd(order, pois, travel) = IF last.lunch THEN last.now ELSE last.now + 60
  BY <1>1, <1>2, <1>9, DayEndFrom
<1>11. PICK s \in Int : s = Spent(order, k, k)
  <2>1. k \in 0..k
    OBVIOUS
  <2> QED BY <2>1, SpentTyped
<1>12. PICK now \in Int, lunch \in BOOLEAN : now = last.now /\ lunch = last.lunch
  BY <1>9 DEF Times
<1>13. now = 540 + s + (IF lunch THEN 60 ELSE 0)
  BY <1>8, <1>9, <1>11, <1>12
<1>14. DayEnd(order, pois, travel) = IF lunch THEN now ELSE now + 60
  BY <1>10, <1>12
<1> QED BY <1>11, <1>13, <1>14

\* What was spent in all: the visits and the rounded legs.
LEMMA SpentInAll ==
  ASSUME NEW k \in Nat, NEW order, Len(order) = k, DOMAIN order = 1..k
  PROVE  Spent(order, k, k)
         = Visits(order, pois) + SumFunctionOnSet(LegOf(order, k), 1..(k - 1))
<1>1. Visits(order, pois) = SumFunctionOnSet(VisitOf(order, k), 1..k)
  BY DEF VisitOf, Visits, SumFunction
<1> QED BY <1>1 DEF Spent

\* Rounding adds at most half a minute to every leg.
LEMMA RoundedLegs ==
  ASSUME Measured, NEW k \in Nat, k >= 1, NEW order \in [1..k -> Stops], Len(order) = k,
         NEW total \in Int, total = LegsOf(order, travel)
  PROVE  2 * (PerMinute * SumFunctionOnSet(LegOf(order, k), 1..(k - 1)))
           <= 2 * total + PerMinute * (k - 1)
<1>1. PICK unit \in Nat : unit = PerMinute /\ unit > 0
  BY LimitsAssumption
<1>2. PICK m \in Nat : m = k - 1
  OBVIOUS
<1>3. PICK w : w = LegOf(order, k)
  OBVIOUS
<1>4. PICK time : time = [i \in 1..m |-> travel[order[i]][order[i + 1]]]
  OBVIOUS
<1>5. total = SumFunctionOnSet(time, 1..m)
  BY <1>2, <1>4 DEF LegsOf, SumFunction
<1>6. ASSUME NEW i \in 1..m
      PROVE  time[i] \in Nat /\ w[i] \in Nat /\ w[i] = Rounded(time[i], unit)
  <2>1. w[i] \in Nat /\ w[i] = Leg(order[i], order[i + 1])
    BY <1>2, <1>3, SpansTyped DEF AreLegs
  <2>2. time[i] \in Nat /\ time[i] = travel[order[i]][order[i + 1]]
    BY <1>2, <1>4, StopsFacts
  <2> QED BY <1>1, <2>1, <2>2 DEF Leg
<1>12. (\A i \in 1..m : time[i] \in Nat) /\ \A i \in 1..m : w[i] \in Nat
  BY <1>6
<1>7. ASSUME NEW f, \A i \in 1..m : f[i] \in Nat PROVE SumFunctionOnSet(f, 1..0) = 0
  <2>1. PICK N : N = {}
    OBVIOUS
  <2>2. IsFiniteSet(N) /\ \A x \in N : f[x] \in Int
    BY <2>1, FS_EmptySet
  <2>3. SumFunctionOnSet(f, {}) = 0
    BY <2>2, SumFacts
  <2>4. 1..0 = {}
    OBVIOUS
  <2> QED BY <2>3, <2>4
<1> DEFINE Near(n) ==
             \E a \in Int, b \in Int :
               /\ a = SumFunctionOnSet(w, 1..n) /\ b = SumFunctionOnSet(time, 1..n)
               /\ 2 * (unit * a) <= 2 * b + unit * n
           A == {n \in 0..m : Near(n)}
<1>8. 0 \in A
  <2>1. SumFunctionOnSet(w, 1..0) = 0 /\ SumFunctionOnSet(time, 1..0) = 0
    BY <1>12, <1>7
  <2>2. 2 * (unit * 0) <= 2 * 0 + unit * 0
    OBVIOUS
  <2> QED BY <2>1, <2>2
<1>9. ASSUME NEW n \in 1..m, n - 1 \in A PROVE n \in A
  <2>1. PICK a \in Int, b \in Int :
          /\ a = SumFunctionOnSet(w, 1..(n - 1)) /\ b = SumFunctionOnSet(time, 1..(n - 1))
          /\ 2 * (unit * a) <= 2 * b + unit * (n - 1)
    BY <1>9
  <2>2. PICK x \in Nat, y \in Nat : x = w[n] /\ y = time[n] /\ x = Rounded(y, unit)
    BY <1>6
  <2>3. SumFunctionOnSet(w, 1..n) = x + a
    <3>1. SumFunctionOnSet(w, 1..n) = w[n] + SumFunctionOnSet(w, 1..(n - 1))
      BY <1>12, SumOneMore
    <3> QED BY <2>1, <2>2, <3>1
  <2>4. SumFunctionOnSet(time, 1..n) = y + b
    <3>1. SumFunctionOnSet(time, 1..n) = time[n] + SumFunctionOnSet(time, 1..(n - 1))
      BY <1>12, SumOneMore, SMTT(30)
    <3> QED BY <2>1, <2>2, <3>1
  <2>5. 2 * (unit * x) <= 2 * y + unit
    <3>1. y \in Int
      BY <2>2
    <3>2. 2 * (unit * Rounded(y, unit)) <= 2 * y + unit
      BY <1>1, <3>1, RoundedNear
    <3> QED BY <2>2, <3>2
  <2>6. unit * (x + a) = unit * x + unit * a /\ unit * n = unit * (n - 1) + unit
    <3>1. unit * (x + a) = unit * x + unit * a
      <4>1. PICK i \in Int, j \in Int, u \in Int : i = x /\ j = a /\ u = unit
        OBVIOUS
      <4>2. u * (i + j) = u * i + u * j
        OBVIOUS
      <4> QED BY <4>1, <4>2
    <3>2. PICK i \in Int, u \in Int : i = n - 1 /\ u = unit /\ n = i + 1
      OBVIOUS
    <3>3. u * (i + 1) = u * i + u
      OBVIOUS
    <3> QED BY <3>1, <3>2, <3>3
  <2>7. PICK p \in Int, q \in Int, r \in Int : p = unit * x /\ q = unit * a /\ r = unit * (n - 1)
    <3>1. unit * x \in Int /\ unit * a \in Int /\ unit * (n - 1) \in Int
      OBVIOUS
    <3> QED BY <3>1, Zenon
  <2>8. 2 * (p + q) <= 2 * (y + b) + (r + unit)
    <3>1. 2 * q <= 2 * b + r
      BY <2>1, <2>7
    <3>2. 2 * p <= 2 * y + unit
      BY <2>5, <2>7
    <3> HIDE DEF A
    <3> QED BY <3>1, <3>2
  <2>9. 2 * (unit * (x + a)) <= 2 * (y + b) + unit * n
    BY <2>6, <2>7, <2>8
  <2>10. x + a \in Int /\ y + b \in Int
    OBVIOUS
  <2> QED BY <2>3, <2>4, <2>9, <2>10
<1> HIDE DEF A
<1>10. m \in A
  <2>1. \A n \in 0..m : n \in A
    BY <1>8, <1>9, StepByStep
  <2> QED BY <2>1
<1>11. PICK a \in Int, b \in Int :
         /\ a = SumFunctionOnSet(w, 1..m) /\ b = SumFunctionOnSet(time, 1..m)
         /\ 2 * (unit * a) <= 2 * b + unit * m
  BY <1>10 DEF A
<1> QED BY <1>1, <1>2, <1>3, <1>5, <1>11

\* The visits of a group take as long in every order.
LEMMA VisitsReordered ==
  ASSUME Measured, NEW group, Spread(group), NEW path, Reorders(path, group)
  PROVE  Visits(path, pois) = Visits(group, pois) /\ Visits(path, pois) \in Int
<1>1. PICK V \in SUBSET Stops : V = ToSet(group) /\ IsFiniteSet(V) /\ Cardinality(V) = Len(group)
  BY SpreadFacts
<1>2. PICK visit : visit = [i \in V |-> pois[i].visit]
  OBVIOUS
<1>3. \A i \in V : visit[i] \in Int
  <2>1. ASSUME NEW i \in V PROVE visit[i] \in Int
    <3>1. PICK poi \in Sights : poi = pois[i]
      BY StopsFacts
    <3>2. poi.visit \in Nat
      BY SightNumbers
    <3> QED BY <1>2, <3>1, <3>2
  <2> QED BY <2>1
<1>4. ASSUME NEW list, Inside(list, group), Len(list) = Len(group)
      PROVE  Visits(list, pois) = SumFunctionOnSet(visit, V)
  <2>1. PICK k \in Nat : /\ k = Len(list) /\ DOMAIN list = 1..k /\ list \in Seq(Stops)
                         /\ \A a, b \in 1..k : list[a] = list[b] => a = b
    BY <1>4, SpreadFacts DEF Inside, Spread
  <2>2. PICK S : S = 1..k
    OBVIOUS
  <2>3. IsFiniteSet(S) /\ Cardinality(S) = Cardinality(V)
    BY <1>1, <1>4, <2>1, <2>2, UpToSize
  <2>4. list \in [S -> V]
    BY <1>1, <1>4, <2>1, <2>2 DEF Inside, ToSet
  <2>5. \A a, b \in S : list[a] = list[b] => a = b
    BY <2>1, <2>2
  <2>6. \A i \in V : \E a \in S : list[a] = i
    BY <1>1, <2>3, <2>4, <2>5, OneToOneIsOnto
  <2>7. PICK e : e = [a \in S |-> pois[list[a]].visit]
    OBVIOUS
  <2>8. \A a \in S : e[a] = visit[list[a]]
    BY <1>2, <2>4, <2>7
  <2>9. SumFunctionOnSet(e, S) = SumFunctionOnSet(visit, V)
    BY <1>1, <1>3, <2>3, <2>4, <2>5, <2>6, <2>8, SumsReindex
  <2>10. Visits(list, pois) = SumFunctionOnSet(e, S)
    <3>1. DOMAIN e = S
      BY <2>7
    <3> QED BY <2>1, <2>2, <2>7, <3>1 DEF Visits, SumFunction
  <2> QED BY <2>9, <2>10
<1>5. Inside(group, group)
  BY DEF Inside
<1>6. SumFunctionOnSet(visit, V) \in Int
  BY <1>1, <1>3, SumFacts
<1> QED BY <1>4, <1>5, <1>6 DEF Reorders

-----------------------------------------------------------------------------
(* Days in a shortest order *)

\* The order of the day that has the group.
LEMMA DayOrderFacts ==
  ASSUME Measured, NEW group, Spread(group), NEW order, order = DayOrder(group, pois, travel)
  PROVE  /\ Reorders(order, group)
         /\ \A n \in 1..(Len(order) - 1) : pois[order[n]].night => pois[order[n + 1]].night
         /\ (\A i \in ToSet(group) : ~pois[i].night) => order = ShortestOpenPath(group, travel)
<1>1. PICK path : path = ShortestOpenPath(group, travel)
  OBVIOUS
<1>2. PICK k \in Nat : k = Len(group)
  BY SpreadFacts
<1>3. Reorders(path, group)
  BY <1>1, <1>2, OpenPathFacts
<1>4. Spread(path) /\ ToSet(path) \subseteq ToSet(group) /\ Len(path) = k
  BY <1>2, <1>3 DEF Reorders, Inside
<1>5. order = NightsLast(path, pois)
  BY <1>1 DEF DayOrder
<1>6. /\ Reorders(order, path)
      /\ \A n \in 1..(Len(path) - 1) : pois[order[n]].night => pois[order[n + 1]].night
      /\ (\A i \in ToSet(path) : ~pois[i].night) => order = path
  BY <1>4, <1>5, NightsLastFacts
<1>7. Reorders(order, group)
  BY <1>2, <1>4, <1>6 DEF Reorders, Inside
<1>8. Len(order) = Len(path)
  BY <1>6 DEF Reorders
<1> QED BY <1>1, <1>4, <1>6, <1>7, <1>8

\* A reordered group has the same stops.
LEMMA SameStops ==
  ASSUME Measured, NEW group, Spread(group), NEW path, Reorders(path, group)
  PROVE  ToSet(path) = ToSet(group) /\ Len(path) = Len(group)
<1>1. PICK V : V = ToSet(group)
  OBVIOUS
<1>2. PICK T : T = ToSet(path)
  OBVIOUS
<1>3. IsFiniteSet(V) /\ Cardinality(V) = Len(group)
  BY <1>1, SpreadFacts
<1>4. IsFiniteSet(T) /\ Cardinality(T) = Len(path)
  BY <1>2, SpreadFacts DEF Reorders, Inside
<1>5. T \in SUBSET V /\ Len(path) = Len(group)
  BY <1>1, <1>2 DEF Reorders, Inside
<1>6. T = V
  BY <1>3, <1>4, <1>5, FS_Subset
<1> QED BY <1>1, <1>2, <1>5, <1>6

\* The groups of a finished call, their days and their orders.
LEMMA DoneDays ==
  ASSUME PlannerInv, phase = "done", NEW d \in DOMAIN plan
  PROVE  /\ Measured /\ plan[d].group \in DOMAIN groups
         /\ Spread(groups[plan[d].group])
         /\ plan[d].order = DayOrder(groups[plan[d].group], pois, travel)
         /\ plan[d].end = DayEnd(plan[d].order, pois, travel)
<1>1. Chosen /\ Measured /\ Grouped /\ Priced /\ Planned
  BY DoneFacts
<1>2. PICK k \in Nat : k = ask.trip /\ k >= 1
  BY <1>1, AskFields DEF Chosen
<1>3. /\ DOMAIN plan = 1..k /\ DOMAIN groups = 1..k
      /\ \A x \in 1..k : plan[x] = DayPlan(x) /\ GroupOn(x) \in 1..k
  BY <1>1, <1>2, DaysChosen
<1>4. PICK g \in 1..k : g = GroupOn(d)
  BY <1>3
<1>5. PICK order : order = DayOrder(groups[g], pois, travel)
  OBVIOUS
<1>6. /\ plan[d].group = g /\ plan[d].order = order
      /\ plan[d].end = DayEnd(order, pois, travel)
  BY <1>3, <1>4, <1>5 DEF DayPlan
<1>7. Spread(groups[g])
  <2>1. groups \in [1..k -> Seq(Stops)] /\ groups[g] # <<>>
    BY <1>1, <1>2 DEF Grouped, GroupsOf
  <2>2. \A m, n \in DOMAIN groups[g] : groups[g][m] = groups[g][n] => m = n
    BY <1>1, <1>2 DEF Grouped, GroupsOf
  <2>3. PICK list \in Seq(Stops) : list = groups[g]
    BY <2>1
  <2>4. DOMAIN list = 1..Len(list)
    OBVIOUS
  <2> QED BY <2>1, <2>2, <2>3, <2>4 DEF Spread
<1> QED BY <1>1, <1>3, <1>5, <1>6, <1>7

\* A positive factor keeps the order of two numbers, both ways.
LEMMA FactorKeepsOrder ==
  ASSUME NEW u \in Nat, u > 0, NEW a \in Int, NEW b \in Int
  PROVE  u * a <= u * b <=> a <= b
<1>1. PICK d \in Int : d = b - a /\ b = a + d
  OBVIOUS
<1>2. u * (a + d) = u * a + u * d
  OBVIOUS
<1>3. d >= 0 => u * d >= 0
  OBVIOUS
<1>4. d < 0 => u * d < 0
  OBVIOUS
<1>5. PICK x \in Int, y \in Int : x = u * a /\ y = u * d
  OBVIOUS
<1>6. u * b = x + y
  BY <1>1, <1>2, <1>5
<1> QED BY <1>1, <1>3, <1>4, <1>5, <1>6

\* What the trimming measured of a group fits into the day.
LEMMA GroupFits ==
  ASSUME PlannerInv, phase = "done", NEW g \in DOMAIN groups, Spread(groups[g])
  PROVE  PerMinute * Visits(groups[g], pois)
           + LegsOf(ShortestOpenPath(groups[g], travel), travel) <= PerMinute * Capacity
<1>1. Measured /\ Priced /\ Usables(pois)
  BY DoneFacts, Phases DEF PlannerInv
<1>2. PICK group : group = groups[g]
  OBVIOUS
<1>3. PICK k \in Nat : k = Len(group) /\ k >= 1 /\ group \in Seq(Stops) /\ DOMAIN group = 1..k
  BY <1>1, <1>2, SpreadFacts
<1>4. PICK path : path = ShortestOpenPath(group, travel)
  OBVIOUS
<1>5. Reorders(path, group)
  BY <1>2, <1>3, <1>4, OpenPathFacts, <1>1
<1>6. PICK v \in Int : v = Visits(group, pois)
  BY <1>1, <1>2, <1>5, VisitsReordered
<1>7. PICK l \in Int : l = LegsOf(path, travel)
  <2>1. path \in [1..Len(path) -> Stops] /\ Len(path) \in Nat /\ Len(path) >= 1
    BY <1>1, <1>5, SpreadFacts DEF Reorders, Inside
  <2>2. Distances(travel, Stops)
    BY <1>1, StopsFacts DEF Distances
  <2>3. LegsOf(path, travel) \in Int
    BY <2>1, <2>2, LegsTyped
  <2> QED BY <2>3
<1>8. PICK most \in Int : most = Capacity
  BY AsksAssumption DEF Capacity
<1>11. PICK unit \in Nat : unit = PerMinute /\ unit > 0
  BY LimitsAssumption
<1>12. unit * v \in Int /\ unit * most \in Int
  OBVIOUS
<1>13. PICK spent \in Int, room \in Int : spent = unit * v /\ room = unit * most
  BY <1>12, Zenon
<1>9. CASE k > 1
  <2>1. ~Overfull(g)
    BY <1>1 DEF Priced, NoOverfull
  <2>2. ~(spent + l > room)
    BY <1>2, <1>3, <1>4, <1>6, <1>7, <1>8, <1>9, <1>11, <1>13, <2>1 DEF Overfull
  <2> QED BY <1>2, <1>4, <1>6, <1>7, <1>8, <1>11, <1>13, <2>2
<1>10. CASE k = 1
  <2>1. l = 0
    BY <1>3, <1>4, <1>10, <1>7, NoLegs DEF ShortestOpenPath
  <2>2. PICK i \in Stops : i = group[1]
    BY <1>3, <1>10
  <2>3. pois[i].visit <= Capacity
    <3>1. DOMAIN pois = Stops
      BY <1>1, StopsFacts
    <3> QED BY <1>1, <2>2, <3>1 DEF Usables
  <2>4. Visits(group, pois) = pois[i].visit
    <3>1. group \in [1..k -> Stops]
      BY <1>3
    <3>2. AreVisits(VisitOf(group, k), group, k)
      BY <1>1, <1>3, <3>1, SpansTyped
    <3>3. PICK f : f = VisitOf(group, k)
      OBVIOUS
    <3>4. (\A n \in 1..k : f[n] \in Nat) /\ f[1] = pois[i].visit /\ DOMAIN f = 1..k
      BY <1>10, <2>2, <3>2, <3>3 DEF AreVisits, VisitOf
    <3>5. 1 \in 1..k
      BY <1>10
    <3>6. /\ SumFunctionOnSet(f, 1..(1 - 1)) \in Int
          /\ SumFunctionOnSet(f, 1..1) = f[1] + SumFunctionOnSet(f, 1..(1 - 1))
          /\ SumFunctionOnSet(f, 1..0) = 0
      BY <1>3, <3>4, <3>5, SumOneMore, ZenonT(60)
    <3>7. f[1] \in Nat
      BY <3>4, <3>5
    <3>8. SumFunctionOnSet(f, 1..1) = f[1]
      BY <3>6, <3>7
    <3>9. Visits(group, pois) = SumFunctionOnSet(f, 1..k)
      BY <1>3, <3>3, <3>4 DEF Visits, VisitOf, SumFunction
    <3> QED BY <1>10, <3>4, <3>8, <3>9
  <2>5. v <= most
    BY <1>2, <1>6, <1>8, <2>3, <2>4
  <2>6. spent <= room
    BY <1>11, <1>13, <2>5, FactorKeepsOrder
  <2> QED BY <1>2, <1>4, <1>6, <1>7, <1>8, <1>11, <1>13, <2>1, <2>6
<1> QED BY <1>3, <1>9, <1>10

\* A day without night views ends within the time budget but for half a minute a leg,
\* whatever the travel times and the visits are: the route is the one the trimming measured
\* in fractions of minutes, the hour kept for lunch is spent once, and rounding a leg adds at
\* most half a minute to it.
THEOREM DaysFit == Spec => []DayFits
<1>1. PlannerInv => DayFits
  <2> SUFFICES ASSUME PlannerInv, phase = "done", NEW d \in DOMAIN plan,
                      \A i \in ToSet(plan[d].order) : ~pois[i].night
               PROVE  2 * (plan[d].end - (540 + DailyMinutes)) <= Len(plan[d].order) - 1
    BY DEF DayFits
  <2>1. /\ Measured /\ plan[d].group \in DOMAIN groups
        /\ Spread(groups[plan[d].group])
        /\ plan[d].order = DayOrder(groups[plan[d].group], pois, travel)
        /\ plan[d].end = DayEnd(plan[d].order, pois, travel)
    BY DoneDays
  <2>2. PICK group : group = groups[plan[d].group]
    OBVIOUS
  <2>3. PICK order : order = plan[d].order
    OBVIOUS
  <2>4. Reorders(order, group)
    BY <2>1, <2>2, <2>3, DayOrderFacts
  <2>5. order = ShortestOpenPath(group, travel)
    BY <2>1, <2>2, <2>4, SameStops, <2>3, DayOrderFacts
  <2>6. PICK k \in Nat : k = Len(order) /\ k >= 1 /\ order \in [1..k -> Stops] /\ DOMAIN order = 1..k
    BY <2>1, <2>4, SpreadFacts DEF Reorders, Inside
  <2>7. DayEnd(order, pois, travel) = 600 + Spent(order, k, k)
    BY <2>1, <2>6, DayEndIs
  <2>8. PICK v \in Int : v = Visits(order, pois) /\ v = Visits(group, pois)
    BY <2>1, <2>2, <2>4, VisitsReordered
  <2>9. PICK l \in Int : l = LegsOf(order, travel)
    <3>1. Distances(travel, Stops)
      BY <2>1, StopsFacts DEF Distances
    <3> QED BY <2>6, <3>1, LegsTyped
  <2>10. PICK s \in Int : s = Spent(order, k, k)
    <3>1. k \in 0..k
      BY <2>6
    <3> QED BY <2>1, <2>6, <3>1, SpentTyped
  <2>11. PICK rounded : rounded = SumFunctionOnSet(LegOf(order, k), 1..(k - 1))
    OBVIOUS
  <2>12. rounded \in Int
    <3>1. PICK w : w = LegOf(order, k)
      OBVIOUS
    <3>2. IsFiniteSet(1..(k - 1)) /\ \A i \in 1..(k - 1) : w[i] \in Int
      <4>1. k - 1 \in Nat
        BY <2>6
      <4>2. \A i \in 1..(k - 1) : w[i] \in Int
        BY <2>1, <2>6, <3>1, SpansTyped DEF AreLegs
      <4> QED BY <4>1, <4>2, UpToSize
    <3>3. PICK N : N = 1..(k - 1)
      OBVIOUS
    <3>4. SumFunctionOnSet(w, N) \in Int
      BY <3>2, <3>3, SumFacts
    <3> QED BY <2>11, <3>1, <3>3, <3>4
  <2>13. s = v + rounded
    BY <2>6, <2>8, <2>10, <2>11, SpentInAll
  <2>14. PICK unit \in Nat : unit = PerMinute /\ unit > 0
    BY LimitsAssumption
  <2>15. PICK room \in Int : room = Capacity /\ room = DailyMinutes - 60
    BY AsksAssumption DEF Capacity
  <2>16. unit * v + l <= unit * room
    BY <2>1, <2>2, <2>5, <2>8, <2>9, <2>14, <2>15, GroupFits
  <2>17. 2 * (unit * rounded) <= 2 * l + unit * (k - 1)
    BY <2>1, <2>6, <2>9, <2>11, <2>14, RoundedLegs
  <2>18. unit * (2 * (v + rounded - room)) <= unit * (k - 1)
    <3>1. unit * (2 * (v + rounded - room)) = 2 * (unit * v) + 2 * (unit * rounded) - 2 * (unit * room)
      BY <2>12
    <3>2. unit * v \in Int /\ unit * rounded \in Int /\ unit * room \in Int /\ unit * (k - 1) \in Int
      BY <2>12
    <3>3. PICK a \in Int, b \in Int, c \in Int, e \in Int :
            a = unit * v /\ b = unit * rounded /\ c = unit * room /\ e = unit * (k - 1)
      BY <3>2, Zenon
    <3>4. a + l <= c /\ 2 * b <= 2 * l + e
      BY <2>16, <2>17, <3>3
    <3>5. 2 * a + 2 * b - 2 * c <= e
      BY <3>4
    <3> QED BY <3>1, <3>3, <3>5
  <2>19. 2 * (v + rounded - room) <= k - 1
    <3>1. PICK over \in Int, legs \in Int : over = 2 * (v + rounded - room) /\ legs = k - 1
      BY <2>12
    <3> QED BY <2>14, <2>18, <3>1, FactorKeepsOrder
  <2>20. plan[d].end = 600 + s
    BY <2>1, <2>3, <2>7, <2>10
  <2> QED BY <2>3, <2>6, <2>12, <2>13, <2>15, <2>19, <2>20, AsksAssumption
<1> QED BY <1>1, PlannerInvariant, PTL

\* An order of a group follows a permutation of its positions.
LEMMA OrdersAre ==
  ASSUME NEW D, NEW group \in Seq(D), NEW k \in Nat, Len(group) = k, NEW other \in Orders(group)
  PROVE  \E q : Assigns(q, k) /\ other = Along(group, q, k)
<1>1. PICK S : S = 1..k
  OBVIOUS
<1>2. DOMAIN group = S /\ Cardinality(S) = k
  BY <1>1, UpToSize
<1>3. PICK q \in SetToSeqs(S) : other = [n \in S |-> group[q[n]]]
  BY <1>2 DEF Orders
<1>4. q \in {f \in [1..k -> S] : \A i, j \in 1..k : i # j => f[i] # f[j]}
  BY <1>2, <1>3 DEF SetToSeqs
<1>5. q \in [1..k -> 1..k] /\ \A g, h \in 1..k : q[g] = q[h] => g = h
  BY <1>1, <1>4
<1>6. Assigns(q, k)
  BY <1>5, OneToOneOnto
<1>7. other = Along(group, q, k)
  BY <1>1, <1>3 DEF Along
<1> QED BY <1>6, <1>7

\* Every day visits the stops of its group, night views last, and as far as the exact
\* search goes no order of them is shorter, whatever the travel times are.
THEOREM DaysAreShortest == Spec => []ShortestDay
<1>1. PlannerInv => ShortestDay
  <2> SUFFICES ASSUME PlannerInv, phase = "done", NEW d \in DOMAIN plan
               PROVE  LET group == groups[plan[d].group]
                          order == plan[d].order
                          nights == {i \in ToSet(group) : pois[i].night}
                      IN  /\ ToSet(order) = ToSet(group) /\ Len(order) = Len(group)
                          /\ \A n \in 1..(Len(order) - 1) : order[n] \in nights => order[n + 1] \in nights
                          /\ nights = {} /\ Len(group) <= ExactLimit =>
                               \A other \in Orders(group) : LegsOf(order, travel) <= LegsOf(other, travel)
    BY DEF ShortestDay
  <2> DEFINE group == groups[plan[d].group]
             order == plan[d].order
             nights == {i \in ToSet(group) : pois[i].night}
  <2>1. Measured /\ Spread(group) /\ order = DayOrder(group, pois, travel)
    BY DoneDays
  <2>2. /\ Reorders(order, group)
        /\ \A n \in 1..(Len(order) - 1) : pois[order[n]].night => pois[order[n + 1]].night
        /\ (\A i \in ToSet(group) : ~pois[i].night) => order = ShortestOpenPath(group, travel)
    BY <2>1, DayOrderFacts
  <2>3. ToSet(order) = ToSet(group) /\ Len(order) = Len(group)
    BY <2>1, <2>2, SameStops
  <2>4. PICK k \in Nat : k = Len(group) /\ group \in Seq(Stops)
    BY <2>1, SpreadFacts
  <2>5. ASSUME NEW n \in 1..(Len(order) - 1), order[n] \in nights PROVE order[n + 1] \in nights
    <3>1. DOMAIN order = 1..k /\ n + 1 \in 1..k
      <4>1. DOMAIN order = 1..Len(order)
        BY <2>1, <2>2, SpreadFacts DEF Reorders, Inside
      <4> QED BY <2>3, <2>4, <4>1
    <3>2. order[n + 1] \in ToSet(group)
      BY <2>3, <3>1 DEF ToSet
    <3>3. pois[order[n]].night
      BY <2>5
    <3>4. pois[order[n + 1]].night
      BY <2>2, <3>3
    <3> QED BY <3>2, <3>4
  <2>6. ASSUME nights = {}, Len(group) <= ExactLimit, NEW other \in Orders(group)
        PROVE  LegsOf(order, travel) <= LegsOf(other, travel)
    <3>1. order = ShortestOpenPath(group, travel)
      BY <2>2, <2>6
    <3>2. AllOrders(group, order, k)
      BY <2>1, <2>4, <2>6, <3>1, OpenPathFacts
    <3>3. PICK q : Assigns(q, k) /\ other = Along(group, q, k)
      BY <2>4, <2>6, OrdersAre
    <3> QED BY <3>2, <3>3 DEF AllOrders
  <2> QED BY <2>3, <2>5, <2>6
<1> QED BY <1>1, PlannerInvariant, PTL

-----------------------------------------------------------------------------
(* Every call returns *)

\* What Remaining counts within a phase.
RoundsLeft == MaxIterations - search.rounds

GroupSizes == [g \in DOMAIN groups |-> Len(groups[g])]

ColumnsToUse ==
  LET size == ask.trip + 2 IN (size - match.row) * size - Cardinality(match.used)

RemainingParts ==
  /\ Remaining[1] = PhasesLeft[phase]
  /\ phase = "clustering" => Remaining[2] = RoundsLeft
  /\ phase = "trimming" => Remaining[2] = SumFunction(GroupSizes)
  /\ phase = "matching" => Remaining[2] = ColumnsToUse
  /\ phase \notin {"clustering", "trimming", "matching"} => Remaining[2] = 0
  /\ Remaining = <<Remaining[1], Remaining[2]>>

\* The parts of Remaining, in this state and the next.
LEMMA RemainingIs == RemainingParts /\ RemainingParts'
  BY DEF RemainingParts, Remaining, RoundsLeft, GroupSizes, ColumnsToUse

\* The sizes of the groups are positive numbers, and their sum is a number.
LEMMA SizesTyped ==
  ASSUME NEW k \in Nat, NEW left, NEW gs, GroupsOf(gs, left, Stops, k)
  PROVE  LET sizes == [g \in DOMAIN gs |-> Len(gs[g])] IN
         /\ DOMAIN gs = 1..k /\ \A g \in 1..k : sizes[g] \in Nat /\ sizes[g] = Len(gs[g])
         /\ SumFunction(sizes) \in Nat /\ SumFunction(sizes) = SumFunctionOnSet(sizes, 1..k)
<1>1. PICK S : S = 1..k
  OBVIOUS
<1>2. PICK sizes : sizes = [g \in DOMAIN gs |-> Len(gs[g])]
  OBVIOUS
<1>3. gs \in [S -> Seq(Stops)] /\ IsFiniteSet(S)
  BY <1>1, UpToSize DEF GroupsOf
<1>4. DOMAIN sizes = S /\ \A g \in S : sizes[g] \in Nat /\ sizes[g] = Len(gs[g])
  BY <1>2, <1>3
<1>5. SumFunctionOnSet(sizes, S) \in Int /\ SumFunctionOnSet(sizes, S) >= 0
  BY <1>4, <1>3, SumOfNone
<1>6. SumFunction(sizes) = SumFunctionOnSet(sizes, S)
  BY <1>4 DEF SumFunction
<1> QED BY <1>1, <1>2, <1>3, <1>4, <1>5, <1>6

\* A sum is lowered by lowering one of its parts.
LEMMA SumLowers ==
  ASSUME NEW S, IsFiniteSet(S), NEW f, NEW e, \A x \in S : f[x] \in Int /\ e[x] \in Int,
         NEW y \in S, f[y] < e[y], \A x \in S \ {y} : f[x] = e[x]
  PROVE  SumFunctionOnSet(f, S) < SumFunctionOnSet(e, S)
<1>1. PICK s \in SUBSET S : s = S \ {y}
  OBVIOUS
<1>2. S = s \cup {y} /\ y \in S \ s /\ IsFiniteSet(s)
  BY <1>1, FS_Subset
<1>3. SumFunctionOnSet(f, s) \in Int /\ SumFunctionOnSet(f, s \cup {y}) = f[y] + SumFunctionOnSet(f, s)
  BY <1>2, SumFacts
<1>4. SumFunctionOnSet(e, s \cup {y}) = e[y] + SumFunctionOnSet(e, s)
  BY <1>2, SumFacts
<1>5. SumFunctionOnSet(f, s) = SumFunctionOnSet(e, s)
  BY <1>1, <1>2, SumsAgree
<1>6. PICK a \in Int, b \in Int, c \in Int :
        a = f[y] /\ b = e[y] /\ a < b /\ c = SumFunctionOnSet(f, s)
  BY <1>3
<1> QED BY <1>2, <1>3, <1>4, <1>5, <1>6

\* A trim leaves fewer attractions in the groups.
LEMMA TrimLowers ==
  ASSUME PlannerInv, Trim
  PROVE  SumFunction(GroupSizes') < SumFunction(GroupSizes)
<1>1. UNCHANGED <<ask, pois, travel>> /\ Chosen /\ Grouped /\ Grouped'
  BY ChosenKnown, TrimStep, Phases DEF PlannerInv, Trim
<1>2. PICK k \in Nat : k = ask.trip
  BY <1>1, AskFields DEF Chosen
<1>3. PICK g, least, kept : Trimmed(g, least, kept)
  BY TrimParts
<1>4. PICK gs : gs = groups'
  OBVIOUS
<1>5. GroupsOf(groups, dropped, Stops, k) /\ GroupsOf(gs, dropped', Stops, k)
  <2>1. Stops' = Stops
    BY <1>1 DEF Stops
  <2> QED BY <1>1, <1>2, <1>4, <2>1 DEF Grouped, GroupsOf
<1>6. PICK old : old = GroupSizes
  OBVIOUS
<1>7. PICK new : new = GroupSizes'
  OBVIOUS
<1>8. /\ DOMAIN groups = 1..k /\ \A h \in 1..k : old[h] \in Nat /\ old[h] = Len(groups[h])
      /\ SumFunction(old) = SumFunctionOnSet(old, 1..k)
  BY <1>5, <1>6, SizesTyped DEF GroupSizes
<1>9. /\ \A h \in 1..k : new[h] \in Nat /\ new[h] = Len(gs[h])
      /\ SumFunction(new) = SumFunctionOnSet(new, 1..k)
  BY <1>4, <1>5, <1>7, SizesTyped DEF GroupSizes
<1>10. g \in 1..k /\ gs = [groups EXCEPT ![g] = PartOf(groups[g], kept)]
  BY <1>3, <1>4, <1>8 DEF Trimmed
<1>11. \A h \in (1..k) \ {g} : new[h] = old[h]
  BY <1>8, <1>9, <1>10
<1>12. new[g] < old[g]
  <2>1. PICK list \in Seq(Stops) : list = groups[g] /\ least \in ToSet(list)
    BY <1>3, <1>5, <1>10 DEF GroupsOf, Trimmed
  <2>2. PICK n \in Nat : n = Len(list) /\ DOMAIN list = 1..n
    BY <2>1
  <2>3. kept \in SUBSET (1..n) /\ kept # 1..n
    <3>1. PICK m \in 1..n : list[m] = least
      BY <2>1, <2>2 DEF ToSet
    <3> QED BY <1>3, <2>1, <2>2, <3>1 DEF Trimmed
  <2>4. Cardinality(kept) < n /\ Cardinality(kept) \in Nat
    <3>1. PICK S : S = 1..n
      OBVIOUS
    <3>2. IsFiniteSet(S) /\ Cardinality(S) = n
      BY <3>1, UpToSize
    <3>3. IsFiniteSet(kept) /\ Cardinality(kept) <= Cardinality(S)
          /\ (Cardinality(kept) = Cardinality(S) => kept = S)
      BY <2>3, <3>1, <3>2, FS_Subset
    <3>4. Cardinality(kept) \in Nat
      BY <3>3, FS_CardinalityType
    <3> QED BY <2>3, <3>1, <3>2, <3>3, <3>4
  <2>5. Len(PartOf(list, kept)) = Cardinality(kept)
    BY <2>1, <2>2, <2>3, PartPositions
  <2> QED BY <1>5, <1>8, <1>9, <1>10, <2>1, <2>2, <2>4, <2>5 DEF GroupsOf
<1>13. SumFunctionOnSet(new, 1..k) < SumFunctionOnSet(old, 1..k)
  <2>1. PICK S : S = 1..k
    OBVIOUS
  <2>2. IsFiniteSet(S) /\ g \in S /\ \A h \in S : new[h] \in Int /\ old[h] \in Int
    BY <1>8, <1>9, <1>10, <2>1, UpToSize
  <2>3. \A h \in S \ {g} : new[h] = old[h]
    BY <1>11, <2>1
  <2> QED BY <1>12, <2>1, <2>2, <2>3, SumLowers
<1> QED BY <1>6, <1>7, <1>8, <1>9, <1>13

\* While rows are placed, some row or column is left; and both are numbers.
LEMMA ColumnsCounted ==
  ASSUME NEW n \in Nat, NEW cost, NEW m, MatchInv(m, cost, n)
  PROVE  /\ m.row \in Nat /\ m.row <= n + 1 /\ IsFiniteSet(m.used) /\ m.column \notin m.used
         /\ Cardinality(m.used) \in Nat /\ Cardinality(m.used) <= n + 1
<1>1. m \in Registers(n) /\ TreeOfUsed(m, cost, n)
  BY DEF MatchInv
<1>2. m.row \in Nat /\ m.row <= n + 1 /\ m.used \in SUBSET (0..n)
  BY <1>1, RegisterTypes
<1>3. PICK S : S = 0..n
  OBVIOUS
<1>4. IsFiniteSet(S) /\ Cardinality(S) = n + 1
  BY FS_Interval, <1>3
<1>5. IsFiniteSet(m.used) /\ Cardinality(m.used) <= n + 1
  BY <1>2, <1>3, <1>4, FS_Subset
<1>6. Cardinality(m.used) \in Nat
  BY <1>5, FS_CardinalityType
<1>7. m.column \notin m.used
  BY <1>1 DEF TreeOfUsed
<1> QED BY <1>2, <1>5, <1>6, <1>7

\* A pass uses one more column; placing a row starts again with one row less.
LEMMA MatchingLowers ==
  ASSUME PlannerInv, Scan \/ Augment
  PROVE  ColumnsToUse' < ColumnsToUse
<1>1. phase = "matching" /\ ask' = ask
  BY DEF Scan, Augment
<1>2. Chosen /\ Priced
  BY <1>1, ChosenKnown, Phases DEF PlannerInv
<1>3. PICK k \in Nat : k = ask.trip
  BY <1>2, AskFields DEF Chosen
<1>4. /\ match.row \in Nat /\ match.row <= k + 1 /\ IsFiniteSet(match.used)
      /\ match.column \notin match.used
      /\ Cardinality(match.used) \in Nat /\ Cardinality(match.used) <= k + 1
  BY <1>2, <1>3, ColumnsCounted DEF Priced
<1>5. PICK row \in Nat, used \in Nat, size \in Nat :
        row = match.row /\ used = Cardinality(match.used) /\ size = k + 2 /\ used < size
  BY <1>4
<1>6. ColumnsToUse = (size - row) * size - used
  BY <1>3, <1>5 DEF ColumnsToUse
<1>7. CASE Scan
  <2>1. match'.row = row /\ match'.used = match.used \cup {match.column}
    BY <1>5, <1>7 DEF Scan, Scanned, Used
  <2>2. Cardinality(match'.used) = used + 1
    BY <1>4, <1>5, <2>1, FS_AddElement, ZenonT(60)
  <2>3. ColumnsToUse' = (size - row) * size - (used + 1)
    BY <1>1, <1>3, <1>5, <2>1, <2>2 DEF ColumnsToUse
  <2>4. PICK area \in Int : area = (size - row) * size
    BY <1>5
  <2> QED BY <1>5, <1>6, <2>3, <2>4
<1>8. CASE Augment
  <2>1. match'.row = row + 1 /\ match'.used = {}
    BY <1>5, <1>8 DEF Augment, Augmented, Placing, NextRow
  <2>2. Cardinality(match'.used) = 0
    BY <2>1, FS_EmptySet
  <2>3. ColumnsToUse' = (size - (row + 1)) * size - 0
    BY <1>1, <1>3, <1>5, <2>1, <2>2 DEF ColumnsToUse
  <2>4. (size - (row + 1)) * size = (size - row) * size - size
    BY <1>5
  <2>5. PICK area \in Int : area = (size - row) * size
    BY <1>5
  <2> QED BY <1>5, <1>6, <2>3, <2>4, <2>5
<1> QED BY <1>7, <1>8

\* Whatever the loops do, every step brings the call closer to its return.
THEOREM EveryStepIsCloser == Spec => AlwaysCloser
<1>1. ASSUME PlannerInv, [Next]_vars PROVE [Before(Remaining', Remaining)]_vars
  <2>1. RemainingParts /\ RemainingParts'
    BY RemainingIs
  <2>2. CASE UNCHANGED vars \/ Returned
    BY <2>2 DEF Returned
  <2>3. ASSUME PhasesLeft[phase'] < PhasesLeft[phase] PROVE Before(Remaining', Remaining)
    BY <2>1, <2>3 DEF RemainingParts, Before
  <2>4. CASE \/ WeatherUnavailable \/ ForecastOutOfRange \/ NoCompleteWindow \/ SourcesFail \/ TooFew
             \/ MatrixFails \/ GeocodeFails
    <3>1. phase \in {"asked", "dated", "collected", "ranked", "selected"} /\ phase' = "failed"
      BY <2>4 DEF WeatherUnavailable, ForecastOutOfRange, NoCompleteWindow, SourcesFail, TooFew,
                  MatrixFails, GeocodeFails, Failed
    <3> QED BY <2>3, <3>1 DEF PhasesLeft
  <2>5. CASE Recommend \/ Search \/ Collect \/ Geocode
    <3>1. \/ phase = "asked" /\ phase' = "dated"
          \/ phase = "dated" /\ phase' = "searched"
          \/ phase = "searched" /\ phase' \in {"failed", "collected"}
          \/ phase = "collected" /\ phase' = "located"
      BY <2>5 DEF Recommend, Search, Collect, NothingListed, Failed, Geocode
    <3> QED BY <2>3, <3>1 DEF PhasesLeft
  <2>6. CASE Rank \/ Select \/ Measure \/ Seed
    <3>1. \/ phase = "located" /\ phase' = "ranked"
          \/ phase = "ranked" /\ phase' \in {"failed", "selected"}
          \/ phase = "selected" /\ phase' = "measured"
          \/ phase = "measured" /\ phase' = "clustering"
      BY <2>6 DEF Rank, Select, Failed, Measure, Seed
    <3> QED BY <2>3, <3>1 DEF PhasesLeft
  <2>7. CASE Weigh \/ Build
    BY <2>7, <2>3 DEF Weigh, Build, PhasesLeft
  <2>8. CASE Refine
    <3>1. phase = "clustering" /\ \/ phase' = "trimming"
                                  \/ phase' = phase /\ search'.rounds = search.rounds + 1
      BY <2>8 DEF Refine
    <3>2. CASE phase' = "trimming"
      BY <2>3, <3>1, <3>2 DEF PhasesLeft
    <3>3. CASE phase' = phase /\ search'.rounds = search.rounds + 1
      <4>1. PICK rounds \in Int : rounds = search.rounds
        BY <1>1, <3>1 DEF PlannerInv, SearchInv
      <4>2. Remaining'[2] = MaxIterations - (rounds + 1) /\ Remaining[2] = MaxIterations - rounds
        BY <2>1, <3>1, <3>3, <4>1 DEF RemainingParts, RoundsLeft
      <4>3. Remaining'[1] = Remaining[1] /\ Remaining'[2] < Remaining[2]
        BY <2>1, <3>3, <4>1, <4>2, LimitsAssumption DEF RemainingParts
      <4> QED BY <4>3 DEF Before
    <3> QED BY <3>1, <3>2, <3>3
  <2>9. CASE Trim
    <3>1. phase = "trimming" /\ phase' = phase
      BY <2>9 DEF Trim
    <3>2. Remaining'[1] = Remaining[1] /\ Remaining'[2] < Remaining[2]
      BY <1>1, <2>9, TrimLowers, <2>1, <3>1 DEF RemainingParts
    <3> QED BY <3>2 DEF Before
  <2>10. CASE Scan \/ Augment
    <3>1. phase = "matching" /\ phase' = phase
      BY <2>10 DEF Scan, Augment
    <3>2. Remaining'[1] = Remaining[1] /\ Remaining'[2] < Remaining[2]
      BY <1>1, <2>10, MatchingLowers, <2>1, <3>1 DEF RemainingParts
    <3> QED BY <3>2 DEF Before
  <2> QED BY <1>1, <2>2, <2>4, <2>5, <2>6, <2>7, <2>8, <2>9, <2>10 DEF Next
<1> QED BY <1>1, PlannerInvariant, PTL DEF Spec, AlwaysCloser

\* The call is never behind the end of its measure: so EveryStepIsCloser means that
\* it returns, after finitely many steps.
THEOREM FinitelyManySteps == Spec => [](Remaining \in Nat \X Nat)
<1>1. Init => phase \in DOMAIN PhasesLeft
  BY DEF Init, PhasesLeft
<1>2. phase \in DOMAIN PhasesLeft /\ [Next]_vars => (phase \in DOMAIN PhasesLeft)'
  <2>1. ASSUME phase \in DOMAIN PhasesLeft, UNCHANGED vars PROVE phase' \in DOMAIN PhasesLeft
    BY <2>1 DEF vars
  <2>2. ASSUME phase \in DOMAIN PhasesLeft, Next
        PROVE  phase' = phase \/ phase' \in {"failed", "dated", "searched", "collected", "located",
                 "ranked", "selected", "measured", "clustering", "trimming", "matching", "done"}
    BY <2>2 DEF Next, WeatherUnavailable, ForecastOutOfRange, NoCompleteWindow, Recommend, SourcesFail,
                Search, Collect, NothingListed, Geocode, GeocodeFails, Rank, TooFew, Select, Measure, MatrixFails,
                Seed, Refine, Trim, Weigh, Scan, Augment, Build, Returned, Failed, vars
  <2> QED BY <2>1, <2>2 DEF PhasesLeft
<1>3. ASSUME PlannerInv, phase \in DOMAIN PhasesLeft PROVE Remaining \in Nat \X Nat
  <2>1. RemainingParts
    BY RemainingIs
  <2>2. Remaining[1] \in Nat
    BY <1>3, <2>1 DEF RemainingParts, PhasesLeft
  <2>3. Remaining[2] \in Nat
    <3>1. CASE phase = "clustering"
      <4>1. PICK rounds \in Int : rounds = search.rounds /\ rounds \in 0..(MaxIterations - 1)
        BY <1>3, <3>1 DEF PlannerInv, SearchInv
      <4>2. MaxIterations - rounds \in Nat
        BY <4>1, LimitsAssumption
      <4> QED BY <2>1, <3>1, <4>1, <4>2 DEF RemainingParts, RoundsLeft
    <3>2. CASE phase = "trimming"
      <4>1. Chosen /\ Grouped
        BY <1>3, <3>2, ChosenKnown, Phases DEF PlannerInv
      <4>2. PICK k \in Nat : k = ask.trip
        BY <4>1, AskFields DEF Chosen
      <4>3. SumFunction(GroupSizes) \in Nat
        BY <4>1, <4>2, SizesTyped DEF Grouped, GroupSizes
      <4> QED BY <2>1, <3>2, <4>3 DEF RemainingParts
    <3>3. CASE phase = "matching"
      <4>1. Chosen /\ Priced
        BY <1>3, <3>3, ChosenKnown, Phases DEF PlannerInv
      <4>2. PICK k \in Nat : k = ask.trip
        BY <4>1, AskFields DEF Chosen
      <4>3. PICK row \in Nat, used \in Nat : row = match.row /\ used = Cardinality(match.used)
                                            /\ row <= k + 1 /\ used <= k + 1
        BY <4>1, <4>2, ColumnsCounted DEF Priced
      <4>4. PICK left \in Nat : left = k + 2 - row /\ left >= 1
        BY <4>2, <4>3
      <4>5. left * (k + 2) >= k + 2 /\ left * (k + 2) \in Int
        BY <4>2, <4>4
      <4>6. left * (k + 2) - used \in Nat
        BY <4>2, <4>3, <4>5
      <4> QED BY <2>1, <3>3, <4>2, <4>3, <4>4, <4>6 DEF RemainingParts, ColumnsToUse
    <3>4. CASE phase \notin {"clustering", "trimming", "matching"}
      BY <2>1, <3>4 DEF RemainingParts
    <3> QED BY <3>1, <3>2, <3>3, <3>4
  <2> QED BY <2>1, <2>2, <2>3 DEF RemainingParts
<1> QED BY <1>1, <1>2, <1>3, PlannerInvariant, PTL DEF Spec

-----------------------------------------------------------------------------
(* The recommended window *)

\* The only order of a set by size is the one Ascending gives.
LEMMA AscendingIs ==
  ASSUME NEW n \in Nat, NEW S \in SUBSET Int, NEW f \in [1..n -> S],
         \A i, j \in 1..n : i < j => f[i] < f[j], \A x \in S : \E i \in 1..n : f[i] = x
  PROVE  DOMAIN Ascending(S) = 1..n /\ \A i \in 1..n : Ascending(S)[i] = f[i]
<1>1. IsFiniteSet(S) /\ Cardinality(S) = n
  <2>1. PICK T : T = 1..n
    OBVIOUS
  <2>2. IsFiniteSet(T) /\ Cardinality(T) = n
    BY <2>1, UpToSize
  <2>3. \A i, j \in T : f[i] = f[j] => i = j
    <3>1. ASSUME NEW i \in 1..n, NEW j \in 1..n, f[i] = f[j] PROVE i = j
      <4>1. PICK y \in Int : y = f[i] /\ y = f[j]
        BY <3>1
      <4>2. ~(i < j) /\ ~(j < i)
        <5>1. ~(y < y)
          BY <4>1
        <5> QED BY <4>1, <5>1
      <4> QED BY <4>2
    <3> QED BY <2>1, <3>1
  <2>4. f \in Bijection(T, S)
    BY <2>1, <2>3 DEF Bijection, Injection, Surjection, IsInjective
  <2>5. ExistsBijection(T, S)
    BY <2>4 DEF ExistsBijection
  <2> QED BY <2>2, <2>5, FS_Bijection
<1>2. PICK a \in [1..n -> S] :
        /\ a = Ascending(S) /\ \A i, j \in 1..n : i < j => a[i] < a[j]
        /\ \A x \in S : \E i \in 1..n : a[i] = x
  BY <1>1, AscendingFacts
<1> DEFINE Wrong == {i \in 1..n : a[i] # f[i]}
<1>3. SUFFICES ASSUME Wrong # {} PROVE FALSE
  BY <1>2
<1>4. PICK i \in Wrong : \A j \in Wrong : i <= j
  <2>1. Wrong \in SUBSET Nat
    OBVIOUS
  <2> QED BY <1>3, <2>1, LeastNumber
<1>5. i \in 1..n /\ a[i] # f[i] /\ a[i] \in Int /\ f[i] \in Int
  OBVIOUS
<1>6. \A j \in 1..n : j < i => a[j] = f[j]
  BY <1>4
<1> HIDE DEF Wrong
<1>7. CASE a[i] < f[i]
  <2>1. PICK j \in 1..n : f[j] = a[i]
    BY <1>5
  <2>2. ~(i < j) /\ i # j
    BY <1>5, <1>7, <2>1
  <2>3. j < i
    BY <1>5, <2>2
  <2>4. a[j] = a[i] /\ a[j] < a[i]
    BY <1>2, <1>5, <1>6, <2>1, <2>3
  <2> QED BY <1>5, <2>4
<1>8. CASE f[i] < a[i]
  <2>1. PICK j \in 1..n : a[j] = f[i]
    BY <1>2, <1>5
  <2>2. ~(i < j) /\ i # j
    BY <1>2, <1>5, <1>8, <2>1
  <2>3. j < i
    BY <1>5, <2>2
  <2>4. f[j] = f[i] /\ f[j] < f[i]
    BY <1>5, <1>6, <2>1, <2>3
  <2> QED BY <1>5, <2>4
<1> QED BY <1>5, <1>7, <1>8

\* The position in the forecast of each complete row.
RowsAt(fc, dates, at, rows, size) ==
  /\ at \in [1..size -> DOMAIN fc]
  /\ rows \in Seq(DayRows) /\ Len(rows) = size /\ size \in Nat
  /\ \A m \in 1..size : rows[m] = fc[at[m]]
  /\ \A l, m \in 1..size : l < m => at[l] < at[m] /\ rows[l].date < rows[m].date
  /\ \A i \in DOMAIN fc : fc[i].weather # Missing /\ (dates = {} \/ fc[i].date \in dates) =>
       \E m \in 1..size : at[m] = i
  /\ \A m \in 1..size : fc[at[m]].weather # Missing /\ (dates = {} \/ fc[at[m]].date \in dates)

Sequel(fc) ==
  /\ fc # <<>> /\ \A i \in DOMAIN fc : fc[i].date \in Nat
  /\ \A i, j \in DOMAIN fc : i < j => fc[i].date < fc[j].date
  /\ \A i, j \in DOMAIN fc : fc[i].date < fc[j].date => i < j
  /\ \A i, j \in DOMAIN fc : fc[i].date = fc[j].date => i = j
  /\ Len(fc) \in Nat /\ DOMAIN fc = 1..Len(fc)

\* The dates of a forecast ascend.
LEMMA ForecastDates ==
  ASSUME NEW fc \in Forecasts
  PROVE  Sequel(fc)
<1> DEFINE Row == [date: Nat, weather: Weathers \cup {Missing}]
<1>1. /\ fc \in Seq(Row) /\ fc # <<>>
      /\ \A i, j \in DOMAIN fc : i < j => fc[i].date < fc[j].date
  BY ForecastsAssumption
<1>2. Len(fc) \in Nat /\ DOMAIN fc = 1..Len(fc)
  BY <1>1
<1>3. \A i \in DOMAIN fc : fc[i].date \in Nat
  <2>1. \A i \in DOMAIN fc : fc[i] \in Row
    <3> HIDE DEF Row
    <3> QED BY <1>1
  <2> QED BY <2>1
<1>4. ASSUME NEW i \in DOMAIN fc, NEW j \in DOMAIN fc
      PROVE  (fc[i].date < fc[j].date => i < j) /\ (fc[i].date = fc[j].date => i = j)
  BY <1>2, <1>3, <1>1
<1> QED BY <1>1, <1>2, <1>3, <1>4 DEF Sequel

\* The complete rows are days of the forecast, in its order.
LEMMA RowsAre ==
  ASSUME NEW fc \in Forecasts, NEW dates
  PROVE  \E at, size : RowsAt(fc, dates, at, CompleteRows(fc, dates), size)
<1>1. PICK K \in SUBSET DOMAIN fc :
        K = {i \in DOMAIN fc : /\ dates = {} \/ fc[i].date \in dates
                               /\ fc[i].weather # Missing}
  OBVIOUS
<1>2. PICK rows : rows = CompleteRows(fc, dates) /\ rows = PartOf(fc, K)
  BY <1>1 DEF CompleteRows
<1>3. rows \in Seq(DayRows)
  BY <1>2, RowsTyped
<1>4. PICK D : fc \in Seq(D)
  BY ForecastsAssumption
<1>5. PICK size : size = Cardinality(K)
  OBVIOUS
<1>6. Len(rows) = size /\ \E at : Positions(at, fc, K)
  BY <1>2, <1>4, <1>5, PartPositions
<1>7. PICK at : Positions(at, fc, K)
  BY <1>6
<1>8. /\ at \in [1..size -> K] /\ size \in Nat /\ \A m \in 1..size : rows[m] = fc[at[m]]
      /\ \A l, m \in 1..size : l < m => at[l] < at[m]
      /\ \A i \in K : \E m \in 1..size : at[m] = i
  BY <1>2, <1>5, <1>7 DEF Positions
<1>9. \A l, m \in 1..size : l < m => at[l] < at[m] /\ rows[l].date < rows[m].date
  BY <1>8, ForecastDates DEF Sequel
<1>10. RowsAt(fc, dates, at, rows, size)
  BY <1>1, <1>3, <1>6, <1>8, <1>9 DEF RowsAt
<1> QED BY <1>2, <1>10

\* A date a run may hold: that of a complete row.
Listed(d, rows) == \E m \in 1..Len(rows) : rows[m].date = d

\* A run is n dates in a row, each that of a complete row.
LEMMA RunsAre ==
  ASSUME NEW fc \in Forecasts, NEW dates, NEW at, NEW rows, NEW size,
         RowsAt(fc, dates, at, rows, size), NEW n \in 1..7
  PROVE  \A first : first \in CompleteRuns(fc, dates, n) <=>
           first \in Nat /\ \A d \in first..(first + n - 1) : Listed(d, rows)
<1> DEFINE whole == {d.date : d \in {e \in ToSet(fc) : e.weather # Missing}}
<1>1. whole = {fc[i].date : i \in {j \in DOMAIN fc : fc[j].weather # Missing}}
  BY DEF ToSet
<1>2. CompleteRuns(fc, dates, n) =
        {first \in whole : \A d \in first..(first + n - 1) : d \in whole /\ (dates = {} \/ d \in dates)}
  BY DEF CompleteRuns
<1> HIDE DEF whole
<1>3. whole \subseteq Nat
  BY <1>1, ForecastDates DEF Sequel
<1>4. \A d : d \in whole /\ (dates = {} \/ d \in dates) <=> Listed(d, rows)
  <2>1. ASSUME NEW d, d \in whole, dates = {} \/ d \in dates PROVE Listed(d, rows)
    <3>1. PICK i \in DOMAIN fc : fc[i].weather # Missing /\ d = fc[i].date
      BY <1>1, <2>1
    <3>2. PICK m \in 1..size : at[m] = i
      BY <2>1, <3>1 DEF RowsAt
    <3> QED BY <3>1, <3>2 DEF RowsAt, Listed
  <2>2. ASSUME NEW d, Listed(d, rows) PROVE d \in whole /\ (dates = {} \/ d \in dates)
    <3>1. PICK m \in 1..size : rows[m].date = d
      BY <2>2 DEF RowsAt, Listed
    <3>2. at[m] \in DOMAIN fc /\ fc[at[m]].date = d /\ fc[at[m]].weather # Missing
          /\ (dates = {} \/ fc[at[m]].date \in dates)
      BY <3>1 DEF RowsAt
    <3> QED BY <1>1, <3>2
  <2> QED BY <2>1, <2>2
<1>5. ASSUME NEW first \in Nat PROVE first \in first..(first + n - 1)
  OBVIOUS
<1> QED BY <1>2, <1>3, <1>4, <1>5

\* The days of a window are one apart, from its first on.
LEMMA WindowDays ==
  ASSUME NEW rows \in Seq(DayRows), NEW n \in 1..7, NEW s \in 1..(Len(rows) - n + 1)
  PROVE  /\ DaysFrom(rows, s, n) \in Seq(DayRows) /\ Len(DaysFrom(rows, s, n)) = n
         /\ \A k \in 1..n : DaysFrom(rows, s, n)[k] = rows[s + k - 1]
         /\ s \in Windows(rows, n) <=>
              \A k \in 0..(n - 1) : rows[s + k].date = rows[s].date + k
<1>1. PICK size \in Nat, e \in Int : size = Len(rows) /\ DOMAIN rows = 1..size /\ e = s + n - 1
  OBVIOUS
<1>2. s \in Int /\ s >= 1 /\ e <= size /\ s <= e /\ e - s + 1 = n
  BY <1>1
<1>3. \A i \in s..e : rows[i] \in DayRows
  BY <1>1, <1>2
<1>4. PICK days0 : days0 = DaysFrom(rows, s, n) /\ days0 = SubSeq(rows, s, e)
  BY <1>1 DEF DaysFrom
<1>5. days0 \in Seq(DayRows) /\ Len(days0) = n /\ \A k \in 1..n : days0[k] = rows[s + k - 1]
  BY <1>2, <1>3, <1>4, SubSeqProperties, SMTT(30)
<1>6. \A k \in 0..(n - 1) : rows[s + k].date \in Nat
  <2>1. ASSUME NEW k \in 0..(n - 1) PROVE rows[s + k].date \in Nat
    <3>1. s + k \in s..e
      BY <1>1, <1>2
    <3> QED BY <1>3, <3>1 DEF DayRows
  <2> QED BY <2>1
<1>9. rows[s].date \in Nat
  <2>1. 0 \in 0..(n - 1) /\ s + 0 = s
    BY <1>2
  <2> QED BY <1>6, <2>1
<1>7. ASSUME Consecutive(days0), NEW k \in 0..(n - 1) PROVE rows[s + k].date = rows[s].date + k
  <2> DEFINE A == {j \in 0..(n - 1) : rows[s + j].date = rows[s].date + j}
  <2>1. 0 \in A
    BY <1>2, <1>9
  <2>2. ASSUME NEW j \in 1..(n - 1), j - 1 \in A PROVE j \in A
    <3>1. days0[j + 1].date - days0[j].date = 1
      BY <1>5, <1>7 DEF Consecutive
    <3>2. days0[j + 1] = rows[s + j] /\ days0[j] = rows[s + (j - 1)]
      BY <1>2, <1>5
    <3>3. rows[s + (j - 1)].date = rows[s].date + (j - 1)
      BY <2>2
    <3>4. PICK b \in Int : b = rows[s].date
      BY <1>9
    <3>5. j \in 0..(n - 1) /\ rows[s + j].date \in Nat
      <4>1. j \in 0..(n - 1)
        OBVIOUS
      <4> QED BY <1>6, <4>1
    <3>6. PICK c \in Int : c = rows[s + j].date
      BY <3>5
    <3>7. c - (b + (j - 1)) = 1
      BY <3>1, <3>2, <3>3, <3>4, <3>6
    <3>8. c = b + j
      BY <3>7
    <3> QED BY <3>4, <3>5, <3>6, <3>8
  <2>3. n - 1 \in Nat
    OBVIOUS
  <2> HIDE DEF A
  <2>4. \A j \in 0..(n - 1) : j \in A
    BY <2>1, <2>2, <2>3, StepByStep
  <2> QED BY <2>4 DEF A
<1>8. ASSUME \A k \in 0..(n - 1) : rows[s + k].date = rows[s].date + k PROVE Consecutive(days0)
  <2>1. ASSUME NEW i \in 1..(n - 1) PROVE days0[i + 1].date - days0[i].date = 1
    <3>1. i + 1 \in 1..n /\ i \in 1..n /\ s + (i + 1) - 1 = s + i /\ s + i - 1 = s + (i - 1)
      BY <1>2
    <3>2. days0[i + 1] = rows[s + i] /\ days0[i] = rows[s + (i - 1)]
      BY <1>5, <3>1
    <3>3. rows[s + i].date = rows[s].date + i /\ rows[s + (i - 1)].date = rows[s].date + (i - 1)
      BY <1>8
    <3>4. PICK b \in Int : b = rows[s].date
      BY <1>9
    <3>5. days0[i + 1].date = b + i /\ days0[i].date = b + (i - 1)
      BY <3>2, <3>3, <3>4
    <3> QED BY <3>5
  <2> QED BY <1>5, <2>1 DEF Consecutive
<1> QED BY <1>4, <1>5, <1>7, <1>8 DEF Windows

\* A run is the window that starts with its first date.
LEMMA RunIsWindow ==
  ASSUME NEW rows \in Seq(DayRows), NEW n \in 1..7, NEW first \in Nat,
         \A l, m \in 1..Len(rows) : l < m => rows[l].date < rows[m].date,
         \A d \in first..(first + n - 1) : Listed(d, rows)
  PROVE  \E s \in Windows(rows, n) : rows[s].date = first
<1>1. PICK size \in Nat : size = Len(rows) /\ \A m \in 1..size : rows[m].date \in Nat
  <2>1. \A m \in 1..Len(rows) : rows[m] \in DayRows
    OBVIOUS
  <2> QED BY <2>1 DEF DayRows
<1>2. PICK s \in 1..size : rows[s].date = first
  BY <1>1 DEF Listed
<1> DEFINE A == {k \in 0..(n - 1) : s + k \in 1..size /\ rows[s + k].date = first + k}
<1>3. 0 \in A
  BY <1>2
<1>4. ASSUME NEW k \in 1..(n - 1), k - 1 \in A PROVE k \in A
  <2>1. PICK l \in 1..size : l = s + (k - 1) /\ rows[l].date = first + (k - 1)
    BY <1>4
  <2>2. PICK m \in 1..size : rows[m].date = first + k
    BY <1>1 DEF Listed
  <2>3. l < m
    <3>1. ~(m < l) /\ m # l
      BY <1>1, <2>1, <2>2, SMTT(30)
    <3> QED BY <3>1
  <2>4. ~(l + 1 < m)
    <3>1. ASSUME l + 1 < m PROVE FALSE
      <4>1. PICK c \in Nat : l + 1 \in 1..size /\ c = rows[l + 1].date
        BY <1>1, <3>1
      <4>2. first + (k - 1) < c /\ c < first + k
        BY <1>1, <2>1, <2>2, <3>1, <4>1
      <4> QED BY <4>2
    <3> QED BY <3>1
  <2>5. m = s + k
    BY <2>1, <2>3, <2>4
  <2> QED BY <2>2, <2>5
<1>5. n - 1 \in Nat
  OBVIOUS
<1> HIDE DEF A
<1>6. \A k \in 0..(n - 1) : k \in A
  BY <1>3, <1>4, <1>5, StepByStep
<1>7. s \in 1..(Len(rows) - n + 1)
  <2>1. s + (n - 1) \in 1..size
    BY <1>5, <1>6 DEF A
  <2> QED BY <1>1, <2>1
<1>8. \A k \in 0..(n - 1) : rows[s + k].date = rows[s].date + k
  BY <1>2, <1>6 DEF A
<1> QED BY <1>2, <1>7, <1>8, WindowDays

\* A window holds the days of a run, and all of them.
LEMMA WindowIsRun ==
  ASSUME NEW fc \in Forecasts, NEW dates, NEW at, NEW rows, NEW size,
         RowsAt(fc, dates, at, rows, size), NEW n \in 1..7, NEW s \in Windows(rows, n)
  PROVE  /\ rows[s].date \in CompleteRuns(fc, dates, n)
         /\ RunOf(fc, rows[s].date, n) = DaysFrom(rows, s, n)
<1>1. /\ s \in 1..(size - n + 1) /\ size \in Nat /\ Len(rows) = size /\ rows \in Seq(DayRows)
  BY DEF RowsAt, Windows
<1>2. /\ Len(DaysFrom(rows, s, n)) = n /\ DaysFrom(rows, s, n) \in Seq(DayRows)
      /\ \A k \in 1..n : DaysFrom(rows, s, n)[k] = rows[s + k - 1]
      /\ \A k \in 0..(n - 1) : rows[s + k].date = rows[s].date + k
  BY <1>1, WindowDays
<1>3. PICK first \in Nat : first = rows[s].date
  <2>1. rows[s] \in DayRows
    BY <1>1
  <2> QED BY <2>1 DEF DayRows
<1>4. \A k \in 0..(n - 1) : s + k \in 1..size /\ rows[s + k].date = first + k
  BY <1>1, <1>2, <1>3
<1>5. first \in CompleteRuns(fc, dates, n)
  <2>1. ASSUME NEW d \in first..(first + n - 1) PROVE Listed(d, rows)
    <3>1. d - first \in 0..(n - 1) /\ first + (d - first) = d
      OBVIOUS
    <3> QED BY <1>1, <1>4, <3>1 DEF Listed
  <2> QED BY <2>1, RunsAre
<1> DEFINE S == {i \in DOMAIN fc : fc[i].date \in first..(first + n - 1)}
           f == [k \in 1..n |-> at[s + k - 1]]
<1>6. \A k \in 1..n : s + k - 1 \in 1..size /\ f[k] \in S /\ fc[f[k]] = rows[s + k - 1]
                      /\ fc[f[k]].date = first + (k - 1)
  <2>1. ASSUME NEW k \in 1..n
        PROVE  s + k - 1 \in 1..size /\ f[k] \in S /\ fc[f[k]] = rows[s + k - 1]
               /\ fc[f[k]].date = first + (k - 1)
    <3>1. k - 1 \in 0..(n - 1) /\ s + (k - 1) = s + k - 1
      BY <1>1
    <3>2. s + k - 1 \in 1..size /\ rows[s + k - 1].date = first + (k - 1)
      BY <1>4, <3>1
    <3>3. at[s + k - 1] \in DOMAIN fc /\ fc[at[s + k - 1]] = rows[s + k - 1]
      BY <3>2 DEF RowsAt
    <3>4. first + (k - 1) \in first..(first + n - 1)
      OBVIOUS
    <3> QED BY <3>2, <3>3, <3>4
  <2> QED BY <2>1
<1>7. \A i, j \in 1..n : i < j => f[i] < f[j]
  BY <1>1, <1>6 DEF RowsAt
<1>8. ASSUME NEW x \in S PROVE \E k \in 1..n : f[k] = x
  <2>1. PICK k \in 1..n : fc[x].date = first + (k - 1)
    <3>1. PICK d \in first..(first + n - 1) : d = fc[x].date
      OBVIOUS
    <3>2. d - first + 1 \in 1..n /\ d = first + ((d - first + 1) - 1)
      OBVIOUS
    <3> QED BY <3>1, <3>2
  <2>2. f[k] \in DOMAIN fc /\ x \in DOMAIN fc /\ fc[f[k]].date = fc[x].date
    BY <1>6, <2>1
  <2> QED BY <2>2, ForecastDates DEF Sequel
<1>9. S \in SUBSET Int /\ f \in [1..n -> S] /\ n \in Nat
  BY <1>6, ForecastDates DEF Sequel
<1>10. PICK part : part = RunOf(fc, first, n) /\ part = PartOf(fc, S)
  BY DEF RunOf
<1> HIDE DEF S, f
<1>11. PICK order : order = Ascending(S)
  OBVIOUS
<1>12. DOMAIN order = 1..n /\ \A k \in 1..n : order[k] = f[k]
  BY <1>7, <1>8, <1>9, <1>11, AscendingIs
<1>13. part = [k \in 1..n |-> rows[s + k - 1]]
  <2>1. part = [k \in 1..n |-> fc[order[k]]]
    BY <1>10, <1>11, <1>12 DEF PartOf
  <2>2. \A k \in 1..n : fc[order[k]] = rows[s + k - 1]
    BY <1>6, <1>12
  <2> QED BY <2>1, <2>2
<1>14. DaysFrom(rows, s, n) = part
  BY <1>2, <1>13
<1> QED BY <1>3, <1>5, <1>10, <1>14

\* A date asked for is not among the dates of the forecast.
LEMMA OutOfRangeMeans ==
  ASSUME NEW fc \in Forecasts, NEW dates \in SUBSET Nat, OutOfRange(fc, dates)
  PROVE  \E d \in dates : \A e \in ToSet(fc) : e.date # d
<1>1. SUFFICES ASSUME \A d \in dates : \E i \in DOMAIN fc : fc[i].date = d PROVE FALSE
  BY DEF ToSet
<1>2. PICK last \in Nat : last = Len(fc) /\ last \in DOMAIN fc /\ 1 \in DOMAIN fc /\ DOMAIN fc = 1..last
  BY ForecastDates DEF Sequel
<1>3. \A i \in DOMAIN fc : fc[1].date <= fc[i].date /\ fc[i].date <= fc[last].date
  BY <1>2, ForecastDates DEF Sequel
<1>4. dates # {} /\ (Min(dates) < fc[1].date \/ Max(dates) > fc[last].date)
  BY <1>2 DEF OutOfRange, Last
<1>5. fc[1].date \in Nat /\ fc[last].date \in Nat
  BY <1>2, ForecastDates DEF Sequel
<1>6. \A d \in dates : fc[1].date <= d /\ d <= fc[last].date
  BY <1>1, <1>3
<1>7. Max(dates) \in dates
  BY <1>4, <1>5, <1>6, MaxNumber
<1>8. Min(dates) \in dates
  BY <1>4, LeastNumber DEF Min
<1>9. fc[1].date <= Min(dates) /\ Max(dates) <= fc[last].date
  BY <1>6, <1>7, <1>8
<1>10. PICK least \in Nat, most \in Nat : least = Min(dates) /\ most = Max(dates)
  BY <1>7, <1>8
<1>11. PICK a \in Nat, b \in Nat : a = fc[1].date /\ b = fc[last].date
  BY <1>5
<1> QED BY <1>4, <1>9, <1>10, <1>11

\* What is recommended is a best run of the forecast, and a refusal means there is none.
THEOREM BestWindowRecommended == Spec => RecommendsBestWindow
<1> DEFINE fc == forecast
           dates == ask.dates
           n == ask.trip
           runs == CompleteRuns(fc, dates, n)
           rows == CompleteRows(fc, dates)
           merit(first) == Merit(RunOf(fc, first, n))
           Best == \E first \in runs :
                     /\ days' = RunOf(fc, first, n)
                     /\ \A other \in runs : ~Before(merit(first), merit(other))
           NoneLeft == runs = {} \/ \E d \in dates : \A e \in ToSet(fc) : e.date # d
<1>1. ASSUME PlannerInv, [Next]_vars, phase = "asked", ~UNCHANGED vars
      PROVE  /\ phase' = "dated" => Best
             /\ outcome' \in {"INSUFFICIENT_COMPLETE_FORECAST", "FORECAST_OUT_OF_RANGE"} => NoneLeft
  <2>1. fc \in Forecasts /\ n \in 1..7 /\ dates \in SUBSET Nat
    BY <1>1 DEF PlannerInv, AskTyped
  <2>2. PICK at, size : RowsAt(fc, dates, at, rows, size)
    BY <2>1, RowsAre
  <2>3. /\ rows \in Seq(DayRows) /\ size = Len(rows)
        /\ \A l, m \in 1..Len(rows) : l < m => rows[l].date < rows[m].date
    BY <2>2 DEF RowsAt
  <2>4. \A s \in Windows(rows, n) :
          rows[s].date \in runs /\ RunOf(fc, rows[s].date, n) = DaysFrom(rows, s, n)
    BY <2>1, <2>2, WindowIsRun
  <2>5. \A first \in runs : \E s \in Windows(rows, n) : rows[s].date = first
    <3> HIDE DEF rows, fc, dates, n
    <3> QED BY <2>1, <2>2, <2>3, RunsAre, RunIsWindow
  <2>6. CASE Recommend
    <3>1. days' = BestWindow(rows, n) /\ Windows(rows, n) # {} /\ outcome' = outcome
      BY <2>6 DEF Recommend, Rows
    <3>2. PICK s \in Windows(rows, n) : BestStart(rows, s, n)
      BY <2>1, <2>3, <3>1, BestWindowTyped
    <3>3. rows[s].date \in runs /\ days' = RunOf(fc, rows[s].date, n)
      BY <2>4, <3>1, <3>2 DEF BestStart
    <3>4. ASSUME NEW other \in runs PROVE ~Before(merit(rows[s].date), merit(other))
      BY <2>4, <2>5, <3>2 DEF BestStart
    <3>5. outcome' = "none"
      BY <1>1, <3>1 DEF PlannerInv
    <3> HIDE DEF rows, fc, dates, n, runs, merit
    <3> QED BY <3>3, <3>4, <3>5
  <2>7. CASE ForecastOutOfRange
    BY <2>1, <2>7, OutOfRangeMeans DEF ForecastOutOfRange, Failed
  <2>8. CASE NoCompleteWindow
    <3>1. Windows(rows, n) = {} /\ phase' = "failed"
      BY <2>8 DEF NoCompleteWindow, Rows, Failed
    <3> HIDE DEF rows, n, runs
    <3> QED BY <2>5, <3>1
  <2>9. CASE WeatherUnavailable
    BY <2>9 DEF WeatherUnavailable, Failed
  <2> HIDE DEF Best, NoneLeft
  <2> QED
    BY <1>1, <2>6, <2>7, <2>8, <2>9
    DEF Next, SourcesFail, Search, Collect, Geocode, GeocodeFails, Rank, TooFew, Select, Measure, MatrixFails, Seed,
        Refine, Trim, Weigh, Scan, Augment, Build, Returned
<1>2. PlannerInv /\ [Next]_vars => [phase = "asked" =>
        /\ phase' = "dated" => Best
        /\ outcome' \in {"INSUFFICIENT_COMPLETE_FORECAST", "FORECAST_OUT_OF_RANGE"} => NoneLeft]_vars
  <2> HIDE DEF Best, NoneLeft
  <2> QED BY <1>1
<1> QED BY <1>2, PlannerInvariant, PTL DEF Spec, RecommendsBestWindow

=============================================================================
