------------------------ MODULE SessionContextProofs ------------------------
(***************************************************************************)
(* Proofs about SessionContext, for conversations of any length, messages  *)
(* and memories of any size and any budgets: nothing of the conversation   *)
(* vanishes, the history keeps to its budget and its number of messages,   *)
(* and what ADR 0008 promises holds as long as Runs are prepared in order. *)
(***************************************************************************)
EXTENDS SessionContext, WellFoundedInduction, FiniteSetTheorems, TLAPS

-----------------------------------------------------------------------------
(* The invariant *)

Context == [message : Nat, history : SUBSET Nat, tokens : Int, budget : Int,
            summary : SUBSET Position]

\* The type invariant.
TypeOK ==
  /\ messages \in Seq(Nat)
  /\ turn \in [Run -> [message : Nat, open : BOOLEAN]]
  /\ cursor \in Nat
  /\ merged \in [Position -> 0..2]
  /\ context \in Context
  /\ inOrder \in BOOLEAN

Begun == {r \in Run : turn[r].message # 0}
Unanswered == {r \in Run : turn[r].open}

\* Each Run has one message and at most one answer, and what Runs, context and
\* cursor refer to are messages of the session.
Referring ==
  /\ Len(messages) + Cardinality(Unanswered) <= 2 * Cardinality(Begun)
  /\ \A r \in Run : /\ turn[r].message <= Len(messages)
                    /\ turn[r].open => turn[r].message # 0
  /\ context.message <= Len(messages)
  /\ cursor <= Len(messages)

\* Wherever the cursor was moved to, all messages up to it are in the summary.
SummaryReaches == \A m \in Position : m <= cursor => merged[m] > 0

\* What happens in order: the cursor stays before the last message that any Run
\* saw, and parts what was summarised once from what was not.
CursorParts ==
  inOrder => /\ cursor # 0 => cursor + 1 < context.message
             /\ \A m \in Position : merged[m] = IF m <= cursor THEN 1 ELSE 0

IInv ==
  /\ TypeOK /\ Referring /\ SummaryReaches /\ CursorParts
  /\ NothingVanishes /\ HistoryFits /\ PromisesInOrder

-----------------------------------------------------------------------------
(* Numbers *)

\* A set of natural numbers that is not empty has a least element.
LEMMA LeastNumber ==
  ASSUME NEW S \in SUBSET Nat, S # {}
  PROVE  \E m \in S : \A n \in S : m <= n
<1> DEFINE R == OpToRel(<, Nat)
<1>1. IsWellFoundedOn(R, Nat)
  BY NatLessThanWellFounded
<1>2. \A x, y \in Nat : <<x, y>> \in R <=> x < y
  BY DEF OpToRel
<1> HIDE DEF R
<1>3. PICK m \in S : \A n \in S : <<n, m>> \notin R
  BY <1>1, WFMin
<1>4. ASSUME NEW n \in S PROVE m <= n
  <2>1. m \in Nat /\ n \in Nat
    OBVIOUS
  <2>2. ~(n < m)
    BY <1>2, <1>3, <2>1
  <2> QED BY <2>1, <2>2
<1> QED BY <1>4

\* Max picks the greatest number of a set that is bounded and not empty.
LEMMA MaxNumber ==
  ASSUME NEW S \in SUBSET Nat, S # {}, NEW bound \in Nat, \A n \in S : n <= bound
  PROVE  Max(S) \in S /\ \A n \in S : n <= Max(S)
<1> DEFINE Rest == {bound - n : n \in S}
<1>1. Rest \in SUBSET Nat /\ Rest # {}
  <2>1. ASSUME NEW n \in S PROVE bound - n \in Nat
    OBVIOUS
  <2>2. Rest # {}
    OBVIOUS
  <2> QED BY <2>1, <2>2
<1>2. PICK m \in Rest : \A n \in Rest : m <= n
  BY <1>1, LeastNumber
<1>3. PICK x \in S : m = bound - x
  OBVIOUS
<1>4. ASSUME NEW n \in S PROVE x >= n
  <2>1. bound - n \in Rest
    OBVIOUS
  <2>2. bound - x <= bound - n
    BY <1>2, <1>3, <2>1
  <2> QED BY <2>2
<1>5. \E y \in S : \A n \in S : y >= n
  BY <1>4
<1>6. Max(S) \in S /\ \A n \in S : Max(S) >= n
  BY <1>5 DEF Max
<1>7. ASSUME NEW n \in S PROVE n <= Max(S)
  BY <1>6
<1> QED BY <1>6, <1>7

\* A set of numbers that holds 0 and with each number the next holds them all.
LEMMA StepByStep ==
  ASSUME NEW N \in Nat, NEW A, 0 \in A, \A n \in 1..N : n - 1 \in A => n \in A
  PROVE  \A n \in 0..N : n \in A
<1> SUFFICES ASSUME NEW n \in 0..N, n \notin A PROVE FALSE
  OBVIOUS
<1> DEFINE Missing == {k \in 0..N : k \notin A}
<1>1. Missing \in SUBSET Nat /\ Missing # {}
  OBVIOUS
<1>2. PICK least \in Missing : \A k \in Missing : least <= k
  BY <1>1, LeastNumber
<1>3. least \in 1..N
  BY <1>2
<1>4. least - 1 \in A
  <2>1. least - 1 \in 0..N /\ ~(least <= least - 1)
    BY <1>3
  <2> QED BY <1>2, <2>1
<1> QED BY <1>2, <1>3, <1>4

\* f begins with base, and step says what follows each value.
Computes(f, N, base, step) ==
  /\ f[0] = base
  /\ \A n \in 1..N : f[n] = step[<<n, f[n - 1]>>]

\* A recursion over 0..N has a value.
LEMMA Recursion ==
  ASSUME NEW N \in Nat, NEW S, NEW base \in S, NEW step \in [(1..N) \X S -> S]
  PROVE  \E f \in [0..N -> S] : Computes(f, N, base, step)
<1> DEFINE A == {k \in 0..N : \E f \in [0..N -> S] : Computes(f, k, base, step)}
<1>1. 0 \in A
  <2>1. PICK f : f = [n \in 0..N |-> base]
    OBVIOUS
  <2>2. f \in [0..N -> S] /\ f[0] = base
    BY <2>1
  <2>3. Computes(f, 0, base, step)
    BY <2>2 DEF Computes
  <2> QED BY <2>2, <2>3
<1>2. ASSUME NEW k \in 1..N, k - 1 \in A PROVE k \in A
  <2>1. PICK f \in [0..N -> S] : Computes(f, k - 1, base, step)
    BY <1>2
  <2>2. step[<<k, f[k - 1]>>] \in S
    <3>1. f[k - 1] \in S
      BY <2>1
    <3> QED BY <3>1
  <2>3. PICK g : g = [f EXCEPT ![k] = step[<<k, f[k - 1]>>]]
    OBVIOUS
  <2>4. g \in [0..N -> S]
    BY <2>1, <2>2, <2>3
  <2>5. g[0] = base
    BY <2>1, <2>3 DEF Computes
  <2>6. ASSUME NEW n \in 1..k PROVE g[n] = step[<<n, g[n - 1]>>]
    <3>1. g[n - 1] = f[n - 1]
      BY <2>3
    <3>2. CASE n = k
      <4>1. g[k] = step[<<k, f[k - 1]>>]
        BY <2>1, <2>3
      <4> QED BY <3>1, <3>2, <4>1
    <3>3. CASE n # k
      <4>1. n \in 1..(k - 1) /\ g[n] = f[n]
        BY <2>3, <3>3
      <4> QED BY <2>1, <3>1, <4>1 DEF Computes
    <3> QED BY <3>2, <3>3
  <2>7. Computes(g, k, base, step)
    BY <2>5, <2>6 DEF Computes
  <2> QED BY <2>4, <2>7
<1>3. N \in A
  <2> HIDE DEF A
  <2>1. \A n \in 0..N : n \in A
    BY <1>1, <1>2, StepByStep
  <2> QED BY <2>1
<1> QED BY <1>3

-----------------------------------------------------------------------------
(* Tokens and the history loop *)

\* sum[m] are the tokens of the messages of the set up to m.
SumsUp(sum, set, N) ==
  /\ sum \in [0..N -> Nat] /\ sum[0] = 0
  /\ \A m \in 1..N : sum[m] = sum[m - 1] + (IF m \in set THEN messages[m] ELSE 0)

\* A kept history: messages of those selected, and the budget that is left.
Kept == [messages : SUBSET Nat, left : Int]

\* kept[m] is the history after the turns of the loop up to message m.
Loops(kept, selected, budget, N) ==
  /\ kept \in [0..N -> Kept] /\ kept[0] = [messages |-> {}, left |-> budget]
  /\ \A m \in 1..N :
       kept[m] = IF m \in selected THEN Trimmed(selected, kept[m - 1], m)
                                   ELSE kept[m - 1]

LEMMA MessageTyped ==
  ASSUME messages \in Seq(Nat), NEW m \in 1..Len(messages)
  PROVE  messages[m] \in Nat
OBVIOUS

\* The sum of the tokens, message by message.
LEMMA TokensAddUp ==
  ASSUME NEW set, messages \in Seq(Nat)
  PROVE  \E sum : /\ SumsUp(sum, set, Len(messages))
                  /\ Tokens(set) = sum[Len(messages)]
<1> DEFINE N == Len(messages)
           step == [p \in (1..N) \X Nat |->
                      p[2] + (IF p[1] \in set THEN messages[p[1]] ELSE 0)]
<1>1. N \in Nat /\ step \in [(1..N) \X Nat -> Nat]
  OBVIOUS
<1> DEFINE Sum(f) == f = [m \in 0..N |-> IF m = 0 THEN 0
                           ELSE f[m - 1] + (IF m \in set THEN messages[m] ELSE 0)]
<1>2. PICK f \in [0..N -> Nat] : Computes(f, N, 0, step)
  <2>1. 0 \in Nat
    OBVIOUS
  <2> HIDE DEF step, N
  <2> QED BY <1>1, <2>1, Recursion
<1>3. Sum(f)
  <2>1. ASSUME NEW m \in 0..N
        PROVE  f[m] = IF m = 0 THEN 0 ELSE f[m - 1] + (IF m \in set THEN messages[m] ELSE 0)
    <3>1. m # 0 => f[m] = step[<<m, f[m - 1]>>]
      <4> HIDE DEF step
      <4> QED BY <1>1, <1>2 DEF Computes
    <3>2. ASSUME m # 0
          PROVE  step[<<m, f[m - 1]>>] = f[m - 1] + (IF m \in set THEN messages[m] ELSE 0)
      <4>1. m \in 1..N /\ m - 1 \in 0..N
        BY <1>1, <3>2
      <4>2. PICK before \in Nat : before = f[m - 1]
        <5> HIDE DEF N, step
        <5> QED BY <1>2, <4>1
      <4>3. <<m, before>> \in (1..N) \X Nat
        <5> HIDE DEF N, step
        <5> QED BY <4>1
      <4>4. step[<<m, before>>] = before + (IF m \in set THEN messages[m] ELSE 0)
        BY <4>3
      <4> QED BY <4>2, <4>4
    <3>3. f[0] = 0
      BY <1>2 DEF Computes
    <3> QED BY <3>1, <3>2, <3>3
  <2> QED BY <2>1
<1>4. PICK sum : sum = CHOOSE g : Sum(g)
  OBVIOUS
<1>5. Sum(sum)
  BY <1>3, <1>4
<1>6. Tokens(set) = sum[N]
  BY <1>4 DEF Tokens
<1> HIDE DEF step
<1>7. ASSUME NEW m \in 0..N
      PROVE  sum[m] = IF m = 0 THEN 0 ELSE sum[m - 1] + (IF m \in set THEN messages[m] ELSE 0)
  BY <1>5
<1>8. \A m \in 0..N : sum[m] \in Nat
  <2> DEFINE A == {m \in 0..N : sum[m] \in Nat}
  <2>1. 0 \in A
    BY <1>1, <1>7
  <2>2. ASSUME NEW m \in 1..N, m - 1 \in A PROVE m \in A
    <3>1. messages[m] \in Nat /\ sum[m - 1] \in Nat
      BY <2>2
    <3>2. sum[m] = sum[m - 1] + (IF m \in set THEN messages[m] ELSE 0)
      BY <1>7
    <3> QED BY <3>1, <3>2
  <2> HIDE DEF A
  <2>3. \A m \in 0..N : m \in A
    BY <1>1, <2>1, <2>2, StepByStep
  <2> QED BY <2>3 DEF A
<1>9. sum \in [0..N -> Nat]
  BY <1>5, <1>8
<1>10. sum[0] = 0
  BY <1>1, <1>7
<1>11. ASSUME NEW m \in 1..N
       PROVE  sum[m] = sum[m - 1] + (IF m \in set THEN messages[m] ELSE 0)
  BY <1>7
<1> HIDE DEF N
<1> QED BY <1>6, <1>9, <1>10, <1>11 DEF N, SumsUp

\* The sums of the tokens do not decrease.
LEMMA SumsGrow ==
  ASSUME NEW N \in Nat, NEW sum \in [0..N -> Nat],
         \A m \in 1..N : sum[m - 1] <= sum[m]
  PROVE  \A m \in 0..N : sum[m] <= sum[N]
<1> DEFINE A == {m \in 0..N : \A k \in 0..m : sum[k] <= sum[m]}
<1>1. 0 \in A
  OBVIOUS
<1>2. ASSUME NEW m \in 1..N, m - 1 \in A PROVE m \in A
  <2>1. ASSUME NEW k \in 0..m PROVE sum[k] <= sum[m]
    <3>1. CASE k = m
      BY <3>1
    <3>2. CASE k # m
      <4>1. sum[k] <= sum[m - 1] /\ sum[m - 1] <= sum[m]
        BY <1>2, <3>2
      <4> QED BY <4>1
    <3> QED BY <3>1, <3>2
  <2> QED BY <2>1
<1> HIDE DEF A
<1>3. \A m \in 0..N : m \in A
  BY <1>1, <1>2, StepByStep
<1>4. N \in 0..N
  OBVIOUS
<1> QED BY <1>3, <1>4 DEF A

\* The greater and the smaller of two numbers.
LEMMA MaxOfTwo ==
  ASSUME NEW a \in Int, NEW b \in Int
  PROVE  /\ Max({a, b}) \in {a, b} /\ Max({a, b}) >= a /\ Max({a, b}) >= b
         /\ Min({a, b}) \in {a, b} /\ Min({a, b}) <= a /\ Min({a, b}) <= b
<1>1. \E x \in {a, b} : \A y \in {a, b} : x >= y
  OBVIOUS
<1>2. \E x \in {a, b} : \A y \in {a, b} : x <= y
  OBVIOUS
<1>3. Max({a, b}) \in {a, b} /\ \A y \in {a, b} : Max({a, b}) >= y
  BY <1>1 DEF Max
<1>4. Min({a, b}) \in {a, b} /\ \A y \in {a, b} : Min({a, b}) <= y
  BY <1>2 DEF Min
<1> QED BY <1>3, <1>4

\* The last of an interval.
LEMMA MaxOfInterval ==
  ASSUME NEW a \in Int, NEW b \in Int, a <= b
  PROVE  Max(a..b) = b
<1>1. b \in a..b /\ \A y \in a..b : b >= y
  OBVIOUS
<1>2. Max(a..b) \in a..b /\ \A y \in a..b : Max(a..b) >= y
  BY <1>1 DEF Max
<1>3. Max(a..b) <= b /\ Max(a..b) >= b /\ Max(a..b) \in Int
  BY <1>1, <1>2
<1> QED BY <1>3

\* One turn of the history loop keeps a kept history.
LEMMA TrimmedKept ==
  ASSUME messages \in Seq(Nat), NEW selected, NEW kept \in Kept,
         NEW m \in 1..Len(messages)
  PROVE  Trimmed(selected, kept, m) \in Kept
<1>1. MinRecent \in Int /\ kept.left \in Int /\ messages[m] \in Nat /\ m \in Nat
  BY ContextAssumption DEF Kept
<1>2. PICK allowed \in Int : allowed = Max({MinRecent, kept.left})
  BY <1>1, MaxOfTwo
<1>3. PICK cut \in Int : cut = Min({messages[m], allowed})
  <2>1. messages[m] \in Int
    BY <1>1
  <2>2. Min({messages[m], allowed}) \in {messages[m], allowed}
    BY <2>1, MaxOfTwo
  <2>3. Min({messages[m], allowed}) \in Int
    BY <2>1, <2>2
  <2> QED BY <2>3
<1> QED BY <1>1, <1>2, <1>3 DEF Trimmed, Kept

\* The history loop, message by message.
LEMMA HistoryLoop ==
  ASSUME messages \in Seq(Nat), NEW selected, NEW budget \in Int
  PROVE  \E kept : /\ Loops(kept, selected, budget, Len(messages))
                   /\ History(selected, budget) = kept[Len(messages)]
<1> DEFINE N == Len(messages)
           base == [messages |-> {}, left |-> budget]
           After(x, m) == IF m \in selected THEN Trimmed(selected, x, m) ELSE x
           step == [p \in (1..N) \X Kept |-> After(p[2], p[1])]
           Loop(f) == f = [m \in 0..N |-> IF m = 0 THEN base ELSE
                             IF m \in selected THEN Trimmed(selected, f[m - 1], m)
                             ELSE f[m - 1]]
<1>1. N \in Nat /\ base \in Kept
  BY DEF Kept
<1>2. step \in [(1..N) \X Kept -> Kept]
  <2>1. ASSUME NEW p \in (1..N) \X Kept PROVE After(p[2], p[1]) \in Kept
    BY TrimmedKept
  <2> HIDE DEF After
  <2> QED BY <2>1
<1>3. PICK f \in [0..N -> Kept] : Computes(f, N, base, step)
  <2> HIDE DEF step, N, base
  <2> QED BY <1>1, <1>2, Recursion
<1>4. \A m \in 1..N : f[m] = After(f[m - 1], m)
  <2> SUFFICES ASSUME NEW m \in 1..N PROVE f[m] = After(f[m - 1], m)
    OBVIOUS
  <2>1. f[m] = step[<<m, f[m - 1]>>]
    <3> HIDE DEF step
    <3> QED BY <1>1, <1>3 DEF Computes
  <2>2. <<m, f[m - 1]>> \in (1..N) \X Kept
    BY <1>1
  <2>3. step[<<m, f[m - 1]>>] = After(f[m - 1], m)
    <3> HIDE DEF After
    <3> QED BY <2>2
  <2> QED BY <2>1, <2>3
<1>5. f[0] = base
  BY <1>3 DEF Computes
<1>6. Loop(f)
  <2>1. ASSUME NEW m \in 0..N
        PROVE  f[m] = IF m = 0 THEN base ELSE
                      IF m \in selected THEN Trimmed(selected, f[m - 1], m) ELSE f[m - 1]
    BY <1>4, <1>5
  <2> HIDE DEF base
  <2> QED BY <2>1
<1>7. PICK kept : kept = CHOOSE g : Loop(g)
  OBVIOUS
<1>8. Loop(kept)
  BY <1>6, <1>7
<1>9. History(selected, budget) = kept[N]
  BY <1>7 DEF History
<1> HIDE DEF step
<1>10. ASSUME NEW m \in 0..N
       PROVE  kept[m] = IF m = 0 THEN base ELSE After(kept[m - 1], m)
  BY <1>8
<1>11. \A m \in 0..N : kept[m] \in Kept
  <2> DEFINE A == {m \in 0..N : kept[m] \in Kept}
  <2> HIDE DEF base
  <2>1. 0 \in A
    <3>1. 0 \in 0..N
      BY <1>1
    <3>2. kept[0] = base
      BY <1>10, <3>1
    <3> QED BY <1>1, <3>1, <3>2
  <2>2. ASSUME NEW m \in 1..N, m - 1 \in A PROVE m \in A
    <3>1. kept[m - 1] \in Kept
      BY <2>2
    <3>2. kept[m] = After(kept[m - 1], m)
      BY <1>10
    <3>3. After(kept[m - 1], m) \in Kept
      BY <3>1, TrimmedKept
    <3> QED BY <3>2, <3>3
  <2> HIDE DEF A
  <2>3. \A m \in 0..N : m \in A
    BY <1>1, <2>1, <2>2, StepByStep
  <2> QED BY <2>3 DEF A
<1>12. kept \in [0..N -> Kept]
  BY <1>8, <1>11
<1>13. Loops(kept, selected, budget, N)
  BY <1>1, <1>10, <1>12 DEF Loops
<1> QED BY <1>9, <1>13
\* Messages that fit into the budget together are all kept, as they are.
LEMMA FittingKept ==
  ASSUME messages \in Seq(Nat), NEW selected \in SUBSET (1..Len(messages)),
         NEW budget \in Nat, Tokens(selected) <= budget
  PROVE  /\ History(selected, budget).messages = selected
         /\ History(selected, budget).left \in 0..budget
<1>1. PICK N \in Nat : N = Len(messages)
  OBVIOUS
<1>2. PICK sum : SumsUp(sum, selected, N) /\ Tokens(selected) = sum[N]
  <2>1. \E sum : SumsUp(sum, selected, Len(messages)) /\ Tokens(selected) = sum[Len(messages)]
    BY TokensAddUp
  <2> QED BY <1>1, <2>1
<1>3. PICK kept : Loops(kept, selected, budget, N) /\ History(selected, budget) = kept[N]
  BY <1>1, HistoryLoop
<1>4. \A m \in 1..N : messages[m] \in Nat
  BY <1>1, MessageTyped
<1>5. \A m \in 0..N : sum[m] \in Nat /\ sum[m] <= budget
  <2>1. \A m \in 0..N : sum[m] \in Nat
    BY <1>2 DEF SumsUp
  <2>2. ASSUME NEW m \in 1..N PROVE sum[m - 1] <= sum[m]
    <3>1. sum[m] = sum[m - 1] + (IF m \in selected THEN messages[m] ELSE 0)
      BY <1>2 DEF SumsUp
    <3>2. messages[m] \in Nat /\ sum[m - 1] \in Nat
      BY <1>4, <2>1
    <3> QED BY <3>1, <3>2
  <2>3. \A m \in 0..N : sum[m] <= sum[N]
    BY <1>2, <2>2, SumsGrow DEF SumsUp
  <2> QED BY <1>2, <2>1, <2>3
<1> DEFINE A == {m \in 0..N : /\ kept[m].messages = selected \cap (1..m)
                              /\ kept[m].left = budget - sum[m]}
<1>6. 0 \in A
  BY <1>2, <1>3 DEF SumsUp, Loops
<1>7. ASSUME NEW m \in 1..N, m - 1 \in A PROVE m \in A
  <2>1. /\ kept[m - 1].messages = selected \cap (1..(m - 1))
        /\ kept[m - 1].left = budget - sum[m - 1]
    BY <1>7
  <2>2. messages[m] \in Nat /\ sum[m - 1] \in Nat /\ sum[m] <= budget
    BY <1>4, <1>5
  <2>3. CASE m \notin selected
    <3>1. kept[m] = kept[m - 1]
      BY <1>3, <2>3 DEF Loops
    <3>2. sum[m] = sum[m - 1]
      BY <1>2, <2>2, <2>3 DEF SumsUp
    <3>3. selected \cap (1..m) = selected \cap (1..(m - 1))
      BY <2>3
    <3> QED BY <2>1, <3>1, <3>2, <3>3
  <2>4. CASE m \in selected
    <3>1. kept[m] = Trimmed(selected, kept[m - 1], m)
      BY <1>3, <2>4 DEF Loops
    <3>2. sum[m] = sum[m - 1] + messages[m]
      BY <1>2, <2>4 DEF SumsUp
    <3>3. PICK left \in Int : left = kept[m - 1].left /\ messages[m] <= left
      BY <2>1, <2>2, <3>2
    <3>4. messages[m] <= Max({0, kept[m - 1].left})
      <4>1. 0 \in Int
        OBVIOUS
      <4>2. Max({0, left}) \in {0, left} /\ Max({0, left}) >= left
        BY <4>1, MaxOfTwo
      <4> QED BY <2>2, <3>3, <4>2
    <3>5. kept[m] = [messages |-> kept[m - 1].messages \cup {m},
                     left |-> kept[m - 1].left - messages[m]]
      BY <3>1, <3>4 DEF Trimmed
    <3>6. selected \cap (1..m) = (selected \cap (1..(m - 1))) \cup {m}
      BY <2>4
    <3> QED BY <2>1, <2>2, <3>2, <3>5, <3>6
  <2> QED BY <2>3, <2>4
<1> HIDE DEF A
<1>8. N \in A
  <2>1. \A m \in 0..N : m \in A
    BY <1>6, <1>7, StepByStep
  <2> QED BY <2>1
<1>9. kept[N].messages = selected \cap (1..N) /\ kept[N].left = budget - sum[N]
  BY <1>8 DEF A
<1>10. selected \cap (1..N) = selected
  BY <1>1
<1>11. sum[N] \in Nat /\ sum[N] <= budget
  BY <1>5
<1> QED BY <1>3, <1>9, <1>10, <1>11

\* A message alone is kept whatever its size, cut to the budget.
LEMMA LonelyKept ==
  ASSUME messages \in Seq(Nat), NEW selected \in SUBSET (1..Len(messages)),
         NEW x, selected \subseteq {x},
         NEW budget \in Nat, MinRecent <= budget
  PROVE  /\ History(selected, budget).messages = selected
         /\ History(selected, budget).left \in 0..budget
<1>1. PICK N \in Nat : N = Len(messages)
  OBVIOUS
<1>2. PICK kept : Loops(kept, selected, budget, N) /\ History(selected, budget) = kept[N]
  BY <1>1, HistoryLoop
<1> DEFINE Right(k, m) == /\ k.messages = selected \cap (1..m)
                          /\ k.left \in 0..budget
                          /\ k.messages = {} => k.left = budget
           A == {m \in 0..N : Right(kept[m], m)}
<1>3. 0 \in A
  BY <1>2 DEF Loops
<1>4. ASSUME NEW m \in 1..N, m - 1 \in A PROVE m \in A
  <2>1. Right(kept[m - 1], m - 1)
    BY <1>4
  <2>2. CASE m \notin selected
    <3>1. kept[m] = kept[m - 1]
      BY <1>2, <2>2 DEF Loops
    <3>2. selected \cap (1..m) = selected \cap (1..(m - 1))
      BY <2>2
    <3> QED BY <2>1, <3>1, <3>2
  <2>3. CASE m \in selected
    <3>1. kept[m] = Trimmed(selected, kept[m - 1], m)
      BY <1>2, <2>3 DEF Loops
    <3>2. selected = {m}
      BY <2>3
    <3>3. kept[m - 1].messages = {} /\ kept[m - 1].left = budget
      BY <2>1, <3>2
    <3>4. Max(selected) = m
      <4>1. m \in Int /\ m <= m /\ m..m = {m}
        OBVIOUS
      <4>2. Max(m..m) = m
        BY <4>1, MaxOfInterval
      <4> QED BY <3>2, <4>1, <4>2
    <3>5. PICK size \in Nat : size = messages[m]
      BY <1>1, MessageTyped
    <3>6. Max({0, budget}) = budget /\ Max({MinRecent, budget}) = budget
      <4>1. 0 \in Int /\ MinRecent \in Int /\ budget \in Int
        BY ContextAssumption
      <4>2. Max({0, budget}) \in {0, budget} /\ Max({0, budget}) >= budget
        BY <4>1, MaxOfTwo
      <4>3. Max({MinRecent, budget}) \in {MinRecent, budget} /\ Max({MinRecent, budget}) >= budget
        BY <4>1, MaxOfTwo
      <4> QED BY <4>1, <4>2, <4>3
    <3>7. PICK cut \in 0..budget : cut = Min({size, budget})
      <4>1. size \in Int /\ budget \in Int
        OBVIOUS
      <4>2. Min({size, budget}) \in {size, budget} /\ Min({size, budget}) <= budget
        BY <4>1, MaxOfTwo
      <4>3. Min({size, budget}) \in 0..budget
        BY <4>2
      <4> QED BY <4>3
    <3>8. PICK used \in 0..budget : kept[m] = [messages |-> {m}, left |-> budget - used]
      <4>1. CASE size <= budget
        <5>1. size \in 0..budget /\ kept[m] = [messages |-> {m}, left |-> budget - size]
          BY <3>1, <3>3, <3>5, <3>6, <4>1 DEF Trimmed
        <5> QED BY <5>1
      <4>2. CASE ~(size <= budget)
        <5>1. kept[m] = [messages |-> {m}, left |-> budget - cut]
          BY <3>1, <3>3, <3>4, <3>5, <3>6, <3>7, <4>2 DEF Trimmed
        <5> QED BY <5>1
      <4> QED BY <4>1, <4>2
    <3>9. selected \cap (1..m) = {m}
      BY <3>2
    <3>10. kept[m].messages = {m} /\ kept[m].left = budget - used /\ budget - used \in 0..budget
      BY <3>8
    <3>11. Right(kept[m], m)
      BY <3>9, <3>10
    <3> HIDE DEF Right
    <3> QED BY <3>11
  <2> QED BY <2>2, <2>3
<1> HIDE DEF A
<1>5. N \in A
  <2>1. \A m \in 0..N : m \in A
    BY <1>3, <1>4, StepByStep
  <2> QED BY <2>1
<1>6. selected \cap (1..N) = selected
  BY <1>1
<1> QED BY <1>2, <1>5, <1>6 DEF A

-----------------------------------------------------------------------------
(* The selection *)

\* The last n of an interval.
LEMMA LastOfInterval ==
  ASSUME NEW lo \in Nat, NEW hi \in Nat, NEW n \in Nat, n <= hi - lo + 1
  PROVE  LastOf(lo..hi, n) = (hi - n + 1)..hi
<1>1. ASSUME NEW m \in lo..hi
      PROVE  Cardinality({q \in lo..hi : q > m}) = hi - m
  <2>1. {q \in lo..hi : q > m} = (m + 1)..hi
    OBVIOUS
  <2>2. Cardinality((m + 1)..hi) = IF m + 1 > hi THEN 0 ELSE hi - (m + 1) + 1
    BY FS_Interval
  <2>3. m <= hi /\ m \in Int
    OBVIOUS
  <2>4. Cardinality((m + 1)..hi) = hi - m
    BY <2>2, <2>3
  <2> QED BY <2>1, <2>4
<1> QED BY <1>1 DEF LastOf

\* What is selected are the last messages, at least one, no more than the limit,
\* and more than one only if the budget has room for them all.
LEMMA SelectedLast ==
  ASSUME NEW lo \in Nat, NEW hi \in Nat, lo <= hi + 1, NEW budget
  PROVE  \E n \in Nat :
           /\ n <= hi - lo + 1 /\ n <= RecentLimit
           /\ lo <= hi => n # 0
           /\ Selected(lo..hi, budget) = (hi - n + 1)..hi
           /\ n > 1 => Tokens(Selected(lo..hi, budget)) <= budget
<1>1. PICK size \in Nat : size = hi - lo + 1 /\ Cardinality(lo..hi) = size
  <2>1. Cardinality(lo..hi) = IF lo > hi THEN 0 ELSE hi - lo + 1
    BY FS_Interval
  <2> QED BY <2>1
<1>2. PICK most \in Nat : most = Min({RecentLimit, size}) /\ most <= RecentLimit
                          /\ most <= size /\ most \in {RecentLimit, size}
  <2>1. RecentLimit \in Int /\ RecentLimit \in Nat
    BY ContextAssumption
  <2> QED BY <2>1, MaxOfTwo
<1> DEFINE takes == {n \in 0..most : \A k \in 1..n : Joins(lo..hi, k, budget)}
<1>3. PICK n : n = Max(takes)
  OBVIOUS
<1>4. n \in takes /\ \A k \in takes : k <= n
  <2>1. takes \in SUBSET Nat /\ 0 \in takes /\ \A k \in takes : k <= most
    OBVIOUS
  <2> HIDE DEF takes
  <2> QED BY <1>3, <2>1, MaxNumber
<1>5. Selected(lo..hi, budget) = LastOf(lo..hi, n)
  BY <1>1, <1>2, <1>3 DEF Selected
<1>6. Selected(lo..hi, budget) = (hi - n + 1)..hi
  BY <1>1, <1>2, <1>4, <1>5, LastOfInterval
<1>7. lo <= hi => n # 0
  <2>1. 1 \in 1..1 /\ Joins(lo..hi, 1, budget)
    BY DEF Joins
  <2>2. lo <= hi => 1 \in takes
    BY <1>1, <1>2, <2>1, ContextAssumption
  <2> QED BY <1>4, <2>2
<1>8. n > 1 => Tokens(Selected(lo..hi, budget)) <= budget
  <2>1. n > 1 => Joins(lo..hi, n, budget) /\ n # 1
    BY <1>4
  <2> QED BY <1>5, <2>1 DEF Joins
<1> QED BY <1>1, <1>2, <1>4, <1>6, <1>7, <1>8
\* The budget for the last messages never falls below its minimum.
LEMMA BudgetBounds ==
  ASSUME TypeOK, NEW r \in Run, turn[r].message \in 1..Len(messages),
         NEW memory \in MemoryTokens
  PROVE  RecentBudget(r, memory) \in Nat /\ MinRecent <= RecentBudget(r, memory)
<1>1. /\ MinRecent \in Nat \ {0} /\ SummaryMax \in Int /\ SummaryFloor \in Int
      /\ InputBudget \in Int /\ memory \in Int
  BY ContextAssumption
<1>2. messages[turn[r].message] \in Int
  BY MessageTyped DEF TypeOK
<1>3. PICK history \in Int : history = HistoryBudget(r, memory)
  <2> DEFINE raw == InputBudget - messages[turn[r].message] - memory
  <2>1. MinRecent \in Int /\ raw \in Int
    BY <1>1, <1>2
  <2>2. Max({MinRecent, raw}) \in {MinRecent, raw}
    BY <2>1, MaxOfTwo
  <2>3. Max({MinRecent, raw}) \in Int
    BY <2>1, <2>2
  <2> QED BY <2>3 DEF HistoryBudget
<1>4. SummaryBudget(r, memory) \in Int
  <2>1. history \div 3 \in Int
    OBVIOUS
  <2>2. PICK most \in Int : most = Max({SummaryFloor, history \div 3})
    BY <1>1, <2>1, MaxOfTwo
  <2>3. Min({SummaryMax, most}) \in {SummaryMax, most}
    BY <1>1, <2>2, MaxOfTwo
  <2>4. Min({SummaryMax, most}) \in Int
    BY <1>1, <2>3
  <2>5. SummaryBudget(r, memory) \in {0, Min({SummaryMax, most})}
    BY <1>3, <2>2 DEF SummaryBudget
  <2> QED BY <2>4, <2>5
<1>5. PICK rest \in Int : rest = HistoryBudget(r, memory) - SummaryBudget(r, memory)
  BY <1>3, <1>4
<1>6. Max({MinRecent, rest}) \in {MinRecent, rest} /\ Max({MinRecent, rest}) >= MinRecent
  <2>1. MinRecent \in Int
    BY <1>1
  <2> QED BY <2>1, MaxOfTwo
<1> QED BY <1>1, <1>5, <1>6 DEF RecentBudget

\* What a preparation does: of the lo..hi before the message that are not known
\* to be summarised, the last become the history, and lo..cut the summary.
Prepares(r, lo, hi, cut, budget, left) ==
  /\ turn[r].message = hi + 1 /\ hi < Len(messages)
  /\ lo = IF cursor \in 1..hi THEN cursor + 1 ELSE 1
  /\ lo <= cut + 1 /\ cut <= hi /\ hi - cut <= RecentLimit
  /\ lo <= hi => cut < hi
  /\ left <= budget
  /\ cursor' = IF lo <= cut THEN cut ELSE cursor
  /\ merged' = [m \in Position |-> IF m \in lo..cut THEN Min({2, merged[m] + 1})
                                                   ELSE merged[m]]
  /\ context' = [message |-> hi + 1, history |-> (cut + 1)..hi,
                 tokens |-> budget - left, budget |-> budget,
                 summary |-> {m \in Position : merged'[m] > 0}]
  /\ inOrder' = (inOrder /\ hi + 1 >= context.message)
  /\ UNCHANGED <<messages, turn>>

LEMMA PrepareMeans ==
  ASSUME IInv, NEW r \in Run, NEW memory \in MemoryTokens, Prepare(r, memory)
  PROVE  \E lo \in Nat \ {0}, hi, cut, budget, left \in Nat :
           Prepares(r, lo, hi, cut, budget, left)
<1>1. TypeOK /\ messages \in Seq(Nat) /\ cursor \in Nat
  BY DEF IInv, TypeOK
<1>2. turn[r].message \in 1..Len(messages)
  <2>1. turn[r].message \in Nat /\ turn[r].message # 0
    BY DEF IInv, TypeOK, Prepare
  <2>2. turn[r].message <= Len(messages) /\ Len(messages) \in Nat
    BY <1>1 DEF IInv, Referring
  <2> QED BY <2>1, <2>2
<1>3. PICK hi \in Nat : turn[r].message = hi + 1 /\ hi < Len(messages)
  <2>1. PICK message \in 1..Len(messages) : message = turn[r].message
    BY <1>2
  <2>2. message - 1 \in Nat /\ message = (message - 1) + 1 /\ message - 1 < Len(messages)
    BY <1>1, <2>1
  <2> QED BY <2>1, <2>2
<1>4. PICK lo \in Nat \ {0} : lo = IF cursor \in 1..hi THEN cursor + 1 ELSE 1
  BY <1>1
<1>5. lo <= hi + 1 /\ Unsummarised(r) = lo..hi
  <2>1. Previous(r) = 1..hi
    BY <1>3 DEF Previous
  <2>2. lo <= hi + 1
    BY <1>1, <1>4
  <2>3. CASE cursor \in 1..hi
    <3>1. (1..hi) \ (1..cursor) = lo..hi
      BY <1>1, <1>4, <2>3
    <3> QED BY <2>1, <2>2, <2>3, <3>1 DEF Unsummarised
  <2>4. CASE cursor \notin 1..hi
    BY <1>4, <2>1, <2>2, <2>4 DEF Unsummarised
  <2> QED BY <2>3, <2>4
<1>6. PICK budget \in Nat : budget = RecentBudget(r, memory) /\ MinRecent <= budget
  BY <1>1, <1>2, BudgetBounds
<1>7. PICK n \in Nat :
        /\ n <= hi - lo + 1 /\ n <= RecentLimit
        /\ lo <= hi => n # 0
        /\ Selected(lo..hi, budget) = (hi - n + 1)..hi
        /\ n > 1 => Tokens(Selected(lo..hi, budget)) <= budget
  BY <1>4, <1>5, SelectedLast
<1>8. PICK cut \in Nat : cut = hi - n
  BY <1>4, <1>7
<1>9. PICK selected : selected = Selected(Unsummarised(r), budget) /\ selected = (cut + 1)..hi
  BY <1>5, <1>7, <1>8
<1>10. Unsummarised(r) \ selected = lo..cut
  BY <1>4, <1>5, <1>7, <1>8, <1>9
<1>11. /\ History(selected, budget).messages = selected
       /\ History(selected, budget).left \in 0..budget
  <2>1. selected \in SUBSET (1..Len(messages))
    BY <1>1, <1>3, <1>9
  <2>2. CASE n > 1
    <3>1. Tokens(selected) <= budget
      BY <1>5, <1>7, <1>9, <2>2
    <3> QED BY <1>1, <2>1, <3>1, FittingKept
  <2>3. CASE ~(n > 1)
    <3>1. selected \subseteq {hi}
      BY <1>8, <1>9, <2>3
    <3> QED BY <1>1, <1>6, <2>1, <3>1, LonelyKept
  <2> QED BY <2>2, <2>3
<1>12. PICK left \in Nat : left = History(selected, budget).left /\ left <= budget
  BY <1>11
<1>13. cursor' = IF lo <= cut THEN cut ELSE cursor
  <2>1. cursor' = IF lo..cut = {} THEN cursor ELSE Max(lo..cut)
    BY <1>6, <1>9, <1>10 DEF Prepare, Through
  <2>2. CASE lo <= cut
    <3>1. Max(lo..cut) = cut /\ lo..cut # {}
      <4>1. lo \in Int /\ cut \in Int
        OBVIOUS
      <4>2. Max(lo..cut) = cut
        BY <2>2, <4>1, MaxOfInterval
      <4> QED BY <2>2, <4>2
    <3> QED BY <2>1, <2>2, <3>1
  <2>3. CASE ~(lo <= cut)
    BY <2>1, <2>3
  <2> QED BY <2>2, <2>3
<1>14. merged' = [m \in Position |-> IF m \in lo..cut THEN Min({2, merged[m] + 1})
                                                      ELSE merged[m]]
  BY <1>6, <1>9, <1>10 DEF Prepare
<1>15. context' = [message |-> hi + 1, history |-> (cut + 1)..hi,
                   tokens |-> budget - left, budget |-> budget,
                   summary |-> {m \in Position : merged'[m] > 0}]
  BY <1>3, <1>6, <1>9, <1>11, <1>12 DEF Prepare
<1>16. /\ inOrder' = (inOrder /\ hi + 1 >= context.message)
       /\ UNCHANGED <<messages, turn>>
  BY <1>3 DEF Prepare
<1>17. /\ lo <= cut + 1 /\ cut <= hi /\ hi - cut <= RecentLimit
       /\ lo <= hi => cut < hi
  BY <1>4, <1>7, <1>8
<1>18. Prepares(r, lo, hi, cut, budget, left)
  BY <1>3, <1>4, <1>12, <1>13, <1>14, <1>15, <1>16, <1>17 DEF Prepares
<1> QED BY <1>18
-----------------------------------------------------------------------------
(* The invariant is inductive *)

\* Runs are finitely many.
LEMMA FiniteRuns ==
  /\ IsFiniteSet(Begun) /\ IsFiniteSet(Unanswered)
  /\ Cardinality(Begun) \in Nat /\ Cardinality(Unanswered) \in Nat
<1>1. IsFiniteSet(Run)
  <2>1. 1 \in Int /\ MaxTurns \in Int
    BY ContextAssumption
  <2> QED BY <2>1, FS_Interval DEF Run
<1>2. Begun \in SUBSET Run /\ Unanswered \in SUBSET Run
  BY DEF Begun, Unanswered
<1>3. IsFiniteSet(Begun) /\ IsFiniteSet(Unanswered)
  BY <1>1, <1>2, FS_Subset
<1> QED BY <1>3, FS_CardinalityType

\* There are no more messages than the model has positions.
LEMMA Room ==
  ASSUME IInv
  PROVE  Len(messages) \in Nat /\ Len(messages) <= 2 * MaxTurns
<1>1. IsFiniteSet(Run) /\ Cardinality(Run) = MaxTurns
  <2>1. 1 \in Int /\ MaxTurns \in Int /\ MaxTurns \in Nat /\ MaxTurns >= 1
    BY ContextAssumption
  <2>2. IsFiniteSet(1..MaxTurns)
        /\ Cardinality(1..MaxTurns) = IF 1 > MaxTurns THEN 0 ELSE MaxTurns - 1 + 1
    BY <2>1, FS_Interval
  <2> QED BY <2>1, <2>2 DEF Run
<1>2. Cardinality(Begun) <= Cardinality(Run)
  <2>1. Begun \in SUBSET Run
    BY DEF Begun
  <2> QED BY <1>1, <2>1, FS_Subset
<1>3. Len(messages) \in Nat /\ MaxTurns \in Nat
  BY ContextAssumption DEF IInv, TypeOK
<1>4. Len(messages) + Cardinality(Unanswered) <= 2 * Cardinality(Begun)
  BY DEF IInv, Referring
<1> QED BY <1>1, <1>2, <1>3, <1>4, FiniteRuns

\* What is no Run's preparation leaves what was prepared as it is.
LEMMA ContextStays ==
  ASSUME IInv, UNCHANGED <<cursor, merged, context, inOrder>>
  PROVE  /\ SummaryReaches' /\ CursorParts' /\ NothingVanishes' /\ HistoryFits'
         /\ PromisesInOrder'
<1>1. SummaryReaches' /\ CursorParts'
  BY DEF IInv, SummaryReaches, CursorParts
<1>2. Before' = Before
  BY DEF Before
<1>3. NothingVanishes' /\ HistoryFits'
  BY <1>2 DEF IInv, NothingVanishes, HistoryFits
<1>4. PromisesInOrder'
  BY <1>2 DEF IInv, PromisesInOrder, LatestKept, SummarisedOnce, ContextIsPast
<1> QED BY <1>1, <1>3, <1>4

LEMMA SubmitKeeps ==
  ASSUME IInv, NEW r \in Run, NEW size \in Size, Submit(r, size)
  PROVE  IInv'
<1>1. /\ messages' = Append(messages, size)
      /\ turn[r].message = 0
      /\ turn' = [turn EXCEPT ![r] = [message |-> Len(messages) + 1, open |-> TRUE]]
      /\ UNCHANGED <<cursor, merged, context, inOrder>>
  BY DEF Submit
<1>2. size \in Nat /\ messages \in Seq(Nat) /\ turn \in [Run -> [message : Nat, open : BOOLEAN]]
  BY ContextAssumption DEF IInv, TypeOK
<1>3. messages' \in Seq(Nat) /\ Len(messages') = Len(messages) + 1 /\ Len(messages) \in Nat
  BY <1>1, <1>2
<1>4. turn' \in [Run -> [message : Nat, open : BOOLEAN]]
  BY <1>1, <1>2, <1>3
<1>5. TypeOK'
  BY <1>1, <1>3, <1>4 DEF IInv, TypeOK
<1>6. ~turn[r].open
  BY <1>1 DEF IInv, Referring
<1>7. /\ turn'[r].message = Len(messages) + 1 /\ turn'[r].open
      /\ \A q \in Run : q # r => turn'[q] = turn[q]
  BY <1>1, <1>2
<1>8. Begun' = Begun \cup {r} /\ r \notin Begun
  BY <1>1, <1>3, <1>7 DEF Begun
<1>9. Unanswered' = Unanswered \cup {r} /\ r \notin Unanswered
  BY <1>6, <1>7 DEF Unanswered
<1>10. /\ Cardinality(Begun') = Cardinality(Begun) + 1
       /\ Cardinality(Unanswered') = Cardinality(Unanswered) + 1
  BY <1>8, <1>9, FiniteRuns, FS_AddElement
<1>11. Len(messages') + Cardinality(Unanswered') <= 2 * Cardinality(Begun')
  <2>1. Len(messages) + Cardinality(Unanswered) <= 2 * Cardinality(Begun)
    BY DEF IInv, Referring
  <2> QED BY <1>3, <1>10, <2>1, FiniteRuns
<1>12. ASSUME NEW q \in Run
       PROVE  turn'[q].message <= Len(messages') /\ (turn'[q].open => turn'[q].message # 0)
  <2>1. CASE q = r
    BY <1>3, <1>7, <2>1
  <2>2. CASE q # r
    <3>1. /\ turn'[q] = turn[q] /\ turn[q].message <= Len(messages) /\ turn[q].message \in Nat
          /\ turn[q].open => turn[q].message # 0
      BY <1>2, <1>7, <2>2 DEF IInv, Referring
    <3> QED BY <1>3, <3>1
  <2> QED BY <2>1, <2>2
<1>13. context'.message <= Len(messages') /\ cursor' <= Len(messages')
  <2>1. context.message \in Nat /\ cursor \in Nat
    BY DEF IInv, TypeOK, Context
  <2>2. context.message <= Len(messages) /\ cursor <= Len(messages)
    BY DEF IInv, Referring
  <2> QED BY <1>1, <1>3, <2>1, <2>2
<1>14. Referring'
  BY <1>11, <1>12, <1>13 DEF Referring
<1> QED BY <1>1, <1>5, <1>14, ContextStays DEF IInv

LEMMA FinishKeeps ==
  ASSUME IInv, NEW r \in Run, NEW answer \in {<<>>} \cup {<<size>> : size \in Size},
         Finish(r, answer)
  PROVE  IInv'
<1>1. /\ turn[r].open
      /\ turn' = [turn EXCEPT ![r].open = FALSE]
      /\ messages' = messages \o answer
      /\ UNCHANGED <<cursor, merged, context, inOrder>>
  BY DEF Finish
<1>2. messages \in Seq(Nat) /\ turn \in [Run -> [message : Nat, open : BOOLEAN]]
  BY DEF IInv, TypeOK
<1>3. answer \in Seq(Nat) /\ Len(answer) \in 0..1
  <2>1. CASE answer = <<>>
    BY <2>1
  <2>2. CASE \E size \in Size : answer = <<size>>
    <3>1. PICK size \in Nat : answer = <<size>>
      BY <2>2, ContextAssumption
    <3> QED BY <3>1
  <2> QED BY <2>1, <2>2
<1>4. /\ messages' \in Seq(Nat) /\ Len(messages) \in Nat
      /\ Len(messages') = Len(messages) \/ Len(messages') = Len(messages) + 1
  <2>1. messages' \in Seq(Nat) /\ Len(messages') = Len(messages) + Len(answer)
    BY <1>1, <1>2, <1>3
  <2>2. Len(messages) \in Nat
    BY <1>2
  <2>3. PICK more \in 0..1 : more = Len(answer)
    BY <1>3
  <2>4. Len(messages') = Len(messages) \/ Len(messages') = Len(messages) + 1
    <3>1. PICK len \in Nat : len = Len(messages)
      BY <2>2
    <3>2. len + more = len \/ len + more = len + 1
      OBVIOUS
    <3> QED BY <2>1, <2>3, <3>1, <3>2
  <2> QED BY <2>1, <2>2, <2>4
<1>5. turn' \in [Run -> [message : Nat, open : BOOLEAN]]
  BY <1>1, <1>2
<1>6. TypeOK'
  BY <1>1, <1>4, <1>5 DEF IInv, TypeOK
<1>7. /\ \A q \in Run : turn'[q].message = turn[q].message
      /\ ~turn'[r].open /\ \A q \in Run : q # r => turn'[q].open = turn[q].open
  BY <1>1, <1>2
<1>8. Begun' = Begun
  BY <1>7 DEF Begun
<1>9. Unanswered' = Unanswered \ {r} /\ r \in Unanswered
  BY <1>1, <1>7 DEF Unanswered
<1>10. Cardinality(Unanswered') = Cardinality(Unanswered) - 1
  BY <1>9, FiniteRuns, FS_RemoveElement
<1>11. Len(messages') + Cardinality(Unanswered') <= 2 * Cardinality(Begun')
  <2>1. Len(messages) + Cardinality(Unanswered) <= 2 * Cardinality(Begun)
    BY DEF IInv, Referring
  <2> QED BY <1>4, <1>8, <1>10, <2>1, FiniteRuns
<1>12. Len(messages') \in Nat /\ Len(messages) <= Len(messages')
  BY <1>4
<1>13. ASSUME NEW q \in Run
       PROVE  turn'[q].message <= Len(messages') /\ (turn'[q].open => turn'[q].message # 0)
  <2>1. /\ turn[q].message <= Len(messages) /\ turn[q].message \in Nat
        /\ turn[q].open => turn[q].message # 0
    BY <1>2 DEF IInv, Referring
  <2> QED BY <1>4, <1>7, <1>12, <2>1
<1>14. context'.message <= Len(messages') /\ cursor' <= Len(messages')
  <2>1. context.message \in Nat /\ cursor \in Nat
    BY DEF IInv, TypeOK, Context
  <2>2. context.message <= Len(messages) /\ cursor <= Len(messages)
    BY DEF IInv, Referring
  <2> QED BY <1>1, <1>4, <1>12, <2>1, <2>2
<1>15. Referring'
  BY <1>11, <1>13, <1>14 DEF Referring
<1> QED BY <1>1, <1>6, <1>15, ContextStays DEF IInv
\* The messages that go into the summary are counted.
LEMMA Merges ==
  ASSUME IInv, NEW r \in Run, NEW lo \in Nat \ {0},
         NEW hi \in Nat, NEW cut \in Nat, NEW budget \in Nat, NEW left \in Nat,
         Prepares(r, lo, hi, cut, budget, left)
  PROVE  /\ merged' \in [Position -> 0..2]
         /\ \A m \in Position : m \notin lo..cut => merged'[m] = merged[m]
         /\ \A m \in Position : m \in lo..cut => /\ merged'[m] > 0
                                                 /\ merged[m] = 0 => merged'[m] = 1
<1>1. merged \in [Position -> 0..2]
  BY DEF IInv, TypeOK
<1>2. merged' = [m \in Position |-> IF m \in lo..cut THEN Min({2, merged[m] + 1})
                                                    ELSE merged[m]]
  BY DEF Prepares
<1>3. ASSUME NEW m \in Position
      PROVE  /\ Min({2, merged[m] + 1}) \in 1..2
             /\ merged[m] = 0 => Min({2, merged[m] + 1}) = 1
  <2>1. PICK next \in 1..3 : next = merged[m] + 1
    BY <1>1
  <2>2. 2 \in Int /\ next \in Int
    OBVIOUS
  <2>3. Min({2, next}) \in {2, next} /\ Min({2, next}) <= 2 /\ Min({2, next}) <= next
    BY <2>2, MaxOfTwo
  <2>4. merged[m] = 0 => next = 1
    BY <2>1
  <2>5. Min({2, next}) \in 1..2 /\ (next = 1 => Min({2, next}) = 1)
    BY <2>2, <2>3
  <2> QED BY <2>1, <2>4, <2>5
<1>4. ASSUME NEW m \in Position, m \notin lo..cut
      PROVE  merged'[m] = merged[m] /\ merged'[m] \in 0..2
  BY <1>1, <1>2, <1>4
<1>5. ASSUME NEW m \in Position, m \in lo..cut
      PROVE  /\ merged'[m] \in 0..2 /\ merged'[m] > 0
             /\ merged[m] = 0 => merged'[m] = 1
  <2>1. merged'[m] = Min({2, merged[m] + 1})
    BY <1>2, <1>5
  <2>2. Min({2, merged[m] + 1}) \in 1..2
    BY <1>3
  <2>3. merged'[m] \in 0..2 /\ merged'[m] > 0
    BY <2>1, <2>2
  <2> QED BY <1>3, <2>1, <2>3
<1>6. merged' \in [Position -> 0..2]
  <2>1. \A m \in Position : merged'[m] \in 0..2
    BY <1>4, <1>5
  <2> QED BY <1>2, <2>1
<1> QED BY <1>4, <1>5, <1>6

LEMMA PreparesKeeps ==
  ASSUME IInv, NEW r \in Run, NEW lo \in Nat \ {0},
         NEW hi \in Nat, NEW cut \in Nat, NEW budget \in Nat, NEW left \in Nat,
         Prepares(r, lo, hi, cut, budget, left)
  PROVE  IInv'
<1>1. /\ turn[r].message = hi + 1 /\ hi < Len(messages)
      /\ lo = IF cursor \in 1..hi THEN cursor + 1 ELSE 1
      /\ lo <= cut + 1 /\ cut <= hi /\ hi - cut <= RecentLimit
      /\ lo <= hi => cut < hi
      /\ left <= budget
      /\ cursor' = IF lo <= cut THEN cut ELSE cursor
      /\ context' = [message |-> hi + 1, history |-> (cut + 1)..hi,
                     tokens |-> budget - left, budget |-> budget,
                     summary |-> {m \in Position : merged'[m] > 0}]
      /\ inOrder' = (inOrder /\ hi + 1 >= context.message)
      /\ UNCHANGED <<messages, turn>>
  BY DEF Prepares
<1>2. /\ cursor \in Nat /\ context.message \in Nat /\ inOrder \in BOOLEAN
      /\ merged \in [Position -> 0..2]
  BY DEF IInv, TypeOK, Context
<1>3. Len(messages) \in Nat /\ Len(messages) <= 2 * MaxTurns /\ MaxTurns \in Nat
  BY Room, ContextAssumption
<1>4. 1..hi \subseteq Position
  BY <1>1, <1>3 DEF Position
<1>5. /\ merged' \in [Position -> 0..2]
      /\ \A m \in Position : m \notin lo..cut => merged'[m] = merged[m]
      /\ \A m \in Position : m \in lo..cut => /\ merged'[m] > 0
                                              /\ merged[m] = 0 => merged'[m] = 1
  BY Merges
<1>6. Before' = 1..hi
  <2>1. context'.message = hi + 1
    BY <1>1
  <2> QED BY <2>1 DEF Before
<1>7. TypeOK'
  <2>1. context' \in Context
    BY <1>1 DEF Context
  <2>2. cursor' \in Nat /\ inOrder' \in BOOLEAN
    BY <1>1, <1>2
  <2> QED BY <1>1, <1>5, <2>1, <2>2 DEF IInv, TypeOK
<1>8. Referring'
  <2>1. context'.message <= Len(messages')
    BY <1>1, <1>3
  <2>2. cursor' <= Len(messages')
    BY <1>1, <1>2, <1>3 DEF IInv, Referring
  <2>3. Begun' = Begun /\ Unanswered' = Unanswered
    BY <1>1 DEF Begun, Unanswered
  <2> QED BY <1>1, <2>1, <2>2, <2>3 DEF IInv, Referring
<1>9. ASSUME NEW m \in Position, m <= cut PROVE merged'[m] > 0
  <2>1. m \in Nat \ {0}
    BY <1>3 DEF Position
  <2>2. CASE m \in lo..cut
    BY <1>5, <2>2
  <2>3. CASE m \notin lo..cut
    <3>1. m <= cursor
      BY <1>1, <1>2, <1>9, <2>1, <2>3
    <3> QED BY <1>5, <2>3, <3>1 DEF IInv, SummaryReaches
  <2> QED BY <2>2, <2>3
<1>10. SummaryReaches'
  <2> SUFFICES ASSUME NEW m \in Position, m <= cursor' PROVE merged'[m] > 0
    BY DEF SummaryReaches
  <2>1. CASE lo <= cut
    BY <1>1, <1>9, <2>1
  <2>2. CASE ~(lo <= cut)
    <3>1. m <= cursor /\ m \notin lo..cut
      BY <1>1, <2>2
    <3> QED BY <1>5, <3>1 DEF IInv, SummaryReaches
  <2> QED BY <2>1, <2>2
<1>11. NothingVanishes'
  <2>1. ASSUME NEW m \in 1..hi PROVE m \in context'.history \cup context'.summary
    <3>1. m \in Position
      BY <1>4
    <3>2. CASE m <= cut
      BY <1>1, <1>9, <3>1, <3>2
    <3>3. CASE ~(m <= cut)
      BY <1>1, <3>3
    <3> QED BY <3>2, <3>3
  <2> QED BY <1>6, <2>1 DEF NothingVanishes
<1>12. HistoryFits'
  <2>1. context'.tokens <= context'.budget
    BY <1>1
  <2>2. cut + 1 \in Int /\ hi \in Int
    OBVIOUS
  <2>3. Cardinality((cut + 1)..hi) = IF cut + 1 > hi THEN 0 ELSE hi - (cut + 1) + 1
    BY <2>2, FS_Interval
  <2>4. Cardinality((cut + 1)..hi) = hi - cut
    <3>1. cut <= hi
      BY <1>1
    <3>2. (IF cut + 1 > hi THEN 0 ELSE hi - (cut + 1) + 1) = hi - cut
      BY <3>1
    <3> QED BY <2>3, <3>2
  <2> QED BY <1>1, <2>1, <2>4 DEF HistoryFits
<1>13. ASSUME inOrder'
       PROVE  /\ lo = cursor + 1 /\ lo <= hi + 1 /\ (hi # 0 => lo <= hi)
              /\ \A m \in Position : merged[m] = IF m <= cursor THEN 1 ELSE 0
  <2>1. inOrder /\ hi + 1 >= context.message
    BY <1>1, <1>13
  <2>2. /\ cursor # 0 => cursor + 1 < context.message
        /\ \A m \in Position : merged[m] = IF m <= cursor THEN 1 ELSE 0
    BY <2>1 DEF IInv, CursorParts
  <2>3. cursor # 0 => cursor \in 1..hi /\ cursor + 1 <= hi
    BY <1>2, <2>1, <2>2
  <2> QED BY <1>1, <1>2, <2>2, <2>3
<1>14. CursorParts'
  <2> SUFFICES ASSUME inOrder'
               PROVE  /\ cursor' # 0 => cursor' + 1 < hi + 1
                      /\ \A m \in Position : merged'[m] = IF m <= cursor' THEN 1 ELSE 0
    BY <1>1 DEF CursorParts
  <2>1. cursor' # 0 => cursor' + 1 < hi + 1
    BY <1>1, <1>2, <1>13
  <2>2. ASSUME NEW m \in Position PROVE merged'[m] = IF m <= cursor' THEN 1 ELSE 0
    <3>1. m \in Nat \ {0} /\ merged[m] = IF m <= cursor THEN 1 ELSE 0
      BY <1>3, <1>13 DEF Position
    <3>2. CASE m \in lo..cut
      <4>1. merged[m] = 0 /\ m <= cursor'
        BY <1>1, <1>2, <1>13, <3>1, <3>2
      <4> QED BY <1>5, <3>2, <4>1
    <3>3. CASE m \notin lo..cut
      <4>1. merged'[m] = merged[m]
        BY <1>5, <3>3
      <4>2. m <= cursor' <=> m <= cursor
        BY <1>1, <1>2, <1>13, <3>1, <3>3
      <4> QED BY <3>1, <4>1, <4>2
    <3> QED BY <3>2, <3>3
  <2> QED BY <2>1, <2>2
<1>15. PromisesInOrder'
  <2> SUFFICES ASSUME inOrder' PROVE LatestKept' /\ SummarisedOnce' /\ ContextIsPast'
    BY DEF PromisesInOrder
  <2>1. /\ cursor' # 0 => cursor' + 1 < hi + 1
        /\ \A m \in Position : merged'[m] = IF m <= cursor' THEN 1 ELSE 0
    BY <1>1, <1>14 DEF CursorParts
  <2>2. LatestKept'
    <3> SUFFICES ASSUME hi # 0 PROVE Max(1..hi) \in (cut + 1)..hi
      BY <1>1, <1>6 DEF LatestKept
    <3>1. 1 \in Int /\ hi \in Int /\ 1 <= hi
      OBVIOUS
    <3>2. Max(1..hi) = hi
      BY <3>1, MaxOfInterval
    <3>3. cut < hi
      BY <1>1, <1>13
    <3> QED BY <3>2, <3>3
  <2>3. SummarisedOnce'
    BY <2>1 DEF SummarisedOnce
  <2>4. ContextIsPast'
    <3>1. (cut + 1)..hi \subseteq 1..hi
      OBVIOUS
    <3>2. ASSUME NEW m \in Position, merged'[m] > 0 PROVE m \in 1..hi
      <4>1. m <= cursor'
        BY <2>1, <3>2
      <4>2. m \in Nat \ {0} /\ cursor' \in Nat
        BY <1>3, <1>7 DEF Position, TypeOK
      <4>3. PICK c \in Nat : c = cursor'
        BY <4>2
      <4>4. m <= c /\ (c # 0 => c + 1 < hi + 1)
        BY <2>1, <4>1, <4>3
      <4>5. m <= c /\ c # 0 /\ c < hi
        BY <4>2, <4>4
      <4> QED BY <4>2, <4>5
    <3> QED BY <1>1, <1>6, <3>1, <3>2 DEF ContextIsPast
  <2> QED BY <2>2, <2>3, <2>4
<1> QED BY <1>7, <1>8, <1>10, <1>11, <1>12, <1>14, <1>15 DEF IInv

LEMMA InitInv == Init => IInv
<1> SUFFICES ASSUME Init PROVE IInv
  OBVIOUS
<1>1. /\ messages = <<>> /\ cursor = 0 /\ inOrder = TRUE
      /\ turn = [r \in Run |-> NoTurn] /\ merged = [m \in Position |-> 0]
      /\ context = NoContext
  BY DEF Init
<1>2. TypeOK
  <2>1. messages \in Seq(Nat)
    BY <1>1
  <2>2. context \in Context
    BY <1>1 DEF NoContext, Context
  <2>3. turn \in [Run -> [message : Nat, open : BOOLEAN]]
    BY <1>1 DEF NoTurn
  <2> QED BY <1>1, <2>1, <2>2, <2>3 DEF TypeOK
<1>3. Referring
  <2>1. Unanswered = {} /\ Begun = {}
    BY <1>1 DEF Unanswered, Begun, NoTurn
  <2>2. Cardinality(Unanswered) = 0 /\ Cardinality(Begun) = 0
    BY <2>1, FS_EmptySet
  <2>3. Len(messages) = 0
    BY <1>1
  <2>4. \A r \in Run : turn[r].message = 0 /\ ~turn[r].open
    BY <1>1 DEF NoTurn
  <2>5. context.message = 0
    BY <1>1 DEF NoContext
  <2> QED BY <1>1, <2>2, <2>3, <2>4, <2>5 DEF Referring
<1>4. \A m \in Position : m > 0
  <2>1. MaxTurns \in Nat
    BY ContextAssumption
  <2> QED BY <2>1 DEF Position
<1>5. SummaryReaches /\ CursorParts
  <2>1. \A m \in Position : ~(m <= 0)
    <3>1. \A m \in Position : m \in Nat
      BY ContextAssumption DEF Position
    <3> QED BY <1>4, <3>1
  <2> QED BY <1>1, <2>1 DEF SummaryReaches, CursorParts
<1>6. Before = {}
  BY <1>1 DEF Before, NoContext
<1>7. NothingVanishes /\ LatestKept
  BY <1>6 DEF NothingVanishes, LatestKept
<1>8. HistoryFits
  <2>1. context.tokens = 0 /\ context.budget = 0 /\ context.history = {}
    BY <1>1 DEF NoContext
  <2> QED BY <2>1, FS_EmptySet, ContextAssumption DEF HistoryFits
<1>9. SummarisedOnce /\ ContextIsPast
  BY <1>1 DEF SummarisedOnce, ContextIsPast, NoContext
<1> QED BY <1>2, <1>3, <1>5, <1>7, <1>8, <1>9 DEF IInv, PromisesInOrder

LEMMA NextInv == IInv /\ [Next]_vars => IInv'
<1> SUFFICES ASSUME IInv, [Next]_vars PROVE IInv'
  OBVIOUS
<1>1. ASSUME NEW r \in Run, NEW memory \in MemoryTokens, Prepare(r, memory) PROVE IInv'
  BY <1>1, PrepareMeans, PreparesKeeps
<1>2. ASSUME Next PROVE IInv'
  BY <1>1, <1>2, SubmitKeeps, FinishKeeps DEF Next
<1>3. ASSUME UNCHANGED vars PROVE IInv'
  <2>1. TypeOK'
    BY <1>3 DEF vars, IInv, TypeOK
  <2>2. Referring'
    BY <1>3 DEF vars, IInv, Referring, Begun, Unanswered
  <2>3. UNCHANGED <<cursor, merged, context, inOrder>>
    BY <1>3 DEF vars
  <2> QED BY <2>1, <2>2, <2>3, ContextStays DEF IInv
<1> QED BY <1>2, <1>3

-----------------------------------------------------------------------------
(* Theorems *)

\* The invariant of a session: cursor, summary and the context prepared last.
THEOREM ContextSafe == Spec => []IInv
<1> QED BY InitInv, NextInv, PTL DEF Spec

\* Each message before a Run's own is in its history or has gone into the
\* summary, in whatever order, how often and by whom Runs were prepared.
THEOREM NothingIsLost == Spec => []NothingVanishes
<1>1. IInv => NothingVanishes
  BY DEF IInv
<1> QED BY <1>1, ContextSafe, PTL

\* The history keeps to its budget and its number of messages for messages of
\* any size and all settings: the loop that truncates skips nothing of what the
\* loop that selects has chosen.
THEOREM HistoryAlwaysFits == Spec => []HistoryFits
<1>1. IInv => HistoryFits
  BY DEF IInv
<1> QED BY <1>1, ContextSafe, PTL

\* As long as Runs are prepared in the order of their messages, retries
\* included, the latest message is in the history, no message is summarised
\* twice, and nothing later than the Run's message is in its context.
THEOREM PromisesKept == Spec => []PromisesInOrder
<1>1. IInv => PromisesInOrder
  BY DEF IInv
<1> QED BY <1>1, ContextSafe, PTL
=============================================================================
