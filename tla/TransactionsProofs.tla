------------------------- MODULE TransactionsProofs -------------------------
(***************************************************************************)
(* TLAPS proofs about Transactions, for any number of connections: which   *)
(* transactions can deadlock (OnlyDeletionsDeadlock), and that whatever    *)
(* the transactions do between one another is a behaviour of the atomic    *)
(* queue (ImplementsStore), so that every theorem about RunStore holds of  *)
(* the database too.                                                       *)
(*                                                                         *)
(* The refinement rests on one idea: what a transaction has decided is     *)
(* still what it would decide now.  Decided is kept by the commits of      *)
(* others, because they lock what the decision was read from, and by the   *)
(* passing of time, because a version and the row it was made from age     *)
(* alike.                                                                  *)
(***************************************************************************)
EXTENDS Transactions, RunStoreProofs

-----------------------------------------------------------------------------
(* The inductive invariant *)

\* Both modes in which a Run is locked exclude one another.
RunLocked(t, r) ==
  \E mode \in {"update", "no key update"} : Lock(RunRow(r), mode) \in t.locks
OnlyRuns(t) == \A lock \in t.locks : lock.row[1] = "run"

\* What a transaction on one Run may make of its row when it has been open for
\* age.
Decides(row, new, age) ==
  \/ CancelChanges(row) /\ new = CancelAsked(row)
  \/ \E w \in Worker : Renewable(row, w, age) /\ new = [row EXCEPT !.lease = LeaseTicks - age]
  \/ \E w \in Worker :
       /\ Owns(row, w, age)
       /\ \/ /\ Len(row.events) < MaxEvents
             /\ \E type \in ProgressEvent : new = Logged(row, type)
          \/ new = Completed(row)
          \/ \E code \in WorkerError, retryable \in BOOLEAN, stall \in 0..age :
               /\ code = "RUN_CANCELLED" => row.cancel_requested
               /\ new = Failed(row, code, retryable, stall)

\* The decisions a transaction commits: none, ...
DecidesNothing(t) == DOMAIN t.writes = {} /\ t.target = NoTarget

\* ... enqueue_message, ...
Inserts(t, s, r) ==
  /\ Lock(SessionRow(s), "update") \in t.locks
  /\ run[r].status = "ABSENT"
  /\ \A q \in InSession(s) : q < r
  /\ DOMAIN t.writes = {r}
  /\ \E previous \in InSession(s) \cup {0} :
       Replaces(s, previous) /\ t.writes[r] = NewRun(s, previous)
DecidesInsertion(t) ==
  t.target = NoTarget /\ \E s \in sessions, r \in Run : Inserts(t, s, r)

\* ... delete_session, ...
DecidesDeletion(t) ==
  /\ t.target \in sessions
  /\ Lock(SessionRow(t.target), "update") \in t.locks
  /\ DOMAIN t.writes = InSession(t.target)
  /\ \A r \in DOMAIN t.writes : t.writes[r] = NoRow("DELETED")

\* ... one of those on one Run, ...
DecidesWork(t) ==
  /\ t.target = NoTarget
  /\ \E r \in Run : DOMAIN t.writes = {r} /\ Decides(run[r], t.writes[r], t.age)

\* ... or claim_next_run, which may have picked nothing (0).
Sweeps(t, rows) ==
  /\ Cardinality(rows) <= SweepLimit
  /\ \A r \in rows : Sweepable(run[r]) /\ t.writes[r] = Swept(run[r])
Picks(t, pick, w) ==
  /\ Claimable(run[pick])
  /\ \E stall \in 0..t.age : t.writes[pick] = ClaimedBy(run[pick], w, stall)
DecidesClaim(t) ==
  /\ t.target = NoTarget
  /\ \E w \in Worker, pick \in DOMAIN t.writes \cup {0} :
       /\ pick # 0 => Picks(t, pick, w)
       /\ Sweeps(t, DOMAIN t.writes \ {pick})

\* A Run becomes a success only under a lock on its session.
SuccessLocked(t) ==
  \A r \in DOMAIN t.writes : t.writes[r].status = "SUCCEEDED" =>
    Lock(SessionRow(run[r].session), "no key update") \in t.locks

Completes(t) ==
  /\ t.target \in Run
  /\ DOMAIN t.writes = {t.target}
  /\ \E w \in Worker : Owns(run[t.target], w, t.age)
  /\ t.writes[t.target] = Completed(run[t.target])

\* How far a transaction has come.
Progresses(t) ==
  \/ t = NoTxn
  \/ /\ t.next = "cascade"
     /\ DOMAIN t.writes = {}
     /\ t.target \in Run /\ Present(run[t.target])
     /\ run[t.target].session \in sessions
     /\ Lock(SessionRow(run[t.target].session), "update") \in t.locks
  \/ /\ t.next = "cancel"
     /\ DOMAIN t.writes = {} /\ t.target \in Run
     /\ Lock(RunRow(t.target), "update") \in t.locks /\ OnlyRuns(t)
  \/ /\ t.next = "claim"
     /\ t.target = NoTarget /\ t.worker \in Worker /\ Sweeps(t, DOMAIN t.writes)
  \/ /\ t.next = "renew"
     /\ DOMAIN t.writes = {} /\ t.locks = {} /\ t.target \in Run /\ t.worker \in Worker
  \/ t.next = "insert" /\ Completes(t) /\ OnlyRuns(t)
  \/ /\ t.next = "touch" /\ Completes(t)
     /\ \A lock \in t.locks : lock.row[1] = "run" \/ lock.mode = "key share"
  \/ /\ t.next = "commit" /\ SuccessLocked(t)
     /\ \/ DecidesNothing(t) \/ DecidesInsertion(t) \/ DecidesDeletion(t)
        \/ DecidesWork(t) \/ DecidesClaim(t)

TxnOK(t) ==
  /\ t = [next |-> t.next, target |-> t.target, worker |-> t.worker,
          locks |-> t.locks, writes |-> t.writes, age |-> t.age]
  /\ t.age \in 0..MaxStall
  /\ DOMAIN t.writes \subseteq Run
  /\ \A r \in DOMAIN t.writes : run[r].status = "ABSENT" \/ RunLocked(t, r)
  /\ Progresses(t)

\* Two transactions hold no conflicting locks and write no common row.
Apart(t, u) ==
  /\ \A lock \in t.locks, other \in u.locks :
       lock.row = other.row => ~Conflict(lock.mode, other.mode)
  /\ DOMAIN t.writes \cap DOMAIN u.writes = {}

TxnInv ==
  /\ DOMAIN txn = Conn
  /\ \A c \in Conn : TxnOK(txn[c])
  /\ \A c, d \in Conn : c # d => Apart(txn[c], txn[d])

-----------------------------------------------------------------------------
(* Locks *)

LEMMA Rows ==
  /\ \A r, q : RunRow(r) = RunRow(q) => r = q
  /\ \A s, t : SessionRow(s) = SessionRow(t) => s = t
  /\ \A r : RunRow(r)[1] = "run"
  /\ \A s : SessionRow(s)[1] = "session"
BY DEF RunRow, SessionRow

LEMMA Locks ==
  \A row, mode : Lock(row, mode).row = row /\ Lock(row, mode).mode = mode
BY DEF Lock

LEMMA Conflicts ==
  ASSUME NEW mode, NEW other
  PROVE  Conflict(mode, other) <=>
           \/ mode = "update" \/ other = "update"
           \/ mode = "no key update" /\ other = "no key update"
<1>1. {mode, other} = {"no key update"} <=> mode = "no key update" /\ other = "no key update"
  OBVIOUS
<1> QED
  BY <1>1 DEF Conflict

LEMMA ApartSymmetric ==
  ASSUME NEW t, NEW u, Apart(t, u)
  PROVE  Apart(u, t)
BY Conflicts DEF Apart

LEMMA RunConflict ==
  ASSUME NEW r, NEW mode \in {"update", "no key update"},
         NEW other \in {"update", "no key update"}
  PROVE  /\ Lock(RunRow(r), mode).row = Lock(RunRow(r), other).row
         /\ Conflict(Lock(RunRow(r), mode).mode, Lock(RunRow(r), other).mode)
BY Locks, Conflicts

\* A Run is locked by one transaction only.
LEMMA OneLocks ==
  ASSUME NEW t, NEW u, NEW r, RunLocked(t, r), RunLocked(u, r),
         \A lock \in t.locks, other \in u.locks :
           lock.row = other.row => ~Conflict(lock.mode, other.mode)
  PROVE  FALSE
<1>1. PICK mode \in {"update", "no key update"} : Lock(RunRow(r), mode) \in t.locks
  BY DEF RunLocked
<1>2. PICK other \in {"update", "no key update"} : Lock(RunRow(r), other) \in u.locks
  BY DEF RunLocked
<1> QED
  BY <1>1, <1>2, RunConflict

-----------------------------------------------------------------------------
(* Deadlocks *)

\* A transaction in a circle waits, and somebody waits for it.
LEMMA Waiting ==
  ASSUME TxnInv, NEW c \in Conn, NEW d \in Conn, d \in WaitsFor(c)
  PROVE  /\ txn[c].next \in {"cascade", "cancel", "renew", "insert", "touch"}
         /\ \E lock \in Needs(c), held \in txn[d].locks :
              held.row = lock.row /\ Conflict(held.mode, lock.mode)
BY DEF WaitsFor, Needs, Blockers, At

\* It holds a lock on a session only once it answers, and then in share mode.
LEMMA WaitingHolds ==
  ASSUME TxnInv, NEW d \in Conn, NEW e \in Conn, e \in WaitsFor(d), ~At(d, "cascade"),
         NEW held \in txn[d].locks
  PROVE  /\ txn[d].next \in {"cancel", "insert", "touch"}
         /\ held.row[1] = "run" \/ (At(d, "touch") /\ held.mode = "key share")
<1>1. txn[d].next \in {"cancel", "renew", "insert", "touch"}
  BY Waiting DEF At
<1>2. Progresses(txn[d])
  BY DEF TxnInv, TxnOK
<1>3. txn[d] # NoTxn
  BY <1>1 DEF NoTxn, Txn
<1> QED
  BY <1>1, <1>2, <1>3 DEF Progresses, OnlyRuns, At

\* What such a transaction needs is its session.
LEMMA WaitingNeeds ==
  ASSUME NEW d \in Conn, txn[d].next \in {"cancel", "insert", "touch"},
         NEW lock \in Needs(d)
  PROVE  /\ lock.row[1] = "session"
         /\ At(d, "touch") => lock.mode = "no key update"
<1> DEFINE row == SessionRow(run[txn[d].target].session)
<1>1. JoinOrder(txn[d].target)[2] = row
  BY DEF JoinOrder
<1>2. row[1] = "session"
  BY Rows
<1> HIDE DEF row
<1>3. \/ lock = Lock(row, "update") /\ ~At(d, "touch")
      \/ lock = Lock(row, "key share") /\ ~At(d, "touch")
      \/ lock = Lock(row, "no key update")
  BY <1>1 DEF Needs, At, row
<1>4. \A mode : Lock(row, mode).row = row
  BY Locks
<1>5. CASE lock = Lock(row, "update") /\ ~At(d, "touch")
  BY <1>2, <1>4, <1>5
<1>6. CASE lock = Lock(row, "key share") /\ ~At(d, "touch")
  BY <1>2, <1>4, <1>6
<1>7. CASE lock = Lock(row, "no key update")
  BY <1>2, <1>4, <1>7, Locks
<1> QED
  BY <1>3, <1>5, <1>6, <1>7

\* Only the deletion of a session locks its session before its Runs.
LEMMA CirclesDelete == TxnInv => OnlyDeletionsDeadlock
<1> SUFFICES ASSUME TxnInv, NEW circle \in Circles,
                    \A i \in DOMAIN circle : ~At(circle[i], "cascade")
             PROVE  FALSE
  BY DEF OnlyDeletionsDeadlock
<1> DEFINE next(i) == 1 + (i % Len(circle))
<1>1. PICK n \in 1..Cardinality(Conn) : circle \in [1..n -> Conn]
  BY DEF Circles
<1>2. /\ n \in Nat \ {0} /\ DOMAIN circle = 1..n /\ Len(circle) = n
      /\ \A i \in 1..n : circle[i] \in Conn
  <2>1. n \in Nat \ {0}
    BY <1>1
  <2>2. circle \in Seq(Conn) /\ Len(circle) = n
    BY <1>1, <2>1
  <2> QED
    BY <1>1, <2>1, <2>2
<1>3. \A i \in 1..n : next(i) \in 1..n
  BY <1>2
<1>4. \A i \in 1..n : circle[next(i)] \in WaitsFor(circle[i]) /\ ~At(circle[i], "cascade")
  BY <1>2 DEF Circles
<1> HIDE DEF next
<1>5. ASSUME NEW i \in 1..n
      PROVE  At(circle[next(next(i))], "touch")
  <2> DEFINE c == circle[i]
             d == circle[next(i)]
             e == circle[next(next(i))]
  <2>1. /\ c \in Conn /\ d \in Conn /\ e \in Conn
        /\ d \in WaitsFor(c) /\ e \in WaitsFor(d)
        /\ circle[next(next(next(i)))] \in WaitsFor(e)
        /\ circle[next(next(next(i)))] \in Conn
        /\ ~At(d, "cascade") /\ ~At(e, "cascade")
    BY <1>2, <1>3, <1>4
  <2> HIDE DEF c, d, e
  <2>2. txn[d].next \in {"cancel", "insert", "touch"}
    BY <2>1, Waiting, WaitingHolds
  <2>3. PICK lock \in Needs(d), held \in txn[e].locks : held.row = lock.row
    BY <2>1, Waiting
  <2>4. held.row[1] = "session"
    BY <2>1, <2>2, <2>3, WaitingNeeds
  <2>5. At(e, "touch")
    BY <2>1, <2>3, <2>4, WaitingHolds
  <2> QED
    BY <2>5 DEF e
<1> DEFINE d == circle[next(next(1))]
           e == circle[next(next(next(1)))]
           f == circle[next(next(next(next(1))))]
<1>6. /\ d \in Conn /\ e \in Conn /\ f \in Conn
      /\ e \in WaitsFor(d) /\ f \in WaitsFor(e)
      /\ At(d, "touch") /\ ~At(e, "cascade")
  <2>1. 1 \in 1..n
    BY <1>2
  <2>2. /\ next(1) \in 1..n /\ next(next(1)) \in 1..n
        /\ next(next(next(1))) \in 1..n /\ next(next(next(next(1)))) \in 1..n
    BY <1>3, <2>1, Zenon
  <2>3. d \in Conn /\ e \in Conn /\ f \in Conn
    BY <1>2, <2>2, Zenon
  <2>4. /\ e \in WaitsFor(d) /\ ~At(e, "cascade")
        /\ f \in WaitsFor(e)
    BY <1>4, <2>2, Zenon
  <2>5. At(d, "touch")
    BY <1>5, <2>1, Zenon
  <2> QED
    BY <2>3, <2>4, <2>5
<1> HIDE DEF d, e, f
<1>7. PICK lock \in Needs(d), held \in txn[e].locks :
        held.row = lock.row /\ Conflict(held.mode, lock.mode)
  BY <1>6, Waiting
<1>8. lock.mode = "no key update" /\ held.row[1] = "session"
  BY <1>6, <1>7, WaitingNeeds DEF At
<1>9. held.mode = "key share"
  BY <1>6, <1>7, <1>8, WaitingHolds
<1> QED
  BY <1>7, <1>8, <1>9, Conflicts

-----------------------------------------------------------------------------
(* A transaction that goes on leaves the others alone *)

LEMMA Untouched ==
  ASSUME UNCHANGED storeVars, NEW u, TxnOK(u)
  PROVE  TxnOK(u)'
<1>1. \A s : InSession(s)' = InSession(s)
  BY DEF storeVars, InSession
<1>2. \A s, previous : NewRun(s, previous)' = NewRun(s, previous)
  BY <1>1 DEF storeVars, NewRun
<1>3. \A s, previous : Replaces(s, previous)' = Replaces(s, previous)
  BY <1>1 DEF storeVars, Replaces
<1>4. \A s, r : Inserts(u, s, r)' = Inserts(u, s, r)
  BY <1>1, <1>2, <1>3 DEF storeVars, Inserts
<1>5. Completes(u)' = Completes(u) /\ DecidesNothing(u)' = DecidesNothing(u)
  BY DEF storeVars, Completes, DecidesNothing
<1>6. DecidesInsertion(u)' = DecidesInsertion(u)
  BY <1>4 DEF storeVars, DecidesInsertion
<1>7. DecidesDeletion(u)' = DecidesDeletion(u)
  BY <1>1 DEF storeVars, DecidesDeletion
<1>8. DecidesWork(u)' = DecidesWork(u)
  BY DEF storeVars, DecidesWork
<1>9. \A rows, pick, w : Sweeps(u, rows)' = Sweeps(u, rows) /\ Picks(u, pick, w)' = Picks(u, pick, w)
  BY DEF storeVars, Sweeps, Picks
<1>10. DecidesClaim(u)' = DecidesClaim(u)
  BY <1>9 DEF storeVars, DecidesClaim
<1>11. SuccessLocked(u)' = SuccessLocked(u)
  BY DEF storeVars, SuccessLocked
<1>12. Progresses(u)' = Progresses(u)
  BY <1>5, <1>6, <1>7, <1>8, <1>9, <1>10, <1>11 DEF storeVars, Progresses
<1> QED
  BY <1>12 DEF storeVars, TxnOK

LEMMA Replaced ==
  ASSUME TxnInv, NEW c \in Conn, NEW t, TxnOK(t),
         \A d \in Conn \ {c} : Apart(t, txn[d]),
         txn' = [txn EXCEPT ![c] = t], UNCHANGED storeVars
  PROVE  TxnInv'
<1>1. DOMAIN txn' = Conn /\ \A d \in Conn : txn'[d] = IF d = c THEN t ELSE txn[d]
  BY DEF TxnInv
<1>2. (\A d \in Conn : TxnOK(txn[d]))'
  BY <1>1, Untouched DEF TxnInv
<1>3. \A d, e \in Conn : d # e => Apart(txn'[d], txn'[e])
  BY <1>1, ApartSymmetric DEF TxnInv
<1> QED
  BY <1>1, <1>2, <1>3 DEF TxnInv

\* It may have gained free locks, and versions of Runs it holds.
LEMMA StaysApart ==
  ASSUME TxnInv, NEW c \in Conn, NEW d \in Conn \ {c}, NEW t,
         \A lock \in t.locks \ txn[c].locks : Free(c, lock),
         \A r \in DOMAIN t.writes \ DOMAIN txn[c].writes :
           \/ r \notin DOMAIN txn[d].writes
           \/ run[r].status # "ABSENT" /\ RunLocked(t, r)
  PROVE  Apart(t, txn[d])
<1>1. Apart(txn[c], txn[d]) /\ TxnOK(txn[d])
  BY DEF TxnInv
<1>2. ASSUME NEW lock \in t.locks, NEW other \in txn[d].locks, lock.row = other.row
      PROVE  ~Conflict(lock.mode, other.mode)
  BY <1>1, <1>2, Conflicts DEF Apart, Free, Blockers
<1>3. ASSUME NEW r \in DOMAIN t.writes, r \in DOMAIN txn[d].writes PROVE FALSE
  <2>1. r \notin DOMAIN txn[c].writes
    BY <1>1, <1>3 DEF Apart
  <2>2. RunLocked(t, r) /\ RunLocked(txn[d], r)
    BY <1>1, <1>3, <2>1 DEF TxnOK
  <2> QED
    BY <1>2, <2>2, OneLocks
<1> QED
  BY <1>2, <1>3 DEF Apart

-----------------------------------------------------------------------------
(* A commit is a step of the queue *)

LEMMA DecidesRowWork ==
  ASSUME NEW row, RowInv(row), NEW age \in 0..MaxStall, NEW new, Decides(row, new, age)
  PROVE  RowWork(row, new)
<1>1. 0..age \subseteq 0..MaxStall
  BY StoreAssumption
<1>2. CASE CancelChanges(row) /\ new = CancelAsked(row)
  BY <1>2 DEF CancelChanges, RowWork
<1>3. ASSUME NEW w \in Worker, Renewable(row, w, age),
             new = [row EXCEPT !.lease = LeaseTicks - age]
      PROVE  RowWork(row, new)
  BY <1>3 DEF Renewable, RowWork
<1>4. ASSUME NEW w \in Worker, Owns(row, w, age) PROVE row.status = "RUNNING"
  BY <1>4 DEF Owns
<1> QED
  BY <1>1, <1>2, <1>3, <1>4 DEF Decides, RowWork

LEMMA Committed ==
  ASSUME StoreInv, TxnInv, NEW c \in Conn, Commit(c)
  PROVE  /\ SuccessLocked(txn[c])
         /\ \/ DecidesNothing(txn[c]) \/ DecidesInsertion(txn[c])
            \/ DecidesDeletion(txn[c]) \/ DecidesWork(txn[c]) \/ DecidesClaim(txn[c])
         /\ txn[c].age \in 0..MaxStall
         /\ DOMAIN txn[c].writes \subseteq Run
         /\ run' = [r \in Run |-> IF r \in DOMAIN txn[c].writes THEN txn[c].writes[r] ELSE run[r]]
         /\ \A r \in DOMAIN txn[c].writes : run'[r] = txn[c].writes[r]
         /\ \A r \in Run \ DOMAIN txn[c].writes : run'[r] = run[r]
         /\ sessions' = sessions \ {txn[c].target}
         /\ txn[c].target = NoTarget => sessions' = sessions
<1>1. TxnOK(txn[c]) /\ At(c, "commit")
  BY DEF TxnInv, Commit
<1>2. txn[c] # NoTxn
  BY <1>1 DEF At, NoTxn, Txn
<1>3. NoTarget \notin sessions
  BY TransactionAssumption DEF StoreInv
<1>4. Progresses(txn[c]) /\ DOMAIN txn[c].writes \subseteq Run
  BY <1>1 DEF TxnOK
<1>5. /\ SuccessLocked(txn[c])
      /\ \/ DecidesNothing(txn[c]) \/ DecidesInsertion(txn[c])
         \/ DecidesDeletion(txn[c]) \/ DecidesWork(txn[c]) \/ DecidesClaim(txn[c])
  BY <1>1, <1>2, <1>4 DEF Progresses, At
<1>6. /\ run' = [r \in Run |-> IF r \in DOMAIN txn[c].writes THEN txn[c].writes[r] ELSE run[r]]
      /\ sessions' = sessions \ {txn[c].target}
  BY DEF Commit
<1> QED
  BY <1>1, <1>3, <1>4, <1>5, <1>6 DEF TxnOK

LEMMA CommitNothing ==
  ASSUME StoreInv, TxnInv, NEW c \in Conn, Commit(c), DecidesNothing(txn[c])
  PROVE  UNCHANGED storeVars
<1>1. sessions' = sessions /\ run' = [r \in Run |-> run[r]]
  BY Committed DEF DecidesNothing
<1> QED
  BY <1>1 DEF StoreInv, storeVars

LEMMA CommitInsertion ==
  ASSUME StoreInv, TxnInv, NEW c \in Conn, Commit(c), DecidesInsertion(txn[c])
  PROVE  StoreNext
<1>1. PICK s \in sessions, r \in Run : Inserts(txn[c], s, r)
  BY DEF DecidesInsertion
<1>2. PICK previous \in InSession(s) \cup {0} :
        Replaces(s, previous) /\ txn[c].writes[r] = NewRun(s, previous)
  BY <1>1 DEF Inserts
<1>3. sessions' = sessions /\ s \in Session
  BY Committed DEF DecidesInsertion, StoreInv
<1>4. run' = [run EXCEPT ![r] = NewRun(s, previous)]
  <2>1. DOMAIN txn[c].writes = {r}
    BY <1>1 DEF Inserts
  <2> QED
    BY <1>2, <2>1, Committed DEF StoreInv
<1>5. Enqueue(s, r)
  BY <1>1, <1>2, <1>3, <1>4 DEF Enqueue, Inserts
<1> QED
  BY <1>3, <1>5 DEF StoreNext, ClientNext

LEMMA CommitDeletion ==
  ASSUME StoreInv, TxnInv, NEW c \in Conn, Commit(c), DecidesDeletion(txn[c])
  PROVE  StoreNext
<1> DEFINE s == txn[c].target
<1>1. run' = [r \in Run |-> IF r \in InSession(s) THEN NoRow("DELETED") ELSE run[r]]
  BY Committed DEF DecidesDeletion
<1>2. DeleteSession(s) /\ s \in Session
  BY <1>1, Committed DEF DeleteSession, DecidesDeletion, StoreInv
<1> QED
  BY <1>2 DEF StoreNext, ClientNext

LEMMA CommitWork ==
  ASSUME StoreInv, TxnInv, NEW c \in Conn, Commit(c), DecidesWork(txn[c])
  PROVE  StoreNext
<1> DEFINE age == txn[c].age
<1>1. PICK r \in Run : DOMAIN txn[c].writes = {r} /\ Decides(run[r], txn[c].writes[r], age)
  BY DEF DecidesWork
<1> DEFINE new == txn[c].writes[r]
<1>2. run' = [run EXCEPT ![r] = new] /\ UNCHANGED sessions
  BY <1>1, Committed DEF StoreInv, DecidesWork
<1>3. age \in 0..MaxStall
  BY Committed
<1> HIDE DEF new, age
<1>4. CASE CancelChanges(run[r]) /\ new = CancelAsked(run[r])
  <2>1. RequestCancellation(r)
    BY <1>2, <1>4 DEF RequestCancellation
  <2> QED
    BY <2>1 DEF StoreNext, ClientNext
<1>5. ASSUME NEW w \in Worker, Renewable(run[r], w, age),
             new = [run[r] EXCEPT !.lease = LeaseTicks - age]
      PROVE  StoreNext
  <2>1. [run EXCEPT ![r].lease = LeaseTicks - age]
          = [run EXCEPT ![r] = [run[r] EXCEPT !.lease = LeaseTicks - age]]
    OBVIOUS
  <2>2. Renew(r, w, age)
    BY <1>2, <1>5, <2>1 DEF Renew
  <2> QED
    BY <1>3, <2>2 DEF StoreNext, WorkerNext
<1>6. ASSUME NEW w \in Worker, Owns(run[r], w, age) PROVE Owns(run[r], w, MaxStall)
  <2>1. run[r].lease \in Int \cup {NoLease}
    BY StoreAssumption DEF StoreInv, Row
  <2> QED
    BY <1>3, <1>6, <2>1, StoreAssumption DEF Owns
<1>7. ASSUME NEW w \in Worker, Owns(run[r], w, age), Len(run[r].events) < MaxEvents,
             NEW type \in ProgressEvent, new = Logged(run[r], type)
      PROVE  StoreNext
  <2>1. Progress(r, w, type)
    BY <1>2, <1>6, <1>7 DEF Progress
  <2> QED
    BY <2>1 DEF StoreNext, WorkerNext
<1>8. ASSUME NEW w \in Worker, Owns(run[r], w, age), new = Completed(run[r])
      PROVE  StoreNext
  <2>1. Complete(r, w)
    BY <1>2, <1>6, <1>8 DEF Complete
  <2> QED
    BY <2>1 DEF StoreNext, WorkerNext
<1>9. ASSUME NEW w \in Worker, Owns(run[r], w, age), NEW code \in WorkerError,
             NEW retryable \in BOOLEAN, NEW stall \in 0..age,
             code = "RUN_CANCELLED" => run[r].cancel_requested,
             new = Failed(run[r], code, retryable, stall)
      PROVE  StoreNext
  <2>1. stall \in 0..MaxStall
    BY <1>3, StoreAssumption
  <2>2. Fail(r, w, code, retryable)
    BY <1>2, <1>6, <1>9, <2>1 DEF Fail
  <2> QED
    BY <2>2 DEF StoreNext, WorkerNext
<1>10. Decides(run[r], new, age)
  BY <1>1 DEF new
<1> QED
  BY <1>4, <1>5, <1>7, <1>8, <1>9, <1>10 DEF Decides

\* SKIP LOCKED sees exactly the rows that the transaction has written.
LEMMA CommitClaim ==
  ASSUME StoreInv, TxnInv, NEW c \in Conn, Commit(c), DecidesClaim(txn[c])
  PROVE  StoreNext
<1> DEFINE writes == txn[c].writes
<1>1. PICK w \in Worker, pick \in DOMAIN writes \cup {0} :
        /\ pick # 0 => Picks(txn[c], pick, w)
        /\ Sweeps(txn[c], DOMAIN writes \ {pick})
  BY DEF DecidesClaim
<1> DEFINE swept == DOMAIN writes \ {pick}
           locked == Run \ DOMAIN writes
<1>2. /\ DOMAIN writes \subseteq Run /\ 0 \notin Run
      /\ \A r \in Run : RowInv(run[r])
  BY Committed, StoreAssumption DEF Run, StoreInv
<1>3. {r \in Run \ locked : Sweepable(run[r])} = swept
  <2>1. \A r \in swept : Sweepable(run[r])
    BY <1>1 DEF Sweeps
  <2>2. pick # 0 => ~Sweepable(run[pick])
    BY <1>1, <1>2, SweepOrClaim DEF Picks
  <2> QED
    BY <1>2, <2>1, <2>2
<1>4. {r \in Run \ locked : Claimable(run[r])} = IF pick = 0 THEN {} ELSE {pick}
  <2>1. \A r \in swept : ~Claimable(run[r])
    BY <1>1, <1>2, SweepOrClaim DEF Sweeps
  <2>2. pick # 0 => Claimable(run[pick])
    BY <1>1 DEF Picks
  <2> QED
    BY <1>2, <2>1, <2>2
<1>5. PICK stall \in 0..txn[c].age :
        pick # 0 => writes[pick] = ClaimedBy(run[pick], w, stall)
  <2>1. 0 \in 0..txn[c].age
    BY Committed
  <2> QED
    BY <1>1, <2>1 DEF Picks
<1>6. stall \in 0..MaxStall
  BY Committed, StoreAssumption
<1>7. Cardinality(swept) <= SweepLimit /\ \A r \in swept : writes[r] = Swept(run[r])
  BY <1>1 DEF Sweeps
<1>8. ASSUME NEW r \in Run
      PROVE  (IF r \in DOMAIN writes THEN writes[r] ELSE run[r])
               = CASE r \in swept -> Swept(run[r])
                   [] r = pick    -> ClaimedBy(run[r], w, stall)
                   [] OTHER       -> run[r]
  <2>1. CASE r \in swept
    BY <1>7, <2>1
  <2>2. CASE r = pick
    BY <1>1, <1>2, <1>5, <2>2
  <2>3. CASE r \notin swept /\ r # pick
    BY <2>3
  <2> QED
    BY <2>1, <2>2, <2>3
<1>9. run' = [r \in Run |-> CASE r \in swept -> Swept(run[r])
                             [] r = pick    -> ClaimedBy(run[r], w, stall)
                             [] OTHER       -> run[r]]
  BY <1>8, Committed
<1>10. UNCHANGED sessions
  BY Committed DEF DecidesClaim
<1>11. locked \in SUBSET Run /\ pick \in Run \cup {0} /\ swept \in SUBSET swept
  BY <1>1, <1>2
<1> HIDE DEF swept, locked
<1> DEFINE sweepable == {r \in Run \ locked : Sweepable(run[r])}
           claimable == {r \in Run \ locked : Claimable(run[r])}
<1>12. IF claimable = {}
       THEN pick = 0
       ELSE pick \in claimable /\ \A r \in claimable : pick <= r
  <2>1. CASE pick = 0
    BY <1>4, <2>1
  <2>2. CASE pick # 0
    <3>1. pick \in Int
      BY <1>11, <2>2 DEF Run
    <3> QED
      BY <1>4, <2>2, <3>1
  <2> QED
    BY <2>1, <2>2
<1>13. \E rows \in SUBSET sweepable, age \in 0..MaxStall :
         /\ IF Cardinality(sweepable) <= SweepLimit
            THEN rows = sweepable
            ELSE Cardinality(rows) = SweepLimit
         /\ run' = [r \in Run |-> CASE r \in rows -> Swept(run[r])
                                   [] r = pick    -> ClaimedBy(run[r], w, age)
                                   [] OTHER       -> run[r]]
  <2>1. Cardinality(sweepable) <= SweepLimit
    BY <1>3, <1>7
  <2>2. swept \in SUBSET sweepable /\ swept = sweepable
    BY <1>3
  <2> HIDE DEF sweepable
  <2> QED
    BY <1>6, <1>9, <2>1, <2>2, Zenon
<1>14. Claim(w, locked, pick)
  BY <1>10, <1>12, <1>13, Zenon DEF Claim
<1> QED
  BY <1>11, <1>14 DEF StoreNext, WorkerNext

LEMMA CommitImplements ==
  ASSUME StoreInv, TxnInv, NEW c \in Conn, Commit(c)
  PROVE  [StoreNext]_storeVars
BY Committed, CommitNothing, CommitInsertion, CommitDeletion, CommitWork, CommitClaim

-----------------------------------------------------------------------------
(* The commits of others leave a decision as it is *)

\* What a step may not do to a session that a transaction has locked.
SessionKept(s) ==
  /\ s \in sessions'
  /\ InSession(s)' = InSession(s)
  /\ \A q \in InSession(s) : (run'[q].status = "SUCCEEDED") <=> (run[q].status = "SUCCEEDED")

LEMMA KeptRevision ==
  ASSUME NEW s, SessionKept(s), NEW previous, Replaces(s, previous)
  PROVE  Replaces(s, previous)' /\ NewRun(s, previous)' = NewRun(s, previous)
<1>1. InSession(s)' = InSession(s)
  BY DEF SessionKept
<1>2. {q \in InSession(s)' : run'[q].status = "SUCCEEDED"}
        = {q \in InSession(s) : run[q].status = "SUCCEEDED"}
  BY DEF SessionKept
<1>3. Replaces(s, previous)'
  BY <1>2 DEF Replaces
<1>4. NewRun(s, previous)' = NewRun(s, previous)
  BY <1>1 DEF NewRun
<1> QED
  BY <1>3, <1>4

\* A transaction whose rows and sessions stay as they are is where it was.
LEMMA Undisturbed ==
  ASSUME NEW t, TxnOK(t),
         \A r \in DOMAIN t.writes : run'[r] = run[r],
         \A s \in sessions : Lock(SessionRow(s), "update") \in t.locks => SessionKept(s)
  PROVE  TxnOK(t)'
<1>1. DecidesInsertion(t) => DecidesInsertion(t)'
  <2> SUFFICES ASSUME t.target = NoTarget, NEW s \in sessions, NEW r \in Run, Inserts(t, s, r)
               PROVE  DecidesInsertion(t)'
    BY DEF DecidesInsertion
  <2>1. SessionKept(s)
    BY DEF Inserts
  <2>2. PICK previous \in InSession(s) \cup {0} :
          Replaces(s, previous) /\ t.writes[r] = NewRun(s, previous)
    BY DEF Inserts
  <2>3. Replaces(s, previous)' /\ t.writes[r] = NewRun(s, previous)'
    BY <2>1, <2>2, KeptRevision
  <2>4. InSession(s)' = InSession(s) /\ s \in sessions'
    BY <2>1 DEF SessionKept
  <2>5. run'[r] = run[r]
    BY DEF Inserts
  <2>6. Inserts(t, s, r)'
    BY <2>2, <2>3, <2>4, <2>5 DEF Inserts
  <2> QED
    BY <2>4, <2>6 DEF DecidesInsertion
<1>2. DecidesDeletion(t) => DecidesDeletion(t)'
  BY DEF DecidesDeletion, SessionKept
<1>3. DecidesWork(t) => DecidesWork(t)'
  BY DEF DecidesWork
<1>4. ASSUME NEW rows, rows \subseteq DOMAIN t.writes, Sweeps(t, rows) PROVE Sweeps(t, rows)'
  BY <1>4 DEF Sweeps
<1>5. ASSUME NEW pick \in DOMAIN t.writes, NEW w, Picks(t, pick, w) PROVE Picks(t, pick, w)'
  BY <1>5 DEF Picks
<1>6. DecidesClaim(t) => DecidesClaim(t)'
  <2> SUFFICES ASSUME t.target = NoTarget, NEW w \in Worker, NEW pick \in DOMAIN t.writes \cup {0},
                      pick # 0 => Picks(t, pick, w), Sweeps(t, DOMAIN t.writes \ {pick})
               PROVE  DecidesClaim(t)'
    BY DEF DecidesClaim
  <2>1. Sweeps(t, DOMAIN t.writes \ {pick})' /\ (pick # 0 => Picks(t, pick, w)')
    BY <1>4, <1>5
  <2> QED
    BY <2>1 DEF DecidesClaim
<1>7. Completes(t) => Completes(t)'
  BY DEF Completes
<1>8. SuccessLocked(t) => SuccessLocked(t)'
  BY DEF SuccessLocked
<1>9. DecidesNothing(t)' = DecidesNothing(t)
  BY DEF DecidesNothing
<1>10. ASSUME t.next = "cascade", DOMAIN t.writes = {},
              t.target \in Run, Present(run[t.target]), run[t.target].session \in sessions,
              Lock(SessionRow(run[t.target].session), "update") \in t.locks
       PROVE  /\ Present(run'[t.target]) /\ run'[t.target].session \in sessions'
              /\ Lock(SessionRow(run'[t.target].session), "update") \in t.locks
  <2> PICK s \in sessions : s = run[t.target].session
    BY <1>10
  <2>1. SessionKept(s)
    BY <1>10
  <2>2. t.target \in InSession(s)
    BY <1>10 DEF InSession
  <2>3. t.target \in {r \in Run : Present(run'[r]) /\ run'[r].session = s} /\ s \in sessions'
    BY <2>1, <2>2 DEF SessionKept, InSession
  <2> QED
    BY <1>10, <2>3
<1>11. Progresses(t)
  BY DEF TxnOK
<1>12. Progresses(t)'
  BY <1>1, <1>2, <1>3, <1>4, <1>6, <1>7, <1>8, <1>9, <1>10, <1>11 DEF Progresses
<1> QED
  BY <1>12 DEF TxnOK

\* What a transaction that neither inserts nor deletes has written.
LEMMA WorkWritten ==
  ASSUME StoreInv, NEW t, TxnOK(t), NEW r \in DOMAIN t.writes,
         DecidesNothing(t) \/ DecidesWork(t) \/ DecidesClaim(t)
  PROVE  RowWork(run[r], t.writes[r])
<1>1. t.age \in 0..MaxStall /\ DOMAIN t.writes \subseteq Run
  BY DEF TxnOK
<1>2. r \in Run /\ RowInv(run[r]) /\ r # 0
  BY <1>1, StoreAssumption DEF StoreInv, Run
<1>3. CASE DecidesNothing(t)
  BY <1>3 DEF DecidesNothing
<1>4. CASE DecidesWork(t)
  <2>1. Decides(run[r], t.writes[r], t.age)
    BY <1>4 DEF DecidesWork
  <2> QED
    BY <1>1, <1>2, <2>1, DecidesRowWork
<1>5. CASE DecidesClaim(t)
  <2>1. PICK w \in Worker, pick \in DOMAIN t.writes \cup {0} :
          (pick # 0 => Picks(t, pick, w)) /\ Sweeps(t, DOMAIN t.writes \ {pick})
    BY <1>5 DEF DecidesClaim
  <2>2. CASE r = pick
    <3>1. PICK stall \in 0..t.age : t.writes[r] = ClaimedBy(run[r], w, stall)
      BY <1>2, <2>1, <2>2 DEF Picks
    <3>2. stall \in 0..MaxStall
      BY <1>1, StoreAssumption
    <3> QED
      BY <1>2, <2>1, <2>2, <3>1, <3>2 DEF Picks, RowWork
  <2>3. CASE r # pick
    BY <2>1, <2>3 DEF Sweeps, RowWork
  <2> QED
    BY <2>2, <2>3
<1> QED
  BY <1>3, <1>4, <1>5

\* The rows a commit writes stay in their session, unless it inserts or deletes.
LEMMA CommitPlaced ==
  ASSUME StoreInv, TxnInv, NEW c \in Conn, Commit(c),
         DecidesNothing(txn[c]) \/ DecidesWork(txn[c]) \/ DecidesClaim(txn[c])
  PROVE  \A r \in Run : Placed(run[r], run'[r])
<1>1. ASSUME NEW r \in Run PROVE RowWork(run[r], run'[r])
  <2>1. CASE r \in DOMAIN txn[c].writes
    <3> PICK t : t = txn[c]
      OBVIOUS
    <3>1. TxnOK(t)
      BY DEF TxnInv
    <3>2. RowWork(run[r], t.writes[r])
      BY <2>1, <3>1, WorkWritten
    <3> QED
      BY <2>1, <3>2, Committed
  <2>2. CASE r \notin DOMAIN txn[c].writes
    <3>1. run'[r] = run[r]
      BY <2>2, Committed
    <3> QED
      BY <3>1 DEF RowWork
  <2> QED
    BY <2>1, <2>2
<1> QED
  BY <1>1, PlacedByWork DEF StoreInv

\* A locked session keeps its Runs and its successes.
LEMMA CommitKeepsSession ==
  ASSUME StoreInv, TxnInv, NEW c \in Conn, Commit(c), NEW d \in Conn, d # c,
         NEW s \in sessions, Lock(SessionRow(s), "update") \in txn[d].locks
  PROVE  SessionKept(s)
<1> DEFINE t == txn[c]
           kept == {q \in Run : Present(run'[q]) /\ run'[q].session = s}
<1>1. ASSUME NEW other \in t.locks PROVE other.row # SessionRow(s)
  <2> DEFINE lock == Lock(SessionRow(s), "update")
  <2>1. lock.row = SessionRow(s) /\ Conflict(lock.mode, other.mode)
    BY Locks, Conflicts
  <2>2. lock \in txn[d].locks /\ Apart(txn[d], txn[c])
    BY DEF TxnInv
  <2> HIDE DEF lock
  <2> QED
    BY <2>1, <2>2 DEF Apart
<1>2. kept = InSession(s)'
  BY DEF InSession
<1>3. NoTarget \notin sessions
  BY TransactionAssumption DEF StoreInv
<1>4. CASE DecidesNothing(t) \/ DecidesWork(t) \/ DecidesClaim(t)
  <2>1. \A r \in Run : Placed(run[r], run'[r])
    BY <1>4, CommitPlaced
  <2>2. kept = InSession(s)
    BY <2>1 DEF Placed, InSession
  <2>3. ASSUME NEW q \in InSession(s), run'[q].status = "SUCCEEDED"
        PROVE  run[q].status = "SUCCEEDED"
    <3>1. q \in Run /\ run[q].session = s
      BY DEF InSession
    <3>2. CASE q \in DOMAIN t.writes
      <4>1. Lock(SessionRow(s), "no key update") \in t.locks
        BY <2>3, <3>1, <3>2, Committed DEF SuccessLocked
      <4> QED
        BY <1>1, <4>1, Locks
    <3>3. CASE q \notin DOMAIN t.writes
      BY <2>3, <3>1, <3>3, Committed
    <3> QED
      BY <3>2, <3>3
  <2>4. \A q \in InSession(s) : run[q].status = "SUCCEEDED" => run'[q].status = "SUCCEEDED"
    BY <2>1 DEF Placed, InSession
  <2>5. sessions' = sessions
    BY <1>4, Committed DEF DecidesNothing, DecidesWork, DecidesClaim
  <2> QED
    BY <1>2, <2>2, <2>3, <2>4, <2>5 DEF SessionKept
<1>5. CASE DecidesInsertion(t)
  <2>1. PICK u \in sessions, r \in Run : Inserts(t, u, r)
    BY <1>5 DEF DecidesInsertion
  <2>2. u # s
    BY <1>1, <2>1, Locks DEF Inserts
  <2>3. run[r].status = "ABSENT" /\ run'[r].session = u
    <3>1. PICK previous : run'[r] = NewRun(u, previous)
      BY <2>1, Committed DEF Inserts
    <3> QED
      BY <2>1, <3>1 DEF Inserts, NewRun, Logged, NoRow
  <2>4. \A q \in Run \ {r} : run'[q] = run[q]
    BY <2>1, Committed DEF Inserts
  <2>5. kept = InSession(s) /\ r \notin InSession(s)
    BY <2>2, <2>3, <2>4 DEF InSession, Present
  <2>6. \A q \in InSession(s) : run'[q] = run[q]
    BY <2>4, <2>5 DEF InSession
  <2>7. sessions' = sessions
    BY <1>5, Committed DEF DecidesInsertion
  <2> QED
    BY <1>2, <2>5, <2>6, <2>7 DEF SessionKept
<1>6. CASE DecidesDeletion(t)
  <2>1. t.target # s
    BY <1>1, <1>6, Locks DEF DecidesDeletion
  <2>2. /\ \A q \in InSession(t.target) : run'[q] = NoRow("DELETED")
        /\ \A q \in Run \ InSession(t.target) : run'[q] = run[q]
    BY <1>6, Committed DEF DecidesDeletion
  <2>3. ~Present(NoRow("DELETED"))
    BY DEF Present, NoRow
  <2>4. \A q \in InSession(s) : q \in Run \ InSession(t.target)
    BY <2>1 DEF InSession
  <2>5. kept = InSession(s)
    BY <2>2, <2>3, <2>4 DEF InSession
  <2>6. s \in sessions'
    BY <2>1, Committed
  <2> QED
    BY <1>2, <2>2, <2>4, <2>5, <2>6 DEF SessionKept
<1> QED
  BY <1>4, <1>5, <1>6, Committed

LEMMA NoTxnOK ==
  /\ TxnOK(NoTxn) /\ TxnOK(NoTxn)'
  /\ \A t : Apart(NoTxn, t) /\ Apart(t, NoTxn)
<1>1. /\ NoTxn.locks = {} /\ DOMAIN NoTxn.writes = {} /\ NoTxn.age = 0
      /\ NoTxn = [next |-> NoTxn.next, target |-> NoTxn.target, worker |-> NoTxn.worker,
                  locks |-> NoTxn.locks, writes |-> NoTxn.writes, age |-> NoTxn.age]
  BY DEF NoTxn, Txn
<1> QED
  BY <1>1, StoreAssumption DEF TxnOK, Progresses, Apart

LEMMA CommitKeeps ==
  ASSUME StoreInv, TxnInv, NEW c \in Conn, Commit(c)
  PROVE  TxnInv'
<1>1. DOMAIN txn' = Conn /\ \A d \in Conn : txn'[d] = IF d = c THEN NoTxn ELSE txn[d]
  BY DEF TxnInv, Commit, Ends
<1>2. ASSUME NEW d \in Conn, d # c PROVE TxnOK(txn[d]) /\ txn'[d] = txn[d]
  BY <1>1, <1>2 DEF TxnInv
<1>3. ASSUME NEW d \in Conn, d # c, NEW t, t = txn[d] PROVE TxnOK(t)'
  <2>1. TxnOK(t) /\ Apart(t, txn[c])
    BY <1>3 DEF TxnInv
  <2>2. \A r \in DOMAIN t.writes : run'[r] = run[r]
    BY <2>1, Committed DEF TxnOK, Apart
  <2>3. \A s \in sessions : Lock(SessionRow(s), "update") \in t.locks => SessionKept(s)
    BY <1>3, CommitKeepsSession
  <2> QED
    BY <2>1, <2>2, <2>3, Undisturbed
<1>4. (\A d \in Conn : TxnOK(txn[d]))'
  BY <1>1, <1>3, NoTxnOK
<1>5. \A d, e \in Conn : d # e => Apart(txn'[d], txn'[e])
  BY <1>1, NoTxnOK DEF TxnInv
<1> QED
  BY <1>1, <1>4, <1>5 DEF TxnInv

-----------------------------------------------------------------------------
(* Time leaves a decision as it is *)

LEMMA AgedColumns ==
  ASSUME NEW row \in Row
  PROVE  /\ Aged(row) \in Row
         /\ Aged(row).status = row.status
         /\ Aged(row).session = row.session
         /\ Aged(row).cancel_requested = row.cancel_requested
         /\ Aged(row).worker = row.worker
         /\ Aged(row).attempt = row.attempt
         /\ Aged(row).answers = row.answers
         /\ Aged(row).events = row.events
         /\ Aged(row).retry = IF row.retry > 0 THEN row.retry - 1 ELSE 0
         /\ Aged(row).lease = IF row.lease # NoLease /\ row.lease > -MaxStall
                              THEN row.lease - 1 ELSE row.lease
<1> DEFINE lease == IF row.lease # NoLease /\ row.lease > -MaxStall
                    THEN row.lease - 1 ELSE row.lease
           retry == IF row.retry > 0 THEN row.retry - 1 ELSE 0
<1>1. /\ row.lease \in (-MaxStall..LeaseTicks) \cup {NoLease}
      /\ row.retry \in 0..RetryTicks
  BY DEF Row
<1>2. /\ lease \in (-MaxStall..LeaseTicks) \cup {NoLease}
      /\ retry \in 0..RetryTicks
  BY <1>1, StoreAssumption
<1>3. Aged(row) = [row EXCEPT !.lease = lease, !.retry = retry]
  BY DEF Aged
<1> HIDE DEF lease, retry
<1>4. [row EXCEPT !.lease = lease, !.retry = retry] \in Row
  BY <1>2 DEF Row
<1>5. /\ [row EXCEPT !.lease = lease, !.retry = retry].lease = lease
      /\ [row EXCEPT !.lease = lease, !.retry = retry].retry = retry
  BY DEF Row
<1> QED
  BY <1>3, <1>4, <1>5 DEF Row, lease, retry

LEMMA AgedLogged ==
  ASSUME NEW row \in Row, NEW type
  PROVE  Aged(Logged(row, type)) = Logged(Aged(row), type)
BY DEF Aged, Logged, Row

LEMMA AgedClosed ==
  ASSUME NEW row \in Row, NEW status, NEW error
  PROVE  Aged(Closed(row, status, error)) = Closed(Aged(row), status, error)
BY DEF Aged, Closed, Row

LEMMA AgedAnswered ==
  ASSUME NEW row \in Row, NEW answers
  PROVE  Aged([row EXCEPT !.answers = answers]) = [Aged(row) EXCEPT !.answers = answers]
BY DEF Aged, Row

\* A row without timers does not age.
LEMMA AgedIdle ==
  ASSUME NEW row \in Row, row.lease = NoLease, row.retry = 0
  PROVE  Aged(row) = row
<1>1. [row EXCEPT !.lease = row.lease, !.retry = row.retry] = row
  BY DEF Row
<1>2. Aged(row) = [row EXCEPT !.lease = NoLease, !.retry = 0]
  BY DEF Aged
<1> QED
  BY <1>1, <1>2

LEMMA AgedLeased ==
  ASSUME NEW row, row.lease # NoLease, row.lease > -MaxStall, row.retry = 0
  PROVE  \A next : next = row.lease - 1 =>
           Aged(row) = [row EXCEPT !.lease = next, !.retry = 0]
<1>1. (IF row.retry > 0 THEN row.retry - 1 ELSE 0) = 0
  OBVIOUS
<1>2. (IF row.lease # NoLease /\ row.lease > -MaxStall THEN row.lease - 1 ELSE row.lease)
        = row.lease - 1
  OBVIOUS
<1> QED
  BY <1>1, <1>2 DEF Aged

LEMMA AgedCancelAsked ==
  ASSUME NEW row \in Row
  PROVE  /\ CancelChanges(row) => CancelChanges(Aged(row))
         /\ Aged(CancelAsked(row)) = CancelAsked(Aged(row))
<1> DEFINE marked == [row EXCEPT !.cancel_requested = TRUE]
           ended == [row EXCEPT !.cancel_requested = TRUE, !.status = "CANCELLED",
                                !.error = "RUN_CANCELLED", !.finished = TRUE]
<1>1. marked \in Row /\ ended \in Row
  BY DEF Row, Status, Terminal, ErrorCode, WorkerError
<1>2. /\ Aged(marked) = [Aged(row) EXCEPT !.cancel_requested = TRUE]
      /\ Aged(ended) = [Aged(row) EXCEPT !.cancel_requested = TRUE, !.status = "CANCELLED",
                                         !.error = "RUN_CANCELLED", !.finished = TRUE]
  BY DEF Aged, Row
<1>3. /\ CancelAsked(row) = IF row.status = "PENDING" THEN Logged(ended, "RUN_CANCELLED")
                            ELSE Logged(marked, "CANCELLATION_REQUESTED")
      /\ CancelAsked(Aged(row))
           = IF Aged(row).status = "PENDING" THEN Logged(Aged(ended), "RUN_CANCELLED")
             ELSE Logged(Aged(marked), "CANCELLATION_REQUESTED")
  BY <1>2 DEF CancelAsked
<1> HIDE DEF marked, ended
<1>4. Aged(CancelAsked(row)) = CancelAsked(Aged(row))
  BY <1>1, <1>3, AgedColumns, AgedLogged
<1> QED
  BY <1>4, AgedColumns DEF CancelChanges

LEMMA AgedClosing ==
  ASSUME NEW row \in Row, NEW status \in Terminal, NEW error \in ErrorCode \cup {NoError},
         NEW type
  PROVE  /\ Aged(Logged(Closed(row, status, error), type))
              = Logged(Closed(Aged(row), status, error), type)
         /\ \A answers \in Nat :
              Aged(Logged([Closed(row, status, error) EXCEPT !.answers = answers], type))
                = Logged([Closed(Aged(row), status, error) EXCEPT !.answers = answers], type)
<1> DEFINE closed == Closed(row, status, error)
           answered(answers) == [closed EXCEPT !.answers = answers]
<1>1. closed \in Row /\ \A answers \in Nat : answered(answers) \in Row
  BY DEF Closed, Row, Status
<1> HIDE DEF closed
<1>2. /\ Aged(Logged(closed, type)) = Logged(Aged(closed), type)
      /\ \A answers \in Nat : Aged(Logged(answered(answers), type))
                               = Logged([Aged(closed) EXCEPT !.answers = answers], type)
  BY <1>1, AgedLogged, AgedAnswered
<1>3. Aged(closed) = Closed(Aged(row), status, error)
  BY AgedClosed DEF closed
<1> QED
  BY <1>2, <1>3 DEF closed

LEMMA AgedExpired ==
  ASSUME NEW row \in Row, LeaseExpired(row)
  PROVE  LeaseExpired(Aged(row))
<1>1. row.lease \in Int /\ row.lease <= 0 /\ row.lease # NoLease
  BY StoreAssumption DEF LeaseExpired, Row
<1>2. Aged(row).lease \in Int /\ Aged(row).lease <= 0
  BY <1>1, AgedColumns, StoreAssumption
<1> QED
  BY <1>2, StoreAssumption DEF LeaseExpired

LEMMA AgedSwept ==
  ASSUME NEW row \in Row, Sweepable(row)
  PROVE  Sweepable(Aged(row)) /\ Aged(Swept(row)) = Swept(Aged(row))
<1>1. LeaseExpired(Aged(row))
  BY AgedExpired DEF Sweepable
<1>2. /\ Aged(row).status = row.status /\ Aged(row).cancel_requested = row.cancel_requested
      /\ Aged(row).attempt = row.attempt
  BY AgedColumns
<1>3. /\ Aged(Logged(Closed(row, "CANCELLED", "RUN_CANCELLED"), "RUN_CANCELLED"))
           = Logged(Closed(Aged(row), "CANCELLED", "RUN_CANCELLED"), "RUN_CANCELLED")
      /\ Aged(Logged(Closed(row, "FAILED", "MAX_ATTEMPTS_EXCEEDED"), "RUN_FAILED"))
           = Logged(Closed(Aged(row), "FAILED", "MAX_ATTEMPTS_EXCEEDED"), "RUN_FAILED")
  BY AgedClosing DEF Terminal, ErrorCode, WorkerError
<1> QED
  BY <1>1, <1>2, <1>3 DEF Sweepable, Swept

LEMMA AgedCompleted ==
  ASSUME NEW row \in Row
  PROVE  Aged(Completed(row)) = Completed(Aged(row))
<1>1. row.answers + 1 \in Nat
  BY DEF Row
<1>2. /\ Closed(row, "SUCCEEDED", NoError).answers = row.answers
      /\ Closed(Aged(row), "SUCCEEDED", NoError).answers = row.answers
  BY AgedColumns DEF Closed, Row
<1>3. /\ Aged(Logged(Closed(row, "CANCELLED", "RUN_CANCELLED"), "RUN_CANCELLED"))
           = Logged(Closed(Aged(row), "CANCELLED", "RUN_CANCELLED"), "RUN_CANCELLED")
      /\ Aged(Logged([Closed(row, "SUCCEEDED", NoError) EXCEPT !.answers = row.answers + 1],
                     "RUN_SUCCEEDED"))
           = Logged([Closed(Aged(row), "SUCCEEDED", NoError) EXCEPT !.answers = row.answers + 1],
                    "RUN_SUCCEEDED")
  <2>1. /\ "CANCELLED" \in Terminal /\ "SUCCEEDED" \in Terminal
        /\ "RUN_CANCELLED" \in ErrorCode \cup {NoError} /\ NoError \in ErrorCode \cup {NoError}
    BY DEF Terminal, ErrorCode, WorkerError
  <2>2. Aged(Logged(Closed(row, "CANCELLED", "RUN_CANCELLED"), "RUN_CANCELLED"))
          = Logged(Closed(Aged(row), "CANCELLED", "RUN_CANCELLED"), "RUN_CANCELLED")
    BY <2>1, AgedClosing
  <2>3. \A answers \in Nat :
          Aged(Logged([Closed(row, "SUCCEEDED", NoError) EXCEPT !.answers = answers],
                      "RUN_SUCCEEDED"))
            = Logged([Closed(Aged(row), "SUCCEEDED", NoError) EXCEPT !.answers = answers],
                     "RUN_SUCCEEDED")
    BY <2>1, AgedClosing
  <2> QED
    BY <1>1, <2>2, <2>3
<1>4. Aged(row).cancel_requested = row.cancel_requested
  BY AgedColumns
<1> QED
  BY <1>2, <1>3, <1>4 DEF Completed

\* A decision made stall ago is stall + 1 old one tick later.
LEMMA AgedFailed ==
  ASSUME NEW row \in Row, NEW code \in WorkerError, NEW retryable, NEW stall \in Nat
  PROVE  Aged(Failed(row, code, retryable, stall)) = Failed(Aged(row), code, retryable, stall + 1)
<1> DEFINE queued == [row EXCEPT !.status = "PENDING", !.error = code,
                                 !.retry = RetryLeft(stall), !.worker = NoWorker,
                                 !.lease = NoLease]
<1>1. /\ RetryLeft(stall) \in 0..RetryTicks
      /\ RetryLeft(stall + 1) = IF RetryLeft(stall) > 0 THEN RetryLeft(stall) - 1 ELSE 0
  BY StoreAssumption DEF RetryLeft
<1>2. queued \in Row
  BY <1>1 DEF Row, Status, ErrorCode
<1>3. Aged(queued) = [Aged(row) EXCEPT !.status = "PENDING", !.error = code,
                                       !.retry = RetryLeft(stall + 1), !.worker = NoWorker,
                                       !.lease = NoLease]
  BY <1>1 DEF Aged, Row
<1>4. Aged(Logged(queued, "RUN_RETRY_SCHEDULED")) = Logged(Aged(queued), "RUN_RETRY_SCHEDULED")
  BY <1>2, AgedLogged
<1> HIDE DEF queued
<1>5. /\ Aged(Logged(Closed(row, "CANCELLED", "RUN_CANCELLED"), "RUN_CANCELLED"))
           = Logged(Closed(Aged(row), "CANCELLED", "RUN_CANCELLED"), "RUN_CANCELLED")
      /\ Aged(Logged(Closed(row, "FAILED", code), "RUN_FAILED"))
           = Logged(Closed(Aged(row), "FAILED", code), "RUN_FAILED")
  BY AgedClosing DEF Terminal, ErrorCode, WorkerError
<1>6. Aged(row).cancel_requested = row.cancel_requested /\ Aged(row).attempt = row.attempt
  BY AgedColumns
<1>7. CASE row.cancel_requested
  BY <1>5, <1>6, <1>7 DEF Failed
<1>8. CASE ~row.cancel_requested /\ retryable /\ row.attempt < MaxAttempts
  BY <1>3, <1>4, <1>6, <1>8 DEF Failed, queued
<1>9. CASE ~row.cancel_requested /\ ~(retryable /\ row.attempt < MaxAttempts)
  BY <1>5, <1>6, <1>9 DEF Failed
<1> QED
  BY <1>7, <1>8, <1>9

\* Whoever holds the lease by his older clock reading still does.
LEMMA AgedOwner ==
  ASSUME NEW row \in Row, NEW w, NEW age \in 0..MaxStall, age < MaxStall
  PROVE  /\ Owns(row, w, age) => Owns(Aged(row), w, age + 1)
         /\ Renewable(row, w, age) =>
              /\ Renewable(Aged(row), w, age + 1)
              /\ Aged([row EXCEPT !.lease = LeaseTicks - age])
                   = [Aged(row) EXCEPT !.lease = LeaseTicks - (age + 1)]
<1>1. row.lease \in (-MaxStall..LeaseTicks) \cup {NoLease}
  BY DEF Row
<1>2. row.lease # NoLease /\ row.lease > -age =>
        /\ Aged(row).lease = row.lease - 1
        /\ Aged(row).lease # NoLease /\ Aged(row).lease > -(age + 1)
  BY <1>1, AgedColumns, StoreAssumption
<1>3. Owns(row, w, age) => Owns(Aged(row), w, age + 1)
  BY <1>2, AgedColumns DEF Owns
<1>4. Renewable(row, w, age) => Renewable(Aged(row), w, age + 1)
  BY <1>2, AgedColumns DEF Renewable
<1>5. /\ LeaseTicks - age # NoLease /\ LeaseTicks - age > -MaxStall
      /\ (LeaseTicks - age) - 1 = LeaseTicks - (age + 1)
  BY StoreAssumption
<1> DEFINE lease == LeaseTicks - age
           next == LeaseTicks - (age + 1)
<1> HIDE DEF lease, next
<1>6. lease # NoLease /\ lease > -MaxStall /\ lease - 1 = next
  BY <1>5 DEF lease, next
<1>7. Aged([row EXCEPT !.lease = lease]) = [Aged(row) EXCEPT !.lease = next]
  BY <1>6 DEF Aged, Row
<1> QED
  BY <1>3, <1>4, <1>7 DEF lease, next

LEMMA AgedClaim ==
  ASSUME NEW row \in Row, RowInv(row), NEW w \in Worker, NEW stall \in 0..MaxStall,
         stall < MaxStall, Claimable(row)
  PROVE  /\ Claimable(Aged(row))
         /\ Aged(ClaimedBy(row, w, stall)) = ClaimedBy(Aged(row), w, stall + 1)
<1>1. Claimable(Aged(row))
  <2>1. /\ Aged(row).status = row.status /\ Aged(row).attempt = row.attempt
        /\ Aged(row).cancel_requested = row.cancel_requested
        /\ row.retry = 0 => Aged(row).retry = 0
    BY AgedColumns
  <2>2. LeaseExpired(row) => LeaseExpired(Aged(row))
    BY AgedColumns, AgedExpired
  <2> QED
    BY <2>1, <2>2 DEF Claimable
<1> DEFINE lease == LeaseTicks - stall
           next == LeaseTicks - (stall + 1)
           started == [row EXCEPT !.status = "RUNNING", !.worker = w, !.lease = lease,
                                  !.retry = 0, !.attempt = row.attempt + 1, !.finished = FALSE]
<1>2. lease # NoLease /\ lease > -MaxStall /\ lease - 1 = next
  BY StoreAssumption
<1> HIDE DEF lease, next
<1>3. Aged(started) = [Aged(row) EXCEPT !.status = "RUNNING", !.worker = w, !.lease = next,
                         !.retry = 0, !.attempt = Aged(row).attempt + 1, !.finished = FALSE]
  <2>1. Aged(row).attempt = row.attempt
    BY AgedColumns
  <2>2. started.lease = lease /\ started.retry = 0
    BY DEF Row
  <2>3. Aged(started) = [started EXCEPT !.lease = next, !.retry = 0]
    <3> HIDE DEF started
    <3> QED
      BY <1>2, <2>2, AgedLeased
  <2>4. [started EXCEPT !.lease = next, !.retry = 0]
          = [Aged(row) EXCEPT !.status = "RUNNING", !.worker = w, !.lease = next,
               !.retry = 0, !.attempt = row.attempt + 1, !.finished = FALSE]
    BY DEF Aged, Row
  <2> QED
    BY <2>1, <2>3, <2>4
<1>4. Aged(Logged(started, StartOf(row))) = Logged(Aged(started), StartOf(row))
  <2>1. row.attempt + 1 \in 0..MaxAttempts
    BY StoreAssumption DEF Claimable, RowInv, RowQueued, Row
  <2>2. lease \in (-MaxStall..LeaseTicks) \cup {NoLease}
    BY StoreAssumption DEF lease
  <2>3. started \in Row
    <3>1. 0 \in 0..RetryTicks
      BY StoreAssumption
    <3> QED
      BY <2>1, <2>2, <3>1 DEF Row, Status
  <2> QED
    BY <2>3, AgedLogged
<1>5. StartOf(Aged(row)) = StartOf(row)
  BY AgedColumns DEF StartOf
<1>6. /\ ClaimedBy(row, w, stall) = Logged(started, StartOf(row))
      /\ ClaimedBy(Aged(row), w, stall + 1) = Logged(Aged(started), StartOf(Aged(row)))
  BY <1>3 DEF ClaimedBy, lease, next
<1> QED
  BY <1>1, <1>4, <1>5, <1>6

LEMMA AgedDecision ==
  ASSUME NEW row \in Row, NEW new, NEW age \in 0..MaxStall, age < MaxStall,
         Decides(row, new, age)
  PROVE  Decides(Aged(row), Aged(new), age + 1)
<1>1. CASE CancelChanges(row) /\ new = CancelAsked(row)
  BY <1>1, AgedCancelAsked DEF Decides
<1>2. ASSUME NEW w \in Worker, Renewable(row, w, age),
             new = [row EXCEPT !.lease = LeaseTicks - age]
      PROVE  Decides(Aged(row), Aged(new), age + 1)
  BY <1>2, AgedOwner DEF Decides
<1>3. ASSUME NEW w \in Worker, Owns(row, w, age), Len(row.events) < MaxEvents,
             NEW type \in ProgressEvent, new = Logged(row, type)
      PROVE  Decides(Aged(row), Aged(new), age + 1)
  <2>1. Aged(row).events = row.events /\ Owns(Aged(row), w, age + 1)
    BY <1>3, AgedColumns, AgedOwner
  <2>2. Aged(new) = Logged(Aged(row), type)
    BY <1>3, AgedLogged
  <2> QED
    BY <1>3, <2>1, <2>2 DEF Decides
<1>4. ASSUME NEW w \in Worker, Owns(row, w, age), new = Completed(row)
      PROVE  Decides(Aged(row), Aged(new), age + 1)
  <2>1. Owns(Aged(row), w, age + 1) /\ Aged(new) = Completed(Aged(row))
    BY <1>4, AgedOwner, AgedCompleted
  <2> QED
    BY <2>1 DEF Decides
<1>5. ASSUME NEW w \in Worker, Owns(row, w, age), NEW code \in WorkerError,
             NEW retryable \in BOOLEAN, NEW stall \in 0..age,
             code = "RUN_CANCELLED" => row.cancel_requested,
             new = Failed(row, code, retryable, stall)
      PROVE  Decides(Aged(row), Aged(new), age + 1)
  <2>1. /\ Owns(Aged(row), w, age + 1) /\ Aged(row).cancel_requested = row.cancel_requested
        /\ Aged(new) = Failed(Aged(row), code, retryable, stall + 1)
    <3>1. stall \in Nat
      OBVIOUS
    <3>2. Aged(new) = Failed(Aged(row), code, retryable, stall + 1)
      BY <1>5, <3>1, AgedFailed
    <3>3. Owns(Aged(row), w, age + 1)
      BY <1>5, AgedOwner
    <3> QED
      BY <3>2, <3>3, AgedColumns
  <2>2. stall + 1 \in 0..(age + 1)
    BY <1>5
  <2> QED
    BY <1>5, <2>1, <2>2 DEF Decides
<1> QED
  BY <1>1, <1>2, <1>3, <1>4, <1>5 DEF Decides

\* One tick of time for the rows and their sessions.
LEMMA TickRows ==
  ASSUME StoreInv, Tick
  PROVE  /\ sessions' = sessions
         /\ \A r \in Run : run[r] \in Row /\ RowInv(run[r]) /\ run'[r] = Aged(run[r])
         /\ \A s \in sessions : SessionKept(s)
<1>1. /\ sessions' = sessions
      /\ \A r \in Run : run[r] \in Row /\ RowInv(run[r]) /\ run'[r] = Aged(run[r])
  BY DEF StoreInv, Tick
<1>2. \A r \in Run : run'[r].status = run[r].status /\ run'[r].session = run[r].session
  BY <1>1, AgedColumns
<1>3. ASSUME NEW s \in sessions PROVE SessionKept(s)
  <2>1. {r \in Run : Present(run'[r]) /\ run'[r].session = s} = InSession(s)
    BY <1>2 DEF InSession, Present
  <2>2. InSession(s)' = InSession(s)
    BY <2>1 DEF InSession
  <2> QED
    BY <1>1, <1>2, <2>2 DEF SessionKept, InSession
<1> QED
  BY <1>1, <1>3

LEMMA NewRunIdle ==
  ASSUME StoreInv, NEW s \in sessions, NEW r \in Run, run[r].status = "ABSENT",
         NEW previous \in InSession(s) \cup {0}
  PROVE  /\ RowInv(NewRun(s, previous)) /\ NewRun(s, previous).status = "PENDING"
         /\ Aged(NewRun(s, previous)) = NewRun(s, previous)
<1> DEFINE revision == Cardinality(InSession(s)) + 1
           row == [NoRow("PENDING") EXCEPT !.session = s, !.revision = revision,
                                           !.supersedes = previous]
<1>1. revision \in 0..MaxRuns /\ previous \in 0..MaxRuns /\ s \in Session
  <2>1. revision \in 0..MaxRuns
    BY RevisionInRange
  <2>2. previous \in 0..MaxRuns
    BY StoreAssumption DEF InSession, Run
  <2> QED
    BY <2>1, <2>2 DEF StoreInv
<1>2. NewRun(s, previous) = Logged(row, "RUN_QUEUED")
  BY DEF NewRun
<1>3. RowInv(Logged(row, "RUN_QUEUED"))
  BY <1>1, EnqueuedInv
<1>4. /\ Logged(row, "RUN_QUEUED").status = "PENDING"
      /\ Logged(row, "RUN_QUEUED").lease = NoLease /\ Logged(row, "RUN_QUEUED").retry = 0
  BY DEF Logged, NoRow
<1> HIDE DEF row
<1> QED
  BY <1>2, <1>3, <1>4, AgedIdle DEF RowInv

\* A transaction and what it has written one tick later.
Later(t) ==
  [t EXCEPT !.age = t.age + 1, !.writes = [r \in DOMAIN t.writes |-> Aged(t.writes[r])]]

LEMMA TickKeeps ==
  ASSUME StoreInv, Tick, NEW t, TxnOK(t), t.next # "none", t.age < MaxStall, NEW v, v = Later(t)
  PROVE  TxnOK(v)' /\ v.locks = t.locks /\ DOMAIN v.writes = DOMAIN t.writes
<1>1. /\ t = [next |-> t.next, target |-> t.target, worker |-> t.worker,
              locks |-> t.locks, writes |-> t.writes, age |-> t.age]
      /\ t.age \in 0..MaxStall /\ t.age < MaxStall
      /\ DOMAIN t.writes \subseteq Run
      /\ \A r \in DOMAIN t.writes : run[r].status = "ABSENT" \/ RunLocked(t, r)
      /\ Progresses(t)
  BY DEF TxnOK
<1>2. /\ v.next = t.next /\ v.target = t.target /\ v.worker = t.worker
      /\ v.locks = t.locks /\ v.age = t.age + 1
      /\ v.writes = [r \in DOMAIN t.writes |-> Aged(t.writes[r])]
      /\ v = [next |-> v.next, target |-> v.target, worker |-> v.worker,
              locks |-> v.locks, writes |-> v.writes, age |-> v.age]
  BY <1>1 DEF Later
<1>3. /\ DOMAIN v.writes = DOMAIN t.writes
      /\ \A r \in DOMAIN t.writes : v.writes[r] = Aged(t.writes[r])
      /\ v.age \in 0..MaxStall
  BY <1>1, <1>2, StoreAssumption
<1>4. /\ sessions' = sessions
      /\ \A r \in Run : /\ run[r] \in Row /\ RowInv(run[r]) /\ run'[r] = Aged(run[r])
                        /\ run'[r].status = run[r].status
                        /\ run'[r].session = run[r].session
      /\ \A s \in sessions : SessionKept(s)
  BY TickRows, AgedColumns
<1>5. ASSUME NEW rows, rows \subseteq DOMAIN t.writes, Sweeps(t, rows) PROVE Sweeps(v, rows)'
  <2>1. ASSUME NEW r \in rows
        PROVE  Sweepable(run'[r]) /\ v.writes[r] = Swept(run'[r])
    <3>1. Sweepable(run[r]) /\ t.writes[r] = Swept(run[r]) /\ r \in Run
      BY <1>1, <1>5 DEF Sweeps
    <3> QED
      BY <1>3, <1>4, <1>5, <3>1, AgedSwept
  <2> QED
    BY <1>5, <2>1 DEF Sweeps
<1>6. ASSUME NEW pick \in DOMAIN t.writes, NEW w \in Worker, Picks(t, pick, w)
      PROVE  Picks(v, pick, w)'
  <2>1. PICK stall \in 0..t.age :
          Claimable(run[pick]) /\ t.writes[pick] = ClaimedBy(run[pick], w, stall)
    BY <1>6 DEF Picks
  <2>2. /\ stall \in 0..MaxStall /\ stall < MaxStall /\ stall + 1 \in 0..v.age
        /\ pick \in Run
    BY <1>1, <1>2, StoreAssumption
  <2>3. Claimable(run'[pick]) /\ v.writes[pick] = ClaimedBy(run'[pick], w, stall + 1)
    BY <1>3, <1>4, <2>1, <2>2, AgedClaim
  <2> QED
    BY <2>2, <2>3 DEF Picks
<1>7. Completes(t) => Completes(v)'
  <2> SUFFICES ASSUME Completes(t) PROVE Completes(v)'
    OBVIOUS
  <2>1. PICK w \in Worker : Owns(run[t.target], w, t.age)
    BY DEF Completes
  <2>2. t.target \in Run /\ DOMAIN t.writes = {t.target}
        /\ t.writes[t.target] = Completed(run[t.target])
    BY DEF Completes
  <2>3. Owns(run'[t.target], w, v.age) /\ v.writes[t.target] = Completed(run'[t.target])
    <3>1. Owns(Aged(run[t.target]), w, t.age + 1)
      BY <1>1, <1>4, <2>1, <2>2, AgedOwner
    <3>2. Aged(Completed(run[t.target])) = Completed(Aged(run[t.target]))
      BY <1>4, <2>2, AgedCompleted
    <3> QED
      BY <1>2, <1>3, <1>4, <2>2, <3>1, <3>2
  <2> QED
    BY <1>2, <1>3, <2>2, <2>3 DEF Completes
<1>8. DecidesNothing(t) => DecidesNothing(v)'
  BY <1>2, <1>3 DEF DecidesNothing
<1>9. DecidesInsertion(t) => DecidesInsertion(v)'
  <2> SUFFICES ASSUME t.target = NoTarget, NEW s \in sessions, NEW r \in Run, Inserts(t, s, r)
               PROVE  DecidesInsertion(v)'
    BY DEF DecidesInsertion
  <2>1. PICK previous \in InSession(s) \cup {0} :
          Replaces(s, previous) /\ t.writes[r] = NewRun(s, previous)
    BY DEF Inserts
  <2>2. Replaces(s, previous)' /\ NewRun(s, previous)' = NewRun(s, previous)
    BY <1>4, <2>1, KeptRevision
  <2>3. InSession(s)' = InSession(s) /\ s \in sessions'
    BY <1>4 DEF SessionKept
  <2>4. v.writes[r] = NewRun(s, previous)'
    <3>1. run[r].status = "ABSENT" /\ r \in DOMAIN t.writes
      BY DEF Inserts
    <3> QED
      BY <1>3, <2>1, <2>2, <3>1, NewRunIdle
  <2>5. Inserts(v, s, r)'
    BY <1>2, <1>3, <1>4, <2>1, <2>2, <2>3, <2>4 DEF Inserts
  <2> QED
    BY <1>2, <2>3, <2>5 DEF DecidesInsertion
<1>10. DecidesDeletion(t) => DecidesDeletion(v)'
  <2>1. Aged(NoRow("DELETED")) = NoRow("DELETED")
    <3>1. NoRow("DELETED") \in Row
      BY NoRowInv DEF RowInv
    <3>2. NoRow("DELETED").lease = NoLease /\ NoRow("DELETED").retry = 0
      BY DEF NoRow
    <3> QED
      BY <3>1, <3>2, AgedIdle
  <2> QED
    BY <1>2, <1>3, <1>4, <2>1 DEF DecidesDeletion, SessionKept
<1>11. DecidesWork(t) => DecidesWork(v)'
  <2> SUFFICES ASSUME t.target = NoTarget, NEW r \in Run, DOMAIN t.writes = {r},
                      Decides(run[r], t.writes[r], t.age)
               PROVE  DecidesWork(v)'
    BY DEF DecidesWork
  <2>1. Decides(Aged(run[r]), Aged(t.writes[r]), t.age + 1)
    BY <1>1, <1>4, AgedDecision
  <2>2. Decides(run'[r], v.writes[r], v.age)
    BY <1>2, <1>3, <1>4, <2>1
  <2> QED
    BY <1>2, <1>3, <2>2 DEF DecidesWork
<1>12. DecidesClaim(t) => DecidesClaim(v)'
  <2> SUFFICES ASSUME t.target = NoTarget, NEW w \in Worker, NEW pick \in DOMAIN t.writes \cup {0},
                      pick # 0 => Picks(t, pick, w), Sweeps(t, DOMAIN t.writes \ {pick})
               PROVE  DecidesClaim(v)'
    BY DEF DecidesClaim
  <2>1. Sweeps(v, DOMAIN v.writes \ {pick})' /\ (pick # 0 => Picks(v, pick, w)')
    BY <1>3, <1>5, <1>6
  <2> QED
    BY <1>2, <1>3, <2>1 DEF DecidesClaim
<1>13. ASSUME t.next = "commit", SuccessLocked(t),
              \/ DecidesNothing(t) \/ DecidesInsertion(t) \/ DecidesDeletion(t)
              \/ DecidesWork(t) \/ DecidesClaim(t)
       PROVE  SuccessLocked(v)'
  <2>1. ASSUME NEW r \in DOMAIN t.writes PROVE t.writes[r] \in Row
    <3>1. CASE DecidesNothing(t) \/ DecidesWork(t) \/ DecidesClaim(t)
      <4>1. RowWork(run[r], t.writes[r]) /\ RowInv(run[r])
        BY <1>1, <1>4, <3>1, WorkWritten
      <4> QED
        BY <4>1, RowStep DEF RowNext, RowInv
    <3>2. CASE DecidesInsertion(t)
      BY <3>2, NewRunIdle DEF DecidesInsertion, Inserts, RowInv
    <3>3. CASE DecidesDeletion(t)
      BY <3>3, NoRowInv DEF DecidesDeletion, RowInv
    <3> QED
      BY <1>13, <3>1, <3>2, <3>3
  <2>2. \A r \in DOMAIN t.writes : v.writes[r].status = t.writes[r].status
    BY <1>3, <2>1, AgedColumns
  <2>3. \A r \in DOMAIN t.writes : run'[r].session = run[r].session
    BY <1>1, <1>4
  <2>4. \A r \in DOMAIN t.writes : t.writes[r].status = "SUCCEEDED" =>
          Lock(SessionRow(run[r].session), "no key update") \in t.locks
    BY <1>13 DEF SuccessLocked
  <2>5. \A r \in DOMAIN v.writes : v.writes[r].status = "SUCCEEDED" =>
          Lock(SessionRow(run'[r].session), "no key update") \in v.locks
    BY <1>2, <1>3, <2>2, <2>3, <2>4
  <2> QED
    BY <2>5 DEF SuccessLocked
<1>14. v # NoTxn /\ t # NoTxn
  BY <1>2 DEF NoTxn, Txn
<1>15. Progresses(v)'
  <2>1. OnlyRuns(t) => OnlyRuns(v)
    BY <1>2 DEF OnlyRuns
  <2>2. /\ t.target \in Run /\ Present(run[t.target]) => Present(run'[t.target])
        /\ t.target \in Run => run'[t.target].session = run[t.target].session
    BY <1>4 DEF Present
  <2>3. t.next = "claim" /\ Sweeps(t, DOMAIN t.writes) => Sweeps(v, DOMAIN v.writes)'
    BY <1>3, <1>5
  <2> QED
    BY <1>1, <1>2, <1>3, <1>4, <1>7, <1>8, <1>9, <1>10, <1>11, <1>12, <1>13, <1>14,
       <2>1, <2>2, <2>3 DEF Progresses
<1>16. \A r \in DOMAIN v.writes : run'[r].status = "ABSENT" \/ RunLocked(v, r)
  BY <1>1, <1>2, <1>3, <1>4 DEF RunLocked
<1> QED
  BY <1>1, <1>2, <1>3, <1>15, <1>16 DEF TxnOK

LEMMA TickTransactions ==
  ASSUME StoreInv, TxnInv, TransactionTick
  PROVE  TxnInv'
<1>1. Tick /\ \A c \in Conn : Open(c) => txn[c].age < MaxStall
  BY DEF TransactionTick
<1>2. ASSUME NEW c \in Conn, NEW v, v = txn'[c]
      PROVE  TxnOK(v)' /\ v.locks = txn[c].locks /\ DOMAIN v.writes = DOMAIN txn[c].writes
  <2>1. CASE Open(c)
    <3> PICK t : t = txn[c]
      OBVIOUS
    <3>1. TxnOK(t) /\ t.next # "none" /\ t.age < MaxStall
      BY <1>1, <2>1 DEF TxnInv, Open
    <3>2. v = Later(t)
      BY <1>2, <2>1 DEF TransactionTick, Later
    <3> QED
      BY <1>1, <3>1, <3>2, TickKeeps
  <2>2. CASE ~Open(c)
    <3>1. v = txn[c]
      BY <1>2, <2>2 DEF TransactionTick
    <3>2. TxnOK(txn[c]) /\ txn[c].next = "none"
      BY <2>2 DEF TxnInv, Open
    <3>3. v = NoTxn
      BY <3>1, <3>2 DEF TxnOK, Progresses
    <3> QED
      BY <3>1, <3>3, NoTxnOK
  <2> QED
    BY <2>1, <2>2
<1>3. DOMAIN txn' = Conn
  BY DEF TransactionTick
<1>4. (\A c \in Conn : TxnOK(txn[c]))'
  BY <1>2, <1>3
<1>5. \A c, d \in Conn : c # d => Apart(txn'[c], txn'[d])
  BY <1>2 DEF TxnInv, Apart
<1> QED
  BY <1>3, <1>4, <1>5 DEF TxnInv

-----------------------------------------------------------------------------
(* What a transaction does until it commits *)

LEMMA Fresh ==
  ASSUME TxnInv, NEW c \in Conn, ~Open(c)
  PROVE  txn[c].locks = {} /\ DOMAIN txn[c].writes = {} /\ txn[c].age = 0
<1>1. txn[c] = NoTxn
  BY DEF TxnInv, TxnOK, Progresses, Open
<1> QED
  BY <1>1 DEF NoTxn, Txn

Shaped(t) ==
  t = [next |-> t.next, target |-> t.target, worker |-> t.worker,
       locks |-> t.locks, writes |-> t.writes, age |-> t.age]

\* c may become t, as far as the others are concerned.
Gains(c, t) ==
  /\ \A lock \in t.locks \ txn[c].locks : Free(c, lock)
  /\ DOMAIN t.writes \subseteq Run
  /\ \A r \in DOMAIN t.writes : run[r].status = "ABSENT" \/ RunLocked(t, r)
  /\ \A r \in DOMAIN t.writes \ DOMAIN txn[c].writes :
       \/ \A d \in Conn : r \notin DOMAIN txn[d].writes
       \/ run[r].status # "ABSENT" /\ RunLocked(t, r)

LEMMA GoesTo ==
  ASSUME TxnInv, NEW c \in Conn, NEW t, NEW t0, Goes(c, t0),
         t = [t0 EXCEPT !.age = txn[c].age],
         Shaped(t), t.age = txn[c].age, Gains(c, t), Progresses(t)
  PROVE  TxnInv'
<1>1. TxnOK(t)
  BY DEF TxnOK, TxnInv, Shaped, Gains
<1>2. \A d \in Conn \ {c} : Apart(t, txn[d])
  BY StaysApart DEF Gains
<1>3. txn' = [txn EXCEPT ![c] = t] /\ UNCHANGED storeVars
  BY DEF Goes
<1> QED
  BY <1>1, <1>2, <1>3, Replaced

LEMMA NoWrites == DOMAIN <<>> = {}
OBVIOUS

\* No decision but that of complete_run makes a success.
LEMMA Statuses ==
  ASSUME NEW row \in Row
  PROVE  /\ CancelChanges(row) => CancelAsked(row).status # "SUCCEEDED"
         /\ Swept(row).status # "SUCCEEDED"
         /\ \A w, stall : ClaimedBy(row, w, stall).status = "RUNNING"
         /\ \A type : Logged(row, type).status = row.status
         /\ row.cancel_requested => Completed(row).status # "SUCCEEDED"
         /\ row.status = "RUNNING" =>
              \A code, retryable, stall : Failed(row, code, retryable, stall).status # "SUCCEEDED"
         /\ \A lease : [row EXCEPT !.lease = lease].status = row.status
<1>1. CancelChanges(row) => CancelAsked(row).status # "SUCCEEDED"
  BY DEF CancelChanges, CancelAsked, Logged, Row
<1>2. Swept(row).status # "SUCCEEDED"
  BY DEF Swept, Closed, Logged, Row
<1>3. \A w, stall : ClaimedBy(row, w, stall).status = "RUNNING"
  BY DEF ClaimedBy, Logged, Row
<1>4. \A type : Logged(row, type).status = row.status
  BY DEF Logged, Row
<1>5. row.cancel_requested => Completed(row).status # "SUCCEEDED"
  BY DEF Completed, Closed, Logged, Row
<1>6. ASSUME row.status = "RUNNING", NEW code, NEW retryable, NEW stall
      PROVE  Failed(row, code, retryable, stall).status # "SUCCEEDED"
  <2>1. Logged(Closed(row, "CANCELLED", "RUN_CANCELLED"), "RUN_CANCELLED").status = "CANCELLED"
    BY DEF Closed, Logged, Row
  <2>2. Logged(Closed(row, "FAILED", code), "RUN_FAILED").status = "FAILED"
    BY DEF Closed, Logged, Row
  <2>3. Logged([row EXCEPT !.status = "PENDING", !.error = code,
                           !.retry = RetryLeft(stall), !.worker = NoWorker,
                           !.lease = NoLease], "RUN_RETRY_SCHEDULED").status = "PENDING"
    BY DEF Logged, Row
  <2> QED
    BY <2>1, <2>2, <2>3 DEF Failed
<1>7. \A lease : [row EXCEPT !.lease = lease].status = row.status
  BY DEF Row
<1> QED
  BY <1>1, <1>2, <1>3, <1>4, <1>5, <1>6, <1>7

LEMMA EnqueueKeeps ==
  ASSUME StoreInv, TxnInv, NEW c \in Conn, NEW s \in Session, NEW r \in Run,
         EnqueueMessage(c, s, r)
  PROVE  TxnInv'
<1> DEFINE lock == Lock(SessionRow(s), "update")
<1>1. PICK previous \in InSession(s) \cup {0} :
        /\ Replaces(s, previous)
        /\ Goes(c, Decided({lock}, Version(r, NewRun(s, previous))))
  BY DEF EnqueueMessage
<1>2. ~Open(c) /\ Free(c, lock) /\ s \in sessions /\ Unused(s, r)
  BY DEF EnqueueMessage, Begins
<1> HIDE DEF lock
<1>3. PICK t : t = [Decided({lock}, Version(r, NewRun(s, previous))) EXCEPT !.age = txn[c].age]
  OBVIOUS
<1>4. /\ t.next = "commit" /\ t.target = NoTarget /\ t.locks = {lock} /\ t.age = txn[c].age
      /\ DOMAIN t.writes = {r} /\ t.writes[r] = NewRun(s, previous)
      /\ Shaped(t)
  BY <1>3 DEF Decided, Txn, Version, Shaped
<1>5. Progresses(t)
  <2>1. Inserts(t, s, r)
    BY <1>1, <1>2, <1>4 DEF Inserts, Unused, lock
  <2>2. SuccessLocked(t)
    BY <1>2, <1>4, NewRunIdle DEF SuccessLocked, Unused
  <2> QED
    BY <1>2, <1>4, <2>1, <2>2 DEF Progresses, DecidesInsertion
<1>6. Gains(c, t)
  BY <1>2, <1>4 DEF Gains, Unused
<1> QED
  BY <1>1, <1>3, <1>4, <1>5, <1>6, GoesTo

LEMMA DeletionKeeps ==
  ASSUME StoreInv, TxnInv, NEW c \in Conn, NEW s \in Session, DeleteLocksSession(c, s)
  PROVE  TxnInv'
<1> DEFINE lock == Lock(SessionRow(s), "update")
<1>1. ~Open(c) /\ Free(c, lock) /\ s \in sessions
  BY DEF DeleteLocksSession, Begins
<1>2. CASE InSession(s) = {}
  <2>1. PICK t : t = [[Decided({lock}, <<>>) EXCEPT !.target = s] EXCEPT !.age = txn[c].age]
    OBVIOUS
  <2> HIDE DEF lock
  <2>2. /\ t.next = "commit" /\ t.target = s /\ t.locks = {lock} /\ t.age = txn[c].age
        /\ DOMAIN t.writes = {} /\ Shaped(t)
    <3>1. /\ t.next = "commit" /\ t.target = s /\ t.locks = {lock} /\ t.age = txn[c].age
          /\ t.writes = <<>> /\ Shaped(t)
      BY <2>1 DEF Decided, Txn, Shaped
    <3> QED
      BY <3>1, NoWrites
  <2>3. Goes(c, [Decided({lock}, <<>>) EXCEPT !.target = s])
    BY <1>2 DEF DeleteLocksSession, lock
  <2>4. Progresses(t)
    BY <1>1, <1>2, <2>2 DEF Progresses, DecidesDeletion, SuccessLocked, lock
  <2>5. Gains(c, t)
    BY <1>1, <2>2 DEF Gains
  <2> QED
    BY <2>1, <2>2, <2>3, <2>4, <2>5, GoesTo
<1>3. ASSUME NEW r \in InSession(s), Goes(c, Txn("cascade", r, {lock}, <<>>))
      PROVE  TxnInv'
  <2>1. PICK t : t = [Txn("cascade", r, {lock}, <<>>) EXCEPT !.age = txn[c].age]
    OBVIOUS
  <2> HIDE DEF lock
  <2>2. /\ t.next = "cascade" /\ t.target = r /\ t.locks = {lock} /\ t.age = txn[c].age
        /\ DOMAIN t.writes = {} /\ Shaped(t)
    <3>1. /\ t.next = "cascade" /\ t.target = r /\ t.locks = {lock} /\ t.age = txn[c].age
          /\ t.writes = <<>> /\ Shaped(t)
      BY <2>1 DEF Txn, Shaped
    <3> QED
      BY <3>1, NoWrites
  <2>3. Progresses(t)
    BY <1>1, <2>2 DEF Progresses, InSession, lock
  <2>4. Gains(c, t)
    BY <1>1, <2>2 DEF Gains
  <2> QED
    BY <1>3, <2>1, <2>2, <2>3, <2>4, GoesTo
<1> QED
  BY <1>2, <1>3 DEF DeleteLocksSession

LEMMA CascadeKeeps ==
  ASSUME StoreInv, TxnInv, NEW c \in Conn, CascadeLocksRun(c)
  PROVE  TxnInv'
<1> DEFINE r == txn[c].target
           s == run[r].session
           lock == Lock(RunRow(r), "update")
           locks == txn[c].locks \cup {lock}
           rest == {q \in InSession(s) : Lock(RunRow(q), "update") \notin locks}
           writes == [q \in InSession(s) |-> NoRow("DELETED")]
<1>1. At(c, "cascade") /\ Free(c, lock)
  BY DEF CascadeLocksRun
<1>2. /\ DOMAIN txn[c].writes = {} /\ s \in sessions
      /\ Lock(SessionRow(s), "update") \in txn[c].locks
  <2>1. Progresses(txn[c]) /\ txn[c].next = "cascade"
    BY <1>1 DEF TxnInv, TxnOK, At
  <2> QED
    BY <2>1 DEF Progresses, NoTxn, Txn
<1>3. CASE rest = {}
  <2>1. PICK t : t = [[Decided(locks, writes) EXCEPT !.target = s] EXCEPT !.age = txn[c].age]
    OBVIOUS
  <2>2. Goes(c, [Decided(locks, writes) EXCEPT !.target = s])
    BY <1>3 DEF CascadeLocksRun
  <2>3. \A q \in InSession(s) : Lock(RunRow(q), "update") \in locks
    BY <1>3
  <2>4. DOMAIN writes = InSession(s) /\ \A q \in InSession(s) : writes[q] = NoRow("DELETED")
    OBVIOUS
  <2> HIDE DEF locks, writes
  <2>5. /\ t.next = "commit" /\ t.target = s /\ t.locks = locks /\ t.age = txn[c].age
        /\ t.writes = writes /\ Shaped(t)
    BY <2>1 DEF Decided, Txn, Shaped
  <2>6. Progresses(t)
    <3>1. DecidesDeletion(t)
      BY <1>2, <2>4, <2>5 DEF DecidesDeletion, locks
    <3>2. SuccessLocked(t)
      <4>1. NoRow("DELETED").status = "DELETED"
        BY DEF NoRow
      <4>2. \A q \in DOMAIN t.writes : t.writes[q].status # "SUCCEEDED"
        BY <2>4, <2>5, <4>1
      <4> QED
        BY <4>2 DEF SuccessLocked
    <3> QED
      BY <2>5, <3>1, <3>2 DEF Progresses
  <2>7. Gains(c, t)
    <3>1. \A q \in InSession(s) : q \in Run /\ run[q].status # "ABSENT"
      BY DEF InSession, Present
    <3>2. \A q \in InSession(s) : RunLocked(t, q)
      BY <2>3, <2>5 DEF RunLocked
    <3>3. \A l \in t.locks \ txn[c].locks : Free(c, l)
      BY <1>1, <2>5 DEF locks
    <3> QED
      BY <2>4, <2>5, <3>1, <3>2, <3>3 DEF Gains
  <2> QED
    BY <2>1, <2>2, <2>5, <2>6, <2>7, GoesTo
<1>4. ASSUME NEW q \in rest, Goes(c, Txn("cascade", q, locks, <<>>))
      PROVE  TxnInv'
  <2>1. PICK t : t = [Txn("cascade", q, locks, <<>>) EXCEPT !.age = txn[c].age]
    OBVIOUS
  <2>2. q \in Run /\ Present(run[q]) /\ run[q].session = s
    BY DEF InSession
  <2> HIDE DEF locks, rest, s
  <2>3. /\ t.next = "cascade" /\ t.target = q /\ t.locks = locks /\ t.age = txn[c].age
        /\ DOMAIN t.writes = {} /\ Shaped(t)
    BY <2>1 DEF Txn, Shaped
  <2>4. Progresses(t)
    BY <1>2, <2>2, <2>3 DEF Progresses, locks
  <2>5. Gains(c, t)
    BY <1>1, <2>3 DEF Gains, locks
  <2> QED
    BY <1>4, <2>1, <2>3, <2>4, <2>5, GoesTo
<1> QED
  BY <1>3, <1>4 DEF CascadeLocksRun

LEMMA CancelFirstKeeps ==
  ASSUME StoreInv, TxnInv, NEW c \in Conn, NEW r \in Run, CancelLocksFirst(c, r)
  PROVE  TxnInv'
<1> DEFINE lock == Lock(RunRow(r), "update")
<1>1. ~Open(c) /\ Free(c, lock) /\ Goes(c, Txn("cancel", r, {lock}, <<>>))
  BY DEF CancelLocksFirst, Begins, JoinOrder
<1>2. lock.row[1] = "run"
  BY Locks, Rows
<1> PICK t : t = [Txn("cancel", r, {lock}, <<>>) EXCEPT !.age = txn[c].age]
  OBVIOUS
<1>3. lock = Lock(RunRow(r), "update")
  OBVIOUS
<1> HIDE DEF lock
<1>4. /\ t.next = "cancel" /\ t.target = r /\ t.locks = {lock} /\ t.age = txn[c].age
      /\ t.writes = <<>> /\ Shaped(t)
  BY DEF Txn, Shaped
<1>5. Progresses(t)
  BY <1>2, <1>3, <1>4, NoWrites DEF Progresses, OnlyRuns
<1>6. Gains(c, t)
  BY <1>1, <1>4, NoWrites DEF Gains
<1> QED
  BY <1>1, <1>4, <1>5, <1>6, GoesTo

\* A transaction that has decided on one Run, which it has locked.
LEMMA WorkKeeps ==
  ASSUME StoreInv, TxnInv, NEW c \in Conn, NEW locks, NEW r \in Run, NEW new,
         Goes(c, Decided(locks, Version(r, new))),
         \A lock \in locks \ txn[c].locks : Free(c, lock),
         \E mode \in {"update", "no key update"} : Lock(RunRow(r), mode) \in locks,
         run[r].status # "ABSENT",
         Decides(run[r], new, txn[c].age),
         new.status = "SUCCEEDED" =>
           Lock(SessionRow(run[r].session), "no key update") \in locks
  PROVE  TxnInv'
<1> PICK t : t = [Decided(locks, Version(r, new)) EXCEPT !.age = txn[c].age]
  OBVIOUS
<1>1. /\ t.next = "commit" /\ t.target = NoTarget /\ t.locks = locks /\ t.age = txn[c].age
      /\ DOMAIN t.writes = {r} /\ t.writes[r] = new /\ Shaped(t)
  BY DEF Decided, Txn, Version, Shaped
<1>2. DecidesWork(t)
  BY <1>1 DEF DecidesWork
<1>3. SuccessLocked(t)
  BY <1>1 DEF SuccessLocked
<1>4. Progresses(t)
  BY <1>1, <1>2, <1>3 DEF Progresses
<1>5. RunLocked(t, r)
  BY <1>1 DEF RunLocked
<1>6. Gains(c, t)
  BY <1>1, <1>5 DEF Gains
<1> QED
  BY <1>1, <1>4, <1>6, GoesTo

\* A transaction that has decided to change no row.
LEMMA NothingKeeps ==
  ASSUME StoreInv, TxnInv, NEW c \in Conn, NEW locks, Goes(c, Decided(locks, <<>>)),
         \A lock \in locks \ txn[c].locks : Free(c, lock)
  PROVE  TxnInv'
<1> PICK t : t = [Decided(locks, <<>>) EXCEPT !.age = txn[c].age]
  OBVIOUS
<1>1. /\ t.next = "commit" /\ t.target = NoTarget /\ t.locks = locks /\ t.age = txn[c].age
      /\ t.writes = <<>> /\ Shaped(t)
  BY DEF Decided, Txn, Shaped
<1>2. DecidesNothing(t) /\ SuccessLocked(t)
  BY <1>1, NoWrites DEF DecidesNothing, SuccessLocked
<1>3. Progresses(t)
  BY <1>1, <1>2 DEF Progresses
<1>4. Gains(c, t)
  BY <1>1, NoWrites DEF Gains
<1> QED
  BY <1>1, <1>3, <1>4, GoesTo

LEMMA CancelSecondKeeps ==
  ASSUME StoreInv, TxnInv, NEW c \in Conn, CancelLocksSecond(c)
  PROVE  TxnInv'
<1> DEFINE r == txn[c].target
           lock == Lock(SessionRow(run[r].session), "update")
           locks == txn[c].locks \cup {lock}
<1>1. /\ At(c, "cancel") /\ Free(c, lock)
      /\ Goes(c, Decided(locks, IF CancelChanges(run[r]) THEN Version(r, CancelAsked(run[r]))
                                ELSE <<>>))
  BY DEF CancelLocksSecond, JoinOrder
<1>2. r \in Run /\ Lock(RunRow(r), "update") \in txn[c].locks
  <2>1. Progresses(txn[c]) /\ txn[c].next = "cancel"
    BY <1>1 DEF TxnInv, TxnOK, At
  <2> QED
    BY <2>1 DEF Progresses, NoTxn, Txn
<1>3. \A other \in locks \ txn[c].locks : Free(c, other)
  BY <1>1
<1>4. Lock(RunRow(r), "update") \in locks
  BY <1>2
<1> HIDE DEF locks
<1>5. CASE CancelChanges(run[r])
  <2>1. run[r] \in Row /\ run[r].status # "ABSENT"
    BY <1>2, <1>5 DEF StoreInv, CancelChanges
  <2>2. CancelAsked(run[r]).status # "SUCCEEDED"
    BY <1>5, <2>1, Statuses
  <2>3. Decides(run[r], CancelAsked(run[r]), txn[c].age)
    BY <1>5 DEF Decides
  <2>4. Goes(c, Decided(locks, Version(r, CancelAsked(run[r]))))
    BY <1>1, <1>5
  <2> QED
    BY <1>2, <1>3, <1>4, <2>1, <2>2, <2>3, <2>4, WorkKeeps
<1>6. CASE ~CancelChanges(run[r])
  <2>1. Goes(c, Decided(locks, <<>>))
    BY <1>1, <1>6
  <2> QED
    BY <1>3, <2>1, NothingKeeps
<1> QED
  BY <1>5, <1>6

LEMMA TouchKeeps ==
  ASSUME StoreInv, TxnInv, NEW c \in Conn, NEW s \in Session, NEW mode, TouchSession(c, s, mode)
  PROVE  TxnInv'
<1>1. /\ Free(c, Lock(SessionRow(s), mode))
      /\ Goes(c, Decided({Lock(SessionRow(s), mode)}, <<>>))
  BY DEF TouchSession, Begins
<1> QED
  BY <1>1, NothingKeeps

LEMMA RenewReadsKeeps ==
  ASSUME StoreInv, TxnInv, NEW c \in Conn, NEW r \in Run, NEW w \in Worker,
         RenewReadsClock(c, r, w)
  PROVE  TxnInv'
<1> PICK t : t = [[Txn("renew", r, {}, <<>>) EXCEPT !.worker = w] EXCEPT !.age = txn[c].age]
  OBVIOUS
<1>1. /\ t.next = "renew" /\ t.target = r /\ t.worker = w /\ t.locks = {}
      /\ t.age = txn[c].age /\ t.writes = <<>> /\ Shaped(t)
  BY DEF Txn, Shaped
<1>2. Progresses(t)
  BY <1>1, NoWrites DEF Progresses
<1>3. Gains(c, t)
  BY <1>1, NoWrites DEF Gains
<1>4. Goes(c, [Txn("renew", r, {}, <<>>) EXCEPT !.worker = w])
  BY DEF RenewReadsClock
<1> QED
  BY <1>1, <1>2, <1>3, <1>4, GoesTo

LEMMA RenewLocksKeeps ==
  ASSUME StoreInv, TxnInv, NEW c \in Conn, RenewLocksRun(c)
  PROVE  TxnInv'
<1> DEFINE r == txn[c].target
           w == txn[c].worker
           age == txn[c].age
           lock == Lock(RunRow(r), "no key update")
           new == [run[r] EXCEPT !.lease = LeaseTicks - age]
<1>1. /\ At(c, "renew") /\ Free(c, lock)
      /\ Goes(c, Decided({lock}, IF Renewable(run[r], w, age) THEN Version(r, new) ELSE <<>>))
  BY DEF RenewLocksRun
<1>2. r \in Run /\ w \in Worker
  <2>1. Progresses(txn[c]) /\ txn[c].next = "renew"
    BY <1>1 DEF TxnInv, TxnOK, At
  <2> QED
    BY <2>1 DEF Progresses, NoTxn, Txn
<1>3. CASE Renewable(run[r], w, age)
  <2>1. run[r] \in Row /\ run[r].status = "RUNNING"
    BY <1>2, <1>3 DEF StoreInv, Renewable
  <2>2. new.status # "SUCCEEDED"
    BY <2>1, Statuses
  <2>3. Decides(run[r], new, age)
    BY <1>2, <1>3 DEF Decides
  <2>4. Goes(c, Decided({lock}, Version(r, new)))
    BY <1>1, <1>3
  <2>5. \E mode \in {"update", "no key update"} : Lock(RunRow(r), mode) \in {lock}
    OBVIOUS
  <2> HIDE DEF new, lock
  <2> QED
    BY <1>1, <1>2, <2>1, <2>2, <2>3, <2>4, <2>5, WorkKeeps
<1>4. CASE ~Renewable(run[r], w, age)
  <2>1. Goes(c, Decided({lock}, <<>>))
    BY <1>1, <1>4
  <2> QED
    BY <1>1, <2>1, NothingKeeps
<1> QED
  BY <1>3, <1>4

\* What LocksOwnRun establishes.
LEMMA Owned ==
  ASSUME StoreInv, TxnInv, NEW c \in Conn, NEW r \in Run, NEW w \in Worker, LocksOwnRun(c, r, w)
  PROVE  /\ ~Open(c) /\ Free(c, Lock(RunRow(r), "update"))
         /\ txn[c].age = 0 /\ txn[c].locks = {} /\ DOMAIN txn[c].writes = {}
         /\ Owns(run[r], w, txn[c].age)
         /\ run[r] \in Row /\ run[r].status = "RUNNING"
         /\ \A locks : locks = {Lock(RunRow(r), "update")} =>
              /\ \A lock \in locks \ txn[c].locks : Free(c, lock)
              /\ \E mode \in {"update", "no key update"} : Lock(RunRow(r), mode) \in locks
BY Fresh DEF LocksOwnRun, Begins, Owns, StoreInv

LEMMA RecordsKeeps ==
  ASSUME StoreInv, TxnInv, NEW c \in Conn, NEW r \in Run, NEW w \in Worker,
         NEW type \in ProgressEvent, Records(c, r, w, type)
  PROVE  TxnInv'
<1> PICK locks : locks = {Lock(RunRow(r), "update")}
  OBVIOUS
<1>1. /\ LocksOwnRun(c, r, w)
      /\ Goes(c, Decided(locks, IF Len(run[r].events) < MaxEvents
                                THEN Version(r, Logged(run[r], type)) ELSE <<>>))
  BY DEF Records
<1>2. CASE Len(run[r].events) < MaxEvents
  <2>1. Decides(run[r], Logged(run[r], type), txn[c].age)
    BY <1>1, <1>2, Owned DEF Decides
  <2>2. Logged(run[r], type).status # "SUCCEEDED" /\ run[r].status # "ABSENT"
    <3>1. run[r] \in Row /\ run[r].status = "RUNNING"
      BY <1>1, Owned
    <3> QED
      BY <3>1, Statuses
  <2>3. Goes(c, Decided(locks, Version(r, Logged(run[r], type))))
    BY <1>1, <1>2
  <2>4. /\ \A lock \in locks \ txn[c].locks : Free(c, lock)
        /\ \E mode \in {"update", "no key update"} : Lock(RunRow(r), mode) \in locks
    BY <1>1, Owned
  <2> QED
    BY <2>1, <2>2, <2>3, <2>4, WorkKeeps
<1>3. CASE ~(Len(run[r].events) < MaxEvents)
  <2>1. Goes(c, Decided(locks, <<>>))
    BY <1>1, <1>3
  <2>2. \A lock \in locks \ txn[c].locks : Free(c, lock)
    BY <1>1, Owned
  <2> QED
    BY <2>1, <2>2, NothingKeeps
<1> QED
  BY <1>2, <1>3

LEMMA FailKeeps ==
  ASSUME StoreInv, TxnInv, NEW c \in Conn, NEW r \in Run, NEW w \in Worker,
         NEW code \in WorkerError, NEW retryable \in BOOLEAN,
         FailLocksRun(c, r, w, code, retryable)
  PROVE  TxnInv'
<1> PICK locks : locks = {Lock(RunRow(r), "update")}
  OBVIOUS
<1> PICK new : new = Failed(run[r], code, retryable, 0)
  OBVIOUS
<1>1. /\ LocksOwnRun(c, r, w)
      /\ code = "RUN_CANCELLED" => run[r].cancel_requested
      /\ Goes(c, Decided(locks, Version(r, new)))
  BY DEF FailLocksRun
<1>2. Decides(run[r], new, txn[c].age)
  <2>1. txn[c].age = 0 /\ Owns(run[r], w, txn[c].age)
    BY <1>1, Owned
  <2>2. 0 \in 0..txn[c].age
    BY <2>1
  <2> QED
    BY <1>1, <2>1, <2>2 DEF Decides
<1>3. new.status # "SUCCEEDED" /\ run[r].status # "ABSENT"
  <2>1. run[r] \in Row /\ run[r].status = "RUNNING"
    BY <1>1, Owned
  <2> QED
    BY <2>1, Statuses
<1>4. /\ \A lock \in locks \ txn[c].locks : Free(c, lock)
      /\ \E mode \in {"update", "no key update"} : Lock(RunRow(r), mode) \in locks
  BY <1>1, Owned
<1> QED
  BY <1>1, <1>2, <1>3, <1>4, WorkKeeps

LEMMA CompleteKeeps ==
  ASSUME StoreInv, TxnInv, NEW c \in Conn, NEW r \in Run, NEW w \in Worker,
         CompleteLocksRun(c, r, w)
  PROVE  TxnInv'
<1> PICK lock : lock = Lock(RunRow(r), "update")
  OBVIOUS
<1> PICK new : new = Completed(run[r])
  OBVIOUS
<1>1. /\ LocksOwnRun(c, r, w)
      /\ Goes(c, IF run[r].cancel_requested THEN Decided({lock}, Version(r, new))
                 ELSE Txn("insert", r, {lock}, Version(r, new)))
  BY DEF CompleteLocksRun
<1>2. /\ \A other \in {lock} \ txn[c].locks : Free(c, other)
      /\ \E mode \in {"update", "no key update"} : Lock(RunRow(r), mode) \in {lock}
      /\ run[r].status # "ABSENT"
      /\ Owns(run[r], w, txn[c].age)
  BY <1>1, Owned
<1>3. CASE run[r].cancel_requested
  <2>1. Decides(run[r], new, txn[c].age)
    BY <1>2 DEF Decides
  <2>2. new.status # "SUCCEEDED"
    BY <1>1, <1>3, Owned, Statuses
  <2>3. Goes(c, Decided({lock}, Version(r, new)))
    BY <1>1, <1>3
  <2> QED
    BY <1>2, <2>1, <2>2, <2>3, WorkKeeps
<1>4. CASE ~run[r].cancel_requested
  <2> PICK t : t = [Txn("insert", r, {lock}, Version(r, new)) EXCEPT !.age = txn[c].age]
    OBVIOUS
  <2>1. /\ t.next = "insert" /\ t.target = r /\ t.locks = {lock} /\ t.age = txn[c].age
        /\ DOMAIN t.writes = {r} /\ t.writes[r] = new /\ Shaped(t)
    BY DEF Txn, Version, Shaped
  <2>2. lock.row[1] = "run"
    BY Locks, Rows
  <2>3. Completes(t) /\ OnlyRuns(t)
    BY <1>2, <2>1, <2>2 DEF Completes, OnlyRuns
  <2>4. RunLocked(t, r)
    BY <1>2, <2>1 DEF RunLocked
  <2>5. Progresses(t)
    BY <2>1, <2>3 DEF Progresses
  <2>6. Gains(c, t)
    BY <1>2, <2>1, <2>4 DEF Gains
  <2>7. Goes(c, Txn("insert", r, {lock}, Version(r, new)))
    BY <1>1, <1>4
  <2> QED
    BY <2>1, <2>5, <2>6, <2>7, GoesTo
<1> QED
  BY <1>3, <1>4

LEMMA InsertKeeps ==
  ASSUME StoreInv, TxnInv, NEW c \in Conn, CompleteInserts(c)
  PROVE  TxnInv'
<1> DEFINE r == txn[c].target
           lock == Lock(SessionRow(run[r].session), "key share")
           locks == txn[c].locks \cup {lock}
           writes == txn[c].writes
<1>1. At(c, "insert") /\ Free(c, lock) /\ Goes(c, Txn("touch", r, locks, writes))
  BY DEF CompleteInserts
<1>2. TxnOK(txn[c]) /\ Completes(txn[c]) /\ OnlyRuns(txn[c])
  <2>1. TxnOK(txn[c]) /\ Progresses(txn[c]) /\ txn[c].next = "insert"
    BY <1>1 DEF TxnInv, TxnOK, At
  <2> QED
    BY <2>1 DEF Progresses, NoTxn, Txn
<1>3. lock.mode = "key share"
  BY Locks
<1> PICK t : t = [Txn("touch", r, locks, writes) EXCEPT !.age = txn[c].age]
  OBVIOUS
<1> HIDE DEF lock
<1>4. /\ t.next = "touch" /\ t.target = r /\ t.locks = locks /\ t.age = txn[c].age
      /\ t.writes = writes /\ Shaped(t)
  BY DEF Txn, Shaped
<1>5. Completes(t)
  BY <1>2, <1>4 DEF Completes
<1>6. \A other \in t.locks : other.row[1] = "run" \/ other.mode = "key share"
  BY <1>2, <1>3, <1>4 DEF OnlyRuns
<1>7. Progresses(t)
  BY <1>4, <1>5, <1>6 DEF Progresses
<1>8. Gains(c, t)
  BY <1>1, <1>2, <1>4 DEF Gains, TxnOK, RunLocked
<1> QED
  BY <1>1, <1>4, <1>7, <1>8, GoesTo

LEMMA TouchesKeeps ==
  ASSUME StoreInv, TxnInv, NEW c \in Conn, CompleteTouches(c)
  PROVE  TxnInv'
<1> DEFINE r == txn[c].target
           lock == Lock(SessionRow(run[r].session), "no key update")
           locks == txn[c].locks \cup {lock}
           writes == txn[c].writes
<1>1. At(c, "touch") /\ Free(c, lock) /\ Goes(c, Decided(locks, writes))
  BY DEF CompleteTouches
<1>2. TxnOK(txn[c]) /\ Completes(txn[c])
  <2>1. TxnOK(txn[c]) /\ Progresses(txn[c]) /\ txn[c].next = "touch"
    BY <1>1 DEF TxnInv, TxnOK, At
  <2>2. txn[c] # NoTxn
    BY <2>1 DEF NoTxn, Txn
  <2>3. Completes(txn[c])
    BY <2>1, <2>2, Zenon DEF Progresses
  <2> QED
    BY <2>1, <2>3
<1> PICK t : t = [Decided(locks, writes) EXCEPT !.age = txn[c].age]
  OBVIOUS
<1>3. /\ t.next = "commit" /\ t.target = NoTarget /\ t.locks = locks /\ t.age = txn[c].age
      /\ t.writes = writes /\ Shaped(t)
  BY DEF Decided, Txn, Shaped
<1>4. SuccessLocked(t)
  BY <1>2, <1>3 DEF Completes, SuccessLocked
<1>5. DecidesWork(t)
  <2>1. PICK w \in Worker : Owns(run[r], w, t.age)
    BY <1>2, <1>3 DEF Completes
  <2>2. r \in Run /\ DOMAIN t.writes = {r} /\ t.writes[r] = Completed(run[r])
    BY <1>2, <1>3 DEF Completes
  <2>3. Decides(run[r], t.writes[r], t.age)
    BY <2>1, <2>2 DEF Decides
  <2> QED
    BY <1>3, <2>2, <2>3 DEF DecidesWork
<1>6. Progresses(t)
  BY <1>3, <1>4, <1>5 DEF Progresses
<1>7. Gains(c, t)
  BY <1>1, <1>2, <1>3 DEF Gains, TxnOK, RunLocked
<1> QED
  BY <1>1, <1>3, <1>6, <1>7, GoesTo

\* What a sweep decides makes no success, and its rows are locked.
LEMMA SweepKeeps ==
  ASSUME StoreInv, TxnInv, NEW c \in Conn, NEW w \in Worker, ClaimSweeps(c, w)
  PROVE  TxnInv'
<1>1. PICK swept \in SUBSET SweptBy(c) :
        /\ IF Cardinality(SweptBy(c)) <= SweepLimit
           THEN swept = SweptBy(c)
           ELSE Cardinality(swept) = SweepLimit
        /\ Goes(c, [Txn("claim", NoTarget, {Lock(RunRow(r), "update") : r \in swept},
                        [r \in swept |-> Swept(run[r])]) EXCEPT !.worker = w])
  BY DEF ClaimSweeps
<1>2. Cardinality(swept) <= SweepLimit
  BY <1>1, StoreAssumption
<1>3. \A r \in swept : /\ r \in Run /\ Free(c, Lock(RunRow(r), "update"))
                       /\ Sweepable(run[r]) /\ run[r].status # "ABSENT"
  BY DEF SweptBy, Visible, Sweepable
<1> PICK locks : locks = {Lock(RunRow(r), "update") : r \in swept}
  OBVIOUS
<1> PICK writes : writes = [r \in swept |-> Swept(run[r])]
  OBVIOUS
<1>4. Goes(c, [Txn("claim", NoTarget, locks, writes) EXCEPT !.worker = w])
  BY <1>1
<1> PICK t : t = [[Txn("claim", NoTarget, locks, writes) EXCEPT !.worker = w]
                    EXCEPT !.age = txn[c].age]
  OBVIOUS
<1>5. /\ t.next = "claim" /\ t.target = NoTarget /\ t.worker = w /\ t.locks = locks
      /\ t.age = txn[c].age /\ t.writes = writes /\ Shaped(t)
  BY DEF Txn, Shaped
<1>6. Sweeps(t, DOMAIN t.writes)
  BY <1>2, <1>3, <1>5 DEF Sweeps
<1>7. Progresses(t)
  BY <1>5, <1>6 DEF Progresses
<1>8. Gains(c, t)
  <2>1. \A lock \in t.locks : Free(c, lock)
    BY <1>3, <1>5
  <2>2. \A r \in swept : RunLocked(t, r)
    BY <1>5 DEF RunLocked
  <2> QED
    BY <1>3, <1>5, <2>1, <2>2 DEF Gains
<1> QED
  BY <1>4, <1>5, <1>7, <1>8, GoesTo

LEMMA PickKeeps ==
  ASSUME StoreInv, TxnInv, NEW c \in Conn, NEW w \in Worker, ClaimPicks(c, w)
  PROVE  TxnInv'
<1> DEFINE t == txn[c]
           swept == txn[c].writes
           claimable == {r \in Visible(c) : Claimable(run[r])}
<1>1. /\ TxnOK(txn[c]) /\ DOMAIN swept \subseteq Run
      /\ Sweeps(txn[c], DOMAIN swept)
  <2>1. TxnOK(txn[c])
    BY DEF TxnInv
  <2>2. CASE At(c, "claim")
    <3>1. Progresses(txn[c]) /\ txn[c].next = "claim"
      BY <2>1, <2>2 DEF TxnOK, At
    <3>2. Sweeps(txn[c], DOMAIN swept)
      BY <3>1 DEF Progresses, NoTxn, Txn
    <3> QED
      BY <2>1, <3>2 DEF TxnOK
  <2>3. CASE ~Open(c)
    <3>1. DOMAIN swept = {}
      BY <2>3, Fresh
    <3>2. Cardinality({}) = 0
      BY FS_EmptySet
    <3>3. Sweeps(txn[c], DOMAIN swept)
      BY <3>1, <3>2, StoreAssumption DEF Sweeps
    <3> QED
      BY <2>1, <3>1, <3>3
  <2> QED
    BY <2>2, <2>3 DEF ClaimPicks
<1>2. \A r \in Run : run[r] \in Row /\ RowInv(run[r]) /\ r # 0
  BY StoreAssumption DEF StoreInv, Run
<1>3. \A r \in DOMAIN swept : swept[r] = Swept(run[r]) /\ Sweepable(run[r])
  BY <1>1 DEF Sweeps
<1>4. \A r \in DOMAIN swept : RunLocked(txn[c], r)
  BY <1>1, <1>3 DEF TxnOK, Sweepable
<1>5. CASE claimable = {}
  <2>1. Goes(c, Decided(txn[c].locks, swept))
    BY <1>5 DEF ClaimPicks
  <2> PICK u : u = [Decided(txn[c].locks, swept) EXCEPT !.age = txn[c].age]
    OBVIOUS
  <2>2. /\ u.next = "commit" /\ u.target = NoTarget /\ u.locks = txn[c].locks
        /\ u.age = txn[c].age /\ u.writes = swept /\ Shaped(u)
    BY DEF Decided, Txn, Shaped
  <2>3. DecidesClaim(u)
    <3>1. DOMAIN u.writes \ {0} = DOMAIN swept
      BY <1>1, <1>2, <2>2
    <3>2. Sweeps(u, DOMAIN u.writes \ {0})
      BY <1>1, <2>2, <3>1 DEF Sweeps
    <3> QED
      BY <2>2, <3>2 DEF DecidesClaim
  <2>4. SuccessLocked(u)
    <3>1. \A r \in DOMAIN swept : swept[r].status # "SUCCEEDED"
      BY <1>1, <1>2, <1>3, Statuses
    <3> QED
      BY <2>2, <3>1 DEF SuccessLocked
  <2>5. Progresses(u)
    BY <2>2, <2>3, <2>4 DEF Progresses
  <2>6. Gains(c, u)
    BY <1>1, <1>4, <2>2 DEF Gains, RunLocked
  <2> QED
    BY <2>1, <2>2, <2>5, <2>6, GoesTo
<1>6. ASSUME NEW pick \in claimable,
             Goes(c, Decided(txn[c].locks \cup {Lock(RunRow(pick), "update")},
                             [r \in DOMAIN swept \cup {pick} |->
                                IF r = pick THEN ClaimedBy(run[pick], w, 0) ELSE swept[r]]))
      PROVE  TxnInv'
  <2> PICK lock : lock = Lock(RunRow(pick), "update")
    OBVIOUS
  <2> PICK locks : locks = txn[c].locks \cup {lock}
    OBVIOUS
  <2> PICK writes : writes = [r \in DOMAIN swept \cup {pick} |->
                                IF r = pick THEN ClaimedBy(run[pick], w, 0) ELSE swept[r]]
    OBVIOUS
  <2>1. Goes(c, Decided(locks, writes))
    BY <1>6
  <2>2. /\ pick \in Run /\ Claimable(run[pick]) /\ Free(c, lock)
        /\ run[pick].status # "ABSENT"
    BY DEF Visible, Claimable
  <2>3. pick \notin DOMAIN swept
    BY <1>2, <1>3, <2>2, SweepOrClaim
  <2>4. /\ DOMAIN writes = DOMAIN swept \cup {pick}
        /\ writes[pick] = ClaimedBy(run[pick], w, 0)
        /\ \A r \in DOMAIN swept : writes[r] = swept[r]
    BY <2>3
  <2> PICK u : u = [Decided(locks, writes) EXCEPT !.age = txn[c].age]
    OBVIOUS
  <2>5. /\ u.next = "commit" /\ u.target = NoTarget /\ u.locks = locks
        /\ u.age = txn[c].age /\ u.writes = writes /\ Shaped(u)
    BY DEF Decided, Txn, Shaped
  <2>6. DecidesClaim(u)
    <3>1. DOMAIN u.writes \ {pick} = DOMAIN swept
      BY <2>3, <2>4, <2>5
    <3>2. Sweeps(u, DOMAIN u.writes \ {pick})
      BY <1>1, <2>4, <2>5, <3>1 DEF Sweeps
    <3>3. Picks(u, pick, w)
      <4>1. 0 \in 0..u.age
        BY <1>1, <2>5, StoreAssumption DEF TxnOK
      <4> QED
        BY <2>2, <2>4, <2>5, <4>1 DEF Picks
    <3>4. pick \in DOMAIN u.writes \cup {0}
      BY <2>4, <2>5
    <3> QED
      BY <2>5, <3>2, <3>3, <3>4 DEF DecidesClaim
  <2>7. SuccessLocked(u)
    <3>1. writes[pick].status # "SUCCEEDED"
      BY <1>2, <2>2, <2>4, Statuses
    <3>2. \A r \in DOMAIN swept : writes[r].status # "SUCCEEDED"
      BY <1>1, <1>2, <1>3, <2>4, Statuses
    <3> QED
      BY <2>4, <2>5, <3>1, <3>2 DEF SuccessLocked
  <2>8. Progresses(u)
    BY <2>5, <2>6, <2>7 DEF Progresses
  <2>9. Gains(c, u)
    <3>1. RunLocked(u, pick)
      BY <2>5 DEF RunLocked
    <3>2. \A r \in DOMAIN swept : RunLocked(u, r)
      BY <1>4, <2>5 DEF RunLocked
    <3>3. \A l \in u.locks \ txn[c].locks : Free(c, l)
      BY <2>2, <2>5
    <3> QED
      BY <1>1, <2>2, <2>4, <2>5, <3>1, <3>2, <3>3 DEF Gains
  <2> QED
    BY <2>1, <2>5, <2>8, <2>9, GoesTo
<1> QED
  BY <1>5, <1>6 DEF ClaimPicks

LEMMA EndKeeps ==
  ASSUME TxnInv, NEW c \in Conn, Ends(c), UNCHANGED storeVars
  PROVE  TxnInv'
BY NoTxnOK, Replaced DEF Ends

-----------------------------------------------------------------------------
(* Every step *)

LEMMA BeginKeeps ==
  ASSUME StoreInv, TxnInv, NEW c \in Conn, Begin(c)
  PROVE  TxnInv'
<1>1. ASSUME NEW r \in Run, NEW w \in Worker,
             \/ RenewReadsClock(c, r, w)
             \/ \E type \in ProgressEvent : Records(c, r, w, type)
             \/ \E code \in WorkerError, retryable \in BOOLEAN :
                  FailLocksRun(c, r, w, code, retryable)
             \/ CompleteLocksRun(c, r, w)
      PROVE  TxnInv'
  BY <1>1, RenewReadsKeeps, RecordsKeeps, FailKeeps, CompleteKeeps
<1>2. ASSUME NEW s \in Session,
             \/ \E r \in Run : EnqueueMessage(c, s, r)
             \/ DeleteLocksSession(c, s)
             \/ \E mode \in {"update", "no key update"} : TouchSession(c, s, mode)
      PROVE  TxnInv'
  BY <1>2, EnqueueKeeps, DeletionKeeps, TouchKeeps
<1> QED
  BY <1>1, <1>2, CancelFirstKeeps, SweepKeeps, Zenon DEF Begin

LEMMA TransactionsInit == Init => StoreInv /\ TxnInv
<1> SUFFICES ASSUME Init PROVE TxnInv
  BY InvariantInit DEF Init
<1>1. DOMAIN txn = Conn /\ \A c \in Conn : txn[c] = NoTxn
  BY DEF Init
<1> QED
  BY <1>1, NoTxnOK DEF TxnInv

\* Only a commit and time change the rows of the database.
LEMMA TransactionsStep ==
  ASSUME StoreInv, TxnInv, [Next]_txnVars
  PROVE  [StoreNext]_storeVars /\ TxnInv'
<1>1. ASSUME NEW c \in Conn, Begin(c)
      PROVE  UNCHANGED storeVars /\ TxnInv'
  <2>1. UNCHANGED storeVars
    BY <1>1 DEF Begin, EnqueueMessage, DeleteLocksSession, TouchSession, CancelLocksFirst,
                ClaimSweeps, RenewReadsClock, Records, FailLocksRun, CompleteLocksRun, Goes
  <2> QED
    BY <1>1, <2>1, BeginKeeps
<1>2. ASSUME NEW c \in Conn,
             \/ CascadeLocksRun(c) \/ CancelLocksSecond(c) \/ RenewLocksRun(c)
             \/ CompleteInserts(c) \/ CompleteTouches(c)
      PROVE  UNCHANGED storeVars /\ TxnInv'
  <2>1. UNCHANGED storeVars
    BY <1>2 DEF CascadeLocksRun, CancelLocksSecond, RenewLocksRun, CompleteInserts,
                CompleteTouches, Goes
  <2> QED
    BY <1>2, <2>1, CascadeKeeps, CancelSecondKeeps, RenewLocksKeeps, InsertKeeps, TouchesKeeps
<1>3. ASSUME NEW c \in Conn, NEW w \in Worker, ClaimPicks(c, w)
      PROVE  UNCHANGED storeVars /\ TxnInv'
  <2>1. UNCHANGED storeVars
    BY <1>3 DEF ClaimPicks, Goes
  <2> QED
    BY <1>3, <2>1, PickKeeps
<1>4. ASSUME NEW c \in Conn, Disconnect(c) \/ BreakDeadlock(c)
      PROVE  UNCHANGED storeVars /\ TxnInv'
  BY <1>4, EndKeeps DEF Disconnect, BreakDeadlock
<1>5. ASSUME NEW c \in Conn, Commit(c) PROVE [StoreNext]_storeVars /\ TxnInv'
  BY <1>5, CommitImplements, CommitKeeps
<1>6. CASE TransactionTick
  BY <1>6, TickTransactions DEF TransactionTick, StoreNext
<1>7. CASE UNCHANGED txnVars
  <2>1. txn' = txn /\ UNCHANGED storeVars
    BY <1>7 DEF txnVars, storeVars
  <2>2. (\A c \in Conn : TxnOK(txn[c]))'
    BY <2>1, Untouched DEF TxnInv
  <2> QED
    BY <2>1, <2>2 DEF TxnInv
<1> QED
  BY <1>1, <1>2, <1>3, <1>4, <1>5, <1>6, <1>7, Zenon DEF Next, GoOn

\* The rows keep their invariant, and every decision stays what it was.
THEOREM TransactionsInvariant == SafeSpec => [](StoreInv /\ TxnInv)
<1>1. StoreInv /\ TxnInv /\ [Next]_txnVars => (StoreInv /\ TxnInv)'
  BY TransactionsStep, InvariantStep
<1> QED
  BY <1>1, TransactionsInit, PTL DEF SafeSpec

\* Lock by lock, over any number of connections, with connections that break
\* and deadlocks that are broken, the database does what the atomic queue does.
THEOREM TransactionsRefine == SafeSpec => ImplementsStore
<1>1. Init => StoreInit
  BY DEF Init
<1>2. StoreInv /\ TxnInv /\ [Next]_txnVars => [StoreNext]_storeVars
  BY TransactionsStep
<1> QED
  BY <1>1, <1>2, TransactionsInvariant, PTL DEF SafeSpec, StoreSpec, ImplementsStore

\* Only the deletion of a session can be in a deadlock.
THEOREM DeadlocksAreDeletions == SafeSpec => []OnlyDeletionsDeadlock
BY CirclesDelete, TransactionsInvariant, PTL

\* What is proved of the atomic queue is true of the database.
THEOREM TransactionsCorrect ==
  SafeSpec => [](AnswerIffSucceeded /\ CancellationWins /\ NoStrandedRun /\ RevisionChain)
BY TransactionsRefine, AnswerOnce, CancellationHonoured, NoStranded, ChainCorrect, PTL
   DEF ImplementsStore
=============================================================================
