---------------------------- MODULE Transactions ----------------------------
(***************************************************************************)
(* The transactions of app/store.py, app/context.py and app/main.py one    *)
(* row lock at a time.  RunStore takes every transaction for one step.     *)
(* Here a transaction locks a row, reads and decides, waits for the next   *)
(* row while others go on, and commits what it decided or loses its        *)
(* connection; the property ImplementsStore says that nothing but steps of *)
(* RunStore comes of it.                                                   *)
(*                                                                         *)
(* PostgreSQL is external: row locks of three modes, READ COMMITTED,       *)
(* SKIP LOCKED, the locks its foreign keys take (an INSERT holds the row   *)
(* it refers to, ON DELETE CASCADE locks what it deletes), and the         *)
(* detector that ends a cycle of waiting transactions by aborting one.  A  *)
(* transaction that waits for its FIRST row holds nothing and is in no     *)
(* cycle, so beginning and taking the first lock are one step.             *)
(***************************************************************************)
EXTENDS RunStore

CONSTANTS
  Conn,     \* connections to the database: bound on the open transactions
  NoTarget

ASSUME TransactionAssumption == NoTarget \notin Run \cup Session

VARIABLE txn  \* txn[c]: the transaction open on connection c

txnVars == <<sessions, run, txn>>

-----------------------------------------------------------------------------
(* Row locks *)

SessionRow(s) == <<"session", s>>
RunRow(r) == <<"run", r>>

\* FOR KEY SHARE, FOR NO KEY UPDATE, FOR UPDATE
Lock(row, mode) == [row |-> row, mode |-> mode]
Conflict(mode, other) ==
  "update" \in {mode, other} \/ {mode, other} = {"no key update"}

\* next says what the transaction does next and target the row that is about;
\* writes are its uncommitted versions of Runs, and age is how long it has been
\* open, at least as long as its clock reading is old.
Txn(next, target, locks, writes) ==
  [next |-> next, target |-> target, worker |-> NoWorker, locks |-> locks,
   writes |-> writes, age |-> 0]
NoTxn == Txn("none", NoTarget, {}, <<>>)

Open(c) == txn[c].next # "none"
At(c, next) == txn[c].next = next

\* The transactions that make c wait for lock.
Blockers(c, lock) ==
  {d \in Conn \ {c} : \E held \in txn[d].locks :
     held.row = lock.row /\ Conflict(held.mode, lock.mode)}
Free(c, lock) == Blockers(c, lock) = {}

\* The begin of a transaction, which takes its first lock.
Begins(c, lock) == ~Open(c) /\ Free(c, lock)

\* The next state of the transaction, no older than it was, or its end.
Goes(c, t) ==
  /\ txn' = [txn EXCEPT ![c] = [t EXCEPT !.age = txn[c].age]]
  /\ UNCHANGED storeVars
Ends(c) == txn' = [txn EXCEPT ![c] = NoTxn]

\* Nothing left but the COMMIT.
Decided(locks, writes) == Txn("commit", NoTarget, locks, writes)
Version(r, row) == [q \in {r} |-> row]

-----------------------------------------------------------------------------
(* The API *)

\* A Run nobody has inserted, committed or not, later than all of its session.
Unused(s, r) ==
  /\ run[r].status = "ABSENT"
  /\ \A c \in Conn : r \notin DOMAIN txn[c].writes
  /\ \A q \in InSession(s) : q < r

\* MUTANT of EnqueueMessage: the session row is only held, not locked.
EnqueueMessageShared(c, s, r) ==
  LET lock == Lock(SessionRow(s), "key share") IN
  /\ Begins(c, lock)
  /\ s \in sessions
  /\ Unused(s, r)
  /\ \E previous \in InSession(s) \cup {0} :
       /\ Replaces(s, previous)
       /\ Goes(c, Decided({lock}, Version(r, NewRun(s, previous))))

\* enqueue_message; without the session it returns None.
EnqueueMessage(c, s, r) ==
  LET lock == Lock(SessionRow(s), "update") IN
  /\ Begins(c, lock)
  /\ s \in sessions
  /\ Unused(s, r)
  /\ \E previous \in InSession(s) \cup {0} :
       /\ Replaces(s, previous)
       /\ Goes(c, Decided({lock}, Version(r, NewRun(s, previous))))

\* delete_session: the DELETE locks the session ...
DeleteLocksSession(c, s) ==
  LET lock == Lock(SessionRow(s), "update") IN
  /\ Begins(c, lock)
  /\ s \in sessions
  /\ IF InSession(s) = {}
     THEN Goes(c, [Decided({lock}, <<>>) EXCEPT !.target = s])
     ELSE \E r \in InSession(s) : Goes(c, Txn("cascade", r, {lock}, <<>>))

\* ... and then, one after the other, the Runs the cascade deletes.
CascadeLocksRun(c) ==
  LET r == txn[c].target
      s == run[r].session
      lock == Lock(RunRow(r), "update")
      locks == txn[c].locks \cup {lock}
      rest == {q \in InSession(s) : Lock(RunRow(q), "update") \notin locks}
  IN
  /\ At(c, "cascade")
  /\ Free(c, lock)
  /\ IF rest = {}
     THEN Goes(c, [Decided(locks, [q \in InSession(s) |-> NoRow("DELETED")])
                     EXCEPT !.target = s])
     ELSE \E q \in rest : Goes(c, Txn("cascade", q, locks, <<>>))

\* MUTANT of JoinOrder: the session of the join first.
JoinOrderReversed(r) == <<SessionRow(run[r].session), RunRow(r)>>

\* request_cancellation locks both rows of its join, in the order it names them.
JoinOrder(r) == <<RunRow(r), SessionRow(run[r].session)>>

CancelLocksFirst(c, r) ==
  LET lock == Lock(JoinOrder(r)[1], "update") IN
  /\ Present(run[r])
  /\ Begins(c, lock)
  /\ Goes(c, Txn("cancel", r, {lock}, <<>>))

CancelLocksSecond(c) ==
  LET r == txn[c].target
      lock == Lock(JoinOrder(r)[2], "update")
  IN
  /\ At(c, "cancel")
  /\ Free(c, lock)
  /\ Goes(c, Decided(txn[c].locks \cup {lock},
                     IF CancelChanges(run[r]) THEN Version(r, CancelAsked(run[r])) ELSE <<>>))

\* prepare_session_context locks the session for the summary and its cursor,
\* update_session only writes it.
TouchSession(c, s, mode) ==
  LET lock == Lock(SessionRow(s), mode) IN
  /\ Begins(c, lock)
  /\ s \in sessions
  /\ Goes(c, Decided({lock}, <<>>))

-----------------------------------------------------------------------------
(* The workers *)

\* What SELECT ... FOR UPDATE SKIP LOCKED of c sees.
Visible(c) == {r \in Run : Free(c, Lock(RunRow(r), "update"))}

SweptBy(c) == {r \in Visible(c) : Sweepable(run[r])}

\* The sweep of claim_next_run.
ClaimSweeps(c, w) ==
  /\ ~Open(c)
  /\ SweptBy(c) # {}
  /\ \E swept \in SUBSET SweptBy(c) :
       /\ IF Cardinality(SweptBy(c)) <= SweepLimit
          THEN swept = SweptBy(c)
          ELSE Cardinality(swept) = SweepLimit
       /\ Goes(c, [Txn("claim", NoTarget, {Lock(RunRow(r), "update") : r \in swept},
                       [r \in swept |-> Swept(run[r])]) EXCEPT !.worker = w])

\* MUTANT of ClaimPicks: FOR UPDATE SKIP LOCKED forgotten.
ClaimPicksUnlocked(c, w) ==
  LET swept == txn[c].writes
      claimable == {r \in Run : Claimable(run[r])}
  IN
  /\ \/ At(c, "claim") /\ txn[c].worker = w
     \/ ~Open(c) /\ SweptBy(c) = {} /\ claimable # {}
  /\ IF claimable = {}
     THEN Goes(c, Decided(txn[c].locks, swept))
     ELSE \E pick \in claimable :
            /\ \A r \in claimable : pick <= r
            /\ Goes(c, Decided(txn[c].locks,
                               [r \in DOMAIN swept \cup {pick} |->
                                  IF r = pick THEN ClaimedBy(run[pick], w, 0)
                                  ELSE swept[r]]))

\* The second query of claim_next_run, which sees other rows than the first if
\* they were unlocked meanwhile.
ClaimPicks(c, w) ==
  LET swept == txn[c].writes
      claimable == {r \in Visible(c) : Claimable(run[r])}
  IN
  /\ \/ At(c, "claim") /\ txn[c].worker = w
     \/ ~Open(c) /\ SweptBy(c) = {} /\ claimable # {}
  /\ IF claimable = {}
     THEN Goes(c, Decided(txn[c].locks, swept))
     ELSE \E pick \in claimable :
            /\ \A r \in claimable : pick <= r
            /\ Goes(c, Decided(txn[c].locks \cup {Lock(RunRow(pick), "update")},
                               [r \in DOMAIN swept \cup {pick} |->
                                  IF r = pick THEN ClaimedBy(run[pick], w, 0)
                                  ELSE swept[r]]))

\* renew_lease reads the clock, then its UPDATE waits for the row ...
RenewReadsClock(c, r, w) ==
  /\ ~Open(c)
  /\ Renewable(run[r], w, 0)
  /\ Goes(c, [Txn("renew", r, {}, <<>>) EXCEPT !.worker = w])

\* ... and finds it as it is by then.
RenewLocksRun(c) ==
  LET r == txn[c].target
      age == txn[c].age
      lock == Lock(RunRow(r), "no key update")
  IN
  /\ At(c, "renew")
  /\ Free(c, lock)
  /\ Goes(c, Decided({lock},
                     IF Renewable(run[r], txn[c].worker, age)
                     THEN Version(r, [run[r] EXCEPT !.lease = LeaseTicks - age])
                     ELSE <<>>))

\* _locked_run and the fencing check that follows.
LocksOwnRun(c, r, w) ==
  /\ Begins(c, Lock(RunRow(r), "update"))
  /\ Owns(run[r], w, 0)

\* append_event, record_context_snapshot, record_tool_snapshot: an event for
\* which the bounded log has no room leaves no trace but takes its lock.
Records(c, r, w, type) ==
  /\ LocksOwnRun(c, r, w)
  /\ Goes(c, Decided({Lock(RunRow(r), "update")},
                     IF Len(run[r].events) < MaxEvents
                     THEN Version(r, Logged(run[r], type)) ELSE <<>>))

FailLocksRun(c, r, w, code, retryable) ==
  /\ LocksOwnRun(c, r, w)
  /\ code = "RUN_CANCELLED" => run[r].cancel_requested
  /\ Goes(c, Decided({Lock(RunRow(r), "update")},
                     Version(r, Failed(run[r], code, retryable, 0))))

\* complete_run locks the Run; an answer needs the session too: the INSERT of
\* the message holds its row ...
CompleteLocksRun(c, r, w) ==
  LET locks == {Lock(RunRow(r), "update")}
      writes == Version(r, Completed(run[r]))
  IN
  /\ LocksOwnRun(c, r, w)
  /\ Goes(c, IF run[r].cancel_requested THEN Decided(locks, writes)
             ELSE Txn("insert", r, locks, writes))

\* MUTANT of CompleteInserts: the message has no foreign key.
CompleteInsertsFreely(c) ==
  /\ At(c, "insert")
  /\ Goes(c, Decided(txn[c].locks, txn[c].writes))

CompleteInserts(c) ==
  LET r == txn[c].target
      lock == Lock(SessionRow(run[r].session), "key share")
  IN
  /\ At(c, "insert")
  /\ Free(c, lock)
  /\ Goes(c, Txn("touch", r, txn[c].locks \cup {lock}, txn[c].writes))

\* ... and updated_at changes it.
CompleteTouches(c) ==
  LET lock == Lock(SessionRow(run[txn[c].target].session), "no key update") IN
  /\ At(c, "touch")
  /\ Free(c, lock)
  /\ Goes(c, Decided(txn[c].locks \cup {lock}, txn[c].writes))

-----------------------------------------------------------------------------
(* The database *)

Commit(c) ==
  /\ At(c, "commit")
  /\ run' = [r \in Run |-> IF r \in DOMAIN txn[c].writes THEN txn[c].writes[r] ELSE run[r]]
  /\ sessions' = sessions \ {txn[c].target}
  /\ Ends(c)

\* The connection breaks or the process dies.
Disconnect(c) == Open(c) /\ Ends(c) /\ UNCHANGED storeVars

\* The lock an open transaction needs to go on.
Needs(c) ==
  LET r == txn[c].target IN
  CASE At(c, "cascade") -> {Lock(RunRow(r), "update")}
    [] At(c, "cancel")  -> {Lock(JoinOrder(r)[2], "update")}
    [] At(c, "renew")   -> {Lock(RunRow(r), "no key update")}
    [] At(c, "insert")  -> {Lock(SessionRow(run[r].session), "key share")}
    [] At(c, "touch")   -> {Lock(SessionRow(run[r].session), "no key update")}
    [] OTHER            -> {}
WaitsFor(c) == UNION {Blockers(c, lock) : lock \in Needs(c)}

\* Transactions that wait for one another in a circle.
Circles ==
  {circle \in UNION {[1..n -> Conn] : n \in 1..Cardinality(Conn)} :
     \A i \in DOMAIN circle : circle[1 + (i % Len(circle))] \in WaitsFor(circle[i])}

\* The detector aborts one of them: DATABASE_UNAVAILABLE for the user, a
\* failure to report for the worker.
BreakDeadlock(c) ==
  /\ \E circle \in Circles : circle[1] = c
  /\ Ends(c)
  /\ UNCHANGED storeVars

\* Time passes for committed and uncommitted rows (bound: no transaction stays
\* open for more than MaxStall).
TransactionTick ==
  /\ \A c \in Conn : Open(c) => txn[c].age < MaxStall
  /\ Tick
  /\ txn' = [c \in Conn |->
       IF Open(c)
       THEN [txn[c] EXCEPT !.age = @ + 1,
                           !.writes = [r \in DOMAIN @ |-> Aged(@[r])]]
       ELSE txn[c]]

-----------------------------------------------------------------------------

Init == StoreInit /\ txn = [c \in Conn |-> NoTxn]

Begin(c) ==
  \/ \E s \in Session :
       \/ \E r \in Run : EnqueueMessage(c, s, r)
       \/ DeleteLocksSession(c, s)
       \/ \E mode \in {"update", "no key update"} : TouchSession(c, s, mode)
  \/ \E r \in Run : CancelLocksFirst(c, r)
  \/ \E w \in Worker : ClaimSweeps(c, w)
  \/ \E r \in Run, w \in Worker :
       \/ RenewReadsClock(c, r, w)
       \/ \E type \in ProgressEvent : Records(c, r, w, type)
       \/ \E code \in WorkerError, retryable \in BOOLEAN : FailLocksRun(c, r, w, code, retryable)
       \/ CompleteLocksRun(c, r, w)

GoOn(c) ==
  \/ CascadeLocksRun(c) \/ CancelLocksSecond(c) \/ RenewLocksRun(c)
  \/ CompleteInserts(c) \/ CompleteTouches(c) \/ Commit(c)

Next ==
  \/ \E c \in Conn :
       \/ Begin(c) \/ GoOn(c) \/ Disconnect(c) \/ BreakDeadlock(c)
       \/ \E w \in Worker : ClaimPicks(c, w)
  \/ TransactionTick

SafeSpec == Init /\ [][Next]_txnVars

-----------------------------------------------------------------------------
(* Properties *)

\* Whatever the transactions read, decide and wait for between one another,
\* what they commit is a step of the atomic queue.
ImplementsStore == StoreSpec

\* Transactions wait for one another in a circle only if one of them deletes a
\* session: all others lock Runs before sessions.
OnlyDeletionsDeadlock ==
  \A circle \in Circles : \E i \in DOMAIN circle : At(circle[i], "cascade")
=============================================================================
