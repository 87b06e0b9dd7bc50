------------------------------ MODULE RunStore ------------------------------
(***************************************************************************)
(* The durable queue of app/store.py: the rows of agent_runs with their    *)
(* run_events, and every transaction the API, the workers and the          *)
(* heartbeat threads run against them.                                     *)
(*                                                                         *)
(* One action is one committed transaction: each of them locks the row it  *)
(* touches (SELECT ... FOR UPDATE, or a single UPDATE), so rows change     *)
(* atomically.  A transaction that raises WorkerLeaseLost rolls back and   *)
(* is not an action here.  The callers are unconstrained: any worker may   *)
(* call any operation at any time, which covers stale, stalled and         *)
(* restarted workers.                                                      *)
(*                                                                         *)
(* Timestamps are kept as time REMAINING: lease is lease_expires_at - now, *)
(* retry is next_retry_at - now floored at 0 (NULL and "already passed"    *)
(* are the same to every query).  Between the clock reading of a           *)
(* transaction and its commit up to MaxStall passes (stall).  A lease that *)
(* expired more than MaxStall ago is indistinguishable from one that       *)
(* expired exactly MaxStall ago, because no reading is older.              *)
(***************************************************************************)
EXTENDS Integers, Sequences, FiniteSets

CONSTANTS
  Session,      \* sessions that exist when the system starts
  Worker,       \* worker identities (host:pid:random)
  MaxRuns,      \* bound: Runs ever created
  MaxAttempts,  \* max_attempts of every Run
  LeaseTicks,   \* worker_lease_seconds
  RetryTicks,   \* worker_retry_delay_seconds
  MaxStall,     \* bound: age of a transaction's clock reading when it commits
  SweepLimit,   \* LIMIT of the expired-lease sweep
  ProgressEvent, \* bound: the kinds of progress events that are told apart
  MaxEvents,    \* bound: progress and repeated cancellation requests are
                \* logged only below this log length
  NoSession, NoWorker, NoLease, NoError

ASSUME StoreAssumption ==
  /\ MaxRuns \in Nat \ {0}
  /\ MaxAttempts \in Nat \ {0}
  /\ LeaseTicks \in Nat \ {0}
  /\ RetryTicks \in Nat
  /\ MaxStall \in Nat
  /\ SweepLimit \in Nat \ {0}
  /\ ProgressEvent \subseteq {"CONTEXT_PREPARED", "AGENT_THINKING", "TOOL_STARTED",
                               "TOOL_SUCCEEDED", "TOOL_FAILED",
                               "CONTEXT_LIMIT_REACHED"}
  /\ MaxEvents \in Nat
  /\ NoSession \notin Session
  /\ NoWorker \notin Worker
  /\ NoLease \notin Int
  /\ NoError \notin {"RUN_CANCELLED", "MAX_ATTEMPTS_EXCEEDED", "AGENT_ERROR"}

VARIABLES
  sessions,  \* the sessions not deleted yet
  run        \* run[r]: the row of Run r and its event log

storeVars == <<sessions, run>>

-----------------------------------------------------------------------------
(* Rows *)

\* Runs in the order of (created_at, id).
Run == 1..MaxRuns

Terminal == {"SUCCEEDED", "FAILED", "CANCELLED"}
Status == {"ABSENT", "DELETED", "PENDING", "RUNNING"} \cup Terminal

StartEvent == {"RUN_STARTED", "RUN_RETRY_STARTED", "RUN_RECLAIMED"}
TerminalEvent == {"RUN_SUCCEEDED", "RUN_FAILED", "RUN_CANCELLED"}
EventType == StartEvent \cup ProgressEvent \cup TerminalEvent \cup
             {"RUN_QUEUED", "RUN_RETRY_SCHEDULED", "CANCELLATION_REQUESTED"}

\* attempt is the attempt_count of the Run when the event is written.
Event == [type: EventType, attempt: 0..MaxAttempts]

\* Codes a worker reports; every code but RUN_CANCELLED is AGENT_ERROR.
WorkerError == {"RUN_CANCELLED", "AGENT_ERROR"}
ErrorCode == WorkerError \cup {"MAX_ATTEMPTS_EXCEEDED"}

Row == [status: Status,
        session: Session \cup {NoSession},
        cancel_requested: BOOLEAN,
        worker: Worker \cup {NoWorker},
        lease: (-MaxStall..LeaseTicks) \cup {NoLease},
        retry: 0..RetryTicks,
        attempt: 0..MaxAttempts,
        error: ErrorCode \cup {NoError},
        finished: BOOLEAN,
        revision: 0..MaxRuns,
        supersedes: 0..MaxRuns,
        answers: Nat,
        events: Seq(Event)]

\* No row: never inserted (ABSENT), or removed by a cascade (DELETED).
NoRow(status) ==
  [status |-> status, session |-> NoSession, cancel_requested |-> FALSE,
   worker |-> NoWorker, lease |-> NoLease, retry |-> 0, attempt |-> 0,
   error |-> NoError, finished |-> FALSE, revision |-> 0, supersedes |-> 0,
   answers |-> 0, events |-> <<>>]

Present(row) == row.status \notin {"ABSENT", "DELETED"}
InSession(s) == {r \in Run : Present(run[r]) /\ run[r].session = s}

\* _lease_is_active, and its negation in the queries (lease_expires_at <= now)
LeaseActive(row) == row.lease # NoLease /\ row.lease > 0
LeaseExpired(row) == row.lease # NoLease /\ row.lease <= 0

\* MUTANT of Owns: any worker may write while somebody holds the lease.
OwnsAnyone(row, w, stall) ==
  row.status = "RUNNING" /\ row.lease # NoLease /\ row.lease > -stall

\* The fencing check of every write a worker makes, with a clock reading that
\* is stall old: it is made under the row lock, but the transaction may still
\* have to wait for another lock before it commits.
Owns(row, w, stall) ==
  row.worker = w /\ row.status = "RUNNING" /\ row.lease # NoLease /\ row.lease > -stall

\* append_event_in_session: the log is contiguous, so a sequence number is
\* a position.
Logged(row, type) ==
  [row EXCEPT !.events = Append(@, [type |-> type, attempt |-> row.attempt])]

\* A terminal status with the lease given up.
Closed(row, status, error) ==
  [row EXCEPT !.status = status, !.error = error, !.finished = TRUE,
              !.worker = NoWorker, !.lease = NoLease]

-----------------------------------------------------------------------------
(* Sessions and submission *)

StoreInit ==
  /\ sessions = Session
  /\ run = [r \in Run |-> NoRow("ABSENT")]

\* _latest_successful_run_for_session: the Run whose plan the new one replaces,
\* 0 for none.
Replaces(s, previous) ==
  LET succeeded == {q \in InSession(s) : run[q].status = "SUCCEEDED"} IN
  previous \in succeeded \cup {0} /\ \A q \in succeeded : q <= previous

\* The row enqueue_message inserts.
NewRun(s, previous) ==
  Logged([NoRow("PENDING") EXCEPT !.session = s,
                                  !.revision = Cardinality(InSession(s)) + 1,
                                  !.supersedes = previous],
         "RUN_QUEUED")

\* enqueue_message: under the lock of the session row, so the Runs of one
\* session are created one after another; Runs of different sessions may
\* become visible in another order than their created_at.
Enqueue(s, r) ==
  /\ s \in sessions
  /\ run[r].status = "ABSENT"
  /\ \A q \in InSession(s) : q < r
  /\ \E previous \in InSession(s) \cup {0} :
       /\ Replaces(s, previous)
       /\ run' = [run EXCEPT ![r] = NewRun(s, previous)]
  /\ UNCHANGED sessions

\* delete_session: ON DELETE CASCADE removes messages, Runs and events.
DeleteSession(s) ==
  /\ s \in sessions
  /\ sessions' = sessions \ {s}
  /\ run' = [r \in Run |-> IF r \in InSession(s) THEN NoRow("DELETED") ELSE run[r]]

\* MUTANT of CancelAsked: a PENDING Run is only marked, as a RUNNING one is.
CancelAskedDeferred(row) ==
  Logged([row EXCEPT !.cancel_requested = TRUE], "CANCELLATION_REQUESTED")

\* What request_cancellation makes of an unfinished Run; on a RUNNING one every
\* repetition logs another CANCELLATION_REQUESTED.
CancelAsked(row) ==
  IF row.status = "PENDING"
  THEN Logged([row EXCEPT !.cancel_requested = TRUE, !.status = "CANCELLED",
                          !.error = "RUN_CANCELLED", !.finished = TRUE],
              "RUN_CANCELLED")
  ELSE Logged([row EXCEPT !.cancel_requested = TRUE], "CANCELLATION_REQUESTED")

\* MUTANT of CancelChanges: no early return for a terminal Run.
CancelChangesAnytime(row) == ~row.cancel_requested

\* A terminal Run is returned as it is; repetitions on a RUNNING one are told
\* apart below MaxEvents (bound).
CancelChanges(row) ==
  \/ row.status = "PENDING"
  \/ /\ row.status = "RUNNING"
     /\ ~row.cancel_requested \/ Len(row.events) < MaxEvents

RequestCancellation(r) ==
  /\ CancelChanges(run[r])
  /\ run' = [run EXCEPT ![r] = CancelAsked(run[r])]
  /\ UNCHANGED sessions

-----------------------------------------------------------------------------
(* Claiming and leases *)

\* MUTANT of Sweepable: only an exhausted budget ends a Run whose lease expired.
SweepableExhausted(row) ==
  row.status = "RUNNING" /\ LeaseExpired(row) /\ row.attempt >= MaxAttempts

\* _mark_terminal_expired_runs
Sweepable(row) ==
  /\ row.status = "RUNNING"
  /\ LeaseExpired(row)
  /\ row.cancel_requested \/ row.attempt >= MaxAttempts

Swept(row) ==
  IF row.cancel_requested
  THEN Logged(Closed(row, "CANCELLED", "RUN_CANCELLED"), "RUN_CANCELLED")
  ELSE Logged(Closed(row, "FAILED", "MAX_ATTEMPTS_EXCEEDED"), "RUN_FAILED")

\* MUTANT of Claimable: a RUNNING Run is claimed without looking at its lease.
ClaimableUnexpired(row) ==
  /\ ~row.cancel_requested
  /\ \/ row.status = "PENDING" /\ row.retry = 0
     \/ row.status = "RUNNING" /\ row.attempt < MaxAttempts

\* MUTANT of Claimable: expired leases are never reclaimed.
ClaimablePendingOnly(row) ==
  ~row.cancel_requested /\ row.status = "PENDING" /\ row.retry = 0

\* pending_ready and expired_running of claim_next_run
Claimable(row) ==
  /\ ~row.cancel_requested
  /\ \/ row.status = "PENDING" /\ row.retry = 0
     \/ /\ row.status = "RUNNING"
        /\ LeaseExpired(row)
        /\ row.attempt < MaxAttempts

\* MUTANT of StartOf: a retry is announced as a first start.
StartOfUnlessReclaimed(row) ==
  IF row.status = "RUNNING" THEN "RUN_RECLAIMED" ELSE "RUN_STARTED"

StartOf(row) ==
  CASE row.status = "RUNNING" -> "RUN_RECLAIMED"
    [] row.status # "RUNNING" /\ row.attempt > 0 -> "RUN_RETRY_STARTED"
    [] OTHER -> "RUN_STARTED"

\* error is left as the previous attempt set it; the lease counts from the
\* clock reading, which is stall old at the commit.
ClaimedBy(row, w, stall) ==
  Logged([row EXCEPT !.status = "RUNNING", !.worker = w, !.lease = LeaseTicks - stall,
                     !.retry = 0, !.attempt = @ + 1, !.finished = FALSE],
         StartOf(row))

\* claim_next_run.  SKIP LOCKED: the rows that other transactions hold at
\* that moment (locked) are invisible to the sweep and to the claim.  The
\* sweep commits also when nothing can be claimed (pick = 0).
Claim(w, locked, pick) ==
  LET sweepable == {r \in Run \ locked : Sweepable(run[r])}
      claimable == {r \in Run \ locked : Claimable(run[r])}
  IN
  /\ IF claimable = {}
     THEN pick = 0
     ELSE pick \in claimable /\ \A r \in claimable : pick <= r
  /\ \E swept \in SUBSET sweepable, stall \in 0..MaxStall :
       /\ IF Cardinality(sweepable) <= SweepLimit
          THEN swept = sweepable
          ELSE Cardinality(swept) = SweepLimit
       /\ run' = [r \in Run |-> CASE r \in swept -> Swept(run[r])
                                  [] r = pick    -> ClaimedBy(run[r], w, stall)
                                  [] OTHER       -> run[r]]
  /\ UNCHANGED sessions

\* renew_lease reads the clock BEFORE its transaction: by the time the
\* UPDATE gets its connection and its row lock the reading is stall old.
Renewable(row, w, stall) ==
  row.status = "RUNNING" /\ row.worker = w /\ row.lease # NoLease /\ row.lease > -stall

Renew(r, w, stall) ==
  /\ Renewable(run[r], w, stall)
  /\ run' = [run EXCEPT ![r].lease = LeaseTicks - stall]
  /\ UNCHANGED sessions

\* One tick of the wall clock for every row.
Aged(row) ==
  [row EXCEPT
    !.lease = IF row.lease # NoLease /\ row.lease > -MaxStall
              THEN row.lease - 1 ELSE row.lease,
    !.retry = IF row.retry > 0 THEN row.retry - 1 ELSE 0]

Tick ==
  /\ run' = [r \in Run |-> Aged(run[r])]
  /\ UNCHANGED sessions

-----------------------------------------------------------------------------
(* What the worker that executes a Run writes, fenced by its lease *)

\* append_event, record_context_snapshot, record_tool_snapshot
Progress(r, w, type) ==
  /\ Owns(run[r], w, MaxStall)
  /\ Len(run[r].events) < MaxEvents
  /\ run' = [run EXCEPT ![r] = Logged(run[r], type)]
  /\ UNCHANGED sessions

\* The same write where the log is an abstraction: an event whose type is not
\* told apart, or for which the bounded log has no room, leaves no trace, but
\* the fencing check is made in any case.
Recorded(r, w, type) ==
  IF type \in ProgressEvent /\ Len(run[r].events) < MaxEvents
  THEN Progress(r, w, type)
  ELSE Owns(run[r], w, MaxStall) /\ UNCHANGED storeVars

\* MUTANT of Completed: cancel_requested is not read again under the lock.
CompletedRegardless(row) ==
  Logged([Closed(row, "SUCCEEDED", NoError) EXCEPT !.answers = @ + 1],
         "RUN_SUCCEEDED")

\* MUTANT of Completed: the assistant message is inserted before the check.
CompletedAnswerFirst(row) ==
  LET answered == [row EXCEPT !.answers = @ + 1] IN
  IF row.cancel_requested
  THEN Logged(Closed(answered, "CANCELLED", "RUN_CANCELLED"), "RUN_CANCELLED")
  ELSE Logged(Closed(answered, "SUCCEEDED", NoError), "RUN_SUCCEEDED")

\* complete_run
Completed(row) ==
  IF row.cancel_requested
  THEN Logged(Closed(row, "CANCELLED", "RUN_CANCELLED"), "RUN_CANCELLED")
  ELSE Logged([Closed(row, "SUCCEEDED", NoError) EXCEPT !.answers = @ + 1],
              "RUN_SUCCEEDED")

Complete(r, w) ==
  /\ Owns(run[r], w, MaxStall)
  /\ run' = [run EXCEPT ![r] = Completed(run[r])]
  /\ UNCHANGED sessions

\* What is left of the retry delay when its transaction commits.
RetryLeft(stall) == IF stall < RetryTicks THEN RetryTicks - stall ELSE 0

\* MUTANT of Failed: a retry is scheduled whatever the budget says.
FailedAlwaysRetrying(row, code, retryable, stall) ==
  IF row.cancel_requested
  THEN Logged(Closed(row, "CANCELLED", "RUN_CANCELLED"), "RUN_CANCELLED")
  ELSE IF retryable
       THEN Logged([Closed(row, "PENDING", code) EXCEPT !.retry = RetryLeft(stall),
                                                        !.finished = FALSE],
                   "RUN_RETRY_SCHEDULED")
       ELSE Logged(Closed(row, "FAILED", code), "RUN_FAILED")

\* fail_run
Failed(row, code, retryable, stall) ==
  CASE row.cancel_requested ->
         Logged(Closed(row, "CANCELLED", "RUN_CANCELLED"), "RUN_CANCELLED")
    [] ~row.cancel_requested /\ retryable /\ row.attempt < MaxAttempts ->
         Logged([row EXCEPT !.status = "PENDING", !.error = code,
                            !.retry = RetryLeft(stall), !.worker = NoWorker,
                            !.lease = NoLease],
                "RUN_RETRY_SCHEDULED")
    [] OTHER -> Logged(Closed(row, "FAILED", code), "RUN_FAILED")

\* execute_run reports RUN_CANCELLED only after it has read the request.
Fail(r, w, code, retryable) ==
  /\ Owns(run[r], w, MaxStall)
  /\ code = "RUN_CANCELLED" => run[r].cancel_requested
  /\ \E stall \in 0..MaxStall :
       run' = [run EXCEPT ![r] = Failed(run[r], code, retryable, stall)]
  /\ UNCHANGED sessions

-----------------------------------------------------------------------------

ClientNext ==
  \/ \E s \in Session, r \in Run : Enqueue(s, r)
  \/ \E s \in Session : DeleteSession(s)
  \/ \E r \in Run : RequestCancellation(r)

WorkerNext ==
  \/ \E w \in Worker, locked \in SUBSET Run, pick \in Run \cup {0} :
       Claim(w, locked, pick)
  \/ \E r \in Run, w \in Worker, stall \in 0..MaxStall : Renew(r, w, stall)
  \/ \E r \in Run, w \in Worker, type \in ProgressEvent : Progress(r, w, type)
  \/ \E r \in Run, w \in Worker : Complete(r, w)
  \/ \E r \in Run, w \in Worker, code \in WorkerError, retryable \in BOOLEAN :
       Fail(r, w, code, retryable)

StoreNext == ClientNext \/ WorkerNext \/ Tick

StoreSpec == StoreInit /\ [][StoreNext]_storeVars

-----------------------------------------------------------------------------
(* Properties *)

\* Every row has the columns of AgentRun with values in their ranges.
TypeOK ==
  /\ sessions \subseteq Session
  /\ run \in [Run -> Row]

\* The row once its timers have run out.
Elapsed(row) ==
  [row EXCEPT !.retry = 0, !.lease = IF @ = NoLease THEN NoLease ELSE -MaxStall]

\* No Run is stranded: whatever the callers did, an unfinished Run that is
\* left alone until its timers run out is picked up by the claim or ended by
\* the sweep.  It relates the two queries to every write: a PENDING Run with
\* cancel_requested or an exhausted budget, or a RUNNING one without a lease,
\* would be invisible to both for ever.
NoStrandedRun ==
  \A r \in Run : run[r].status \in {"PENDING", "RUNNING"} =>
    Claimable(Elapsed(run[r])) \/ Sweepable(Elapsed(run[r]))

\* A lease belongs to a RUNNING Run and to nobody else, and finished_at is
\* set exactly on the Runs that ended.
LeaseMatchesStatus ==
  \A r \in Run :
    /\ (run[r].status = "RUNNING") <=> (run[r].worker # NoWorker)
    /\ (run[r].worker # NoWorker) <=> (run[r].lease # NoLease)
    /\ run[r].finished <=> (run[r].status \in Terminal)

TerminalEventOf == [SUCCEEDED |-> "RUN_SUCCEEDED", FAILED |-> "RUN_FAILED",
                    CANCELLED |-> "RUN_CANCELLED"]

\* The log closes with the Run: a terminal event is the last event, it is
\* there exactly when the status is terminal, and it names that status.  The
\* event stream stops at a terminal status and would lose anything later.
LogClosesWithRun ==
  \A r \in Run :
    LET events == run[r].events
        last == Len(events)
    IN
    /\ \A i \in 1..(last - 1) : events[i].type \notin TerminalEvent
    /\ run[r].status \in Terminal =>
         last > 0 /\ events[last].type = TerminalEventOf[run[r].status]
    /\ (Present(run[r]) /\ run[r].status \notin Terminal) =>
         last > 0 /\ events[last].type \notin TerminalEvent

\* A Run answers at most once, and only a SUCCEEDED Run has answered: the
\* assistant message and the status are one transaction.
AnswerIffSucceeded ==
  \A r \in Run : run[r].answers = IF run[r].status = "SUCCEEDED" THEN 1 ELSE 0

\* A requested cancellation wins over every outcome decided after it, and a
\* Run is CANCELLED only because somebody asked.
CancellationWins ==
  \A r \in Run :
    /\ run[r].cancel_requested => run[r].status \in {"RUNNING", "CANCELLED"}
    /\ run[r].status = "CANCELLED" =>
         run[r].cancel_requested /\ run[r].error = "RUN_CANCELLED"

\* Positions of the start events in the log of a row.
Starts(row) == {i \in 1..Len(row.events) : row.events[i].type \in StartEvent}

\* The log is the ledger of the attempts: attempt k has exactly one start event,
\* in the order of k, none is missing up to attempt_count, and only the first
\* one is announced as a first start.
AttemptLedger ==
  \A r \in Run :
    LET events == run[r].events
        starts == Starts(run[r])
    IN
    /\ \A k \in 1..run[r].attempt : \E i \in starts : events[i].attempt = k
    /\ \A i \in starts :
         /\ events[i].attempt \in 1..run[r].attempt
         /\ (events[i].type = "RUN_STARTED") <=> (events[i].attempt = 1)
         /\ \A j \in starts : i < j => events[i].attempt < events[j].attempt

\* Plan revisions of a session are unique, and a Run supersedes an earlier
\* Run of its own session that did succeed.
RevisionChain ==
  \A r \in Run : Present(run[r]) =>
    /\ \A q \in InSession(run[r].session) :
         q < r => run[q].revision < run[r].revision
    /\ run[r].supersedes # 0 =>
         /\ run[r].supersedes < r
         /\ run[run[r].supersedes].status = "SUCCEEDED"
         /\ run[run[r].supersedes].session = run[r].session

\* A Run that ended stays as it is, log included, until its session goes
\* (next_retry_at of a Run cancelled between two attempts recedes with time).
TerminalIsFinal ==
  [][\A r \in Run : run[r].status \in Terminal =>
       \/ run'[r] = [run[r] EXCEPT !.retry = run'[r].retry]
       \/ run'[r].status = "DELETED"]_storeVars

\* A worker takes a Run over only after the lease it was under has expired,
\* and every takeover is a new attempt of the budget.
TakeoverAfterExpiry ==
  [][\A r \in Run :
       run'[r].attempt > run[r].attempt =>
         /\ ~LeaseActive(run[r])
         /\ run'[r].attempt = run[r].attempt + 1
         /\ run'[r].worker # NoWorker]_storeVars

\* The row of Run r as the client sees it.
PhaseOf == [ABSENT |-> "none", DELETED |-> "gone", PENDING |-> "queued",
            RUNNING |-> "working", SUCCEEDED |-> "answered",
            FAILED |-> "failed", CANCELLED |-> "cancelled"]

Contract(r) == INSTANCE RunContract WITH
  phase <- PhaseOf[run[r].status],
  asked <- run[r].cancel_requested,
  tries <- run[r].attempt

\* Every Run follows the contract of RunContract: it starts where the contract
\* starts and each transaction is one of its steps or invisible to it.
KeepsContract ==
  /\ \A r \in Run : Contract(r)!ContractInit
  /\ [][\A r \in Run : Contract(r)!ContractNext
                         \/ UNCHANGED Contract(r)!contractVars]_storeVars
=============================================================================
