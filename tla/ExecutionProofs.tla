-------------------------- MODULE ExecutionProofs ---------------------------
(***************************************************************************)
(* TLAPS proofs about what happens to a Run once it is queued: who         *)
(* executes it (WorkerPool), and what the page is given of its events      *)
(* (EventStream) and of its result (RunResults).                           *)
(*                                                                         *)
(* Workers, for every number of processes, Runs and attempts, every limit  *)
(* on calls and every length of the timers: the fence on worker_id and     *)
(* lease admits an execution only in the attempt it was claimed with,      *)
(* cancellation stops the work after at most one call, and the processes   *)
(* do to the rows only what RunStore allows.                               *)
(*                                                                         *)
(* The argument: a Run that some process owns was claimed by that process, *)
(* which had nothing else to do then, and stays in its attempt until the   *)
(* ownership ends (OwnerStays); what a process knows of the Run it         *)
(* executes it knows for good (RowLasts).                                  *)
(*                                                                         *)
(* No attempt calls more Tools than agent_max_tool_calls, although the     *)
(* count is in the memory of a process: only the owner of a Run gets a     *)
(* call into its log, and whoever begins an attempt begins it with no call *)
(* in the log; so the calls the log shows of the attempt are among those   *)
(* the owner has counted (Spent).                                          *)
(*                                                                         *)
(* Events, for every number of pages, Runs, workers and connection losses: *)
(* the page handles every event of its Run exactly once and in order, and  *)
(* a response ends only when the whole log, terminal event included, has   *)
(* been sent.  The argument: what the page handled, what is on the wire    *)
(* and what the generator still holds are three adjacent intervals of one  *)
(* numbering (StreamOrdered), and the log they number only grows, and not  *)
(* at all once its Run ended (StreamOfLog).                                *)
(*                                                                         *)
(* Results, for every number of sessions, Runs, workers and attempts and   *)
(* chains of versions of any length: what is shown has a payload, the      *)
(* origin named is the true one, and the result tells the outcome of the   *)
(* Run.  The argument: a result that names another one as its origin names *)
(* that of the superseded Run, which succeeded (RevisionChain), and        *)
(* nothing changes the result of a Run that succeeded but the deletion of  *)
(* its session, which takes both.                                          *)
(***************************************************************************)
EXTENDS WorkerPool, EventStream, RunResults, RunStoreProofs

-----------------------------------------------------------------------------
(* Workers: the inductive invariant *)

\* What a process that executes a Run may rely on, as long as it owns it ...
Owned(p, row, w) ==
  row.worker = w =>
    /\ row.attempt = p.attempt
    /\ p.after = "CANCELLED" => row.cancel_requested

\* ... and what a call begun too late leaves behind.
Belated(p, row) ==
  p.late = 1 =>
    /\ p.pc \in {"running", "calling", "asking", "holding"}
    /\ Present(row) => row.cancel_requested /\ p.pc # "holding"

OnJob(p, row, w) == row.status # "ABSENT" /\ Owned(p, row, w) /\ Belated(p, row)

\* Process p of w fits the rows.
Fits(p, rows, w) ==
  /\ p \in Process
  /\ p.late \in {0, 1}
  /\ p.pc \in {"idle", "down"} <=> p.job = 0
  /\ p.job # 0 => OnJob(p, rows[p.job], w)

PoolInv ==
  /\ StoreInv
  /\ worker = [w \in Worker |-> worker[w]]
  /\ renewal \in [Worker -> Renewal \cup {NoRenewal}]
  /\ \A w \in Worker : Fits(worker[w], run, w)

-----------------------------------------------------------------------------
(* What the steps of the queue leave to a process *)

\* A Run that was there and still is keeps its cancellation.
RowLasts(old, new) ==
  old.status # "ABSENT" =>
    /\ new.status # "ABSENT"
    /\ Present(new) => Present(old) /\ (old.cancel_requested => new.cancel_requested)

\* Nobody came to own the row or began an attempt of it.
OwnerStays(old, new, w) ==
  new.worker = w => old.worker = w /\ new.attempt = old.attempt

LEMMA LoggedKeeps ==
  ASSUME NEW row \in Row, NEW type
  PROVE  LET new == Logged(row, type) IN
         /\ new.status = row.status /\ new.cancel_requested = row.cancel_requested
         /\ new.worker = row.worker /\ new.attempt = row.attempt
BY DEF Logged, Row

LEMMA ClosedKeeps ==
  ASSUME NEW row \in Row, NEW status \in Terminal, NEW error \in ErrorCode \cup {NoError}
  PROVE  LET new == Closed(row, status, error) IN
         /\ new \in Row
         /\ new.status = status /\ new.cancel_requested = row.cancel_requested
         /\ new.worker = NoWorker /\ new.attempt = row.attempt
BY DEF Closed, Row, Status

\* A transaction that ends the attempt, for good or until the retry.
EndsAttempt(old, new) ==
  /\ new.status \in Terminal \cup {"PENDING"}
  /\ new.cancel_requested = old.cancel_requested
  /\ new.worker = NoWorker

LEMMA ClosingEnds ==
  ASSUME NEW row \in Row, NEW status \in Terminal, NEW error \in ErrorCode \cup {NoError},
         NEW type
  PROVE  EndsAttempt(row, Logged(Closed(row, status, error), type))
<1>1. Closed(row, status, error) \in Row
  BY ClosedKeeps
<1> QED
  BY <1>1, LoggedKeeps, ClosedKeeps DEF EndsAttempt

LEMMA SweptEnds ==
  ASSUME NEW row \in Row
  PROVE  EndsAttempt(row, Swept(row))
BY ClosingEnds DEF Swept, Terminal, ErrorCode, WorkerError

LEMMA CompletedEnds ==
  ASSUME NEW row \in Row
  PROVE  EndsAttempt(row, Completed(row))
<1> DEFINE closed == Closed(row, "SUCCEEDED", NoError)
           answered == [closed EXCEPT !.answers = @ + 1]
<1>1. /\ closed \in Row /\ closed.status = "SUCCEEDED" /\ closed.worker = NoWorker
      /\ closed.cancel_requested = row.cancel_requested
  BY ClosedKeeps DEF Terminal
<1> HIDE DEF closed
<1>2. /\ answered \in Row /\ answered.status = "SUCCEEDED" /\ answered.worker = NoWorker
      /\ answered.cancel_requested = row.cancel_requested
  <2>1. closed.answers + 1 \in Nat
    BY <1>1 DEF Row
  <2>2. \A n \in Nat :
          LET new == [closed EXCEPT !.answers = n] IN
          /\ new \in Row /\ new.status = closed.status /\ new.worker = closed.worker
          /\ new.cancel_requested = closed.cancel_requested
    BY <1>1 DEF Row
  <2> QED
    BY <1>1, <2>1, <2>2, Zenon
<1> HIDE DEF answered
<1>3. EndsAttempt(row, Logged(answered, "RUN_SUCCEEDED"))
  BY <1>2, LoggedKeeps DEF EndsAttempt, Terminal
<1>4. EndsAttempt(row, Logged(Closed(row, "CANCELLED", "RUN_CANCELLED"), "RUN_CANCELLED"))
  BY ClosingEnds DEF Terminal, ErrorCode, WorkerError
<1> QED
  BY <1>3, <1>4 DEF Completed, answered, closed

LEMMA FailedEnds ==
  ASSUME NEW row \in Row, NEW code \in WorkerError, NEW retryable \in BOOLEAN,
         NEW stall \in 0..MaxStall
  PROVE  EndsAttempt(row, Failed(row, code, retryable, stall))
<1> DEFINE queued == [row EXCEPT !.status = "PENDING", !.error = code,
                                 !.retry = RetryLeft(stall), !.worker = NoWorker,
                                 !.lease = NoLease]
<1>1. RetryLeft(stall) \in 0..RetryTicks
  BY StoreAssumption DEF RetryLeft
<1>2. /\ queued \in Row /\ queued.status = "PENDING" /\ queued.worker = NoWorker
      /\ queued.cancel_requested = row.cancel_requested
  BY <1>1 DEF Row, Status, ErrorCode
<1> HIDE DEF queued
<1>3. EndsAttempt(row, Logged(queued, "RUN_RETRY_SCHEDULED"))
  BY <1>2, LoggedKeeps DEF EndsAttempt
<1>4. /\ EndsAttempt(row, Logged(Closed(row, "CANCELLED", "RUN_CANCELLED"), "RUN_CANCELLED"))
      /\ EndsAttempt(row, Logged(Closed(row, "FAILED", code), "RUN_FAILED"))
  BY ClosingEnds DEF Terminal, ErrorCode, WorkerError
<1>5. CASE row.cancel_requested
  BY <1>4, <1>5 DEF Failed
<1>6. CASE ~row.cancel_requested /\ retryable /\ row.attempt < MaxAttempts
  BY <1>3, <1>6 DEF Failed, queued
<1>7. CASE ~row.cancel_requested /\ ~(retryable /\ row.attempt < MaxAttempts)
  BY <1>4, <1>7 DEF Failed
<1> QED
  BY <1>5, <1>6, <1>7

\* request_cancellation takes no Run from its owner.
LEMMA AskedKeeps ==
  ASSUME NEW row \in Row
  PROVE  LET new == CancelAsked(row) IN
         /\ new.status \in {row.status, "CANCELLED"} /\ new.cancel_requested
         /\ new.worker = row.worker /\ new.attempt = row.attempt
BY DEF CancelAsked, Logged, Row

LEMMA ClaimedKeeps ==
  ASSUME NEW row \in Row, NEW w, NEW stall
  PROVE  LET new == ClaimedBy(row, w, stall) IN
         /\ new.status = "RUNNING" /\ new.cancel_requested = row.cancel_requested
         /\ new.worker = w /\ new.attempt = row.attempt + 1
BY DEF ClaimedBy, Logged, Row

LEMMA RetimedKeeps ==
  ASSUME NEW row \in Row, NEW lease
  PROVE  LET aged == Aged(row)
             renewed == [row EXCEPT !.lease = lease] IN
         /\ aged.status = row.status /\ renewed.status = row.status
         /\ aged.cancel_requested = row.cancel_requested
         /\ renewed.cancel_requested = row.cancel_requested
         /\ aged.worker = row.worker /\ renewed.worker = row.worker
         /\ aged.attempt = row.attempt /\ renewed.attempt = row.attempt
BY DEF Aged, Row

LEMMA RowOutlasts ==
  ASSUME NEW old, NEW new, RowInv(old), RowNext(old, new)
  PROVE  RowLasts(old, new)
<1> DEFINE Kept == new.status = old.status /\ new.cancel_requested = old.cancel_requested
<1>1. old \in Row
  BY DEF RowInv
<1>2. Kept => RowLasts(old, new)
  BY DEF RowLasts, Present
<1>3. EndsAttempt(old, new) /\ old.status = "RUNNING" => RowLasts(old, new)
  BY DEF EndsAttempt, RowLasts, Present, Terminal
<1>4. CASE new = old \/ new = Aged(old)
  BY <1>1, <1>2, <1>4, RetimedKeeps
<1>5. CASE old.status \in {"PENDING", "RUNNING"} /\ new = CancelAsked(old)
  BY <1>1, <1>5, AskedKeeps DEF RowLasts, Present
<1>6. CASE Sweepable(old) /\ new = Swept(old)
  BY <1>1, <1>3, <1>6, SweptEnds DEF Sweepable
<1>7. ASSUME Claimable(old), NEW w, NEW stall, new = ClaimedBy(old, w, stall)
      PROVE  RowLasts(old, new)
  <2>1. Present(old) /\ ~old.cancel_requested /\ new.status = "RUNNING"
    BY <1>1, <1>7, ClaimedKeeps DEF Claimable, Present
  <2> QED
    BY <2>1 DEF RowLasts
<1>8. ASSUME NEW lease, new = [old EXCEPT !.lease = lease]
      PROVE  RowLasts(old, new)
  BY <1>1, <1>2, <1>8, RetimedKeeps
<1>9. ASSUME NEW type, new = Logged(old, type)
      PROVE  RowLasts(old, new)
  BY <1>1, <1>2, <1>9, LoggedKeeps
<1>10. CASE old.status = "RUNNING" /\ new = Completed(old)
  BY <1>1, <1>3, <1>10, CompletedEnds
<1>11. ASSUME old.status = "RUNNING", NEW code \in WorkerError, NEW retryable \in BOOLEAN,
              NEW stall \in 0..MaxStall, new = Failed(old, code, retryable, stall)
       PROVE  RowLasts(old, new)
  BY <1>1, <1>3, <1>11, FailedEnds
<1>12. old.status = "ABSENT" => RowLasts(old, new)
  BY DEF RowLasts
<1>13. new = NoRow("DELETED") => RowLasts(old, new)
  BY DEF RowLasts, NoRow, Present
<1> QED
  BY <1>4, <1>5, <1>6, <1>7, <1>8, <1>9, <1>10, <1>11, <1>12, <1>13 DEF RowNext, RowWork

-----------------------------------------------------------------------------
(* The steps of the queue that are no claim *)

OwnersStay == \A r \in Run, v \in Worker : OwnerStays(run[r], run'[r], v)
QuietStore == [StoreNext]_storeVars /\ OwnersStay

LEMMA OneQuiet ==
  ASSUME StoreInv, NEW r \in Run, NEW new, run' = [run EXCEPT ![r] = new],
         \A v \in Worker : OwnerStays(run[r], new, v)
  PROVE  OwnersStay
<1>1. \A q \in Run : run'[q] = IF q = r THEN new ELSE run[q]
  BY DEF StoreInv
<1>2. \A q \in Run, v \in Worker : OwnerStays(run[q], run[q], v)
  BY DEF OwnerStays
<1> QED
  BY <1>1, <1>2 DEF OwnersStay

\* Who keeps or clears the owner takes no Run over.
LEMMA KeptOwner ==
  ASSUME NEW old, NEW new, NEW v \in Worker,
         \/ new.worker = NoWorker
         \/ new.worker = old.worker /\ new.attempt = old.attempt
  PROVE  OwnerStays(old, new, v)
BY StoreAssumption DEF OwnerStays

LEMMA NothingHappens == StoreInv /\ UNCHANGED storeVars => QuietStore
<1> SUFFICES ASSUME StoreInv, UNCHANGED storeVars PROVE QuietStore
  OBVIOUS
<1>1. \A r \in Run, v \in Worker : OwnerStays(run[r], run'[r], v)
  BY DEF storeVars, OwnerStays
<1> QED
  BY <1>1 DEF QuietStore, OwnersStay

LEMMA ClientQuiet == StoreInv /\ ClientNext => QuietStore
<1> SUFFICES ASSUME StoreInv, ClientNext PROVE OwnersStay
  BY DEF QuietStore, StoreNext
<1>1. ASSUME NEW s \in Session, NEW r \in Run, Enqueue(s, r) PROVE OwnersStay
  <2>1. PICK previous : run' = [run EXCEPT ![r] = NewRun(s, previous)]
    BY <1>1 DEF Enqueue
  <2>2. NewRun(s, previous).worker = NoWorker
    BY DEF NewRun, Logged, NoRow
  <2> QED
    BY <2>1, <2>2, OneQuiet, KeptOwner
<1>2. ASSUME NEW s \in Session, DeleteSession(s) PROVE OwnersStay
  <2>1. \A r \in Run : run'[r] = NoRow("DELETED") \/ run'[r] = run[r]
    BY <1>2 DEF DeleteSession
  <2>2. NoRow("DELETED").worker = NoWorker
    BY DEF NoRow
  <2> QED
    BY <2>1, <2>2, KeptOwner DEF OwnersStay
<1>3. ASSUME NEW r \in Run, RequestCancellation(r) PROVE OwnersStay
  <2>1. run' = [run EXCEPT ![r] = CancelAsked(run[r])]
    BY <1>3 DEF RequestCancellation
  <2>2. run[r] \in Row
    BY DEF StoreInv
  <2> QED
    BY <2>1, <2>2, AskedKeeps, OneQuiet, KeptOwner
<1> QED
  BY <1>1, <1>2, <1>3 DEF ClientNext

LEMMA RenewQuiet ==
  ASSUME StoreInv, NEW r \in Run, NEW w \in Worker, NEW stall \in 0..MaxStall,
         Renew(r, w, stall)
  PROVE  QuietStore
<1> DEFINE new == [run[r] EXCEPT !.lease = LeaseTicks - stall]
<1>1. run' = [run EXCEPT ![r] = new]
  BY DEF Renew
<1>2. new.worker = run[r].worker /\ new.attempt = run[r].attempt
  BY RetimedKeeps DEF StoreInv
<1> HIDE DEF new
<1>3. OwnersStay
  BY <1>1, <1>2, OneQuiet, KeptOwner
<1> QED
  BY <1>3 DEF QuietStore, StoreNext, WorkerNext

LEMMA ProgressQuiet ==
  ASSUME StoreInv, NEW r \in Run, NEW w \in Worker, NEW type \in ProgressEvent,
         Progress(r, w, type)
  PROVE  QuietStore
<1>1. run' = [run EXCEPT ![r] = Logged(run[r], type)]
  BY DEF Progress
<1>2. Logged(run[r], type).worker = run[r].worker /\ Logged(run[r], type).attempt = run[r].attempt
  BY LoggedKeeps DEF StoreInv
<1>3. OwnersStay
  BY <1>1, <1>2, OneQuiet, KeptOwner
<1> QED
  BY <1>3 DEF QuietStore, StoreNext, WorkerNext

LEMMA RecordedQuiet ==
  ASSUME StoreInv, NEW r \in Run, NEW w \in Worker, NEW type, Recorded(r, w, type)
  PROVE  QuietStore
BY ProgressQuiet, NothingHappens DEF Recorded

LEMMA CompleteQuiet ==
  ASSUME StoreInv, NEW r \in Run, NEW w \in Worker, Complete(r, w)
  PROVE  QuietStore
<1>1. run' = [run EXCEPT ![r] = Completed(run[r])]
  BY DEF Complete
<1>2. Completed(run[r]).worker = NoWorker
  BY CompletedEnds DEF StoreInv, EndsAttempt
<1>3. OwnersStay
  BY <1>1, <1>2, OneQuiet, KeptOwner
<1> QED
  BY <1>3 DEF QuietStore, StoreNext, WorkerNext

LEMMA FailQuiet ==
  ASSUME StoreInv, NEW r \in Run, NEW w \in Worker, NEW code \in WorkerError,
         NEW retryable \in BOOLEAN, Fail(r, w, code, retryable)
  PROVE  QuietStore
<1>1. PICK stall \in 0..MaxStall :
        run' = [run EXCEPT ![r] = Failed(run[r], code, retryable, stall)]
  BY DEF Fail
<1>2. Failed(run[r], code, retryable, stall).worker = NoWorker
  BY FailedEnds DEF StoreInv, EndsAttempt
<1>3. OwnersStay
  BY <1>1, <1>2, OneQuiet, KeptOwner
<1> QED
  BY <1>3 DEF QuietStore, StoreNext, WorkerNext

LEMMA TickQuiet == StoreInv /\ Tick => QuietStore
<1> SUFFICES ASSUME StoreInv, Tick PROVE OwnersStay
  BY DEF QuietStore, StoreNext
<1>1. \A r \in Run : run'[r] = Aged(run[r]) /\ run[r] \in Row
  BY DEF Tick, StoreInv
<1> QED
  BY <1>1, RetimedKeeps, KeptOwner DEF OwnersStay

\* A claim by w takes from the other processes, and gives them nothing.
LEMMA ClaimOwners ==
  ASSUME StoreInv, NEW w \in Worker, NEW locked \in SUBSET Run,
         NEW pick \in Run \cup {0}, Claim(w, locked, pick)
  PROVE  /\ \A r \in Run, v \in Worker \ {w} : OwnerStays(run[r], run'[r], v)
         /\ pick = 0 => OwnersStay
         /\ pick # 0 => \E stall \in 0..MaxStall :
              Claimable(run[pick]) /\ run'[pick] = ClaimedBy(run[pick], w, stall)
<1>1. PICK swept \in SUBSET {r \in Run \ locked : Sweepable(run[r])}, stall \in 0..MaxStall :
        run' = [r \in Run |-> CASE r \in swept -> Swept(run[r])
                                [] r = pick    -> ClaimedBy(run[r], w, stall)
                                [] OTHER       -> run[r]]
  BY DEF Claim
<1>2. /\ \A r \in Run : r = pick => Claimable(run[r])
      /\ 0 \notin Run
  BY StoreAssumption DEF Claim, Run
<1>3. \A r \in swept : r # pick /\ r \in Run
  BY <1>2, SweepOrClaim DEF StoreInv
<1>4. \A r \in swept : run'[r] = Swept(run[r])
  BY <1>1, <1>3
<1>5. pick # 0 => run'[pick] = ClaimedBy(run[pick], w, stall)
  BY <1>1, <1>3
<1>6. \A r \in Run \ swept : r # pick => run'[r] = run[r]
  BY <1>1
<1>7. \A r \in Run : run[r] \in Row
  BY DEF StoreInv
<1>8. ASSUME NEW r \in Run, r # pick, NEW v \in Worker
      PROVE  OwnerStays(run[r], run'[r], v)
  <2>1. CASE r \in swept
    <3>1. run'[r].worker = NoWorker
      BY <1>4, <1>7, <2>1, SweptEnds DEF EndsAttempt
    <3> QED
      BY <3>1, KeptOwner
  <2>2. CASE r \notin swept
    BY <1>6, <1>8, <2>2 DEF OwnerStays
  <2> QED
    BY <2>1, <2>2
<1>9. ASSUME pick # 0, NEW v \in Worker \ {w}
      PROVE  OwnerStays(run[pick], run'[pick], v)
  <2>1. run'[pick].worker = w
    BY <1>5, <1>7, <1>9, ClaimedKeeps
  <2> QED
    BY <2>1 DEF OwnerStays
<1> QED
  BY <1>2, <1>5, <1>8, <1>9 DEF OwnersStay

-----------------------------------------------------------------------------
(* The processes *)

\* A process that does not change fits the new rows.
LEMMA FitsStays ==
  ASSUME StoreInv, [StoreNext]_storeVars, NEW w \in Worker, NEW p, Fits(p, run, w),
         \A r \in Run : OwnerStays(run[r], run'[r], w)
  PROVE  Fits(p, run', w)
<1> SUFFICES ASSUME p.job # 0 PROVE OnJob(p, run'[p.job], w)
  BY DEF Fits
<1> DEFINE old == run[p.job]
           new == run'[p.job]
<1>1. p.job \in Run
  BY DEF Fits, Process
<1>2. RowInv(old) /\ RowNext(old, new)
  BY <1>1, EveryStep DEF StoreInv, StepShape
<1>3. RowInv(new) /\ RowLasts(old, new)
  BY <1>2, RowStep, RowOutlasts
<1>4. OwnerStays(old, new, w) /\ OnJob(p, old, w)
  BY <1>1 DEF Fits
<1>5. new.worker = w => Present(new)
  BY <1>3, StoreAssumption DEF RowInv, RowLeased, Present
<1> HIDE DEF old, new
<1>6. Owned(p, new, w)
  BY <1>3, <1>4, <1>5 DEF OnJob, Owned, OwnerStays, RowLasts
<1>7. Belated(p, new)
  BY <1>3, <1>4 DEF OnJob, Belated, RowLasts
<1>8. new.status # "ABSENT"
  BY <1>3, <1>4 DEF OnJob, RowLasts
<1> QED
  BY <1>6, <1>7, <1>8 DEF OnJob, new

\* Process w moves on, to something that fits the rows as it found them.
Moves(w) == \E p : Fits(p, run, w) /\ worker' = [worker EXCEPT ![w] = p]

LEMMA PoolKeeps ==
  ASSUME PoolInv, QuietStore, renewal' \in [Worker -> Renewal \cup {NoRenewal}],
         worker' = worker \/ \E w \in Worker : Moves(w)
  PROVE  PoolInv'
<1>1. StoreInv /\ [StoreNext]_storeVars /\ StoreInv'
  BY InvariantStep DEF PoolInv, QuietStore
<1>2. ASSUME NEW v \in Worker, NEW p, Fits(p, run, v)
      PROVE  Fits(p, run', v)
  BY <1>1, <1>2, FitsStays DEF QuietStore, OwnersStay
<1>3. CASE worker' = worker
  BY <1>1, <1>2, <1>3 DEF PoolInv
<1>4. ASSUME NEW w \in Worker, Moves(w) PROVE PoolInv'
  <2>1. PICK p : Fits(p, run, w) /\ worker' = [worker EXCEPT ![w] = p]
    BY <1>4 DEF Moves
  <2>2. /\ worker' = [v \in Worker |-> worker'[v]]
        /\ \A v \in Worker : worker'[v] = IF v = w THEN p ELSE worker[v]
    BY <2>1 DEF PoolInv
  <2>3. \A v \in Worker : Fits(worker'[v], run, v)
    BY <2>1, <2>2 DEF PoolInv
  <2> QED
    BY <1>1, <1>2, <2>2, <2>3 DEF PoolInv
<1> QED
  BY <1>3, <1>4

LEMMA IdleFits == \A w \in Worker : Fits(Idle, run, w)
BY PoolAssumption, StoreAssumption DEF Fits, Idle, Process

\* What a process that executes a Run starts from.
LEMMA Working ==
  ASSUME PoolInv, NEW w \in Worker, worker[w].pc \notin {"idle", "down"}
  PROVE  /\ worker[w] \in Process /\ Job(w) \in Run /\ Job(w) # 0
         /\ worker[w].late \in {0, 1}
         /\ JobRow(w) \in Row /\ OnJob(worker[w], JobRow(w), w)
<1>1. Fits(worker[w], run, w) /\ run \in [Run -> Row]
  BY DEF PoolInv, StoreInv
<1>2. worker[w] \in Process /\ worker[w].job # 0 /\ worker[w].job \in Run
  BY <1>1 DEF Fits, Process
<1> QED
  BY <1>1, <1>2 DEF Fits, Job, JobRow

\* It goes on with the same Run, and begins no call too late.
LEMMA GoesOn ==
  ASSUME PoolInv, NEW w \in Worker, worker[w].pc \notin {"idle", "down"},
         NEW q \in Process, q.pc \notin {"idle", "down"},
         q.job = Job(w), q.attempt = worker[w].attempt,
         q.after = "CANCELLED" => worker[w].after = "CANCELLED" \/ JobRow(w).cancel_requested,
         q.late \in {0, 1}, Belated(q, JobRow(w))
  PROVE  Fits(q, run, w)
<1>1. OnJob(worker[w], JobRow(w), w) /\ q.job # 0
  BY Working
<1>2. OnJob(q, JobRow(w), w)
  BY <1>1 DEF OnJob, Owned
<1> QED
  BY <1>1, <1>2 DEF Fits, JobRow, Job

\* The record of a process that leaves the agent.
LeftAs(p, q, pc, job, n, after) ==
  /\ q \in Process /\ q.pc = pc /\ q.job = job /\ q.attempt = n
  /\ q.after = after /\ q.late = p.late

LEMMA LeavesUpdate ==
  ASSUME NEW p \in Process, NEW pc \in {"failing", "completing", "extracting"},
         NEW job \in Run, NEW n \in 0..MaxAttempts,
         NEW after \in {"none", "LLM", "TOOL", "CANCELLED"} \cup Verdict
  PROVE  LeftAs(p, [p EXCEPT !.pc = pc, !.job = job, !.attempt = n, !.after = after],
                pc, job, n, after)
<1> DEFINE q == [p EXCEPT !.pc = pc, !.job = job, !.attempt = n, !.after = after]
<1>1. /\ q.pc = pc /\ q.job = job /\ q.attempt = n /\ q.after = after
      /\ q.late = p.late
  BY DEF Process
<1>2. q \in Process
  BY DEF Process, Verdict
<1> QED
  BY <1>1, <1>2 DEF LeftAs

LEMMA LeavesFits ==
  ASSUME PoolInv, NEW w \in Worker, worker[w].pc \notin {"idle", "down"},
         NEW pc \in {"failing", "completing", "extracting"},
         NEW verdict \in {"none", "LLM", "TOOL", "CANCELLED"} \cup Verdict,
         verdict = "CANCELLED" => worker[w].after = "CANCELLED" \/ JobRow(w).cancel_requested
  PROVE  Fits(Leaves(w, pc, verdict), run, w)
<1> DEFINE q == Leaves(w, pc, verdict)
<1>1. /\ Job(w) \in Run /\ worker[w].attempt \in 0..MaxAttempts
  BY Working DEF Process
<1>2. /\ q \in Process /\ q.pc = pc /\ q.job = Job(w) /\ q.attempt = worker[w].attempt
      /\ q.after = verdict /\ q.late = 0
  <2> DEFINE n == worker[w].attempt
             j == Job(w)
  <2>1. Idle \in Process /\ Idle.late = 0
    BY IdleFits DEF Fits, Idle
  <2>2. q = [Idle EXCEPT !.pc = pc, !.job = j, !.attempt = n, !.after = verdict]
    BY DEF Leaves
  <2>3. j \in Run /\ n \in 0..MaxAttempts
    BY <1>1
  <2> HIDE DEF q, j, n
  <2>4. LeftAs(Idle, q, pc, j, n, verdict)
    <3>1. LeftAs(Idle, [Idle EXCEPT !.pc = pc, !.job = j, !.attempt = n, !.after = verdict],
                 pc, j, n, verdict)
      BY <2>1, <2>3, LeavesUpdate
    <3> QED
      BY <2>2, <3>1, Zenon
  <2> QED
    BY <2>1, <2>4 DEF LeftAs, j, n
<1> HIDE DEF q
<1>3. Belated(q, JobRow(w))
  BY <1>2 DEF Belated
<1>4. Fits(q, run, w)
  BY <1>2, <1>3, GoesOn
<1> QED
  BY <1>4 DEF q

LEMMA FailingFits ==
  ASSUME PoolInv, NEW w \in Worker, worker[w].pc \notin {"idle", "down"},
         NEW verdict \in {"none", "LLM", "TOOL", "CANCELLED"} \cup Verdict,
         verdict = "CANCELLED" => worker[w].after = "CANCELLED" \/ JobRow(w).cancel_requested
  PROVE  Fits(Failing(w, verdict), run, w)
BY LeavesFits DEF Failing

\* A step of process w that is no claim.
Quietly(w) == QuietStore /\ Moves(w) /\ UNCHANGED renewal

LEMMA BecomesMoves ==
  ASSUME NEW w \in Worker, NEW p, Fits(p, run, w), Becomes(w, p)
  PROVE  Moves(w)
BY DEF Moves, Becomes

LEMMA WritesQuietly ==
  ASSUME PoolInv, NEW w \in Worker, worker[w].pc \notin {"idle", "down"},
         NEW type, NEW written, Fits(written, run, w), Writes(w, type, written)
  PROVE  QuietStore /\ Moves(w)
<1>1. StoreInv /\ Job(w) \in Run
  BY Working DEF PoolInv
<1>2. Fits(Idle, run, w) /\ Fits(Failing(w, "RETRYABLE"), run, w)
  BY IdleFits, FailingFits DEF Verdict
<1>3. CASE Recorded(Job(w), w, type) /\ Becomes(w, written)
  BY <1>1, <1>3, RecordedQuiet, BecomesMoves
<1>4. CASE Becomes(w, Idle) /\ UNCHANGED storeVars
  BY <1>1, <1>2, <1>4, NothingHappens, BecomesMoves
<1>5. CASE Becomes(w, Failing(w, "RETRYABLE")) /\ UNCHANGED storeVars
  BY <1>1, <1>2, <1>5, NothingHappens, BecomesMoves
<1> QED
  BY <1>3, <1>4, <1>5 DEF Writes

\* What the steps write into the record of the process.
Progressed(p, q, pc, after) ==
  /\ q \in Process /\ q.pc = pc /\ q.after = after
  /\ q.job = p.job /\ q.attempt = p.attempt /\ q.late = p.late

LEMMA PcUpdate ==
  ASSUME NEW p \in Process,
         NEW pc \in {"preparing", "running", "asking", "holding", "extracting"}
  PROVE  Progressed(p, [p EXCEPT !.pc = pc], pc, p.after)
BY DEF Process, Progressed

LEMMA AfterUpdate ==
  ASSUME NEW p \in Process, NEW pc \in {"running", "asking"},
         NEW after \in {"none", "LLM", "TOOL"} \cup Verdict
  PROVE  Progressed(p, [p EXCEPT !.pc = pc, !.after = after], pc, after)
BY DEF Process, Verdict, Progressed

LEMMA LostUpdate ==
  ASSUME NEW p \in Process
  PROVE  Progressed(p, [p EXCEPT !.lost = TRUE], p.pc, p.after)
BY DEF Process, Progressed

\* The process goes to pc, which is no place for a belated call to be past.
LEMMA GoesToFits ==
  ASSUME PoolInv, NEW w \in Worker, worker[w].pc \notin {"idle", "down"},
         NEW pc \in {"preparing", "running", "asking", "holding", "extracting"},
         worker[w].late = 1 =>
           /\ pc \in {"running", "asking", "holding"}
           /\ pc = "holding" => ~JobRow(w).cancel_requested
  PROVE  Fits([worker[w] EXCEPT !.pc = pc], run, w)
<1> DEFINE p == worker[w]
           q == [p EXCEPT !.pc = pc]
<1>1. /\ p \in Process /\ p.late \in {0, 1} /\ p.job = Job(w)
      /\ OnJob(p, JobRow(w), w)
  BY Working DEF Job
<1>2. /\ q \in Process /\ q.pc = pc /\ q.job = Job(w) /\ q.attempt = p.attempt
      /\ q.after = p.after /\ q.late = p.late
  <2>1. Progressed(p, q, pc, p.after)
    BY <1>1, PcUpdate
  <2> QED
    BY <1>1, <2>1 DEF Progressed
<1> HIDE DEF q
<1>3. Belated(q, JobRow(w))
  BY <1>1, <1>2 DEF OnJob, Belated
<1>4. Fits(q, run, w)
  BY <1>1, <1>2, <1>3, GoesOn
<1> QED
  BY <1>4 DEF q

LEMMA AfterFits ==
  ASSUME PoolInv, NEW w \in Worker, worker[w].pc \notin {"idle", "down"},
         NEW pc \in {"running", "asking"},
         NEW after \in {"none", "LLM", "TOOL"} \cup Verdict
  PROVE  Fits([worker[w] EXCEPT !.pc = pc, !.after = after], run, w)
<1> DEFINE p == worker[w]
           q == [p EXCEPT !.pc = pc, !.after = after]
<1>1. /\ p \in Process /\ p.late \in {0, 1} /\ p.job = Job(w)
      /\ OnJob(p, JobRow(w), w)
  BY Working DEF Job
<1>2. /\ q \in Process /\ q.pc = pc /\ q.job = Job(w) /\ q.attempt = p.attempt
      /\ q.after = after /\ q.late = p.late
  <2>1. Progressed(p, q, pc, after)
    BY <1>1, AfterUpdate
  <2> QED
    BY <1>1, <2>1 DEF Progressed
<1>3. after # "CANCELLED"
  BY DEF Verdict
<1> HIDE DEF q
<1>4. Belated(q, JobRow(w))
  BY <1>1, <1>2 DEF OnJob, Belated
<1>5. Fits(q, run, w)
  BY <1>1, <1>2, <1>3, <1>4, GoesOn
<1> QED
  BY <1>5 DEF q

\* The step of a process that touches no row.
LEMMA Locally ==
  ASSUME PoolInv, NEW w \in Worker, NEW p, Fits(p, run, w), Becomes(w, p),
         UNCHANGED <<storeVars, renewal>>
  PROVE  Quietly(w)
<1>1. UNCHANGED storeVars /\ UNCHANGED renewal
  OBVIOUS
<1>2. QuietStore
  BY <1>1, NothingHappens DEF PoolInv
<1> QED
  BY <1>1, <1>2, BecomesMoves DEF Quietly

LEMMA LoadQuietly ==
  ASSUME PoolInv, NEW w \in Worker, Load(w)
  PROVE  Quietly(w)
<1>1. worker[w].pc = "loading" /\ worker[w].late # 1
  BY Working DEF Load, At, OnJob, Belated
<1>2. Fits([worker[w] EXCEPT !.pc = "preparing"], run, w)
  BY <1>1, GoesToFits
<1>3. Fits(Idle, run, w)
  BY IdleFits
<1> QED
  BY <1>2, <1>3, Locally DEF Load, GoesTo

LEMMA PrepareQuietly ==
  ASSUME PoolInv, NEW w \in Worker, Prepare(w)
  PROVE  Quietly(w)
<1>1. worker[w].pc = "preparing"
  BY DEF Prepare, At
<1>2. Fits([worker[w] EXCEPT !.pc = "running"], run, w)
  BY <1>1, GoesToFits
<1>3. Fits(Failing(w, "RETRYABLE"), run, w)
  BY <1>1, FailingFits DEF Verdict
<1>4. CASE Writes(w, "CONTEXT_PREPARED", [worker[w] EXCEPT !.pc = "running"])
  BY <1>1, <1>2, <1>4, WritesQuietly DEF Prepare, Quietly
<1>5. CASE Becomes(w, Failing(w, "RETRYABLE")) /\ UNCHANGED storeVars
  BY <1>3, <1>5, Locally DEF Prepare
<1> QED
  BY <1>4, <1>5 DEF Prepare

LEMMA AgentQuietly ==
  ASSUME PoolInv, NEW w \in Worker,
         \/ \E kind \in {"LLM", "TOOL"} : NextCall(w, kind)
         \/ AgentRaises(w) \/ AgentReturns(w)
  PROVE  Quietly(w)
<1>1. worker[w].pc = "running"
  BY DEF NextCall, AgentRaises, AgentReturns, At
<1>2. ASSUME NEW kind \in {"LLM", "TOOL"}, NextCall(w, kind) PROVE Quietly(w)
  <2>1. Fits([worker[w] EXCEPT !.pc = "asking", !.after = kind], run, w)
    BY <1>1, AfterFits
  <2> QED
    BY <1>2, <2>1, Locally DEF NextCall
<1>3. CASE AgentRaises(w)
  <2>1. Fits(Failing(w, "RETRYABLE"), run, w)
    BY <1>1, FailingFits DEF Verdict
  <2> QED
    BY <1>3, <2>1, Locally DEF AgentRaises
<1>4. CASE AgentReturns(w)
  <2>1. Fits(Leaves(w, "completing", "none"), run, w)
    BY <1>1, LeavesFits
  <2> QED
    BY <1>4, <2>1, IdleFits, Locally DEF AgentReturns
<1> QED
  BY <1>2, <1>3, <1>4

LEMMA AskQuietly ==
  ASSUME PoolInv, NEW w \in Worker, AskCancelled(w)
  PROVE  Quietly(w)
<1>1. worker[w].pc = "asking"
  BY DEF AskCancelled, At
<1>2. CASE JobRow(w).cancel_requested
  <2>1. Fits(Failing(w, "CANCELLED"), run, w)
    BY <1>1, <1>2, FailingFits
  <2> QED
    BY <1>2, <2>1, Locally DEF AskCancelled
<1>3. CASE ~JobRow(w).cancel_requested
  <2>1. Fits([worker[w] EXCEPT !.pc = "holding"], run, w)
    BY <1>1, <1>3, GoesToFits
  <2> QED
    BY <1>3, <2>1, Locally DEF AskCancelled, GoesTo
<1> QED
  BY <1>2, <1>3

\* A call is reserved only by a process that is in time.
LEMMA ReservedFits ==
  ASSUME PoolInv, NEW w \in Worker, worker[w].pc = "holding", worker[w].late = 0,
         worker[w].after \in {"LLM", "TOOL"}
  PROVE  Fits(Reserved(worker[w]), run, w)
<1> DEFINE p == worker[w]
           q == Reserved(p)
<1>1. p \in Process /\ p.job = Job(w)
  BY Working DEF Job
<1>2. /\ q \in Process /\ q.pc \in {"overLimit", "starting"} /\ q.job = Job(w)
      /\ q.attempt = p.attempt /\ q.after = p.after /\ q.late = 0
  <2> DEFINE Ready(new) ==
               /\ new \in Process /\ new.pc \in {"overLimit", "starting"}
               /\ new.job = p.job /\ new.attempt = p.attempt
               /\ new.after = p.after /\ new.late = p.late
             over == [p EXCEPT !.pc = "overLimit"]
             llm(n) == [p EXCEPT !.pc = "starting", !.llm = n]
             tool(n) == [p EXCEPT !.pc = "starting", !.tool = n]
  <2>1. Ready(over)
    BY <1>1 DEF Process
  <2>2. \A n \in 0..MaxLlmCalls : Ready(llm(n))
    BY <1>1 DEF Process
  <2>3. \A n \in 0..MaxToolCalls : Ready(tool(n))
    BY <1>1 DEF Process
  <2>4. /\ ~(p.llm >= MaxLlmCalls) => p.llm + 1 \in 0..MaxLlmCalls
        /\ ~(p.tool >= MaxToolCalls) => p.tool + 1 \in 0..MaxToolCalls
    BY <1>1, PoolAssumption DEF Process
  <2>5. CASE p.after = "LLM"
    <3>1. q = IF p.llm >= MaxLlmCalls THEN over ELSE llm(p.llm + 1)
      BY <2>5 DEF Reserved
    <3> HIDE DEF Ready, over, llm, q
    <3>2. Ready(q)
      BY <2>1, <2>2, <2>4, <3>1
    <3> QED
      BY <1>1, <3>2 DEF Ready
  <2>6. CASE p.after = "TOOL"
    <3>1. q = IF p.tool >= MaxToolCalls THEN over ELSE tool(p.tool + 1)
      BY <2>6 DEF Reserved
    <3> HIDE DEF Ready, over, tool, q
    <3>2. Ready(q)
      BY <2>1, <2>3, <2>4, <3>1
    <3> QED
      BY <1>1, <3>2 DEF Ready
  <2> QED
    BY <2>5, <2>6
<1> HIDE DEF q
<1>3. Belated(q, JobRow(w))
  BY <1>2 DEF Belated
<1>4. Fits(q, run, w)
  BY <1>2, <1>3, GoesOn
<1> QED
  BY <1>4 DEF q

LEMMA CheckQuietly ==
  ASSUME PoolInv, NEW w \in Worker, CheckLease(w)
  PROVE  Quietly(w)
<1>1. /\ worker[w].pc = "holding" /\ UNCHANGED <<storeVars, renewal>>
      /\ worker[w].late \in {0, 1} /\ worker[w] \in Process
      /\ OnJob(worker[w], JobRow(w), w)
  BY Working DEF CheckLease, At
<1>2. CASE ~OwnsJob(w)
  <2>1. Becomes(w, Idle)
    BY <1>2 DEF CheckLease
  <2> QED
    BY <1>1, <2>1, IdleFits, Locally
<1>3. CASE OwnsJob(w) /\ worker[w].after \in {"LLM", "TOOL"}
  <2>1. worker[w].late = 0
    BY <1>1, <1>3 DEF OwnsJob, Owns, OnJob, Belated, Present
  <2>2. Becomes(w, Reserved(worker[w]))
    BY <1>3 DEF CheckLease
  <2> QED
    BY <1>1, <1>3, <2>1, <2>2, ReservedFits, Locally
<1>4. CASE OwnsJob(w) /\ worker[w].after = "OK"
  <2>1. Becomes(w, [worker[w] EXCEPT !.pc = "running", !.after = "none"])
    BY <1>4 DEF CheckLease
  <2>2. Fits([worker[w] EXCEPT !.pc = "running", !.after = "none"], run, w)
    BY <1>1, AfterFits
  <2> QED
    BY <1>1, <2>1, <2>2, Locally
<1>5. CASE OwnsJob(w) /\ worker[w].after \notin {"LLM", "TOOL", "OK"}
  <2>1. Becomes(w, Failing(w, worker[w].after))
    BY <1>5 DEF CheckLease
  <2>2. worker[w].after \in {"none", "LLM", "TOOL", "CANCELLED"} \cup Verdict
    BY <1>1 DEF Process
  <2>3. Fits(Failing(w, worker[w].after), run, w)
    BY <1>1, <2>2, FailingFits
  <2> QED
    BY <1>1, <2>1, <2>3, Locally
<1> QED
  BY <1>2, <1>3, <1>4, <1>5

BegunAs(p, q, pc, late) ==
  /\ q \in Process /\ q.pc = pc /\ q.after = "none"
  /\ q.job = p.job /\ q.attempt = p.attempt /\ q.late = late

LEMMA BegunUpdate ==
  ASSUME NEW p \in Process, NEW pc \in {"calling", "running"}, NEW thinking \in BOOLEAN,
         NEW late \in {0, 1}
  PROVE  BegunAs(p, [p EXCEPT !.pc = pc, !.after = "none", !.thinking = thinking,
                              !.late = late], pc, late)
<1>1. late \in Nat
  OBVIOUS
<1> QED
  BY <1>1 DEF Process, BegunAs

\* Between "starting" and the checks before it nothing was too late; now it may.
LEMMA BegunFits ==
  ASSUME PoolInv, NEW w \in Worker, worker[w].pc = "starting"
  PROVE  Fits(Begun(w), run, w)
<1> DEFINE p == worker[w]
           q == Begun(w)
<1>1. /\ p \in Process /\ p.job = Job(w) /\ p.late \in {0, 1}
      /\ OnJob(p, JobRow(w), w) /\ JobRow(w) \in Row
  BY Working DEF Job
<1>2. p.late = 0
  BY <1>1 DEF OnJob, Belated
<1>3. /\ q \in Process /\ q.pc \in {"calling", "running"} /\ q.after = "none"
      /\ q.job = p.job /\ q.attempt = p.attempt
      /\ q.late = IF JobRow(w).cancel_requested \/ ~Present(JobRow(w)) THEN 1 ELSE 0
  <2> DEFINE pc == IF p.after = "TOOL" THEN "calling" ELSE "running"
             thinking == p.thinking \/ p.after = "LLM"
             late == IF JobRow(w).cancel_requested \/ ~Present(JobRow(w))
                     THEN p.late + 1 ELSE p.late
  <2>1. /\ pc \in {"calling", "running"} /\ thinking \in BOOLEAN
        /\ late = IF JobRow(w).cancel_requested \/ ~Present(JobRow(w)) THEN 1 ELSE 0
    BY <1>2
  <2>2. q = [p EXCEPT !.pc = pc, !.after = "none", !.thinking = thinking, !.late = late]
    BY DEF Begun
  <2>3. late \in {0, 1}
    BY <2>1
  <2> HIDE DEF q, pc, thinking, late
  <2>4. BegunAs(p, q, pc, late)
    BY <1>1, <2>1, <2>2, <2>3, BegunUpdate
  <2> QED
    BY <2>1, <2>4 DEF BegunAs
<1> HIDE DEF q
<1>4. Belated(q, JobRow(w))
  BY <1>3 DEF Belated
<1>5. Fits(q, run, w)
  BY <1>1, <1>3, <1>4, GoesOn
<1> QED
  BY <1>5 DEF q

LEMMA StartQuietly ==
  ASSUME PoolInv, NEW w \in Worker, StartCall(w)
  PROVE  Quietly(w)
<1>1. worker[w].pc = "starting" /\ UNCHANGED renewal
  BY DEF StartCall, At
<1>2. Fits(Begun(w), run, w)
  BY <1>1, BegunFits
<1>3. \/ \E type : Writes(w, type, Begun(w))
      \/ Becomes(w, Begun(w)) /\ UNCHANGED storeVars
  BY DEF StartCall
<1> QED
  BY <1>1, <1>2, <1>3, WritesQuietly, Locally DEF Quietly

LEMMA LimitQuietly ==
  ASSUME PoolInv, NEW w \in Worker, ReachLimit(w)
  PROVE  Quietly(w)
<1>1. worker[w].pc = "overLimit"
  BY DEF ReachLimit, At
<1>2. Fits(Failing(w, "FATAL"), run, w)
  BY <1>1, FailingFits DEF Verdict
<1> QED
  BY <1>1, <1>2, WritesQuietly DEF ReachLimit, Quietly

LEMMA EndQuietly ==
  ASSUME PoolInv, NEW w \in Worker,
         ToolRaises(w) \/ \E verdict \in Verdict : EndTool(w, verdict)
  PROVE  Quietly(w)
<1>1. worker[w].pc = "calling" /\ UNCHANGED renewal
  BY DEF ToolRaises, EndTool, At
<1>2. ASSUME NEW verdict \in Verdict, EndTool(w, verdict) PROVE Quietly(w)
  <2>1. Fits([worker[w] EXCEPT !.pc = "asking", !.after = verdict], run, w)
    BY <1>1, AfterFits
  <2> QED
    BY <1>1, <1>2, <2>1, WritesQuietly DEF EndTool, Quietly
<1>3. CASE ToolRaises(w)
  <2>1. Fits([worker[w] EXCEPT !.pc = "running"], run, w)
    BY <1>1, GoesToFits
  <2>2. Fits(Failing(w, "RETRYABLE"), run, w)
    BY <1>1, FailingFits DEF Verdict
  <2> QED
    BY <1>1, <1>3, <2>1, <2>2, WritesQuietly DEF ToolRaises, Quietly
<1> QED
  BY <1>2, <1>3

LEMMA FinishQuietly ==
  ASSUME PoolInv, NEW w \in Worker, Finish(w)
  PROVE  Quietly(w)
<1>1. /\ worker[w].pc = "completing" /\ UNCHANGED renewal
      /\ StoreInv /\ Job(w) \in Run /\ worker[w].late # 1
  BY Working DEF Finish, At, PoolInv, OnJob, Belated
<1>2. Fits([worker[w] EXCEPT !.pc = "extracting"], run, w)
  BY <1>1, GoesToFits
<1>3. Fits(Failing(w, "RETRYABLE"), run, w)
  BY <1>1, FailingFits DEF Verdict
<1>4. Complete(Job(w), w) \/ UNCHANGED storeVars
  BY DEF Finish
<1>5. QuietStore
  BY <1>1, <1>4, CompleteQuiet, NothingHappens
<1>6. \/ Becomes(w, [worker[w] EXCEPT !.pc = "extracting"])
      \/ Becomes(w, Failing(w, "RETRYABLE"))
      \/ Becomes(w, Idle)
  BY DEF Finish, GoesTo
<1> QED
  BY <1>1, <1>2, <1>3, <1>5, <1>6, IdleFits, BecomesMoves DEF Quietly

LEMMA ReportQuietly ==
  ASSUME PoolInv, NEW w \in Worker, Extract(w) \/ Report(w)
  PROVE  Quietly(w)
<1>1. /\ worker[w].pc \in {"extracting", "failing"}
      /\ StoreInv /\ Job(w) \in Run
  BY Working DEF Extract, Report, At, PoolInv
<1>2. CASE Extract(w)
  <2>1. Fits(Failing(w, "RETRYABLE"), run, w)
    BY <1>1, FailingFits DEF Verdict
  <2> QED
    BY <1>2, <2>1, IdleFits, Locally DEF Extract
<1>3. CASE Report(w)
  <2>1. /\ \/ Fail(Job(w), w, CodeOf(worker[w].after), worker[w].after = "RETRYABLE")
           \/ UNCHANGED storeVars
        /\ Becomes(w, Idle) /\ UNCHANGED renewal
    BY <1>3 DEF Report
  <2>2. /\ CodeOf(worker[w].after) \in WorkerError
        /\ (worker[w].after = "RETRYABLE") \in BOOLEAN
    BY DEF CodeOf, WorkerError
  <2>3. QuietStore
    BY <1>1, <2>1, <2>2, FailQuiet, NothingHappens
  <2> QED
    BY <2>1, <2>3, IdleFits, BecomesMoves DEF Quietly
<1> QED
  BY <1>2, <1>3

LEMMA ExecuteQuietly ==
  ASSUME PoolInv, NEW w \in Worker, Execute(w)
  PROVE  Quietly(w)
BY LoadQuietly, PrepareQuietly, AgentQuietly, AskQuietly, CheckQuietly, LimitQuietly,
   StartQuietly, EndQuietly, FinishQuietly, ReportQuietly DEF Execute, Call

LEMMA HeartbeatQuietly ==
  ASSUME PoolInv, NEW w \in Worker, Heartbeat(w)
  PROVE  /\ QuietStore
         /\ renewal' \in [Worker -> Renewal \cup {NoRenewal}]
         /\ worker' = worker \/ Moves(w)
<1>1. StoreInv /\ renewal \in [Worker -> Renewal \cup {NoRenewal}]
  BY DEF PoolInv
<1>2. CASE SendRenewal(w)
  <2>1. worker[w].pc \notin {"idle", "down"}
    BY <1>2 DEF SendRenewal, Guarded
  <2>2. [run |-> Job(w), attempt |-> worker[w].attempt, age |-> 0] \in Renewal
    BY <2>1, Working, StoreAssumption DEF Renewal, Process
  <2> QED
    BY <1>1, <1>2, <2>2, NothingHappens DEF SendRenewal
<1>3. CASE DropRenewal(w)
  BY <1>1, <1>3, NothingHappens DEF DropRenewal
<1>4. CASE LandRenewal(w)
  <2>1. /\ renewal[w].run \in Run /\ renewal[w].age \in 0..MaxStall
        /\ renewal' \in [Worker -> Renewal \cup {NoRenewal}]
    BY <1>1, <1>4 DEF LandRenewal, Renewal
  <2>2. Renew(renewal[w].run, w, renewal[w].age) \/ UNCHANGED storeVars
    BY <1>4 DEF LandRenewal
  <2>3. QuietStore
    BY <1>1, <2>1, <2>2, RenewQuiet, NothingHappens
  <2>4. CASE Attended(w) /\ Becomes(w, [worker[w] EXCEPT !.lost = TRUE])
    <3> DEFINE p == worker[w]
               q == [p EXCEPT !.lost = TRUE]
    <3>1. p.pc \notin {"idle", "down"}
      BY <2>4 DEF Attended, Guarded
    <3>2. /\ p \in Process /\ p.late \in {0, 1} /\ p.job = Job(w)
          /\ OnJob(p, JobRow(w), w)
      BY <3>1, Working DEF Job
    <3>3. Progressed(p, q, p.pc, p.after)
      BY <3>2, LostUpdate
    <3>4. Becomes(w, q)
      BY <2>4
    <3> HIDE DEF q
    <3>5. Belated(q, JobRow(w))
      BY <3>2, <3>3 DEF OnJob, Belated, Progressed
    <3>6. Fits(q, run, w)
      BY <3>1, <3>2, <3>3, <3>5, GoesOn DEF Progressed
    <3> QED
      BY <2>1, <2>3, <3>4, <3>6, BecomesMoves
  <2>5. \/ worker' = worker
        \/ Attended(w) /\ Becomes(w, [worker[w] EXCEPT !.lost = TRUE])
    BY <1>4 DEF LandRenewal
  <2> QED
    BY <2>1, <2>3, <2>4, <2>5
<1> QED
  BY <1>2, <1>3, <1>4 DEF Heartbeat

LEMMA ClockQuiet ==
  ASSUME PoolInv, Clock
  PROVE  /\ QuietStore /\ worker' = worker
         /\ renewal' \in [Worker -> Renewal \cup {NoRenewal}]
<1>1. StoreInv /\ renewal \in [Worker -> Renewal \cup {NoRenewal}]
  BY DEF PoolInv
<1>2. \A u \in Renewal : u.age # MaxStall => [u EXCEPT !.age = @ + 1] \in Renewal
  <2>1. \A n \in 0..MaxStall : n # MaxStall => n + 1 \in 0..MaxStall
    BY StoreAssumption
  <2>2. \A u \in Renewal : \A n \in 0..MaxStall : [u EXCEPT !.age = n] \in Renewal
    BY DEF Renewal
  <2>3. \A u \in Renewal : u.age \in 0..MaxStall
    BY DEF Renewal
  <2> QED
    BY <2>1, <2>2, <2>3
<1>3. renewal' \in [Worker -> Renewal \cup {NoRenewal}]
  BY <1>1, <1>2 DEF Clock
<1> QED
  BY <1>1, <1>3, TickQuiet DEF Clock

\* The record of a process that takes a Run up.
TakesUp(q, p, job, n) ==
  /\ p \in Process /\ p.pc = "loading" /\ p.job = job /\ p.attempt = n
  /\ p.after = q.after /\ p.late = q.late

\* A process claims only when it is idle: it executes what it owns.
LEMMA PollKeeps ==
  ASSUME PoolInv, NEW w \in Worker, NEW locked \in SUBSET Run,
         NEW pick \in Run \cup {0}, Poll(w, locked, pick)
  PROVE  PoolInv'
<1>1. /\ Claim(w, locked, pick) /\ UNCHANGED renewal /\ StoreInv
      /\ renewal \in [Worker -> Renewal \cup {NoRenewal}]
  BY DEF Poll, PoolInv
<1>2. [StoreNext]_storeVars
  BY <1>1 DEF StoreNext, WorkerNext
<1>3. CASE pick = 0
  <2>1. worker' = worker /\ OwnersStay
    BY <1>1, <1>3, ClaimOwners DEF Poll
  <2> QED
    BY <1>1, <1>2, <2>1, PoolKeeps DEF QuietStore
<1>4. CASE pick # 0
  <2> DEFINE p == [Idle EXCEPT !.pc = "loading", !.job = pick,
                               !.attempt = run[pick].attempt + 1]
  <2>1. pick \in Run /\ worker' = [worker EXCEPT ![w] = p]
    BY <1>4 DEF Poll, Becomes
  <2>2. PICK stall \in 0..MaxStall :
          Claimable(run[pick]) /\ run'[pick] = ClaimedBy(run[pick], w, stall)
    BY <1>1, <1>4, ClaimOwners
  <2>3. StoreInv' /\ run[pick] \in Row /\ run'[pick] \in Row
    BY <1>1, <1>2, <2>1, InvariantStep DEF StoreInv
  <2>4. /\ run'[pick].status = "RUNNING"
        /\ run'[pick].attempt = run[pick].attempt + 1
    BY <2>2, <2>3, ClaimedKeeps
  <2>5. run'[pick].attempt \in 0..MaxAttempts
    BY <2>3 DEF Row
  <2>6. ASSUME NEW q \in Process, NEW n \in 0..MaxAttempts
        PROVE  TakesUp(q, [q EXCEPT !.pc = "loading", !.job = pick, !.attempt = n], pick, n)
    BY <2>1 DEF Process, TakesUp
  <2>7. Idle \in Process /\ Idle.late = 0 /\ Idle.after = "none"
    BY IdleFits, <1>1 DEF Fits, Idle
  <2>8. /\ p \in Process /\ p.pc = "loading" /\ p.job = pick /\ p.late = 0
        /\ p.after = "none" /\ p.attempt = run'[pick].attempt
    <3> DEFINE n == run[pick].attempt + 1
    <3>1. n \in 0..MaxAttempts /\ n = run'[pick].attempt
      BY <2>4, <2>5
    <3>2. p = [Idle EXCEPT !.pc = "loading", !.job = pick, !.attempt = n]
      OBVIOUS
    <3> HIDE DEF p, n
    <3>3. TakesUp(Idle, p, pick, n)
      BY <2>6, <2>7, <3>1, <3>2
    <3> QED
      BY <2>7, <3>1, <3>3 DEF TakesUp
  <2> HIDE DEF p
  <2>9. Fits(p, run', w)
    <3>1. OnJob(p, run'[pick], w)
      BY <2>4, <2>8 DEF OnJob, Owned, Belated
    <3> QED
      BY <1>4, <2>8, <3>1 DEF Fits
  <2>10. \A v \in Worker \ {w} : Fits(worker[v], run', v)
    BY <1>1, <1>2, ClaimOwners, FitsStays DEF PoolInv
  <2>11. /\ worker' = [v \in Worker |-> worker'[v]]
         /\ \A v \in Worker : worker'[v] = IF v = w THEN p ELSE worker[v]
    BY <2>1 DEF PoolInv
  <2>12. \A v \in Worker : Fits(worker'[v], run', v)
    BY <2>9, <2>10, <2>11
  <2>13. renewal' \in [Worker -> Renewal \cup {NoRenewal}]
    BY <1>1
  <2> QED
    BY <2>3, <2>11, <2>12, <2>13 DEF PoolInv
<1> QED
  BY <1>3, <1>4

LEMMA PoolStep == PoolInv /\ [Next]_poolVars => PoolInv'
<1> SUFFICES ASSUME PoolInv, [Next]_poolVars PROVE PoolInv'
  OBVIOUS
<1>1. StoreInv /\ renewal \in [Worker -> Renewal \cup {NoRenewal}]
  BY DEF PoolInv
<1>2. CASE ClientNext /\ UNCHANGED processVars
  BY <1>1, <1>2, ClientQuiet, PoolKeeps DEF processVars
<1>3. ASSUME NEW w \in Worker, Execute(w) PROVE PoolInv'
  BY <1>1, <1>3, ExecuteQuietly, PoolKeeps DEF Quietly
<1>4. ASSUME NEW w \in Worker, Heartbeat(w) PROVE PoolInv'
  BY <1>4, HeartbeatQuietly, PoolKeeps
<1>5. ASSUME NEW w \in Worker, Crash(w) PROVE PoolInv'
  <2> DEFINE p == [Idle EXCEPT !.pc = "down"]
  <2>1. Fits(p, run, w)
    <3>1. Idle \in Process /\ Idle.late = 0 /\ Idle.job = 0
      BY <1>5, IdleFits DEF Fits, Idle
    <3>2. p \in Process /\ p.pc = "down" /\ p.late = 0 /\ p.job = 0
      BY <3>1 DEF Process
    <3> QED
      BY <3>2 DEF Fits
  <2>2. Becomes(w, p) /\ UNCHANGED <<storeVars, renewal>>
    BY <1>5 DEF Crash
  <2> HIDE DEF p
  <2>3. Quietly(w)
    BY <2>1, <2>2, Locally
  <2> QED
    BY <1>1, <2>3, PoolKeeps DEF Quietly
<1>6. CASE Clock
  BY <1>6, ClockQuiet, PoolKeeps
<1>7. CASE UNCHANGED poolVars
  BY <1>1, <1>7, NothingHappens, PoolKeeps DEF poolVars, processVars
<1> QED
  BY <1>2, <1>3, <1>4, <1>5, <1>6, <1>7, PollKeeps DEF Next

LEMMA PoolInit == Init => PoolInv
<1> SUFFICES ASSUME Init PROVE PoolInv
  OBVIOUS
<1>1. StoreInv
  BY InvariantInit DEF Init
<1>2. \A w \in Worker : worker[w] = Idle
  BY DEF Init
<1>3. \A w \in Worker : Fits(worker[w], run, w)
  BY <1>2, IdleFits
<1> QED
  BY <1>1, <1>3 DEF Init, PoolInv

THEOREM PoolInvariant == SafeSpec => []PoolInv
BY PoolInit, PoolStep, PTL DEF SafeSpec

-----------------------------------------------------------------------------
(* Workers: the theorems *)

\* The writes of a worker are fenced by worker_id and lease alone; whenever they
\* admit an execution, the Run is in the attempt that execution was claimed with.
THEOREM Fenced == SafeSpec => []FencedByAttempt
<1>1. PoolInv => FencedByAttempt
  <2> SUFFICES ASSUME PoolInv, NEW w \in Worker, Job(w) # 0, MayWrite(w)
               PROVE  JobRow(w).attempt = worker[w].attempt
    BY DEF FencedByAttempt
  <2>1. Owned(worker[w], JobRow(w), w)
    BY DEF PoolInv, Fits, OnJob, Job, JobRow
  <2>2. JobRow(w).worker = w
    BY DEF MayWrite, Owns
  <2> QED
    BY <2>1, <2>2 DEF Owned
<1> QED
  BY <1>1, PoolInvariant, PTL

\* A worker reports RUN_CANCELLED only for a Run whose cancellation somebody
\* requested: this discharges what RunStore takes for granted of its workers.
THEOREM CancelledOnlyAsAsked == SafeSpec => []CancelledAsAsked
<1>1. PoolInv => CancelledAsAsked
  <2> SUFFICES ASSUME PoolInv, NEW w \in Worker, At(w, "failing"),
                      worker[w].after = "CANCELLED", MayWrite(w)
               PROVE  JobRow(w).cancel_requested
    BY DEF CancelledAsAsked
  <2>1. Job(w) # 0
    BY DEF PoolInv, Fits, At, Job
  <2>2. Owned(worker[w], JobRow(w), w)
    BY <2>1 DEF PoolInv, Fits, OnJob, Job, JobRow
  <2>3. JobRow(w).worker = w
    BY DEF MayWrite, Owns
  <2> QED
    BY <2>2, <2>3 DEF Owned
<1> QED
  BY <1>1, PoolInvariant, PTL

\* Cancelling or deleting a Run stops the work of every process on it: of the
\* model and Tool calls a process can still begin, all but one are stopped by
\* the two reads of _check_cancelled.
THEOREM WorkStops == SafeSpec => []CancellationStopsWork
<1>1. PoolInv => CancellationStopsWork
  BY DEF PoolInv, Fits, CancellationStopsWork
<1> QED
  BY <1>1, PoolInvariant, PTL

LEMMA PoolStepsQueue == PoolInv /\ [Next]_poolVars => [StoreNext]_storeVars
<1> SUFFICES ASSUME PoolInv, [Next]_poolVars PROVE [StoreNext]_storeVars
  OBVIOUS
<1>1. ASSUME NEW w \in Worker, NEW locked \in SUBSET Run, NEW pick \in Run \cup {0},
             Poll(w, locked, pick)
      PROVE  StoreNext
  BY <1>1 DEF Poll, StoreNext, WorkerNext
<1>2. ASSUME NEW w \in Worker, Execute(w) \/ Heartbeat(w) PROVE [StoreNext]_storeVars
  BY <1>2, ExecuteQuietly, HeartbeatQuietly DEF Quietly, QuietStore
<1>3. ASSUME NEW w \in Worker, Crash(w) PROVE UNCHANGED storeVars
  BY <1>3 DEF Crash
<1>4. CASE Clock
  BY <1>4, ClockQuiet DEF QuietStore
<1>5. UNCHANGED poolVars => UNCHANGED storeVars
  BY DEF poolVars
<1> QED
  BY <1>1, <1>2, <1>3, <1>4, <1>5 DEF Next, StoreNext

\* The worker processes implement the workers RunStore speaks of: whatever is
\* proved of the queue holds of the queue as the processes drive it.
THEOREM PoolDrivesQueue == SafeSpec => StoreSpec
<1>1. Init => StoreInit
  BY DEF Init
<1> QED
  BY <1>1, PoolStepsQueue, PoolInvariant, PTL DEF SafeSpec, StoreSpec

-----------------------------------------------------------------------------
(* Tool calls: counting them in a log *)

CallsAt(row, k) ==
  {i \in 1..Len(row.events) : row.events[i] = [type |-> "TOOL_STARTED", attempt |-> k]}
Calls(row, k) == Cardinality(CallsAt(row, k))

LEMMA CallsCountable ==
  ASSUME NEW row \in Row, NEW k
  PROVE  IsFiniteSet(CallsAt(row, k)) /\ Calls(row, k) \in Nat
<1>1. Len(row.events) \in Nat
  BY DEF Row
<1>2. IsFiniteSet(1..Len(row.events))
  BY <1>1, FS_Interval
<1>3. CallsAt(row, k) \in SUBSET (1..Len(row.events))
  BY DEF CallsAt
<1> QED
  BY <1>2, <1>3, FS_Subset, FS_CardinalityType DEF Calls

LEMMA NoCalls ==
  ASSUME NEW row, row.events = <<>>, NEW k
  PROVE  Calls(row, k) = 0
<1>1. CallsAt(row, k) = {}
  BY DEF CallsAt
<1> QED
  BY <1>1, FS_EmptySet DEF Calls

\* An event that is no call of attempt k does not count, one that is counts once.
LEMMA CallsAppended ==
  ASSUME NEW old \in Row, NEW new, NEW event, NEW k,
         new.events = Append(old.events, event)
  PROVE  /\ event # [type |-> "TOOL_STARTED", attempt |-> k] => Calls(new, k) = Calls(old, k)
         /\ Calls(new, k) <= Calls(old, k) + 1
<1> DEFINE last == Len(old.events) + 1
           call == [type |-> "TOOL_STARTED", attempt |-> k]
<1>1. old.events \in Seq(Event) /\ Len(old.events) \in Nat
  BY DEF Row
<1>2. /\ Len(new.events) = last /\ last \notin 1..Len(old.events)
      /\ 1..last = 1..Len(old.events) \cup {last}
      /\ new.events[last] = event
      /\ \A i \in 1..Len(old.events) : new.events[i] = old.events[i]
  BY <1>1
<1>3. CallsAt(new, k) = IF event = call THEN CallsAt(old, k) \cup {last} ELSE CallsAt(old, k)
  BY <1>2 DEF CallsAt
<1>4. IsFiniteSet(CallsAt(old, k)) /\ Calls(old, k) \in Nat
  BY CallsCountable
<1>5. last \notin CallsAt(old, k)
  BY <1>2 DEF CallsAt
<1> HIDE DEF last, call
<1>6. Cardinality(CallsAt(old, k) \cup {last}) = Cardinality(CallsAt(old, k)) + 1
  BY <1>4, <1>5, FS_AddElement
<1>7. CASE event = call
  BY <1>3, <1>4, <1>6, <1>7 DEF Calls, call
<1>8. CASE event # call
  BY <1>3, <1>4, <1>8 DEF Calls
<1> QED
  BY <1>7, <1>8 DEF call

-----------------------------------------------------------------------------
(* Tool calls: the transactions that log none *)

Thrifty(old, new) ==
  \/ new.events = <<>>
  \/ new.events = old.events
  \/ \E event : event.type # "TOOL_STARTED" /\ new.events = Append(old.events, event)

LEMMA ThriftyCalls ==
  ASSUME NEW old \in Row, NEW new, Thrifty(old, new), NEW k
  PROVE  Calls(new, k) <= Calls(old, k)
<1>1. Calls(old, k) \in Nat
  BY CallsCountable
<1>2. CASE new.events = <<>>
  BY <1>1, <1>2, NoCalls
<1>3. CASE new.events = old.events
  <2>1. Calls(new, k) = Calls(old, k)
    BY <1>3 DEF Calls, CallsAt
  <2> QED
    BY <1>1, <2>1
<1>4. ASSUME NEW event, event.type # "TOOL_STARTED", new.events = Append(old.events, event)
      PROVE  Calls(new, k) <= Calls(old, k)
  <2>1. event # [type |-> "TOOL_STARTED", attempt |-> k]
    BY <1>4
  <2>2. Calls(new, k) = Calls(old, k)
    BY <1>4, <2>1, CallsAppended
  <2> QED
    BY <1>1, <2>2
<1> QED
  BY <1>2, <1>3, <1>4 DEF Thrifty

LEMMA LoggedThrifty ==
  ASSUME NEW old, NEW row \in Row, row.events = old.events,
         NEW type, type # "TOOL_STARTED"
  PROVE  Thrifty(old, Logged(row, type))
<1> DEFINE event == [type |-> type, attempt |-> row.attempt]
<1>1. Logged(row, type).events = Append(old.events, event)
  BY DEF Logged, Row
<1>2. event.type # "TOOL_STARTED"
  OBVIOUS
<1> QED
  BY <1>1, <1>2 DEF Thrifty

\* Closing a row leaves its log alone.
LEMMA ClosedThrifty ==
  ASSUME NEW row \in Row, NEW status \in Terminal, NEW error \in ErrorCode \cup {NoError},
         NEW type, type # "TOOL_STARTED"
  PROVE  /\ Thrifty(row, Logged(Closed(row, status, error), type))
         /\ \A n \in Nat :
              Thrifty(row, Logged([Closed(row, status, error) EXCEPT !.answers = n], type))
<1> DEFINE closed == Closed(row, status, error)
<1>1. closed \in Row /\ closed.events = row.events
  <2>1. closed.events = row.events
    BY DEF Closed, Row
  <2> QED
    BY <2>1, ClosedKeeps
<1>2. \A n \in Nat : LET answered == [closed EXCEPT !.answers = n] IN
                     answered \in Row /\ answered.events = row.events
  BY <1>1 DEF Row
<1> HIDE DEF closed
<1>3. Thrifty(row, Logged(closed, type))
  BY <1>1, LoggedThrifty
<1>4. \A n \in Nat : Thrifty(row, Logged([closed EXCEPT !.answers = n], type))
  BY <1>2, LoggedThrifty
<1> QED
  BY <1>3, <1>4 DEF closed

LEMMA EndingsThrifty ==
  ASSUME NEW row \in Row
  PROVE  /\ Thrifty(row, Swept(row))
         /\ Thrifty(row, Completed(row))
         /\ \A code \in WorkerError, retryable \in BOOLEAN, stall \in 0..MaxStall :
              Thrifty(row, Failed(row, code, retryable, stall))
<1>1. Thrifty(row, Swept(row))
  BY ClosedThrifty DEF Swept, Terminal, ErrorCode, WorkerError
<1>2. Thrifty(row, Completed(row))
  <2>1. /\ Closed(row, "SUCCEEDED", NoError).answers = row.answers
        /\ row.answers + 1 \in Nat
    BY DEF Closed, Row
  <2>2. CASE row.cancel_requested
    BY <2>2, ClosedThrifty DEF Completed, Terminal, ErrorCode, WorkerError
  <2>3. CASE ~row.cancel_requested
    BY <2>1, <2>3, ClosedThrifty DEF Completed, Terminal
  <2> QED
    BY <2>2, <2>3
<1>3. ASSUME NEW code \in WorkerError, NEW retryable \in BOOLEAN, NEW stall \in 0..MaxStall
      PROVE  Thrifty(row, Failed(row, code, retryable, stall))
  <2> DEFINE queued == [row EXCEPT !.status = "PENDING", !.error = code,
                                   !.retry = RetryLeft(stall), !.worker = NoWorker,
                                   !.lease = NoLease]
  <2>1. RetryLeft(stall) \in 0..RetryTicks
    BY StoreAssumption DEF RetryLeft
  <2>2. queued \in Row /\ queued.events = row.events
    BY <2>1 DEF Row, Status, ErrorCode
  <2> HIDE DEF queued
  <2>3. Thrifty(row, Logged(queued, "RUN_RETRY_SCHEDULED"))
    BY <2>2, LoggedThrifty
  <2>4. CASE row.cancel_requested
    BY <2>4, ClosedThrifty DEF Failed, Terminal, ErrorCode, WorkerError
  <2>5. CASE ~row.cancel_requested /\ retryable /\ row.attempt < MaxAttempts
    BY <2>3, <2>5 DEF Failed, queued
  <2>6. CASE ~row.cancel_requested /\ ~(retryable /\ row.attempt < MaxAttempts)
    BY <2>6, ClosedThrifty DEF Failed, Terminal, ErrorCode
  <2> QED
    BY <2>4, <2>5, <2>6
<1> QED
  BY <1>1, <1>2, <1>3

LEMMA OthersThrifty ==
  ASSUME NEW row \in Row
  PROVE  /\ Thrifty(row, CancelAsked(row))
         /\ Thrifty(row, Aged(row))
         /\ \A lease : Thrifty(row, [row EXCEPT !.lease = lease])
         /\ \A w \in Worker, stall \in 0..MaxStall : Thrifty(row, ClaimedBy(row, w, stall))
<1>1. Thrifty(row, CancelAsked(row))
  <2> DEFINE marked == [row EXCEPT !.cancel_requested = TRUE]
             ended == [row EXCEPT !.cancel_requested = TRUE, !.status = "CANCELLED",
                                  !.error = "RUN_CANCELLED", !.finished = TRUE]
  <2>1. /\ marked \in Row /\ ended \in Row
        /\ marked.events = row.events /\ ended.events = row.events
    BY DEF Row, Status, Terminal, ErrorCode, WorkerError
  <2> HIDE DEF marked, ended
  <2>2. /\ Thrifty(row, Logged(marked, "CANCELLATION_REQUESTED"))
        /\ Thrifty(row, Logged(ended, "RUN_CANCELLED"))
    BY <2>1, LoggedThrifty
  <2> QED
    BY <2>2 DEF CancelAsked, marked, ended
<1>2. Thrifty(row, Aged(row))
  <2>1. Aged(row).events = row.events
    BY DEF Aged, Row
  <2> QED
    BY <2>1 DEF Thrifty
<1>3. ASSUME NEW lease PROVE Thrifty(row, [row EXCEPT !.lease = lease])
  <2>1. [row EXCEPT !.lease = lease].events = row.events
    BY DEF Row
  <2> QED
    BY <2>1 DEF Thrifty
<1>4. ASSUME NEW w \in Worker, NEW stall \in 0..MaxStall
      PROVE  Thrifty(row, ClaimedBy(row, w, stall))
  <2> DEFINE event == [type |-> StartOf(row), attempt |-> row.attempt + 1]
  <2>1. ClaimedBy(row, w, stall).events = Append(row.events, event)
    BY DEF ClaimedBy, Logged, Row
  <2>2. event.type # "TOOL_STARTED"
    BY DEF StartOf
  <2> QED
    BY <2>1, <2>2 DEF Thrifty
<1> QED
  BY <1>1, <1>2, <1>3, <1>4

ThriftyStore == \A r \in Run : Thrifty(run[r], run'[r])

LEMMA OneThrifty ==
  ASSUME StoreInv, NEW r \in Run, NEW new, run' = [run EXCEPT ![r] = new],
         Thrifty(run[r], new)
  PROVE  ThriftyStore
<1>1. \A q \in Run : run'[q] = IF q = r THEN new ELSE run[q]
  BY DEF StoreInv
<1> QED
  BY <1>1 DEF ThriftyStore, Thrifty

LEMMA RestThrifty == UNCHANGED storeVars => ThriftyStore
BY DEF storeVars, ThriftyStore, Thrifty

LEMMA ClientThrifty == StoreInv /\ ClientNext => ThriftyStore
<1> SUFFICES ASSUME StoreInv, ClientNext PROVE ThriftyStore
  OBVIOUS
<1>1. \A r \in Run : run[r] \in Row
  BY DEF StoreInv
<1>2. ASSUME NEW s \in Session, NEW r \in Run, Enqueue(s, r) PROVE ThriftyStore
  <2>1. PICK previous : run' = [run EXCEPT ![r] = NewRun(s, previous)]
    BY <1>2 DEF Enqueue
  <2>2. run[r].events = <<>>
    BY <1>2 DEF Enqueue, StoreInv, RowInv, RowLogged
  <2>3. Thrifty(run[r], NewRun(s, previous))
    <3> DEFINE event == [type |-> "RUN_QUEUED", attempt |-> 0]
    <3>1. NewRun(s, previous).events = Append(<<>>, event)
      BY DEF NewRun, Logged, NoRow
    <3>2. event.type # "TOOL_STARTED"
      OBVIOUS
    <3> QED
      BY <2>2, <3>1, <3>2 DEF Thrifty
  <2> QED
    BY <2>1, <2>3, OneThrifty
<1>3. ASSUME NEW s \in Session, DeleteSession(s) PROVE ThriftyStore
  <2>1. \A r \in Run : run'[r] = NoRow("DELETED") \/ run'[r] = run[r]
    BY <1>3 DEF DeleteSession
  <2>2. NoRow("DELETED").events = <<>>
    BY DEF NoRow
  <2> QED
    BY <2>1, <2>2 DEF ThriftyStore, Thrifty
<1>4. ASSUME NEW r \in Run, RequestCancellation(r) PROVE ThriftyStore
  BY <1>1, <1>4, OthersThrifty, OneThrifty DEF RequestCancellation
<1> QED
  BY <1>2, <1>3, <1>4 DEF ClientNext

LEMMA ClaimThrifty ==
  ASSUME StoreInv, NEW w \in Worker, NEW locked, NEW pick, Claim(w, locked, pick)
  PROVE  ThriftyStore
<1>1. PICK swept \in SUBSET {r \in Run \ locked : Sweepable(run[r])}, stall \in 0..MaxStall :
        run' = [r \in Run |-> CASE r \in swept -> Swept(run[r])
                                [] r = pick    -> ClaimedBy(run[r], w, stall)
                                [] OTHER       -> run[r]]
  BY DEF Claim
<1>2. \A r \in Run : \/ run'[r] = Swept(run[r])
                     \/ run'[r] = ClaimedBy(run[r], w, stall)
                     \/ run'[r] = run[r]
  BY <1>1
<1>3. \A r \in Run : run[r] \in Row /\ Thrifty(run[r], run[r])
  BY DEF StoreInv, Thrifty
<1> QED
  BY <1>2, <1>3, EndingsThrifty, OthersThrifty DEF ThriftyStore

LEMMA RenewThrifty ==
  ASSUME StoreInv, NEW r \in Run, NEW w, NEW stall, Renew(r, w, stall)
  PROVE  ThriftyStore
<1>1. run' = [run EXCEPT ![r] = [run[r] EXCEPT !.lease = LeaseTicks - stall]]
  BY DEF Renew
<1>2. run[r] \in Row
  BY DEF StoreInv
<1> QED
  BY <1>1, <1>2, OthersThrifty, OneThrifty

LEMMA RecordedThrifty ==
  ASSUME StoreInv, NEW r \in Run, NEW w, NEW type, type # "TOOL_STARTED",
         Recorded(r, w, type)
  PROVE  ThriftyStore
<1>1. run[r] \in Row
  BY DEF StoreInv
<1>2. CASE Progress(r, w, type)
  BY <1>1, <1>2, LoggedThrifty, OneThrifty DEF Progress
<1> QED
  BY <1>2, RestThrifty DEF Recorded

LEMMA ReportThrifty ==
  ASSUME StoreInv, NEW r \in Run, NEW w,
         \/ Complete(r, w)
         \/ \E code \in WorkerError, retryable \in BOOLEAN : Fail(r, w, code, retryable)
  PROVE  ThriftyStore
<1>1. run[r] \in Row
  BY DEF StoreInv
<1>2. CASE Complete(r, w)
  BY <1>1, <1>2, EndingsThrifty, OneThrifty DEF Complete
<1>3. ASSUME NEW code \in WorkerError, NEW retryable \in BOOLEAN, Fail(r, w, code, retryable)
      PROVE  ThriftyStore
  <2>1. PICK stall \in 0..MaxStall :
          run' = [run EXCEPT ![r] = Failed(run[r], code, retryable, stall)]
    BY <1>3 DEF Fail
  <2> QED
    BY <1>1, <2>1, EndingsThrifty, OneThrifty
<1> QED
  BY <1>2, <1>3

LEMMA TickThrifty == StoreInv /\ Tick => ThriftyStore
<1> SUFFICES ASSUME StoreInv, Tick PROVE ThriftyStore
  OBVIOUS
<1>1. \A r \in Run : run'[r] = Aged(run[r]) /\ run[r] \in Row
  BY DEF Tick, StoreInv
<1> QED
  BY <1>1, OthersThrifty DEF ThriftyStore

-----------------------------------------------------------------------------
(* Tool calls: the counts of the processes *)

\* Where the count of the callback is in use.
Counting == {"loading"} \cup Guarded

\* The calls a process has counted and may have got into the log.
Due(p) == IF p.pc = "starting" /\ p.after = "TOOL" THEN 1 ELSE 0
Paid(p) == p.tool - Due(p)

\* The process goes on counting where it was, and forgets no call.
Continues(p, q) ==
  q.pc \in Counting =>
    /\ p.pc \in Counting
    /\ q.job = p.job /\ q.attempt = p.attempt
    /\ Paid(p) <= Paid(q)

\* A step of process w without a call.
FreeStep(w) == ThriftyStore /\ \E q : Continues(worker[w], q) /\ Becomes(w, q)

\* A step of process w that calls a Tool, and says so in the log.
CallStep(w) ==
  /\ At(w, "starting") /\ worker[w].after = "TOOL"
  /\ MayWrite(w)
  /\ run' = [run EXCEPT ![Job(w)] = Logged(JobRow(w), "TOOL_STARTED")]
  /\ Becomes(w, Begun(w))

LEMMA LeavingContinues ==
  ASSUME NEW w, NEW p, NEW pc \in {"failing", "completing", "extracting"}, NEW verdict
  PROVE  Continues(p, Leaves(w, pc, verdict)) /\ Continues(p, Idle)
<1>1. Leaves(w, pc, verdict).pc = pc /\ Idle.pc = "idle"
  BY DEF Leaves, Idle
<1> QED
  BY <1>1 DEF Continues, Counting, Guarded

LEMMA FailingContinues ==
  ASSUME NEW w, NEW p, NEW verdict
  PROVE  Continues(p, Failing(w, verdict)) /\ Continues(p, Idle)
BY LeavingContinues DEF Failing

LEMMA PaidInRange ==
  ASSUME NEW p \in Process
  PROVE  Paid(p) \in Int /\ Paid(p) <= p.tool /\ p.tool \in 0..MaxToolCalls
BY PoolAssumption DEF Paid, Due, Process

\* Every update of the record but those that begin a call.
Recast(p, q) ==
  /\ q.job = p.job /\ q.attempt = p.attempt /\ q.tool = p.tool
  /\ q.pc = "starting" => q.after # "TOOL"

LEMMA RecastContinues ==
  ASSUME NEW p \in Process, NEW q, p.pc \in Counting, Recast(p, q)
  PROVE  Continues(p, q)
<1>1. Paid(q) = p.tool
  BY PoolAssumption DEF Recast, Paid, Due, Process
<1> QED
  BY <1>1, PaidInRange DEF Recast, Continues

LEMMA UpdatesContinue ==
  ASSUME NEW p \in Process, p.pc \in Counting
  PROVE  /\ \A pc : pc # "starting" => Continues(p, [p EXCEPT !.pc = pc])
         /\ \A pc, after : pc # "starting" => Continues(p, [p EXCEPT !.pc = pc, !.after = after])
         /\ \A pc, thinking, late :
              pc # "starting" => Continues(p, [p EXCEPT !.pc = pc, !.after = "none",
                                                        !.thinking = thinking, !.late = late])
         /\ Continues(p, [p EXCEPT !.lost = TRUE])
<1>1. /\ \A pc : pc # "starting" => Recast(p, [p EXCEPT !.pc = pc])
      /\ \A pc, after : pc # "starting" => Recast(p, [p EXCEPT !.pc = pc, !.after = after])
      /\ \A pc, thinking, late :
           pc # "starting" => Recast(p, [p EXCEPT !.pc = pc, !.after = "none",
                                                  !.thinking = thinking, !.late = late])
  BY DEF Process, Recast
<1>2. Continues(p, [p EXCEPT !.lost = TRUE])
  <2> DEFINE q == [p EXCEPT !.lost = TRUE]
  <2>1. /\ q.pc = p.pc /\ q.after = p.after /\ q.job = p.job
        /\ q.attempt = p.attempt /\ q.tool = p.tool
    BY DEF Process
  <2> HIDE DEF q
  <2>2. Paid(q) = Paid(p)
    BY <2>1 DEF Paid, Due
  <2>3. Continues(p, q)
    BY <2>1, <2>2, PaidInRange DEF Continues
  <2> QED
    BY <2>3 DEF q
<1> QED
  BY <1>1, <1>2, RecastContinues

\* A Tool call is counted before it is begun.
LEMMA ReservedContinues ==
  ASSUME NEW p \in Process, p.pc = "holding", p.after \in {"LLM", "TOOL"}
  PROVE  Continues(p, Reserved(p))
<1> DEFINE over == [p EXCEPT !.pc = "overLimit"]
           llm(n) == [p EXCEPT !.pc = "starting", !.llm = n]
           tool(n) == [p EXCEPT !.pc = "starting", !.tool = n]
<1>1. p.pc \in Counting
  BY DEF Counting, Guarded
<1>2. Continues(p, over)
  BY <1>1, UpdatesContinue
<1>3. p.tool \in Nat /\ Paid(p) = p.tool
  BY PoolAssumption DEF Paid, Due, Process
<1>4. CASE p.after = "LLM"
  <2>1. \A n : Recast(p, llm(n))
    BY <1>4 DEF Process, Recast
  <2>2. \A n : Continues(p, llm(n))
    BY <1>1, <2>1, RecastContinues
  <2> QED
    BY <1>2, <1>4, <2>2 DEF Reserved
<1>5. CASE p.after = "TOOL"
  <2> DEFINE q == tool(p.tool + 1)
  <2>1. /\ q.job = p.job /\ q.attempt = p.attempt /\ q.tool = p.tool + 1
        /\ q.pc = "starting" /\ q.after = "TOOL"
    BY <1>5 DEF Process
  <2> HIDE DEF q
  <2>2. Paid(q) = p.tool
    BY <1>3, <2>1 DEF Paid, Due
  <2>3. Continues(p, q)
    BY <1>1, <1>3, <2>1, <2>2 DEF Continues
  <2> QED
    BY <1>2, <1>5, <2>3 DEF Reserved, q
<1> QED
  BY <1>4, <1>5

-----------------------------------------------------------------------------
(* Tool calls: the steps *)

LEMMA AloneFree ==
  ASSUME NEW w \in Worker, NEW q, Continues(worker[w], q), Becomes(w, q),
         UNCHANGED storeVars
  PROVE  FreeStep(w)
BY RestThrifty DEF FreeStep

LEMMA WritesFree ==
  ASSUME PoolInv, NEW w \in Worker, worker[w].pc \notin {"idle", "down"},
         NEW type, type # "TOOL_STARTED",
         NEW written, Continues(worker[w], written), Writes(w, type, written)
  PROVE  FreeStep(w)
<1>1. StoreInv /\ Job(w) \in Run
  BY Working DEF PoolInv
<1>2. /\ Continues(worker[w], Idle)
      /\ Continues(worker[w], Failing(w, "RETRYABLE"))
  BY FailingContinues
<1>3. CASE Recorded(Job(w), w, type) /\ Becomes(w, written)
  BY <1>1, <1>3, RecordedThrifty DEF FreeStep
<1>4. CASE Becomes(w, Idle) /\ UNCHANGED storeVars
  BY <1>2, <1>4, AloneFree
<1>5. CASE Becomes(w, Failing(w, "RETRYABLE")) /\ UNCHANGED storeVars
  BY <1>2, <1>5, AloneFree
<1> QED
  BY <1>3, <1>4, <1>5 DEF Writes

\* Claimed, prepared, or between two calls: no call begins.
LEMMA BetweenCalls ==
  ASSUME PoolInv, NEW w \in Worker,
         \/ Load(w) \/ Prepare(w) \/ AskCancelled(w)
         \/ \E kind \in {"LLM", "TOOL"} : NextCall(w, kind)
         \/ AgentRaises(w) \/ AgentReturns(w)
  PROVE  FreeStep(w)
<1> DEFINE p == worker[w]
<1>1. /\ p.pc \in {"loading", "preparing", "asking", "running"}
      /\ p.pc \notin {"idle", "down"} /\ p.pc \in Counting
  BY DEF Load, Prepare, AskCancelled, NextCall, AgentRaises, AgentReturns, At,
         Counting, Guarded
<1>2. p \in Process
  BY <1>1, Working
<1>3. /\ Continues(p, Idle)
      /\ \A verdict : Continues(p, Failing(w, verdict))
      /\ \A verdict : Continues(p, Leaves(w, "completing", verdict))
  BY FailingContinues, LeavingContinues
<1>4. \A pc : pc # "starting" => Continues(p, [p EXCEPT !.pc = pc])
  BY <1>1, <1>2, UpdatesContinue
<1>5. CASE Load(w)
  BY <1>3, <1>4, <1>5, AloneFree DEF Load, GoesTo
<1>6. CASE Prepare(w)
  BY <1>1, <1>3, <1>4, <1>6, AloneFree, WritesFree DEF Prepare
<1>7. CASE AskCancelled(w)
  BY <1>3, <1>4, <1>7, AloneFree DEF AskCancelled, GoesTo
<1>8. ASSUME NEW kind \in {"LLM", "TOOL"}, NextCall(w, kind) PROVE FreeStep(w)
  <2>1. Continues(p, [p EXCEPT !.pc = "asking", !.after = kind])
    BY <1>1, <1>2, UpdatesContinue
  <2> QED
    BY <1>8, <2>1, AloneFree DEF NextCall
<1>9. CASE AgentRaises(w) \/ AgentReturns(w)
  BY <1>3, <1>9, AloneFree DEF AgentRaises, AgentReturns
<1> QED
  BY <1>5, <1>6, <1>7, <1>8, <1>9

LEMMA CheckFree ==
  ASSUME PoolInv, NEW w \in Worker, CheckLease(w)
  PROVE  FreeStep(w)
<1> DEFINE p == worker[w]
<1>1. p.pc = "holding" /\ p.pc \in Counting /\ UNCHANGED storeVars
  BY DEF CheckLease, At, Counting, Guarded
<1>2. p \in Process
  BY <1>1, Working
<1>3. Continues(p, Idle) /\ Continues(p, Failing(w, p.after))
  BY FailingContinues
<1>4. Continues(p, [p EXCEPT !.pc = "running", !.after = "none"])
  BY <1>1, <1>2, UpdatesContinue
<1>5. p.after \in {"LLM", "TOOL"} => Continues(p, Reserved(p))
  BY <1>1, <1>2, ReservedContinues
<1>6. \/ Becomes(w, Idle)
      \/ p.after \in {"LLM", "TOOL"} /\ Becomes(w, Reserved(p))
      \/ Becomes(w, [p EXCEPT !.pc = "running", !.after = "none"])
      \/ Becomes(w, Failing(w, p.after))
  <2>1. CASE ~OwnsJob(w)
    BY <2>1 DEF CheckLease
  <2>2. CASE OwnsJob(w) /\ p.after \in {"LLM", "TOOL"}
    BY <2>2 DEF CheckLease
  <2>3. CASE OwnsJob(w) /\ p.after = "OK"
    BY <2>3 DEF CheckLease
  <2>4. CASE OwnsJob(w) /\ p.after \notin {"LLM", "TOOL", "OK"}
    BY <2>4 DEF CheckLease
  <2> QED
    BY <2>1, <2>2, <2>3, <2>4
<1> QED
  BY <1>1, <1>3, <1>4, <1>5, <1>6, AloneFree

LEMMA BegunContinues ==
  ASSUME PoolInv, NEW w \in Worker, worker[w].pc = "starting"
  PROVE  /\ worker[w] \in Process
         /\ Continues(worker[w], Begun(w))
         /\ Begun(w).job = Job(w) /\ Begun(w).attempt = worker[w].attempt
         /\ Paid(Begun(w)) = worker[w].tool
<1> DEFINE p == worker[w]
           pc == IF p.after = "TOOL" THEN "calling" ELSE "running"
           thinking == p.thinking \/ p.after = "LLM"
           late == IF JobRow(w).cancel_requested \/ ~Present(JobRow(w))
                   THEN p.late + 1 ELSE p.late
           q == [p EXCEPT !.pc = pc, !.after = "none", !.thinking = thinking, !.late = late]
<1>1. p \in Process /\ p.pc \in Counting
  BY Working DEF Counting, Guarded
<1>2. Begun(w) = q
  BY DEF Begun
<1>3. pc # "starting"
  OBVIOUS
<1> HIDE DEF pc, thinking, late
<1>4. Continues(p, q)
  BY <1>1, <1>3, UpdatesContinue
<1>5. /\ q.job = p.job /\ q.attempt = p.attempt /\ q.tool = p.tool /\ q.pc = pc
  BY <1>1 DEF Process
<1> HIDE DEF q
<1>6. Paid(q) = p.tool
  BY <1>1, <1>3, <1>5, PoolAssumption DEF Paid, Due, Process
<1> QED
  BY <1>1, <1>2, <1>4, <1>5, <1>6 DEF Job

LEMMA StartFreeOrCall ==
  ASSUME PoolInv, NEW w \in Worker, StartCall(w)
  PROVE  FreeStep(w) \/ CallStep(w)
<1>1. /\ worker[w].pc = "starting" /\ StoreInv /\ Job(w) \in Run
      /\ Continues(worker[w], Begun(w))
  BY BegunContinues, Working DEF StartCall, At, PoolInv
<1>2. /\ Continues(worker[w], Idle)
      /\ Continues(worker[w], Failing(w, "RETRYABLE"))
  BY FailingContinues
<1>3. CASE worker[w].after = "TOOL"
  <2>1. Writes(w, "TOOL_STARTED", Begun(w))
    BY <1>3 DEF StartCall
  <2>2. CASE Recorded(Job(w), w, "TOOL_STARTED") /\ Becomes(w, Begun(w))
    <3>1. CASE Progress(Job(w), w, "TOOL_STARTED")
      BY <1>1, <1>3, <2>2, <3>1 DEF Progress, CallStep, MayWrite, At, JobRow
    <3>2. CASE UNCHANGED storeVars
      BY <1>1, <2>2, <3>2, AloneFree
    <3> QED
      BY <2>2, <3>1, <3>2 DEF Recorded
  <2>3. CASE Becomes(w, Idle) /\ UNCHANGED storeVars
    BY <1>2, <2>3, AloneFree
  <2>4. CASE Becomes(w, Failing(w, "RETRYABLE")) /\ UNCHANGED storeVars
    BY <1>2, <2>4, AloneFree
  <2> QED
    BY <2>1, <2>2, <2>3, <2>4 DEF Writes
<1>4. CASE worker[w].after # "TOOL"
  <2>1. \/ Writes(w, "AGENT_THINKING", Begun(w))
        \/ Becomes(w, Begun(w)) /\ UNCHANGED storeVars
    BY <1>4 DEF StartCall
  <2> QED
    BY <1>1, <2>1, WritesFree, AloneFree
<1> QED
  BY <1>3, <1>4

LEMMA EndsFree ==
  ASSUME PoolInv, NEW w \in Worker,
         \/ ReachLimit(w) \/ ToolRaises(w) \/ Finish(w) \/ Extract(w) \/ Report(w)
         \/ \E verdict \in Verdict : EndTool(w, verdict)
  PROVE  FreeStep(w)
<1> DEFINE p == worker[w]
<1>1. /\ p.pc \in {"overLimit", "calling", "completing", "extracting", "failing"}
      /\ p.pc \notin {"idle", "down"}
  BY DEF ReachLimit, ToolRaises, Finish, Extract, Report, EndTool, At
<1>2. p \in Process /\ StoreInv /\ Job(w) \in Run
  BY <1>1, Working DEF PoolInv
<1>3. /\ Continues(p, Idle)
      /\ \A verdict : Continues(p, Failing(w, verdict))
  BY FailingContinues
<1>4. CASE ReachLimit(w)
  BY <1>1, <1>3, <1>4, WritesFree DEF ReachLimit
<1>5. ASSUME p.pc = "calling"
      PROVE  /\ Continues(p, [p EXCEPT !.pc = "running"])
             /\ \A verdict : Continues(p, [p EXCEPT !.pc = "asking", !.after = verdict])
  <2>1. p.pc \in Counting
    BY <1>5 DEF Counting, Guarded
  <2> QED
    BY <1>2, <2>1, UpdatesContinue
<1>6. CASE ToolRaises(w)
  BY <1>1, <1>3, <1>5, <1>6, WritesFree DEF ToolRaises, At
<1>7. ASSUME NEW verdict \in Verdict, EndTool(w, verdict) PROVE FreeStep(w)
  <2>1. \E type : type # "TOOL_STARTED" /\
          Writes(w, type, [p EXCEPT !.pc = "asking", !.after = verdict])
    BY <1>7 DEF EndTool
  <2> QED
    BY <1>1, <1>5, <1>7, <2>1, WritesFree DEF EndTool, At
<1>8. CASE Finish(w)
  <2>1. p.pc \notin Counting /\ [p EXCEPT !.pc = "extracting"].pc = "extracting"
    BY <1>2, <1>8 DEF Finish, At, Counting, Guarded, Process
  <2>2. Continues(p, [p EXCEPT !.pc = "extracting"])
    BY <2>1 DEF Continues, Counting, Guarded
  <2>3. ThriftyStore
    BY <1>2, <1>8, ReportThrifty, RestThrifty DEF Finish
  <2> QED
    BY <1>3, <1>8, <2>2, <2>3 DEF Finish, GoesTo, FreeStep
<1>9. CASE Extract(w)
  BY <1>3, <1>9, AloneFree DEF Extract
<1>10. CASE Report(w)
  <2>1. /\ CodeOf(p.after) \in WorkerError /\ (p.after = "RETRYABLE") \in BOOLEAN
    BY DEF CodeOf, WorkerError
  <2>2. ThriftyStore
    BY <1>2, <1>10, <2>1, ReportThrifty, RestThrifty DEF Report
  <2> QED
    BY <1>3, <1>10, <2>2 DEF Report, FreeStep
<1> QED
  BY <1>4, <1>6, <1>7, <1>8, <1>9, <1>10

LEMMA ExecuteFreeOrCall ==
  ASSUME PoolInv, NEW w \in Worker, Execute(w)
  PROVE  FreeStep(w) \/ CallStep(w)
BY BetweenCalls, CheckFree, StartFreeOrCall, EndsFree DEF Execute, Call

LEMMA HeartbeatFree ==
  ASSUME PoolInv, NEW w \in Worker, Heartbeat(w)
  PROVE  ThriftyStore /\ (worker' = worker \/ FreeStep(w))
<1>1. StoreInv /\ renewal \in [Worker -> Renewal \cup {NoRenewal}]
  BY DEF PoolInv
<1>2. CASE SendRenewal(w) \/ DropRenewal(w)
  BY <1>2, RestThrifty DEF SendRenewal, DropRenewal
<1>3. CASE LandRenewal(w)
  <2>1. renewal[w].run \in Run
    BY <1>1, <1>3 DEF LandRenewal, Renewal
  <2>2. ThriftyStore
    BY <1>1, <1>3, <2>1, RenewThrifty, RestThrifty DEF LandRenewal
  <2>3. CASE Attended(w) /\ Becomes(w, [worker[w] EXCEPT !.lost = TRUE])
    <3>1. /\ worker[w].pc \in Counting /\ worker[w].pc \notin {"idle", "down"}
      BY <2>3 DEF Attended, Counting, Guarded
    <3>2. Continues(worker[w], [worker[w] EXCEPT !.lost = TRUE])
      BY <3>1, Working, UpdatesContinue
    <3> QED
      BY <2>2, <2>3, <3>2 DEF FreeStep
  <2>4. worker' = worker \/ (Attended(w) /\ Becomes(w, [worker[w] EXCEPT !.lost = TRUE]))
    BY <1>3 DEF LandRenewal
  <2> QED
    BY <2>2, <2>3, <2>4
<1> QED
  BY <1>2, <1>3 DEF Heartbeat

-----------------------------------------------------------------------------
(* Tool calls: the inductive invariant *)

\* No attempt is over its limit, and one that has not begun has no calls.
RowBudget(row) ==
  \A k \in Nat :
    /\ Calls(row, k) <= MaxToolCalls
    /\ k > row.attempt => Calls(row, k) = 0

\* The calls of the attempt are among those its owner has counted.
Spent(p, rows, w) ==
  p.pc \in Counting /\ rows[p.job].worker = w => Calls(rows[p.job], p.attempt) <= Paid(p)

BudgetInv ==
  /\ \A r \in Run : RowBudget(run[r])
  /\ \A w \in Worker : Spent(worker[w], run, w)

LEMMA RowBudgetKept ==
  ASSUME NEW old, NEW new, RowInv(old), RowInv(new), RowNext(old, new),
         RowBudget(old), Thrifty(old, new)
  PROVE  RowBudget(new)
<1> SUFFICES ASSUME NEW k \in Nat
             PROVE  /\ Calls(new, k) <= MaxToolCalls
                    /\ k > new.attempt => Calls(new, k) = 0
  BY DEF RowBudget
<1>1. old \in Row /\ new \in Row
  BY DEF RowInv
<1>2. Calls(old, k) \in Nat /\ Calls(new, k) \in Nat /\ MaxToolCalls \in Nat
  BY <1>1, CallsCountable, PoolAssumption
<1>3. Calls(new, k) <= Calls(old, k)
  BY <1>1, ThriftyCalls
<1>4. Calls(old, k) <= MaxToolCalls /\ (k > old.attempt => Calls(old, k) = 0)
  BY DEF RowBudget
<1>5. \/ new.events = <<>>
      \/ new.attempt = old.attempt \/ new.attempt = old.attempt + 1
  BY LogOfStep DEF LogNext
<1>6. old.attempt \in Nat /\ new.attempt \in Nat
  BY <1>1, StoreAssumption DEF Row
<1>7. new.events = <<>> => Calls(new, k) = 0
  BY NoCalls
<1> QED
  BY <1>2, <1>3, <1>4, <1>5, <1>6, <1>7

\* A process that keeps its count fits the new rows.
LEMMA SpentStays ==
  ASSUME StoreInv, StoreInv', ThriftyStore, NEW w \in Worker, NEW p,
         p.job \in Run, Spent(p, run, w), Paid(p) \in Int,
         \A r \in Run : OwnerStays(run[r], run'[r], w)
  PROVE  Spent(p, run', w)
<1> DEFINE old == run[p.job]
           new == run'[p.job]
           k == p.attempt
<1>1. old \in Row /\ new \in Row /\ Thrifty(old, new) /\ OwnerStays(old, new, w)
  BY DEF StoreInv, ThriftyStore
<1>2. /\ Calls(old, k) \in Nat /\ Calls(new, k) \in Nat
      /\ Calls(new, k) <= Calls(old, k)
  BY <1>1, CallsCountable, ThriftyCalls
<1>3. new.worker = w => old.worker = w
  BY <1>1 DEF OwnerStays
<1>4. p.pc \in Counting /\ old.worker = w => Calls(old, k) <= Paid(p)
  BY DEF Spent
<1> HIDE DEF old, new, k
<1>5. p.pc \in Counting /\ new.worker = w => Calls(new, k) <= Paid(p)
  BY <1>2, <1>3, <1>4
<1> QED
  BY <1>5 DEF Spent, new, k

LEMMA SpentContinues ==
  ASSUME NEW rows \in [Run -> Row], NEW w, NEW p \in Process, NEW q \in Process,
         q.pc \in Counting => q.job \in Run,
         Spent(p, rows, w), Continues(p, q)
  PROVE  Spent(q, rows, w)
<1> SUFFICES ASSUME q.pc \in Counting, rows[q.job].worker = w
             PROVE  Calls(rows[q.job], q.attempt) <= Paid(q)
  BY DEF Spent
<1>1. /\ p.pc \in Counting /\ q.job = p.job /\ q.attempt = p.attempt
      /\ Paid(p) <= Paid(q)
  BY DEF Continues
<1>2. Calls(rows[p.job], p.attempt) <= Paid(p)
  BY <1>1 DEF Spent
<1>3. /\ Paid(p) \in Int /\ Paid(q) \in Int
      /\ Calls(rows[q.job], q.attempt) \in Nat
  BY PaidInRange, CallsCountable
<1> QED
  BY <1>1, <1>2, <1>3

\* What the invariants say of one process, now and after the step.
LEMMA ProcessFacts ==
  ASSUME PoolInv, PoolInv', NEW w \in Worker
  PROVE  /\ worker[w] \in Process /\ worker'[w] \in Process
         /\ worker[w].pc \in Counting => Job(w) \in Run
         /\ worker'[w].pc \in Counting => worker'[w].job \in Run
         /\ StoreInv /\ StoreInv'
<1>1. \A p, rows : Fits(p, rows, w) => p \in Process /\ (p.pc \in Counting => p.job \in Run)
  BY DEF Fits, Process, Counting, Guarded
<1>2. Fits(worker[w], run, w) /\ Fits(worker'[w], run', w)
  BY DEF PoolInv
<1> QED
  BY <1>1, <1>2 DEF PoolInv, Job

LEMMA RowsKept ==
  ASSUME StoreInv, StoreInv', [StoreNext]_storeVars, ThriftyStore, NEW r \in Run,
         RowBudget(run[r])
  PROVE  RowBudget(run'[r])
<1>1. RowNext(run[r], run'[r])
  BY EveryStep DEF StepShape
<1> QED
  BY <1>1, RowBudgetKept DEF StoreInv, ThriftyStore

LEMMA BudgetFree ==
  ASSUME PoolInv, PoolInv', BudgetInv, QuietStore, ThriftyStore,
         worker' = worker \/ \E w \in Worker : FreeStep(w)
  PROVE  BudgetInv'
<1>1. \A r \in Run : RowBudget(run'[r])
  BY RowsKept DEF PoolInv, BudgetInv, QuietStore
<1>2. ASSUME NEW v \in Worker PROVE Spent(worker'[v], run', v)
  <2>1. /\ worker[v] \in Process /\ worker'[v] \in Process
        /\ worker'[v].pc \in Counting => worker'[v].job \in Run
        /\ StoreInv /\ StoreInv' /\ run \in [Run -> Row]
    BY ProcessFacts DEF StoreInv
  <2>2. Spent(worker[v], run, v)
    BY DEF BudgetInv
  <2>3. worker'[v] = worker[v] \/ Continues(worker[v], worker'[v])
    <3>1. ASSUME NEW w \in Worker, NEW q, Continues(worker[w], q), Becomes(w, q)
          PROVE  worker'[v] = worker[v] \/ Continues(worker[v], worker'[v])
      BY <3>1 DEF Becomes, PoolInv
    <3> QED
      BY <3>1 DEF FreeStep
  <2>4. Spent(worker'[v], run, v)
    BY <2>1, <2>2, <2>3, SpentContinues
  <2>5. CASE worker'[v].pc \in Counting
    <3>1. Paid(worker'[v]) \in Int /\ worker'[v].job \in Run
      BY <2>1, <2>5, PaidInRange
    <3>2. \A r \in Run : OwnerStays(run[r], run'[r], v)
      BY DEF QuietStore, OwnersStay
    <3> QED
      BY <2>1, <2>4, <3>1, <3>2, SpentStays
  <2>6. CASE worker'[v].pc \notin Counting
    BY <2>6 DEF Spent
  <2> QED
    BY <2>5, <2>6
<1> QED
  BY <1>1, <1>2 DEF BudgetInv

\* The owner of the Run logs a call it has counted.
LEMMA BudgetCall ==
  ASSUME PoolInv, PoolInv', BudgetInv, NEW w \in Worker, CallStep(w)
  PROVE  BudgetInv'
<1> DEFINE p == worker[w]
           q == Begun(w)
           old == JobRow(w)
           new == Logged(old, "TOOL_STARTED")
           n == old.attempt
<1>1. /\ p.pc = "starting" /\ p.after = "TOOL" /\ p.pc \in Counting
      /\ run' = [run EXCEPT ![Job(w)] = new] /\ Becomes(w, q)
      /\ old.worker = w
  BY DEF CallStep, At, MayWrite, Owns, Counting, Guarded
<1>2. /\ p \in Process /\ Job(w) \in Run /\ old \in Row /\ OnJob(p, old, w)
      /\ StoreInv
  BY <1>1, Working DEF PoolInv
<1>3. n = p.attempt /\ n \in Nat
  BY <1>1, <1>2, StoreAssumption DEF OnJob, Owned, Row
<1>4. /\ \A r \in Run : run'[r] = IF r = Job(w) THEN new ELSE run[r]
      /\ \A v \in Worker : worker'[v] = IF v = w THEN q ELSE worker[v]
  BY <1>1, <1>2 DEF StoreInv, Becomes, PoolInv
<1>5. /\ new.worker = w /\ new.attempt = n
      /\ new.events = Append(old.events, [type |-> "TOOL_STARTED", attempt |-> n])
  BY <1>1, <1>2 DEF Logged, Row
<1>6. new \in Row
  BY <1>2, <1>4 DEF PoolInv, StoreInv
<1>7. /\ q.job = Job(w) /\ q.attempt = n /\ Paid(q) = p.tool /\ Paid(p) = p.tool - 1
      /\ p.tool \in 0..MaxToolCalls
  BY <1>1, <1>2, <1>3, BegunContinues, PaidInRange DEF Paid, Due
<1>8. Calls(old, n) <= p.tool - 1
  BY <1>1, <1>3, <1>7 DEF BudgetInv, Spent, JobRow, Job
<1>9. /\ Calls(old, n) \in Nat /\ Calls(new, n) \in Nat
      /\ Calls(new, n) <= Calls(old, n) + 1
      /\ \A k \in Nat \ {n} : Calls(new, k) = Calls(old, k)
  <2>1. \A k \in Nat \ {n} : [type |-> "TOOL_STARTED", attempt |-> n]
                           # [type |-> "TOOL_STARTED", attempt |-> k]
    OBVIOUS
  <2> HIDE DEF new, old, n
  <2> QED
    BY <1>2, <1>5, <1>6, <2>1, CallsCountable, CallsAppended
<1>10. MaxToolCalls \in Nat
  BY PoolAssumption
<1>11. RowBudget(old)
  BY <1>2 DEF BudgetInv, JobRow
<1> HIDE DEF new, old, n, p, q
<1>12. Calls(new, n) <= p.tool
  BY <1>7, <1>8, <1>9, <1>10
<1>13. RowBudget(new)
  <2> SUFFICES ASSUME NEW k \in Nat
               PROVE  /\ Calls(new, k) <= MaxToolCalls
                      /\ k > new.attempt => Calls(new, k) = 0
    BY DEF RowBudget
  <2>1. CASE k = n
    <3>1. ~(k > new.attempt)
      BY <1>3, <1>5, <2>1
    <3> QED
      BY <1>7, <1>9, <1>10, <1>12, <2>1, <3>1
  <2>2. CASE k # n
    BY <1>5, <1>9, <1>11, <2>2 DEF RowBudget, n
  <2> QED
    BY <2>1, <2>2
<1>14. \A r \in Run : RowBudget(run'[r])
  BY <1>4, <1>13 DEF BudgetInv
<1>15. ASSUME NEW v \in Worker PROVE Spent(worker'[v], run', v)
  <2>1. CASE v = w
    <3>1. Calls(new, q.attempt) <= Paid(q)
      BY <1>7, <1>12
    <3> QED
      BY <1>2, <1>4, <1>7, <2>1, <3>1 DEF Spent
  <2>2. CASE v # w
    <3>1. worker'[v] = worker[v] /\ Spent(worker[v], run, v)
      BY <1>4, <2>2 DEF BudgetInv
    <3>2. worker[v].pc \in Counting => worker[v].job \in Run
      BY ProcessFacts DEF Job
    <3>3. CASE worker[v].job = Job(w)
      BY <1>2, <1>4, <1>5, <2>2, <3>1, <3>3 DEF Spent
    <3>4. CASE worker[v].job # Job(w)
      BY <1>4, <3>1, <3>2, <3>4 DEF Spent
    <3> QED
      BY <3>3, <3>4
  <2> QED
    BY <2>1, <2>2
<1> QED
  BY <1>14, <1>15 DEF BudgetInv

\* An attempt begins with no call in the log, and none counted.
LEMMA BudgetPoll ==
  ASSUME PoolInv, PoolInv', BudgetInv, NEW w \in Worker, NEW locked \in SUBSET Run,
         NEW pick \in Run \cup {0}, Poll(w, locked, pick)
  PROVE  BudgetInv'
<1>1. Claim(w, locked, pick) /\ StoreInv /\ StoreInv'
  BY DEF Poll, PoolInv
<1>2. [StoreNext]_storeVars /\ ThriftyStore
  BY <1>1, ClaimThrifty DEF StoreNext, WorkerNext
<1>3. CASE pick = 0
  BY <1>1, <1>2, <1>3, ClaimOwners, BudgetFree DEF Poll, QuietStore
<1>4. CASE pick # 0
  <2> DEFINE k == run[pick].attempt + 1
             q == [Idle EXCEPT !.pc = "loading", !.job = pick, !.attempt = k]
  <2>1. pick \in Run /\ worker' = [worker EXCEPT ![w] = q]
    BY <1>4 DEF Poll, Becomes
  <2>2. \A v \in Worker : worker'[v] = IF v = w THEN q ELSE worker[v]
    BY <2>1 DEF PoolInv
  <2>3. q.pc = "loading" /\ q.job = pick /\ q.attempt = k /\ q.tool = 0
    BY DEF Idle
  <2>4. Calls(run'[pick], k) <= 0
    <3>1. run[pick] \in Row /\ Thrifty(run[pick], run'[pick]) /\ run[pick].attempt \in Nat
      BY <1>1, <1>2, <2>1, StoreAssumption DEF StoreInv, ThriftyStore, Row
    <3>2. k \in Nat /\ k > run[pick].attempt
      BY <3>1
    <3>3. Calls(run[pick], k) = 0
      BY <2>1, <3>2 DEF BudgetInv, RowBudget
    <3>4. Calls(run'[pick], k) <= Calls(run[pick], k)
      BY <3>1, ThriftyCalls
    <3> QED
      BY <3>3, <3>4
  <2> HIDE DEF q, k
  <2>5. Paid(q) = 0
    BY <2>3 DEF Paid, Due
  <2>6. ASSUME NEW v \in Worker PROVE Spent(worker'[v], run', v)
    <3>1. CASE v = w
      BY <2>2, <2>3, <2>4, <2>5, <3>1 DEF Spent
    <3>2. CASE v # w
      <4>1. /\ worker'[v] = worker[v] /\ Spent(worker[v], run, v)
            /\ worker[v] \in Process
        BY <2>2, <3>2, ProcessFacts DEF BudgetInv
      <4>2. \A r \in Run : OwnerStays(run[r], run'[r], v)
        BY <1>1, <3>2, ClaimOwners
      <4>3. CASE worker[v].pc \in Counting
        <5>1. worker[v].job \in Run /\ Paid(worker[v]) \in Int
          BY <4>1, <4>3, ProcessFacts, PaidInRange DEF Job
        <5> QED
          BY <1>1, <1>2, <4>1, <4>2, <5>1, SpentStays
      <4>4. CASE worker[v].pc \notin Counting
        BY <4>1, <4>4 DEF Spent
      <4> QED
        BY <4>3, <4>4
    <3> QED
      BY <3>1, <3>2
  <2> QED
    BY <1>1, <1>2, <2>6, RowsKept DEF BudgetInv
<1> QED
  BY <1>3, <1>4

LEMMA BudgetStep == PoolInv /\ PoolInv' /\ BudgetInv /\ [Next]_poolVars => BudgetInv'
<1> SUFFICES ASSUME PoolInv, PoolInv', BudgetInv, [Next]_poolVars PROVE BudgetInv'
  OBVIOUS
<1>1. StoreInv
  BY DEF PoolInv
<1>2. CASE ClientNext /\ UNCHANGED processVars
  BY <1>1, <1>2, ClientQuiet, ClientThrifty, BudgetFree DEF processVars
<1>3. ASSUME NEW w \in Worker, Execute(w) PROVE BudgetInv'
  <2>1. QuietStore
    BY <1>3, ExecuteQuietly DEF Quietly
  <2>2. FreeStep(w) \/ CallStep(w)
    BY <1>3, ExecuteFreeOrCall
  <2>3. FreeStep(w) => ThriftyStore
    BY DEF FreeStep
  <2> QED
    BY <2>1, <2>2, <2>3, BudgetFree, BudgetCall
<1>4. ASSUME NEW w \in Worker, Heartbeat(w) PROVE BudgetInv'
  BY <1>4, HeartbeatQuietly, HeartbeatFree, BudgetFree
<1>5. ASSUME NEW w \in Worker, Crash(w) PROVE BudgetInv'
  <2>1. [Idle EXCEPT !.pc = "down"].pc = "down"
    BY DEF Idle
  <2>2. Continues(worker[w], [Idle EXCEPT !.pc = "down"])
    BY <2>1 DEF Continues, Counting, Guarded
  <2>3. UNCHANGED storeVars /\ Becomes(w, [Idle EXCEPT !.pc = "down"])
    BY <1>5 DEF Crash
  <2>4. FreeStep(w) /\ ThriftyStore
    BY <2>2, <2>3, AloneFree, RestThrifty
  <2> QED
    BY <1>1, <2>3, <2>4, NothingHappens, BudgetFree
<1>6. CASE Clock
  BY <1>1, <1>6, ClockQuiet, TickThrifty, BudgetFree DEF Clock
<1>7. CASE UNCHANGED poolVars
  BY <1>1, <1>7, NothingHappens, RestThrifty, BudgetFree DEF poolVars, processVars
<1> QED
  BY <1>2, <1>3, <1>4, <1>5, <1>6, <1>7, BudgetPoll DEF Next

\* No attempt calls more Tools than agent_max_tool_calls, whoever else works or
\* believes to work on the Run at the same time.
THEOREM ToolCallsBounded == SafeSpec => []ToolCallsPerAttempt
<1>1. Init => BudgetInv
  <2> SUFFICES ASSUME Init PROVE BudgetInv
    OBVIOUS
  <2>1. MaxToolCalls \in Nat
    BY PoolAssumption
  <2>2. \A r \in Run : RowBudget(run[r])
    <3>1. \A r \in Run : run[r].events = <<>>
      BY DEF Init, StoreInit, NoRow
    <3>2. \A r \in Run, k \in Nat : Calls(run[r], k) = 0
      BY <3>1, NoCalls
    <3> QED
      BY <2>1, <3>2 DEF RowBudget
  <2>3. \A w \in Worker : worker[w].pc \notin Counting
    BY DEF Init, Idle, Counting, Guarded
  <2> QED
    BY <2>2, <2>3 DEF BudgetInv, Spent
<1>2. BudgetInv => ToolCallsPerAttempt
  <2> SUFFICES ASSUME BudgetInv, NEW r \in Run, NEW k \in 1..MaxAttempts
               PROVE  LogCount(r, "TOOL_STARTED", k) <= MaxToolCalls
    BY DEF ToolCallsPerAttempt
  <2>1. k \in Nat
    BY StoreAssumption
  <2>2. LogCount(r, "TOOL_STARTED", k) = Calls(run[r], k)
    BY DEF LogCount, Calls, CallsAt
  <2> QED
    BY <2>1, <2>2 DEF BudgetInv, RowBudget
<1> QED
  BY <1>1, <1>2, BudgetStep, PoolInvariant, PTL DEF SafeSpec

-----------------------------------------------------------------------------
(* Events: the inductive invariant *)

Item == [sequence: Nat, type: EventType]

ClientState == [watches: Run \cup {0},
                phase: {"closed", "open", "lost", "done", "refused"},
                got: Seq(Nat), lastId: Nat, breaks: Nat]

ServerState == [pc: {"none", "status", "events", "sending", "ended"},
                cursor: Nat, seen: Status, batch: Seq(Item)]

StreamTyped(cl, sv, wr) ==
  /\ cl \in ClientState
  /\ sv \in ServerState
  /\ wr \in Seq(Item)
  /\ cl.watches = 0 <=> cl.phase = "closed"

\* A connection is open on both sides or on none.
StreamConnected(cl, sv, wr) ==
  /\ cl.phase = "open" <=> sv.pc # "none"
  /\ sv.pc = "none" => wr = <<>>

\* Handled, in flight and held by the generator: three adjacent intervals.
StreamOrdered(cl, sv, wr) ==
  /\ Len(cl.got) = cl.lastId
  /\ \A i \in 1..Len(cl.got) : cl.got[i] = i
  /\ sv.pc # "none" => sv.cursor = cl.lastId + Len(wr)
  /\ \A i \in 1..Len(wr) : wr[i].sequence = cl.lastId + i
  /\ sv.pc = "sending" =>
       \A i \in 1..Len(sv.batch) : sv.batch[i].sequence = sv.cursor + i

\* What the generator knows of a Run that is not deleted: nothing beyond its
\* log, and the whole of it when it read a terminal status first.
StreamOfLog(cl, sv, row) ==
  row.status # "DELETED" =>
    /\ cl.lastId <= Len(row.events)
    /\ sv.pc # "none" => sv.cursor <= Len(row.events)
    /\ sv.pc = "sending" => sv.cursor + Len(sv.batch) <= Len(row.events)
    /\ sv.pc \in {"events", "sending", "ended"} /\ sv.seen \in Terminal =>
         row.status = sv.seen
    /\ sv.pc = "sending" /\ sv.seen \in Terminal =>
         sv.cursor + Len(sv.batch) = Len(row.events)
    /\ sv.pc = "ended" => sv.seen \in Terminal /\ sv.cursor = Len(row.events)

PageInv(cl, sv, wr) ==
  /\ StreamTyped(cl, sv, wr)
  /\ StreamConnected(cl, sv, wr)
  /\ StreamOrdered(cl, sv, wr)
  /\ cl.watches # 0 => StreamOfLog(cl, sv, run[cl.watches])
  /\ cl.watches = 0 => cl.lastId = 0

StreamsTyped ==
  /\ client = [c \in Client |-> client[c]]
  /\ server = [c \in Client |-> server[c]]
  /\ wire = [c \in Client |-> wire[c]]

StreamInv ==
  /\ StoreInv
  /\ StreamsTyped
  /\ \A c \in Client : PageInv(client[c], server[c], wire[c])

-----------------------------------------------------------------------------
(* The queue under the streams *)

\* Until it is deleted a log only grows, and not at all once its Run ended.
RowGrows(old, new) ==
  \/ new.status = "DELETED"
  \/ /\ old.status # "DELETED"
     /\ Len(new.events) >= Len(old.events)
     /\ old.status \in Terminal => new.status = old.status /\ new.events = old.events

LEMMA LogGrows ==
  ASSUME NEW old, NEW new, RowInv(old), RowNext(old, new)
  PROVE  RowGrows(old, new)
<1>1. /\ old \in Row /\ old.events \in Seq(Event) /\ old.attempt \in Nat
  BY StoreAssumption DEF RowInv, Row
<1>2. RowInv(new)
  BY RowStep
<1>3. new.events \in Seq(Event)
  BY <1>2 DEF RowInv, Row
<1>4. CASE old.status \in Terminal
  <2>1. new = [old EXCEPT !.retry = new.retry] \/ new.status = "DELETED"
    BY <1>4, EndedRow
  <2> QED
    BY <1>1, <1>4, <2>1 DEF RowGrows, Row, Terminal
<1>5. CASE old.status = "DELETED"
  <2>1. /\ ~Present(old) /\ ~Sweepable(old) /\ ~Claimable(old)
        /\ old.status \notin {"ABSENT", "PENDING", "RUNNING"}
    BY <1>5 DEF Present, Sweepable, Claimable
  <2>2. new = old \/ new = Aged(old)
    BY <2>1 DEF RowNext, RowWork
  <2>3. Aged(old).status = old.status
    BY <1>1 DEF Aged, Row
  <2> QED
    BY <1>5, <2>2, <2>3 DEF RowGrows
<1>6. CASE old.status = "ABSENT"
  <2>1. old.events = <<>>
    BY <1>6 DEF RowInv, RowLogged
  <2>2. Len(old.events) = 0 /\ Len(new.events) \in Nat
    BY <1>3, <2>1
  <2> QED
    BY <1>6, <2>2 DEF RowGrows, Terminal
<1>7. CASE old.status \in {"PENDING", "RUNNING"}
  <2>1. NoRow("DELETED").status = "DELETED"
    BY DEF NoRow
  <2>2. RowWork(old, new) \/ new = NoRow("DELETED")
    BY <1>7, Zenon DEF RowNext
  <2>3. LogNext(old, new) \/ new.status = "DELETED"
    BY <2>1, <2>2, LogOfWork
  <2>4. \A e \in Event : Len(Append(old.events, e)) = Len(old.events) + 1
    BY <1>1
  <2>5. ASSUME NEW type \in EventType \ StartEvent,
               new.events = Append(old.events, [type |-> type, attempt |-> old.attempt])
        PROVE  Len(new.events) = Len(old.events) + 1
    <3>1. [type |-> type, attempt |-> old.attempt] \in Event
      BY <1>1 DEF Event, Row
    <3> QED
      BY <2>4, <2>5, <3>1
  <2>6. ASSUME old.status \in {"PENDING", "RUNNING"},
               new.events = Append(old.events, [type |-> StartOf(old),
                                                attempt |-> old.attempt + 1])
        PROVE  Len(new.events) = Len(old.events) + 1
    BY <1>1, <2>6
  <2>7. Len(old.events) \in Nat /\ Len(new.events) \in Nat
    BY <1>1, <1>3
  <2>8. ASSUME LogNext(old, new)
        PROVE  Len(new.events) >= Len(old.events) \/ new.status = "DELETED"
    <3>1. \/ new.events = old.events \/ new.status = "DELETED"
          \/ Len(new.events) = Len(old.events) + 1
      BY <2>5, <2>6, <2>8, Zenon DEF LogNext
    <3> QED
      BY <2>7, <3>1
  <2> QED
    BY <1>7, <2>3, <2>8 DEF RowGrows, Terminal
<1> QED
  BY <1>1, <1>4, <1>5, <1>6, <1>7 DEF Row, Status

\* A step of the queue leaves every page's invariant standing.
LEMMA QueueStep ==
  ASSUME StreamInv, [StoreNext]_storeVars, UNCHANGED streamVars
  PROVE  StreamInv'
<1>1. StoreInv /\ StoreInv'
  BY InvariantStep DEF StreamInv
<1>2. \A r \in Run : RowGrows(run[r], run'[r])
  BY <1>1, EveryStep, LogGrows DEF StoreInv, StepShape
<1>3. \A r \in Run : run[r].events \in Seq(Event) /\ run'[r].events \in Seq(Event)
  BY <1>1 DEF StoreInv, RowInv, Row
<1>4. ASSUME NEW c \in Client
      PROVE  PageInv(client[c], server[c], wire[c])'
  <2> DEFINE cl == client[c]
             sv == server[c]
             wr == wire[c]
  <2>1. PageInv(cl, sv, wr)
    BY DEF StreamInv
  <2>2. client' = client /\ server' = server /\ wire' = wire
    BY DEF streamVars
  <2>3. ASSUME cl.watches # 0
        PROVE  StreamOfLog(cl, sv, run'[cl.watches])
    <3> DEFINE old == run[cl.watches]
               new == run'[cl.watches]
    <3>1. cl.watches \in Run /\ cl \in ClientState /\ sv \in ServerState
      BY <2>1, <2>3 DEF PageInv, StreamTyped, ClientState
    <3>2. RowGrows(old, new) /\ Len(old.events) \in Nat /\ Len(new.events) \in Nat
      BY <1>2, <1>3, <3>1
    <3>3. StreamOfLog(cl, sv, old)
      BY <2>1, <2>3 DEF PageInv
    <3>4. cl.lastId \in Nat /\ sv.cursor \in Nat /\ Len(sv.batch) \in Nat
      BY <3>1 DEF ClientState, ServerState
    <3> HIDE DEF cl, sv, old, new
    <3>5. StreamOfLog(cl, sv, new)
      BY <3>2, <3>3, <3>4 DEF RowGrows, StreamOfLog
    <3> QED
      BY <3>5 DEF new
  <2> QED
    BY <2>1, <2>2, <2>3 DEF PageInv
<1>5. StreamsTyped'
  BY DEF streamVars, StreamInv, StreamsTyped
<1> QED
  BY <1>1, <1>4, <1>5 DEF StreamInv

-----------------------------------------------------------------------------
(* One page *)

\* A step of one page leaves the queue and the other pages alone.
LEMMA OnePage ==
  ASSUME StreamInv, NEW c \in Client, NEW cl, NEW sv, NEW wr,
         UNCHANGED storeVars,
         client' = [client EXCEPT ![c] = cl],
         server' = [server EXCEPT ![c] = sv],
         wire' = [wire EXCEPT ![c] = wr],
         PageInv(cl, sv, wr)
  PROVE  StreamInv'
<1>1. run' = run /\ StoreInv'
  BY DEF storeVars, StreamInv, StoreInv
<1>2. /\ client'[c] = cl /\ server'[c] = sv /\ wire'[c] = wr
      /\ \A d \in Client \ {c} : /\ client'[d] = client[d]
                                 /\ server'[d] = server[d]
                                 /\ wire'[d] = wire[d]
  BY DEF StreamInv, StreamsTyped
<1>3. \A d \in Client : PageInv(client[d], server[d], wire[d])
  BY DEF StreamInv
<1>4. \A d \in Client : PageInv(client'[d], server'[d], wire'[d])
  BY <1>2, <1>3, Zenon
<1>5. \A d \in Client : PageInv(client[d], server[d], wire[d])'
  BY <1>1, <1>4 DEF PageInv
<1>6. StreamsTyped'
  BY DEF StreamInv, StreamsTyped
<1> QED
  BY <1>1, <1>5, <1>6 DEF StreamInv

\* The values an invariant page is made of.
LEMMA PageValues ==
  ASSUME NEW cl, NEW sv, NEW wr, PageInv(cl, sv, wr)
  PROVE  /\ cl \in ClientState /\ sv \in ServerState /\ wr \in Seq(Item)
         /\ cl.lastId \in Nat /\ cl.breaks \in Nat /\ cl.got \in Seq(Nat)
         /\ Len(cl.got) \in Nat
         /\ sv.cursor \in Nat /\ sv.batch \in Seq(Item) /\ Len(sv.batch) \in Nat
         /\ Len(wr) \in Nat
         /\ cl.phase # "closed" => cl.watches \in Run
BY DEF PageInv, StreamTyped, ClientState, ServerState

\* A page without a connection, whatever its phase.
LEMMA Unconnected ==
  ASSUME StoreInv, NEW cl \in ClientState,
         cl.phase # "open", cl.watches = 0 <=> cl.phase = "closed",
         cl.watches = 0 => cl.lastId = 0,
         Len(cl.got) = cl.lastId, \A i \in 1..Len(cl.got) : cl.got[i] = i,
         cl.watches # 0 /\ run[cl.watches].status # "DELETED" =>
           cl.lastId <= Len(run[cl.watches].events)
  PROVE  PageInv(cl, NoServer, <<>>)
<1>1. NoServer \in ServerState /\ <<>> \in Seq(Item) /\ NoServer.pc = "none"
  BY DEF NoServer, ServerState, Status
<1>2. Len(<<>>) = 0
  OBVIOUS
<1>3. StreamTyped(cl, NoServer, <<>>) /\ StreamConnected(cl, NoServer, <<>>)
  BY <1>1 DEF StreamTyped, StreamConnected
<1>4. StreamOrdered(cl, NoServer, <<>>)
  BY <1>1, <1>2 DEF StreamOrdered
<1>5. cl.watches # 0 => StreamOfLog(cl, NoServer, run[cl.watches])
  BY <1>1 DEF StreamOfLog
<1> QED
  BY <1>3, <1>4, <1>5 DEF PageInv

\* A connection that has just been accepted.
LEMMA Connected ==
  ASSUME StoreInv, NEW cl \in ClientState,
         cl.phase = "open", cl.watches \in Run,
         Len(cl.got) = cl.lastId, \A i \in 1..Len(cl.got) : cl.got[i] = i,
         run[cl.watches].status # "DELETED" => cl.lastId <= Len(run[cl.watches].events)
  PROVE  PageInv(cl, [NoServer EXCEPT !.pc = "status", !.cursor = cl.lastId], <<>>)
<1> DEFINE sv == [NoServer EXCEPT !.pc = "status", !.cursor = cl.lastId]
<1>1. cl.lastId \in Nat /\ NoServer \in ServerState
  <2>1. NoServer \in ServerState
    BY DEF NoServer, ServerState, Status
  <2> QED
    BY <2>1 DEF ClientState
<1>2. /\ sv \in ServerState /\ sv.pc = "status" /\ sv.cursor = cl.lastId
      /\ <<>> \in Seq(Item) /\ Len(<<>>) = 0
  <2>1. sv \in ServerState /\ sv.pc = "status" /\ sv.cursor = cl.lastId
    BY <1>1 DEF ServerState
  <2> QED
    BY <2>1
<1> HIDE DEF sv
<1>3. StreamTyped(cl, sv, <<>>) /\ StreamConnected(cl, sv, <<>>)
  BY <1>2, StoreAssumption DEF StreamTyped, StreamConnected, Run
<1>4. StreamOrdered(cl, sv, <<>>)
  BY <1>1, <1>2 DEF StreamOrdered
<1>5. StreamOfLog(cl, sv, run[cl.watches])
  BY <1>1, <1>2 DEF StreamOfLog
<1>6. cl.watches # 0
  BY DEF Run
<1> QED
  BY <1>3, <1>4, <1>5, <1>6 DEF PageInv, sv

LEMMA OpenStep ==
  ASSUME StreamInv, NEW c \in Client, NEW r \in Run, Open(c, r)
  PROVE  StreamInv'
<1> DEFINE cl == client[c]
           watching == [cl EXCEPT !.watches = r]
           opened == [watching EXCEPT !.phase = "open"]
           refused == [watching EXCEPT !.phase = "refused"]
<1>1. PageInv(cl, server[c], wire[c]) /\ StoreInv
  BY DEF StreamInv
<1>2. cl \in ClientState /\ cl.phase = "closed" /\ cl.lastId = 0 /\ r # 0
  BY <1>1, PageValues DEF Open, PageInv, StreamTyped, Run
<1>3. server[c].pc = "none" /\ wire[c] = <<>>
  BY <1>1, <1>2, PageValues DEF PageInv, StreamConnected, ServerState
<1>4. Len(cl.got) = 0 /\ \A i \in 1..Len(cl.got) : cl.got[i] = i
  BY <1>1, <1>2 DEF PageInv, StreamOrdered
<1>5. Len(run[r].events) \in Nat
  BY <1>1 DEF StoreInv, Row
<1>6. PageInv(opened, [NoServer EXCEPT !.pc = "status", !.cursor = 0], <<>>)
  <2>1. /\ opened \in ClientState /\ opened.phase = "open" /\ opened.watches = r
        /\ opened.got = cl.got /\ opened.lastId = 0
    BY <1>2 DEF ClientState
  <2> HIDE DEF opened, cl
  <2>2. \A i \in 1..Len(opened.got) : opened.got[i] = i
    BY <1>4, <2>1
  <2>3. Len(opened.got) = opened.lastId /\ opened.lastId <= Len(run[opened.watches].events)
    BY <1>4, <1>5, <2>1
  <2>4. PageInv(opened, [NoServer EXCEPT !.pc = "status", !.cursor = opened.lastId], <<>>)
    BY <1>1, <2>1, <2>2, <2>3, Connected
  <2> QED
    BY <2>1, <2>4
<1>7. PageInv(refused, server[c], wire[c])
  <2>1. /\ refused \in ClientState /\ refused.phase = "refused" /\ refused.watches = r
        /\ refused.got = cl.got /\ refused.lastId = 0
    BY <1>2 DEF ClientState
  <2> HIDE DEF refused
  <2>2. StreamTyped(refused, server[c], wire[c])
    BY <1>1, <1>2, <2>1 DEF PageInv, StreamTyped
  <2>3. StreamConnected(refused, server[c], wire[c])
    BY <1>3, <2>1 DEF StreamConnected
  <2>4. StreamOrdered(refused, server[c], wire[c])
    BY <1>1, <1>2, <1>3, <2>1 DEF PageInv, StreamOrdered
  <2>5. StreamOfLog(refused, server[c], run[r])
    BY <1>3, <1>5, <2>1 DEF StreamOfLog
  <2> QED
    BY <1>2, <2>1, <2>2, <2>3, <2>4, <2>5 DEF PageInv
<1>8. /\ UNCHANGED storeVars
      /\ wire' = [wire EXCEPT ![c] = wire[c]]
      /\ \/ /\ client' = [client EXCEPT ![c] = opened]
            /\ server' = [server EXCEPT ![c] = [NoServer EXCEPT !.pc = "status", !.cursor = 0]]
         \/ /\ client' = [client EXCEPT ![c] = refused]
            /\ server' = [server EXCEPT ![c] = server[c]]
  <2>1. Resumed(c) = 0
    BY <1>2 DEF Resumed
  <2>2. wire' = wire /\ UNCHANGED storeVars
    BY DEF Open
  <2>3. /\ wire = [wire EXCEPT ![c] = wire[c]]
        /\ server = [server EXCEPT ![c] = server[c]]
    BY DEF StreamInv, StreamsTyped
  <2> HIDE DEF opened, refused
  <2>4. \/ /\ client' = [client EXCEPT ![c] = opened]
           /\ server' = [server EXCEPT ![c] = [NoServer EXCEPT !.pc = "status",
                                                               !.cursor = Resumed(c)]]
        \/ /\ client' = [client EXCEPT ![c] = refused]
           /\ server' = server
    BY DEF Open, Serve, ClientBecomes, ServerBecomes, opened, refused
  <2> QED
    BY <2>1, <2>2, <2>3, <2>4
<1> HIDE DEF opened, refused
<1> QED
  BY <1>3, <1>6, <1>7, <1>8, OnePage

LEMMA ReconnectStep ==
  ASSUME StreamInv, NEW c \in Client, Reconnect(c)
  PROVE  StreamInv'
<1> DEFINE cl == client[c]
           opened == [cl EXCEPT !.phase = "open"]
           refused == [cl EXCEPT !.phase = "refused"]
           accepted == [NoServer EXCEPT !.pc = "status", !.cursor = cl.lastId]
<1>1. PageInv(cl, server[c], wire[c]) /\ StoreInv
  BY DEF StreamInv
<1>2. cl \in ClientState /\ cl.phase = "lost" /\ cl.watches \in Run /\ cl.watches # 0
  BY <1>1, PageValues DEF Reconnect, Run
<1>3. server[c].pc = "none" /\ wire[c] = <<>>
  BY <1>1, <1>2, PageValues DEF PageInv, StreamConnected, ServerState
<1>4. /\ Len(cl.got) = cl.lastId /\ \A i \in 1..Len(cl.got) : cl.got[i] = i
      /\ run[cl.watches].status # "DELETED" => cl.lastId <= Len(run[cl.watches].events)
  BY <1>1, <1>2 DEF PageInv, StreamOrdered, StreamOfLog
<1>5. PageInv(opened, accepted, <<>>)
  <2>1. /\ opened \in ClientState /\ opened.phase = "open" /\ opened.watches = cl.watches
        /\ opened.got = cl.got /\ opened.lastId = cl.lastId
    BY <1>2 DEF ClientState
  <2> HIDE DEF opened, cl
  <2> QED
    BY <1>1, <1>2, <1>4, <2>1, Connected
<1>6. PageInv(refused, server[c], wire[c])
  <2>1. /\ refused \in ClientState /\ refused.phase = "refused"
        /\ refused.watches = cl.watches
        /\ refused.got = cl.got /\ refused.lastId = cl.lastId
    BY <1>2 DEF ClientState
  <2> HIDE DEF refused, cl
  <2>2. StreamTyped(refused, server[c], wire[c])
    BY <1>1, <1>2, <2>1 DEF PageInv, StreamTyped
  <2>3. StreamConnected(refused, server[c], wire[c])
    BY <1>3, <2>1 DEF StreamConnected
  <2>4. StreamOrdered(refused, server[c], wire[c])
    BY <1>1, <2>1 DEF PageInv, StreamOrdered
  <2>5. StreamOfLog(refused, server[c], run[cl.watches])
    BY <1>3, <1>4, <2>1 DEF StreamOfLog
  <2> QED
    BY <1>2, <2>1, <2>2, <2>3, <2>4, <2>5 DEF PageInv
<1>7. /\ UNCHANGED storeVars
      /\ wire' = [wire EXCEPT ![c] = wire[c]]
      /\ \/ /\ client' = [client EXCEPT ![c] = opened]
            /\ server' = [server EXCEPT ![c] = accepted]
         \/ /\ client' = [client EXCEPT ![c] = refused]
            /\ server' = [server EXCEPT ![c] = server[c]]
  <2>1. wire' = wire /\ UNCHANGED storeVars
    BY DEF Reconnect
  <2>2. /\ wire = [wire EXCEPT ![c] = wire[c]]
        /\ server = [server EXCEPT ![c] = server[c]]
    BY DEF StreamInv, StreamsTyped
  <2> HIDE DEF opened, refused, accepted
  <2>3. \/ /\ client' = [client EXCEPT ![c] = opened]
           /\ server' = [server EXCEPT ![c] = accepted]
        \/ /\ client' = [client EXCEPT ![c] = refused]
           /\ server' = server
    BY DEF Reconnect, Serve, Resumed, ClientBecomes, ServerBecomes, opened, refused, accepted
  <2> QED
    BY <2>1, <2>2, <2>3
<1> HIDE DEF opened, refused, accepted
<1> QED
  BY <1>3, <1>5, <1>6, <1>7, OnePage

\* A page that lost or closed its connection keeps what it has handled.
LEMMA BreakStep ==
  ASSUME StreamInv, NEW c \in Client, Break(c) \/ EndOfStream(c)
  PROVE  StreamInv'
<1> DEFINE cl == client[c]
<1>1. PageInv(cl, server[c], wire[c]) /\ StoreInv
  BY DEF StreamInv
<1>2. /\ cl \in ClientState /\ cl.breaks \in Nat /\ cl.phase = "open"
      /\ cl.watches \in Run /\ cl.watches # 0
  BY <1>1, PageValues DEF Break, EndOfStream, Run
<1>3. PICK breaks \in Nat :
        /\ client' = [client EXCEPT ![c] = [cl EXCEPT !.phase = "lost", !.breaks = breaks]]
        /\ server' = [server EXCEPT ![c] = NoServer]
        /\ wire' = [wire EXCEPT ![c] = <<>>]
        /\ UNCHANGED storeVars
  <2>1. CASE Break(c)
    <3>1. cl.breaks + 1 \in Nat
      BY <1>2
    <3> QED
      BY <2>1, <3>1 DEF Break, ClientBecomes, ServerBecomes
  <2>2. CASE EndOfStream(c)
    <3>1. [cl EXCEPT !.phase = "lost"] = [cl EXCEPT !.phase = "lost", !.breaks = cl.breaks]
      BY <1>2 DEF ClientState
    <3>2. wire' = [wire EXCEPT ![c] = <<>>]
      BY <2>2 DEF EndOfStream, StreamInv, StreamsTyped
    <3> QED
      BY <1>2, <2>2, <3>1, <3>2 DEF EndOfStream, ClientBecomes, ServerBecomes
  <2> QED
    BY <2>1, <2>2
<1> DEFINE new == [cl EXCEPT !.phase = "lost", !.breaks = breaks]
<1>4. /\ new \in ClientState /\ new.phase = "lost" /\ new.watches = cl.watches
      /\ new.got = cl.got /\ new.lastId = cl.lastId
  BY <1>2 DEF ClientState
<1>5. /\ Len(cl.got) = cl.lastId /\ \A i \in 1..Len(cl.got) : cl.got[i] = i
      /\ run[cl.watches].status # "DELETED" => cl.lastId <= Len(run[cl.watches].events)
  BY <1>1, <1>2 DEF PageInv, StreamOrdered, StreamOfLog
<1>6. PageInv(new, NoServer, <<>>)
  <2> HIDE DEF new, cl
  <2> QED
    BY <1>1, <1>2, <1>4, <1>5, Unconnected
<1> QED
  BY <1>3, <1>6, OnePage

\* A step of the generator touches neither the page nor, except for Send, the wire.
LEMMA ServerStep ==
  ASSUME StreamInv, NEW c \in Client, NEW sv, server[c].pc # "none",
         UNCHANGED <<storeVars, client, wire>>, ServerBecomes(c, sv),
         sv \in ServerState, sv.pc # "none", sv.cursor = server[c].cursor,
         sv.pc = "sending" =>
           \A i \in 1..Len(sv.batch) : sv.batch[i].sequence = sv.cursor + i,
         StreamOfLog(client[c], sv, run[client[c].watches])
  PROVE  StreamInv'
<1> DEFINE cl == client[c]
           wr == wire[c]
<1>1. PageInv(cl, server[c], wr)
  BY DEF StreamInv
<1>2. StreamTyped(cl, sv, wr) /\ StreamConnected(cl, sv, wr)
  BY <1>1 DEF PageInv, StreamTyped, StreamConnected
<1>3. StreamOrdered(cl, sv, wr)
  BY <1>1 DEF PageInv, StreamOrdered
<1>4. PageInv(cl, sv, wr)
  BY <1>1, <1>2, <1>3 DEF PageInv
<1>5. /\ client' = [client EXCEPT ![c] = cl] /\ wire' = [wire EXCEPT ![c] = wr]
      /\ UNCHANGED storeVars
  BY DEF StreamInv, StreamsTyped
<1> QED
  BY <1>4, <1>5, OnePage DEF ServerBecomes

\* What the steps of a generator start from.
LEMMA ServingFacts ==
  ASSUME StreamInv, NEW c \in Client, server[c].pc # "none"
  PROVE  LET cl == client[c]
             sv == server[c]
             row == run[cl.watches]
         IN /\ cl \in ClientState /\ sv \in ServerState
            /\ cl.phase = "open" /\ cl.watches \in Run
            /\ cl.lastId \in Nat /\ sv.cursor \in Nat /\ Len(sv.batch) \in Nat
            /\ sv.batch \in Seq(Item)
            /\ row \in Row /\ row.status \in Status
            /\ row.events \in Seq(Event) /\ Len(row.events) \in Nat
            /\ StreamOfLog(cl, sv, row)
            /\ StreamOrdered(cl, sv, wire[c])
<1>1. PageInv(client[c], server[c], wire[c]) /\ StoreInv
  BY DEF StreamInv
<1>2. client[c].phase = "open"
  BY <1>1 DEF PageInv, StreamConnected
<1>3. client[c].watches \in Run /\ client[c].watches # 0
  BY <1>1, <1>2, PageValues DEF Run
<1>4. run[client[c].watches] \in Row
  BY <1>1, <1>3 DEF StoreInv, RowInv
<1>5. \A row \in Row : /\ row.status \in Status
                       /\ row.events \in Seq(Event) /\ Len(row.events) \in Nat
  BY DEF Row
<1>6. /\ StreamOfLog(client[c], server[c], run[client[c].watches])
      /\ StreamOrdered(client[c], server[c], wire[c])
  BY <1>1, <1>3 DEF PageInv
<1> QED
  BY <1>1, <1>2, <1>3, <1>4, <1>5, <1>6, PageValues

LEMMA ReadStatusStep ==
  ASSUME StreamInv, NEW c \in Client, ReadStatus(c)
  PROVE  StreamInv'
<1> DEFINE cl == client[c]
           row == run[cl.watches]
           sv == [server[c] EXCEPT !.pc = "events", !.seen = row.status]
<1>1. server[c].pc = "status"
  BY DEF ReadStatus
<1>2. /\ server[c] \in ServerState /\ row.status \in Status
      /\ StreamOfLog(cl, server[c], row)
  BY <1>1, ServingFacts
<1>3. /\ sv \in ServerState /\ sv.pc = "events" /\ sv.cursor = server[c].cursor
      /\ sv.seen = row.status
  BY <1>2 DEF ServerState
<1>4. /\ UNCHANGED <<storeVars, client, wire>> /\ ServerBecomes(c, sv)
  BY DEF ReadStatus
<1> HIDE DEF sv
<1>5. StreamOfLog(cl, sv, row)
  BY <1>1, <1>2, <1>3 DEF StreamOfLog
<1> QED
  BY <1>1, <1>3, <1>4, <1>5, ServerStep

LEMMA ReadEventsStep ==
  ASSUME StreamInv, NEW c \in Client, ReadEvents(c)
  PROVE  StreamInv'
<1> DEFINE cl == client[c]
           row == run[cl.watches]
           batch == EventsAfter(c, server[c].cursor)
           sv == [server[c] EXCEPT !.pc = "sending", !.batch = batch]
<1>1. server[c].pc = "events"
  BY DEF ReadEvents
<1>2. /\ server[c] \in ServerState /\ row.events \in Seq(Event)
      /\ server[c].cursor \in Nat /\ Len(row.events) \in Nat
      /\ StreamOfLog(cl, server[c], row)
  BY <1>1, ServingFacts
<1>3. batch = [i \in 1..(Len(row.events) - server[c].cursor) |->
                 [sequence |-> server[c].cursor + i,
                  type |-> row.events[server[c].cursor + i].type]]
  BY DEF EventsAfter, LogOf
<1>4. /\ batch \in Seq(Item)
      /\ \A i \in 1..Len(batch) : batch[i].sequence = server[c].cursor + i
      /\ server[c].cursor <= Len(row.events) =>
           server[c].cursor + Len(batch) = Len(row.events)
  <2> DEFINE n == Len(row.events)
             k == server[c].cursor
             log == row.events
  <2>1. ASSUME NEW i \in 1..(n - k)
        PROVE  [sequence |-> k + i, type |-> log[k + i].type] \in Item
    <3>1. k + i \in 1..n /\ k + i \in Nat
      <4>1. \A p, q \in Nat : \A j \in 1..(q - p) : p + j \in 1..q /\ p + j \in Nat
        OBVIOUS
      <4> QED
        BY <1>2, <2>1, <4>1, Zenon
    <3>2. log[k + i] \in Event
      BY <1>2, <3>1
    <3>3. log[k + i].type \in EventType
      BY <3>2 DEF Event
    <3> QED
      BY <3>1, <3>3 DEF Item
  <2> HIDE DEF log
  <2>2. /\ n \in Nat /\ k \in Nat
        /\ batch = [i \in 1..(n - k) |-> [sequence |-> k + i, type |-> log[k + i].type]]
    BY <1>2, <1>3 DEF log
  <2> HIDE DEF n, k, batch
  <2>3. ASSUME n - k \in Nat
        PROVE  /\ batch \in Seq(Item) /\ Len(batch) = n - k
               /\ \A i \in 1..Len(batch) : batch[i].sequence = k + i
    <3> DEFINE m == n - k
    <3>1. \A i \in 1..m : batch[i] \in Item /\ batch[i].sequence = k + i
      BY <2>1, <2>2
    <3>2. batch \in [1..m -> Item]
      BY <2>1, <2>2
    <3> HIDE DEF m
    <3>3. m \in Nat
      BY <2>3 DEF m
    <3>4. batch \in Seq(Item) /\ Len(batch) = m
      BY <3>2, <3>3
    <3> QED
      BY <3>1, <3>4 DEF m
  <2>4. ASSUME n < k
        PROVE  batch \in Seq(Item) /\ Len(batch) = 0
    <3>1. 1..(n - k) = 1..0
      BY <2>2, <2>4
    <3>2. batch = <<>>
      BY <2>2, <3>1
    <3> QED
      BY <3>2
  <2>5. \/ n - k \in Nat /\ n - k + k = n
        \/ n < k /\ ~(k <= n)
    BY <2>2
  <2>6. /\ batch \in Seq(Item)
        /\ \A i \in 1..Len(batch) : batch[i].sequence = k + i
        /\ k <= n => k + Len(batch) = n
    <3>1. CASE n - k \in Nat
      <4>1. /\ batch \in Seq(Item) /\ Len(batch) = n - k
            /\ \A i \in 1..Len(batch) : batch[i].sequence = k + i
        BY <2>3, <3>1
      <4>2. k + (n - k) = n
        BY <2>2
      <4> QED
        BY <4>1, <4>2
    <3>2. CASE n < k /\ ~(k <= n)
      <4>1. batch \in Seq(Item) /\ Len(batch) = 0
        BY <2>4, <3>2
      <4>2. \A i \in 1..Len(batch) : batch[i].sequence = k + i
        BY <4>1
      <4> QED
        BY <3>2, <4>1, <4>2
    <3> QED
      BY <2>5, <3>1, <3>2
  <2> QED
    BY <2>6 DEF n, k
<1> HIDE DEF batch
<1>5. /\ sv \in ServerState /\ sv.pc = "sending" /\ sv.cursor = server[c].cursor
      /\ sv.seen = server[c].seen /\ sv.batch = batch
  BY <1>2, <1>4 DEF ServerState
<1>6. UNCHANGED <<storeVars, client, wire>> /\ ServerBecomes(c, sv)
  BY DEF ReadEvents, batch
<1> HIDE DEF sv
<1>7. Len(batch) \in Nat
  BY <1>4
<1>8. StreamOfLog(cl, sv, row)
  <2> HIDE DEF cl, row
  <2> QED
    BY <1>1, <1>2, <1>4, <1>5, <1>7 DEF StreamOfLog
<1> QED
  BY <1>1, <1>4, <1>5, <1>6, <1>8, ServerStep

LEMMA EndBatchStep ==
  ASSUME StreamInv, NEW c \in Client, EndBatch(c)
  PROVE  StreamInv'
<1> DEFINE cl == client[c]
           row == run[cl.watches]
           pc == IF server[c].seen \in Terminal THEN "ended" ELSE "status"
           sv == [server[c] EXCEPT !.pc = pc]
<1>1. server[c].pc = "sending" /\ server[c].batch = <<>>
  BY DEF EndBatch
<1>2. /\ server[c] \in ServerState /\ StreamOfLog(cl, server[c], row)
      /\ server[c].cursor \in Nat /\ Len(server[c].batch) = 0
  BY <1>1, ServingFacts
<1>3. /\ sv \in ServerState /\ sv.pc = pc /\ sv.cursor = server[c].cursor
      /\ sv.seen = server[c].seen /\ sv.pc # "none" /\ sv.pc # "sending"
  BY <1>2 DEF ServerState
<1>4. UNCHANGED <<storeVars, client, wire>> /\ ServerBecomes(c, sv)
  BY DEF EndBatch
<1> HIDE DEF sv
<1>5. StreamOfLog(cl, sv, row)
  <2> HIDE DEF cl, row
  <2> QED
    BY <1>1, <1>2, <1>3 DEF StreamOfLog
<1> QED
  BY <1>1, <1>3, <1>4, <1>5, ServerStep

\* The head of the batch moves to the end of the wire.
LEMMA SendStep ==
  ASSUME StreamInv, NEW c \in Client, Send(c)
  PROVE  StreamInv'
<1> DEFINE cl == client[c]
           old == server[c]
           wr == wire[c]
           row == run[cl.watches]
           event == Head(old.batch)
           rest == Tail(old.batch)
           sv == [old EXCEPT !.cursor = event.sequence, !.batch = rest]
           sent == Append(wr, event)
<1>1. old.pc = "sending" /\ old.batch # <<>>
  BY DEF Send
<1>2. /\ cl \in ClientState /\ old \in ServerState /\ cl.phase = "open"
      /\ cl.watches \in Run /\ cl.watches # 0
      /\ cl.lastId \in Nat /\ old.cursor \in Nat
      /\ old.batch \in Seq(Item) /\ Len(row.events) \in Nat
      /\ StreamOfLog(cl, old, row) /\ StreamOrdered(cl, old, wr)
  BY <1>1, ServingFacts DEF Run
<1>3. PageInv(cl, old, wr) /\ wr \in Seq(Item)
  BY PageValues DEF StreamInv
<1>4. /\ Len(old.batch) \in Nat /\ Len(old.batch) > 0
      /\ event \in Item /\ event = old.batch[1]
      /\ rest \in Seq(Item) /\ Len(rest) = Len(old.batch) - 1
      /\ \A i \in 1..Len(rest) : rest[i] = old.batch[i + 1]
  BY <1>1, <1>2
<1>5. /\ sent \in Seq(Item) /\ Len(sent) = Len(wr) + 1 /\ Len(wr) \in Nat
      /\ sent[Len(wr) + 1] = event
      /\ \A i \in 1..Len(wr) : sent[i] = wr[i]
  BY <1>3, <1>4
<1>6. /\ event.sequence = old.cursor + 1 /\ event.sequence \in Nat
      /\ old.cursor = cl.lastId + Len(wr)
  <2>1. 1 \in 1..Len(old.batch)
    BY <1>4
  <2>2. event.sequence = old.cursor + 1
    BY <1>1, <1>2, <1>4, <2>1 DEF StreamOrdered
  <2>3. old.cursor = cl.lastId + Len(wr)
    BY <1>1, <1>2 DEF StreamOrdered
  <2>4. event.sequence \in Nat
    BY <1>2, <2>2
  <2> QED
    BY <2>2, <2>3, <2>4
<1>7. /\ UNCHANGED storeVars
      /\ client' = [client EXCEPT ![c] = cl]
      /\ server' = [server EXCEPT ![c] = sv]
      /\ wire' = [wire EXCEPT ![c] = sent]
  BY DEF Send, ServerBecomes, StreamInv, StreamsTyped
<1> HIDE DEF rest, event, sent
<1>8. /\ sv \in ServerState /\ sv.pc = "sending" /\ sv.cursor = old.cursor + 1
      /\ sv.seen = old.seen /\ sv.batch = rest
  BY <1>1, <1>2, <1>4, <1>6 DEF ServerState
<1> HIDE DEF sv, cl, old, wr, row
<1>9. /\ cl.lastId \in Nat /\ old.cursor \in Nat /\ Len(wr) \in Nat
      /\ Len(old.batch) \in Nat /\ Len(row.events) \in Nat
  BY <1>2, <1>4, <1>5
<1>10. StreamTyped(cl, sv, sent) /\ StreamConnected(cl, sv, sent)
  BY <1>2, <1>3, <1>5, <1>8 DEF PageInv, StreamTyped, StreamConnected
<1>11. StreamOrdered(cl, sv, sent)
  <2>1. \A i \in 1..Len(sent) : sent[i].sequence = cl.lastId + i
    <3>1. ASSUME NEW i \in 1..Len(sent)
          PROVE  sent[i].sequence = cl.lastId + i
      <4>1. CASE i \in 1..Len(wr)
        BY <1>2, <1>5, <4>1 DEF StreamOrdered
      <4>2. CASE i = Len(wr) + 1
        <5>1. sent[i].sequence = (cl.lastId + Len(wr)) + 1
          BY <1>5, <1>6, <4>2
        <5> QED
          BY <1>9, <4>2, <5>1
      <4> QED
        BY <1>5, <4>1, <4>2
    <3> QED
      BY <3>1
  <2>2. \A i \in 1..Len(rest) : rest[i].sequence = sv.cursor + i
    <3>1. ASSUME NEW i \in 1..Len(rest)
          PROVE  rest[i].sequence = sv.cursor + i
      <4>1. i + 1 \in 1..Len(old.batch) /\ rest[i] = old.batch[i + 1]
        BY <1>4
      <4>2. old.batch[i + 1].sequence = old.cursor + (i + 1)
        BY <1>1, <1>2, <4>1 DEF StreamOrdered
      <4>3. old.cursor + (i + 1) = (old.cursor + 1) + i
        <5>1. i \in Nat
          OBVIOUS
        <5>2. \A k, n \in Nat : k + (n + 1) = (k + 1) + n
          OBVIOUS
        <5> QED
          BY <1>9, <5>1, <5>2, Zenon
      <4> QED
        BY <1>8, <4>1, <4>2, <4>3, Zenon
    <3> QED
      BY <3>1
  <2>3. sv.cursor = cl.lastId + Len(sent)
    <3>1. sv.cursor = (cl.lastId + Len(wr)) + 1 /\ Len(sent) = Len(wr) + 1
      BY <1>5, <1>6, <1>8
    <3> QED
      BY <1>9, <3>1
  <2> QED
    BY <1>2, <1>8, <2>1, <2>2, <2>3 DEF StreamOrdered
<1>12. StreamOfLog(cl, sv, row)
  <2>1. /\ sv.cursor = old.cursor + 1 /\ sv.pc = "sending" /\ sv.seen = old.seen
        /\ Len(sv.batch) = Len(old.batch) - 1 /\ Len(old.batch) > 0
    BY <1>4, <1>8
  <2>2. StreamOfLog(cl, old, row) /\ old.pc = "sending"
    BY <1>1, <1>2
  <2>3. /\ sv.cursor + Len(sv.batch) = old.cursor + Len(old.batch)
        /\ sv.cursor <= old.cursor + Len(old.batch)
    <3>1. \A k, n \in Nat : n > 0 => (k + 1) + (n - 1) = k + n /\ k + 1 <= k + n
      OBVIOUS
    <3>2. sv.cursor = old.cursor + 1 /\ Len(sv.batch) = Len(old.batch) - 1
      BY <2>1
    <3> QED
      BY <1>9, <2>1, <3>1, <3>2, Zenon
  <2>4. row.status # "DELETED" => old.cursor + Len(old.batch) <= Len(row.events)
    BY <2>2 DEF StreamOfLog
  <2>5. row.status # "DELETED" => sv.cursor <= Len(row.events)
    <3>1. sv.cursor \in Int
      BY <1>9, <2>1
    <3> QED
      BY <1>9, <2>3, <2>4, <3>1
  <2> QED
    BY <2>1, <2>2, <2>3, <2>5 DEF StreamOfLog
<1>13. PageInv(cl, sv, sent)
  BY <1>2, <1>10, <1>11, <1>12 DEF PageInv, row
<1>14. StreamInv'
  BY <1>7, <1>13, OnePage DEF cl
<1> QED
  BY <1>14

\* The head of the wire becomes the last event handled.
LEMMA ReceiveStep ==
  ASSUME StreamInv, NEW c \in Client, Receive(c)
  PROVE  StreamInv'
<1> DEFINE old == client[c]
           sv == server[c]
           wr == wire[c]
           row == run[old.watches]
           event == Head(wr)
           rest == Tail(wr)
           got == Append(old.got, event.sequence)
           New(phase) == [old EXCEPT !.got = got, !.lastId = event.sequence, !.phase = phase]
<1>1. old.phase = "open" /\ wr # <<>>
  BY DEF Receive
<1>2. PageInv(old, sv, wr) /\ StoreInv
  BY DEF StreamInv
<1>3. /\ sv.pc # "none" /\ wr \in Seq(Item) /\ old.got \in Seq(Nat)
      /\ old.lastId \in Nat /\ old \in ClientState
  BY <1>1, <1>2, PageValues DEF PageInv, StreamConnected
<1>4. /\ old.watches \in Run /\ old.watches # 0 /\ sv \in ServerState
      /\ Len(row.events) \in Nat /\ sv.cursor \in Nat
      /\ StreamOfLog(old, sv, row) /\ StreamOrdered(old, sv, wr)
  BY <1>3, ServingFacts DEF Run
<1>5. /\ Len(wr) \in Nat /\ Len(wr) > 0 /\ event = wr[1] /\ event \in Item
      /\ rest \in Seq(Item) /\ Len(rest) = Len(wr) - 1
      /\ \A i \in 1..Len(rest) : rest[i] = wr[i + 1]
  BY <1>1, <1>3
<1>6. /\ event.sequence = old.lastId + 1 /\ event.sequence \in Nat
      /\ sv.cursor = old.lastId + Len(wr)
  <2>1. 1 \in 1..Len(wr)
    BY <1>5
  <2>2. wr[1].sequence = old.lastId + 1
    BY <1>4, <2>1 DEF StreamOrdered
  <2> QED
    BY <1>3, <1>4, <1>5, <2>2 DEF StreamOrdered
<1>7. /\ got \in Seq(Nat) /\ Len(got) = old.lastId + 1
      /\ \A i \in 1..Len(got) : got[i] = i
  <2>1. Len(old.got) = old.lastId /\ \A i \in 1..Len(old.got) : old.got[i] = i
    BY <1>4 DEF StreamOrdered
  <2>2. /\ got \in Seq(Nat) /\ Len(got) = Len(old.got) + 1
        /\ got[Len(old.got) + 1] = event.sequence
        /\ \A i \in 1..Len(old.got) : got[i] = old.got[i]
    BY <1>3, <1>6
  <2> HIDE DEF got, event
  <2>3. Len(old.got) = old.lastId /\ old.lastId \in Nat /\ event.sequence = old.lastId + 1
    BY <1>3, <1>6, <2>1
  <2>4. Len(got) = old.lastId + 1 /\ got[old.lastId + 1] = old.lastId + 1
    BY <2>2, <2>3
  <2>5. ASSUME NEW i \in 1..Len(got)
        PROVE  got[i] = i
    <3>1. i \in 1..old.lastId \/ i = old.lastId + 1
      BY <2>3, <2>4
    <3>2. CASE i \in 1..old.lastId
      BY <2>1, <2>2, <2>3, <3>2
    <3> QED
      BY <2>4, <3>1, <3>2
  <2> QED
    BY <2>2, <2>4, <2>5
<1>8. \/ /\ client' = [client EXCEPT ![c] = New("done")]
         /\ server' = [server EXCEPT ![c] = NoServer]
         /\ wire' = [wire EXCEPT ![c] = <<>>]
      \/ /\ client' = [client EXCEPT ![c] = New("open")]
         /\ server' = [server EXCEPT ![c] = sv]
         /\ wire' = [wire EXCEPT ![c] = rest]
  <2>1. server = [server EXCEPT ![c] = sv]
    BY DEF StreamInv, StreamsTyped
  <2>2. CASE PageCloses(event.type)
    BY <2>2 DEF Receive, ClientBecomes, ServerBecomes
  <2>3. CASE ~PageCloses(event.type)
    BY <2>1, <2>3 DEF Receive, ClientBecomes, ServerBecomes
  <2> QED
    BY <2>2, <2>3
<1>9. UNCHANGED storeVars
  BY DEF Receive
<1> HIDE DEF got, event
<1>10. ASSUME NEW phase \in {"open", "done"}
       PROVE  /\ New(phase) \in ClientState /\ New(phase).phase = phase
              /\ New(phase).watches = old.watches /\ New(phase).got = got
              /\ New(phase).lastId = old.lastId + 1
  BY <1>3, <1>6, <1>7 DEF ClientState
<1>11. row.status # "DELETED" => old.lastId + 1 <= Len(row.events)
  BY <1>3, <1>4, <1>5, <1>6 DEF StreamOfLog
<1>12. PageInv(New("done"), NoServer, <<>>)
  <2> DEFINE new == New("done")
  <2>1. /\ new \in ClientState /\ new.phase = "done" /\ new.watches = old.watches
        /\ new.got = got /\ new.lastId = old.lastId + 1
    BY <1>10
  <2> HIDE DEF new, New
  <2>2. Len(new.got) = new.lastId /\ \A i \in 1..Len(new.got) : new.got[i] = i
    BY <1>7, <2>1
  <2>3. run[new.watches].status # "DELETED" => new.lastId <= Len(run[new.watches].events)
    BY <1>11, <2>1
  <2>4. /\ new.phase # "open" /\ (new.watches = 0 <=> new.phase = "closed")
        /\ new.watches # 0
    BY <1>4, <2>1
  <2>5. PageInv(new, NoServer, <<>>)
    BY <1>2, <2>1, <2>2, <2>3, <2>4, Unconnected
  <2> QED
    BY <2>5 DEF new
<1>13. PageInv(New("open"), sv, rest)
  <2> DEFINE new == New("open")
  <2>1. /\ new \in ClientState /\ new.phase = "open" /\ new.watches = old.watches
        /\ new.got = got /\ new.lastId = old.lastId + 1
    BY <1>10
  <2> HIDE DEF new, New, rest, sv, wr, row
  <2>2. StreamTyped(new, sv, rest) /\ StreamConnected(new, sv, rest)
    BY <1>3, <1>4, <1>5, <2>1 DEF StreamTyped, StreamConnected
  <2>3. \A i \in 1..Len(rest) : rest[i].sequence = new.lastId + i
    <3>1. ASSUME NEW i \in 1..Len(rest)
          PROVE  rest[i].sequence = new.lastId + i
      <4>1. i + 1 \in 1..Len(wr) /\ rest[i] = wr[i + 1]
        BY <1>5
      <4>2. wr[i + 1].sequence = old.lastId + (i + 1)
        BY <1>4, <4>1 DEF StreamOrdered
      <4>3. old.lastId \in Nat /\ i \in Nat /\ new.lastId = old.lastId + 1
        BY <1>3, <1>5, <2>1
      <4>4. old.lastId + (i + 1) = (old.lastId + 1) + i
        BY <4>3
      <4> QED
        BY <4>1, <4>2, <4>3, <4>4
    <3> QED
      BY <3>1
  <2>4. sv.cursor = new.lastId + Len(rest)
    BY <1>3, <1>5, <1>6, <2>1
  <2>5. StreamOrdered(new, sv, rest)
    BY <1>4, <1>7, <2>1, <2>3, <2>4 DEF StreamOrdered
  <2>6. StreamOfLog(new, sv, row)
    BY <1>4, <1>11, <2>1 DEF StreamOfLog
  <2>7. PageInv(new, sv, rest)
    BY <1>4, <2>1, <2>2, <2>5, <2>6 DEF PageInv, row
  <2> QED
    BY <2>7 DEF new
<1> HIDE DEF New, rest
<1> QED
  BY <1>8, <1>9, <1>12, <1>13, OnePage

-----------------------------------------------------------------------------
(* Events: the theorems *)

LEMMA StreamInvInit == StreamInit => StreamInv
<1> SUFFICES ASSUME StreamInit PROVE StreamInv
  OBVIOUS
<1>1. StoreInv
  BY InvariantInit DEF StreamInit
<1>2. /\ NewClient \in ClientState /\ NewClient.phase = "closed"
      /\ NewClient.watches = 0 /\ NewClient.lastId = 0 /\ NewClient.got = <<>>
  BY DEF NewClient, ClientState
<1>3. Len(NewClient.got) = NewClient.lastId /\ Len(NewClient.got) = 0
  BY <1>2
<1>4. PageInv(NewClient, NoServer, <<>>)
  BY <1>1, <1>2, <1>3, Unconnected
<1> QED
  BY <1>1, <1>4 DEF StreamInit, StreamInv, StreamsTyped

LEMMA StreamInvStep == StreamInv /\ [StreamNext]_allVars => StreamInv'
<1>1. ASSUME StreamInv, NEW c \in Client, NEW r \in Run, Open(c, r)
      PROVE  StreamInv'
  BY <1>1, OpenStep
<1>2. ASSUME StreamInv, NEW c \in Client, Break(c) \/ Browsing(c)
      PROVE  StreamInv'
  BY <1>2, BreakStep, ReconnectStep, ReceiveStep DEF Browsing
<1>3. ASSUME StreamInv, NEW c \in Client, Serving(c)
      PROVE  StreamInv'
  BY <1>3, ReadStatusStep, ReadEventsStep, SendStep, EndBatchStep DEF Serving
<1>4. ASSUME StreamInv, (StoreNext /\ UNCHANGED streamVars) \/ UNCHANGED allVars
      PROVE  StreamInv'
  <2>1. [StoreNext]_storeVars /\ UNCHANGED streamVars
    BY <1>4 DEF allVars
  <2> QED
    BY <1>4, <2>1, QueueStep
<1> QED
  BY <1>1, <1>2, <1>3, <1>4 DEF StreamNext

THEOREM StreamInvariant == StreamSafe => []StreamInv
BY StreamInvInit, StreamInvStep, PTL DEF StreamSafe

\* Whatever is lost and however often the page reconnects, it handles the
\* events of its Run exactly once and in the order of the log.
THEOREM StreamExactlyOnce == StreamSafe => []ExactlyOnce
<1>1. StreamInv => ExactlyOnce
  BY DEF StreamInv, PageInv, StreamOrdered, ExactlyOnce
<1> QED
  BY <1>1, StreamInvariant, PTL

\* Reading the status before the events makes the end of the response safe:
\* a generator that ends has sent the whole log, its terminal event last.
THEOREM StreamEndsComplete == StreamSafe => []EndsComplete
<1>1. ASSUME StreamInv, NEW c \in Client, server[c].pc = "ended",
             run[client[c].watches].status # "DELETED"
      PROVE  /\ server[c].cursor = Len(LogOf(c))
             /\ LogOf(c)[server[c].cursor].type \in TerminalEvent
  <2> DEFINE row == run[client[c].watches]
  <2>1. StreamOfLog(client[c], server[c], row) /\ client[c].watches \in Run
    BY <1>1, ServingFacts
  <2>2. /\ server[c].seen \in Terminal /\ row.status = server[c].seen
        /\ server[c].cursor = Len(row.events)
    BY <1>1, <2>1 DEF StreamOfLog
  <2>3. RowLogged(row)
    BY <1>1, <2>1 DEF StreamInv, StoreInv, RowInv
  <2>4. row.events[Len(row.events)].type = TerminalEventOf[row.status]
    BY <2>2, <2>3 DEF RowLogged, LogClosed
  <2> QED
    BY <2>2, <2>4 DEF LogOf, Terminal, TerminalEventOf, TerminalEvent
<1>2. StreamInv => EndsComplete
  BY <1>1 DEF EndsComplete
<1> QED
  BY <1>2, StreamInvariant, PTL

-----------------------------------------------------------------------------
(* Results: the inductive invariant *)

PartRow == [status: PartStatus, from: 0..MaxRuns]

Visible(res, p) == res.part[p].status \in Shown
Payload(res, p) == res.content[ToolOf[p]]
Origin(res, p) == res.part[p].from

\* What a result says of one part, with results of the others and the Run it
\* supersedes: what is shown is there, inherited or computed.
Honest(r, supersedes, results, res, p) ==
  /\ Visible(res, p) <=> Payload(res, p) # 0
  /\ Origin(res, p) # 0 =>
       /\ Visible(res, p)
       /\ Origin(res, p) = supersedes
       /\ Payload(res, p) = Payload(results[supersedes], p)
  /\ Origin(res, p) = 0 /\ Visible(res, p) => Payload(res, p) = r

Fair(r, supersedes, results, res) ==
  res \in Result /\ \A p \in Part : Honest(r, supersedes, results, res, p)

\* OutcomeTold of one row.
Told(status, res) ==
  /\ (res.status = "FAILED") <=> (status \in {"FAILED", "CANCELLED"})
  /\ res.status = "COMPLETE" => status = "SUCCEEDED" /\ \A p \in Part : Visible(res, p)
  /\ status \in Terminal => \A p \in Part : res.part[p].status # "PENDING"
  /\ res.status = "FAILED" =>
       \A p \in Part : Origin(res, p) # 0 => res.part[p].status = "DEGRADED"

ResultInv ==
  /\ StoreInv /\ ChainInv
  /\ result = [r \in Run |-> result[r]]
  /\ \A r \in Run :
       /\ Fair(r, run[r].supersedes, result, result[r])
       /\ Told(run[r].status, result[r])
       /\ ~Present(run[r]) => result[r] = NoResult

-----------------------------------------------------------------------------
(* What the functions of run_results.py do to a result *)

\* The result new with these fields.
Retold(new, status, content, part) ==
  /\ new \in Result
  /\ new.status = status /\ new.content = content /\ new.part = part

LEMMA RetoldUpdate ==
  ASSUME NEW res \in Result, NEW status \in {"PARTIAL", "COMPLETE", "FAILED"},
         NEW part \in [Part -> PartRow]
  PROVE  /\ Retold([res EXCEPT !.status = status, !.part = part], status, res.content, part)
         /\ Retold([res EXCEPT !.part = part, !.status = status], status, res.content, part)
BY DEF Retold, Result, PartRow

LEMMA RetoldContent ==
  ASSUME NEW res \in Result, NEW tool \in Tool, NEW r \in 0..MaxRuns,
         NEW degraded \in BOOLEAN
  PROVE  Retold(ToolSucceeded(res, r, tool, degraded), "PARTIAL",
                [res.content EXCEPT ![tool] = r],
                [p \in Part |->
                   IF ToolOf[p] = tool
                   THEN [status |-> IF p = "route" /\ degraded THEN "DEGRADED" ELSE "READY",
                         from |-> 0]
                   ELSE res.part[p]])
<1> DEFINE hit(p) == [status |-> IF p = "route" /\ degraded THEN "DEGRADED" ELSE "READY",
                      from |-> 0]
           part == [p \in Part |-> IF ToolOf[p] = tool THEN hit(p) ELSE res.part[p]]
           new == ToolSucceeded(res, r, tool, degraded)
<1>1. new.status = "PARTIAL"
  BY DEF Result, ToolSucceeded
<1>2. new.content = [res.content EXCEPT ![tool] = r]
  BY DEF Result, ToolSucceeded
<1>3. new.part = part
  BY DEF Result, ToolSucceeded
<1>4. new = [x \in {"status", "content", "part"} |-> new[x]]
  BY DEF Result, ToolSucceeded
<1>5. part \in [Part -> PartRow]
  <2>1. \A p \in Part : hit(p) \in PartRow
    BY StoreAssumption DEF PartRow, PartStatus, Shown
  <2> HIDE DEF hit
  <2> QED
    BY <2>1 DEF Result, PartRow
<1>6. [res.content EXCEPT ![tool] = r] \in [Tool -> 0..MaxRuns]
  BY DEF Result
<1> HIDE DEF new, part
<1>7. new \in Result
  BY <1>1, <1>2, <1>3, <1>4, <1>5, <1>6 DEF Result, PartRow
<1> QED
  BY <1>1, <1>2, <1>3, <1>7 DEF Retold, new, part

LEMMA PartsOf ==
  ASSUME NEW res \in Result, NEW p \in Part
  PROVE  /\ res.part[p] \in PartRow
         /\ res.part[p].status \in PartStatus /\ Origin(res, p) \in 0..MaxRuns
         /\ Payload(res, p) \in 0..MaxRuns
         /\ ToolOf[p] \in Tool
BY DEF Result, PartRow, Origin, Payload, Tool

LEMMA NothingToShow ==
  ASSUME NEW r, NEW supersedes, NEW results
  PROVE  /\ Fair(r, supersedes, results, NoResult)
         /\ \A status : status \notin Terminal => Told(status, NoResult)
<1>1. NoResult \in Result
  BY StoreAssumption DEF NoResult, Result, PartStatus
<1>2. /\ NoResult.status = "PARTIAL"
      /\ \A p \in Part : /\ NoResult.part[p].status = "PENDING" /\ Origin(NoResult, p) = 0
                         /\ Payload(NoResult, p) = 0
  BY DEF NoResult, Origin, Payload, Tool
<1>3. "PENDING" \notin Shown
  BY DEF Shown
<1>4. Fair(r, supersedes, results, NoResult)
  BY <1>1, <1>2, <1>3 DEF Fair, Honest, Visible
<1>5. ASSUME NEW status, status \notin Terminal PROVE Told(status, NoResult)
  BY <1>2, <1>5 DEF Told, Terminal
<1> QED
  BY <1>4, <1>5

\* fail_result
LEMMA FailedIsFair ==
  ASSUME NEW r, NEW supersedes, NEW results, NEW res, Fair(r, supersedes, results, res),
         NEW status \in {"FAILED", "CANCELLED"}
  PROVE  LET new == FailedResult(res) IN
         Fair(r, supersedes, results, new) /\ Told(status, new)
<1> DEFINE new == FailedResult(res)
           unavailable == [status |-> "UNAVAILABLE", from |-> 0]
           degraded(p) == [res.part[p] EXCEPT !.status = "DEGRADED"]
           part == [p \in Part |->
             CASE res.part[p].status = "PENDING" -> unavailable
               [] res.part[p].status # "PENDING" /\ res.part[p].from # 0 -> degraded(p)
               [] OTHER -> res.part[p]]
<1>1. res \in Result
  BY DEF Fair
<1>2. ASSUME NEW p \in Part
      PROVE  /\ res.part[p].status = "PENDING" => part[p] = unavailable
             /\ res.part[p].status # "PENDING" /\ Origin(res, p) # 0 => part[p] = degraded(p)
             /\ res.part[p].status # "PENDING" /\ Origin(res, p) = 0 => part[p] = res.part[p]
  BY <1>2 DEF Origin
<1>3. ASSUME NEW p \in Part
      PROVE  /\ degraded(p) \in PartRow /\ degraded(p).status = "DEGRADED"
             /\ degraded(p).from = Origin(res, p)
  BY <1>1, <1>3, PartsOf DEF PartRow, PartStatus, Shown, Origin
<1>4. /\ unavailable \in PartRow /\ unavailable.status = "UNAVAILABLE"
      /\ unavailable.from = 0
  BY StoreAssumption DEF PartRow, PartStatus
<1>5. new = [res EXCEPT !.status = "FAILED", !.part = part]
  BY DEF FailedResult
<1> HIDE DEF new, unavailable, degraded
<1>6. part \in [Part -> PartRow]
  BY <1>1, <1>2, <1>3, <1>4, PartsOf
<1> HIDE DEF part
<1>7. Retold(new, "FAILED", res.content, part)
  BY <1>1, <1>5, <1>6, RetoldUpdate
<1>8. ASSUME NEW p \in Part
      PROVE  /\ Honest(r, supersedes, results, new, p)
             /\ new.part[p].status # "PENDING"
             /\ Origin(new, p) # 0 => new.part[p].status = "DEGRADED"
  <2>1. /\ Honest(r, supersedes, results, res, p)
        /\ Payload(new, p) = Payload(res, p)
        /\ new.part[p] = part[p]
    BY <1>7 DEF Fair, Retold, Payload
  <2>2. CASE res.part[p].status = "PENDING"
    BY <1>2, <1>4, <2>1, <2>2 DEF Honest, Visible, Origin, Shown
  <2>3. CASE res.part[p].status # "PENDING" /\ Origin(res, p) # 0
    BY <1>2, <1>3, <2>1, <2>3 DEF Honest, Visible, Origin, Shown
  <2>4. CASE res.part[p].status # "PENDING" /\ Origin(res, p) = 0
    BY <1>2, <2>1, <2>4 DEF Honest, Visible, Origin
  <2> QED
    BY <2>2, <2>3, <2>4
<1>9. new \in Result /\ new.status = "FAILED"
  BY <1>7 DEF Retold
<1>10. Fair(r, supersedes, results, new) /\ Told(status, new)
  BY <1>8, <1>9 DEF Fair, Told
<1> QED
  BY <1>10 DEF new

\* complete_result
LEMMA CompletedIsFair ==
  ASSUME NEW r, NEW supersedes, NEW results, NEW res, Fair(r, supersedes, results, res),
         NEW blank \in BOOLEAN
  PROVE  LET new == CompletedResult(res, blank) IN
         Fair(r, supersedes, results, new) /\ Told("SUCCEEDED", new)
<1> DEFINE new == CompletedResult(res, blank)
           unavailable == [status |-> "UNAVAILABLE", from |-> 0]
           part == [p \in Part |->
             IF res.part[p].status = "PENDING" THEN unavailable ELSE res.part[p]]
           full == ~blank /\ \A p \in Part : part[p].status \in Shown
           status == IF full THEN "COMPLETE" ELSE "PARTIAL"
<1>1. res \in Result
  BY DEF Fair
<1>2. /\ unavailable \in PartRow /\ unavailable.status = "UNAVAILABLE"
      /\ unavailable.from = 0
  BY StoreAssumption DEF PartRow, PartStatus
<1>3. ASSUME NEW p \in Part
      PROVE  part[p] = IF res.part[p].status = "PENDING" THEN unavailable ELSE res.part[p]
  BY <1>3
<1>4. new = [res EXCEPT !.part = part, !.status = status]
  BY DEF CompletedResult
<1>5. /\ status \in {"PARTIAL", "COMPLETE"}
      /\ status = "COMPLETE" => \A p \in Part : part[p].status \in Shown
  OBVIOUS
<1> HIDE DEF new, unavailable, status
<1>6. part \in [Part -> PartRow]
  BY <1>1, <1>2, <1>3, PartsOf
<1> HIDE DEF part
<1>7. Retold(new, status, res.content, part)
  BY <1>1, <1>4, <1>5, <1>6, RetoldUpdate
<1>8. ASSUME NEW p \in Part
      PROVE  /\ Honest(r, supersedes, results, new, p)
             /\ new.part[p] = part[p]
             /\ new.part[p].status # "PENDING"
  <2>1. /\ Honest(r, supersedes, results, res, p)
        /\ Payload(new, p) = Payload(res, p)
        /\ new.part[p] = part[p]
    BY <1>7 DEF Fair, Retold, Payload
  <2>2. CASE res.part[p].status = "PENDING"
    BY <1>2, <1>3, <2>1, <2>2 DEF Honest, Visible, Origin, Shown
  <2>3. CASE res.part[p].status # "PENDING"
    BY <1>3, <2>1, <2>3 DEF Honest, Visible, Origin
  <2> QED
    BY <2>2, <2>3
<1>9. new \in Result /\ new.status = status
  BY <1>7 DEF Retold
<1>10. Fair(r, supersedes, results, new) /\ Told("SUCCEEDED", new)
  BY <1>5, <1>8, <1>9 DEF Fair, Told, Visible
<1> QED
  BY <1>10 DEF new

\* apply_tool_result, for a call that failed and for one that succeeded
LEMMA ToolIsFair ==
  ASSUME NEW r \in Run, NEW supersedes, NEW results, NEW res,
         Fair(r, supersedes, results, res),
         NEW tool \in Tool, NEW degraded \in BOOLEAN
  PROVE  /\ Fair(r, supersedes, results, ToolFailed(res, tool))
         /\ ToolFailed(res, tool).status = "PARTIAL"
         /\ Fair(r, supersedes, results, ToolSucceeded(res, r, tool, degraded))
         /\ ToolSucceeded(res, r, tool, degraded).status = "PARTIAL"
<1>1. res \in Result /\ r \in 0..MaxRuns /\ r # 0
  BY StoreAssumption DEF Fair, Run
<1>2. /\ Fair(r, supersedes, results, ToolFailed(res, tool))
      /\ ToolFailed(res, tool).status = "PARTIAL"
  <2> DEFINE new == ToolFailed(res, tool)
             hit(p) == [status |-> IF res.content[tool] # 0 THEN "DEGRADED" ELSE "UNAVAILABLE",
                        from |-> res.part[p].from]
             part == [p \in Part |-> IF ToolOf[p] = tool THEN hit(p) ELSE res.part[p]]
  <2>1. ASSUME NEW p \in Part
        PROVE  part[p] = IF ToolOf[p] = tool THEN hit(p) ELSE res.part[p]
    BY <2>1
  <2>2. ASSUME NEW p \in Part
        PROVE  /\ hit(p) \in PartRow /\ hit(p).from = Origin(res, p)
               /\ hit(p).status = IF res.content[tool] # 0 THEN "DEGRADED" ELSE "UNAVAILABLE"
    BY <1>1, <2>2, PartsOf DEF PartRow, PartStatus, Shown, Origin
  <2>3. new = [res EXCEPT !.status = "PARTIAL", !.part = part]
    BY DEF ToolFailed
  <2> HIDE DEF new, hit
  <2>4. part \in [Part -> PartRow]
    BY <1>1, <2>1, <2>2, PartsOf
  <2> HIDE DEF part
  <2>5. Retold(new, "PARTIAL", res.content, part)
    BY <1>1, <2>3, <2>4, RetoldUpdate
  <2>6. ASSUME NEW p \in Part PROVE Honest(r, supersedes, results, new, p)
    <3>1. /\ Honest(r, supersedes, results, res, p)
          /\ Payload(new, p) = Payload(res, p)
          /\ new.part[p] = part[p]
      BY <2>5 DEF Fair, Retold, Payload
    <3>2. CASE ToolOf[p] = tool
      <4>1. Payload(res, p) = res.content[tool]
        BY <3>2 DEF Payload
      <4> QED
        BY <2>1, <2>2, <3>1, <3>2, <4>1 DEF Honest, Visible, Origin, Shown
    <3>3. CASE ToolOf[p] # tool
      BY <2>1, <3>1, <3>3 DEF Honest, Visible, Origin
    <3> QED
      BY <3>2, <3>3
  <2>7. Fair(r, supersedes, results, new) /\ new.status = "PARTIAL"
    BY <2>5, <2>6 DEF Fair, Retold
  <2> QED
    BY <2>7 DEF new
<1>3. /\ Fair(r, supersedes, results, ToolSucceeded(res, r, tool, degraded))
      /\ ToolSucceeded(res, r, tool, degraded).status = "PARTIAL"
  <2> DEFINE new == ToolSucceeded(res, r, tool, degraded)
             content == [res.content EXCEPT ![tool] = r]
             hit(p) == [status |-> IF p = "route" /\ degraded THEN "DEGRADED" ELSE "READY",
                        from |-> 0]
             part == [p \in Part |-> IF ToolOf[p] = tool THEN hit(p) ELSE res.part[p]]
  <2>1. ASSUME NEW p \in Part
        PROVE  part[p] = IF ToolOf[p] = tool THEN hit(p) ELSE res.part[p]
    BY <2>1
  <2>2. ASSUME NEW p \in Part
        PROVE  /\ hit(p) \in PartRow /\ hit(p).from = 0 /\ hit(p).status \in Shown
    BY StoreAssumption DEF PartRow, PartStatus, Shown
  <2>3. /\ content \in [Tool -> 0..MaxRuns]
        /\ \A t \in Tool : content[t] = IF t = tool THEN r ELSE res.content[t]
    BY <1>1 DEF Result
  <2>6. Retold(new, "PARTIAL", content, part)
    BY <1>1, RetoldContent
  <2> HIDE DEF new, hit, part, content
  <2>7. ASSUME NEW p \in Part PROVE Honest(r, supersedes, results, new, p)
    <3>1. /\ Honest(r, supersedes, results, res, p)
          /\ Payload(new, p) = IF ToolOf[p] = tool THEN r ELSE Payload(res, p)
          /\ new.part[p] = part[p]
      BY <1>1, <2>3, <2>6, PartsOf DEF Fair, Retold, Payload
    <3>2. CASE ToolOf[p] = tool
      BY <1>1, <2>1, <2>2, <3>1, <3>2 DEF Honest, Visible, Origin
    <3>3. CASE ToolOf[p] # tool
      BY <2>1, <3>1, <3>3 DEF Honest, Visible, Origin
    <3> QED
      BY <3>2, <3>3
  <2>8. Fair(r, supersedes, results, new) /\ new.status = "PARTIAL"
    BY <2>6, <2>7 DEF Fair, Retold
  <2> QED
    BY <2>8 DEF new
<1> QED
  BY <1>2, <1>3

\* build_initial_result
LEMMA InitialIsFair ==
  ASSUME NEW r, NEW previous \in 0..MaxRuns,
         previous # 0 => \E supersedes : Fair(previous, supersedes, result, result[previous])
  PROVE  /\ Fair(r, previous, result, Initial(previous))
         /\ Told("PENDING", Initial(previous))
<1>1. CASE previous = 0
  BY <1>1, NothingToShow DEF Initial, Terminal
<1>2. CASE previous # 0
  <2> DEFINE res == result[previous]
             marked(p) == [res.part[p] EXCEPT !.from = previous]
             part == [p \in Part |->
                        IF res.part[p].status \in Shown THEN marked(p) ELSE res.part[p]]
             new == Initial(previous)
  <2>1. PICK supersedes : Fair(previous, supersedes, result, res)
    BY <1>2
  <2>2. res \in Result
    BY <2>1 DEF Fair
  <2>3. ASSUME NEW p \in Part
        PROVE  part[p] = IF res.part[p].status \in Shown THEN marked(p) ELSE res.part[p]
    BY <2>3
  <2>4. ASSUME NEW p \in Part
        PROVE  /\ marked(p) \in PartRow /\ marked(p).from = previous
               /\ marked(p).status = res.part[p].status
    BY <2>2, <2>4, PartsOf DEF PartRow
  <2>5. new = [res EXCEPT !.status = "PARTIAL", !.part = part]
    BY <1>2 DEF Initial
  <2> HIDE DEF new, marked
  <2>6. part \in [Part -> PartRow]
    BY <2>2, <2>3, <2>4, PartsOf
  <2> HIDE DEF part
  <2>7. Retold(new, "PARTIAL", res.content, part)
    BY <2>2, <2>5, <2>6, RetoldUpdate
  <2>8. ASSUME NEW p \in Part PROVE Honest(r, previous, result, new, p)
    <3>1. /\ Honest(previous, supersedes, result, res, p)
          /\ Payload(new, p) = Payload(res, p)
          /\ new.part[p] = part[p]
      BY <2>1, <2>7 DEF Fair, Retold, Payload
    <3>2. CASE Visible(res, p)
      BY <1>2, <2>3, <2>4, <3>1, <3>2 DEF Honest, Visible, Origin
    <3>3. CASE ~Visible(res, p)
      BY <2>3, <3>1, <3>3 DEF Honest, Visible, Origin
    <3> QED
      BY <3>2, <3>3
  <2>9. Fair(r, previous, result, new) /\ new.status = "PARTIAL"
    BY <2>7, <2>8 DEF Fair, Retold
  <2> QED
    BY <2>9 DEF Told, Terminal, new
<1> QED
  BY <1>1, <1>2

\* What was true of a part stays true while the superseded result does.
LEMMA FairStays ==
  ASSUME NEW r, NEW supersedes, NEW results, NEW others, NEW res,
         Fair(r, supersedes, results, res),
         supersedes # 0 => others[supersedes] = results[supersedes]
  PROVE  Fair(r, supersedes, others, res)
BY DEF Fair, Honest

\* An unfinished Run may start, or be queued again, whatever its result says.
LEMMA ToldWhileOpen ==
  ASSUME NEW res, NEW old \in {"PENDING", "RUNNING"}, NEW new \in {"PENDING", "RUNNING"},
         Told(old, res)
  PROVE  Told(new, res)
BY DEF Told, Terminal

\* Every update of an unfinished Run by a Tool leaves the result unfinished.
LEMMA ToldPartial ==
  ASSUME NEW res, res.status = "PARTIAL", NEW status \in {"PENDING", "RUNNING"}
  PROVE  Told(status, res)
BY DEF Told, Terminal

-----------------------------------------------------------------------------
(* The status each transaction leaves *)

LEMMA ClosingStatus ==
  ASSUME NEW row \in Row, NEW status \in Terminal, NEW error \in ErrorCode \cup {NoError},
         NEW type \in TerminalEvent
  PROVE  Logged(Closed(row, status, error), type).status = status
<1> DEFINE closed == Closed(row, status, error)
<1>1. closed \in Row /\ closed.status = status
  BY DEF Closed, Row, Status
<1>2. type \in EventType
  BY DEF EventType
<1> HIDE DEF closed
<1>3. Logged(closed, type).status = status
  BY <1>1, <1>2, LoggedColumns
<1> QED
  BY <1>3 DEF closed

LEMMA AnsweredStatus ==
  ASSUME NEW row \in Row
  PROVE  Logged([Closed(row, "SUCCEEDED", NoError) EXCEPT !.answers = @ + 1],
                "RUN_SUCCEEDED").status = "SUCCEEDED"
<1>1. PICK closed : closed = Closed(row, "SUCCEEDED", NoError)
  OBVIOUS
<1>2. closed \in Row /\ closed.status = "SUCCEEDED"
  BY <1>1 DEF Closed, Row, Status, Terminal
<1> DEFINE answered == [closed EXCEPT !.answers = @ + 1]
<1>3. answered \in Row /\ answered.status = "SUCCEEDED"
  <2>1. PICK answers \in Nat : answers = closed.answers + 1
    BY <1>2 DEF Row
  <2>2. /\ [closed EXCEPT !.answers = answers] \in Row
        /\ [closed EXCEPT !.answers = answers].status = "SUCCEEDED"
    BY <1>2 DEF Row
  <2> QED
    BY <2>1, <2>2
<1>4. "RUN_SUCCEEDED" \in EventType
  BY DEF EventType, TerminalEvent
<1> HIDE DEF answered
<1>5. Logged(answered, "RUN_SUCCEEDED").status = "SUCCEEDED"
  BY <1>3, <1>4, LoggedColumns
<1> QED
  BY <1>1, <1>5 DEF answered

\* How a Run is cancelled or fails, whatever the transaction.
LEMMA GivenUpStatus ==
  ASSUME NEW row \in Row, NEW error \in ErrorCode
  PROVE  /\ Logged(Closed(row, "CANCELLED", "RUN_CANCELLED"), "RUN_CANCELLED").status
              = "CANCELLED"
         /\ Logged(Closed(row, "FAILED", error), "RUN_FAILED").status = "FAILED"
<1>1. /\ "CANCELLED" \in Terminal /\ "FAILED" \in Terminal
      /\ "RUN_CANCELLED" \in TerminalEvent /\ "RUN_FAILED" \in TerminalEvent
      /\ "RUN_CANCELLED" \in ErrorCode \cup {NoError} /\ error \in ErrorCode \cup {NoError}
  BY DEF Terminal, TerminalEvent, ErrorCode, WorkerError
<1> QED
  BY <1>1, ClosingStatus

LEMMA EndStatus ==
  ASSUME NEW row \in Row
  PROVE  /\ Swept(row).status \in {"FAILED", "CANCELLED"}
         /\ Completed(row).status = IF row.cancel_requested THEN "CANCELLED" ELSE "SUCCEEDED"
<1>1. "MAX_ATTEMPTS_EXCEEDED" \in ErrorCode
  BY DEF ErrorCode
<1>2. Swept(row).status \in {"FAILED", "CANCELLED"}
  BY <1>1, GivenUpStatus DEF Swept
<1>3. Completed(row).status = IF row.cancel_requested THEN "CANCELLED" ELSE "SUCCEEDED"
  BY <1>1, GivenUpStatus, AnsweredStatus DEF Completed
<1> QED
  BY <1>2, <1>3

LEMMA FailStatus ==
  ASSUME NEW row \in Row, NEW code \in WorkerError, NEW retryable \in BOOLEAN,
         NEW stall \in 0..MaxStall
  PROVE  Failed(row, code, retryable, stall).status \in {"PENDING", "FAILED", "CANCELLED"}
<1> DEFINE queued == [row EXCEPT !.status = "PENDING", !.error = code,
                                 !.retry = RetryLeft(stall), !.worker = NoWorker,
                                 !.lease = NoLease]
<1>1. RetryLeft(stall) \in 0..RetryTicks
  BY StoreAssumption DEF RetryLeft
<1>2. queued \in Row /\ queued.status = "PENDING"
  BY <1>1 DEF Row, Status, ErrorCode
<1>3. "RUN_RETRY_SCHEDULED" \in EventType
  BY DEF EventType
<1> HIDE DEF queued
<1>4. Logged(queued, "RUN_RETRY_SCHEDULED").status = "PENDING"
  BY <1>2, <1>3, LoggedColumns
<1>5. /\ Logged(Closed(row, "CANCELLED", "RUN_CANCELLED"), "RUN_CANCELLED").status = "CANCELLED"
      /\ Logged(Closed(row, "FAILED", code), "RUN_FAILED").status = "FAILED"
  BY GivenUpStatus DEF ErrorCode
<1>6. CASE row.cancel_requested
  BY <1>5, <1>6 DEF Failed
<1>7. CASE ~row.cancel_requested /\ retryable /\ row.attempt < MaxAttempts
  BY <1>4, <1>7 DEF Failed, queued
<1>8. CASE ~row.cancel_requested /\ ~(retryable /\ row.attempt < MaxAttempts)
  BY <1>5, <1>8 DEF Failed
<1>9. row.cancel_requested \in BOOLEAN
  BY DEF Row
<1> QED
  BY <1>6, <1>7, <1>8, <1>9

LEMMA OpenStatus ==
  ASSUME NEW row \in Row
  PROVE  /\ row.status = "PENDING" => CancelAsked(row).status = "CANCELLED"
         /\ row.status = "RUNNING" => CancelAsked(row).status = "RUNNING"
         /\ \A w \in Worker, stall \in 0..MaxStall : ClaimedBy(row, w, stall).status = "RUNNING"
         /\ \A type \in ProgressEvent : Logged(row, type).status = row.status
         /\ Aged(row).status = row.status
<1>1. /\ row.status = "PENDING" => CancelAsked(row).status = "CANCELLED"
      /\ row.status = "RUNNING" => CancelAsked(row).status = "RUNNING"
  BY DEF CancelAsked, Logged, Row
<1>2. \A w \in Worker, stall \in 0..MaxStall : ClaimedBy(row, w, stall).status = "RUNNING"
  BY DEF ClaimedBy, Logged, Row
<1>3. \A type \in ProgressEvent : Logged(row, type).status = row.status
  BY DEF Logged, Row
<1>4. Aged(row).status = row.status
  BY DEF Aged, Row
<1> QED
  BY <1>1, <1>2, <1>3, <1>4

-----------------------------------------------------------------------------
(* The transactions *)

LEMMA StoreKept == StoreInv /\ StepShape => StoreInv'
<1> SUFFICES ASSUME StoreInv, StepShape PROVE StoreInv'
  OBVIOUS
<1>1. \A r \in Run : RowInv(run'[r])
  BY RowStep DEF StoreInv, StepShape
<1>2. run' \in [Run -> Row]
  BY <1>1 DEF StepShape, RowInv
<1> QED
  BY <1>1, <1>2 DEF StoreInv, StepShape

\* What work on a Run that has not succeeded makes of its result.
WorkTells(r) ==
  /\ Fair(r, run[r].supersedes, result, result'[r])
  /\ Told(run'[r].status, result'[r])
  /\ run[r].status = "SUCCEEDED" \/ ~Present(run[r]) => result'[r] = result[r]

LEMMA WorkKeeps ==
  ASSUME ResultInv, WorkShape, result' = [r \in Run |-> result'[r]],
         \A r \in Run : WorkTells(r)
  PROVE  ResultInv'
<1>1. StoreInv' /\ ChainInv'
  <2>1. StepShape
    BY DEF WorkShape, StepShape, RowNext
  <2> QED
    BY <2>1, StoreKept, ChainWork DEF ResultInv
<1>2. ASSUME NEW r \in Run
      PROVE  /\ Fair(r, run'[r].supersedes, result', result'[r])
             /\ Told(run'[r].status, result'[r])
             /\ ~Present(run'[r]) => result'[r] = NoResult
  <2>1. Placed(run[r], run'[r])
    BY PlacedByWork DEF ResultInv, StoreInv, WorkShape
  <2>2. WorkTells(r)
    OBVIOUS
  <2>3. CASE ~Present(run[r])
    BY <2>1, <2>2, <2>3, NothingToShow DEF Placed, WorkTells, ResultInv
  <2>4. CASE Present(run[r])
    <3> DEFINE p == run[r].supersedes
    <3>1. p # 0 => p \in Run /\ run[p].status = "SUCCEEDED"
      BY <2>4, SupersededIsRun DEF ResultInv, ChainInv, RevisionChain
    <3>2. p # 0 => result'[p] = result[p]
      BY <3>1 DEF WorkTells
    <3> HIDE DEF p
    <3>3. Fair(r, p, result, result'[r])
      BY <2>2 DEF WorkTells, p
    <3>4. Fair(r, p, result', result'[r])
      BY <3>2, <3>3, FairStays
    <3> QED
      BY <2>1, <2>2, <2>4, <3>4 DEF Placed, WorkTells, p
  <2> QED
    BY <2>3, <2>4
<1> QED
  BY <1>1, <1>2 DEF ResultInv

\* A transaction that updates one row and its result.
LEMMA OneResult ==
  ASSUME ResultInv, NEW r \in Run, NEW new, NEW res,
         RowWork(run[r], new), run[r].status \in {"PENDING", "RUNNING"},
         sessions' = sessions, run' = [run EXCEPT ![r] = new],
         result' = [result EXCEPT ![r] = res],
         Fair(r, run[r].supersedes, result, res), Told(new.status, res)
  PROVE  ResultInv'
<1>1. StoreInv /\ DOMAIN run = Run /\ result = [q \in Run |-> result[q]]
  BY DEF ResultInv, StoreInv
<1>2. WorkShape
  BY <1>1, OneRowWork
<1>3. /\ DOMAIN result = Run
      /\ result' = [q \in Run |-> result'[q]]
  <2>1. DOMAIN result = Run
    BY <1>1
  <2> QED
    BY <2>1
<1>4. ASSUME NEW q \in Run
      PROVE  /\ run'[q] = IF q = r THEN new ELSE run[q]
             /\ result'[q] = IF q = r THEN res ELSE result[q]
  BY <1>1, <1>3
<1>5. ASSUME NEW q \in Run PROVE WorkTells(q)
  BY <1>4 DEF WorkTells, ResultInv, Present
<1> QED
  BY <1>2, <1>3, <1>5, WorkKeeps

\* Renewals and time
LEMMA ElapseKeeps ==
  ASSUME ResultInv, Elapse
  PROVE  ResultInv'
<1>1. StoreInv /\ result' = result /\ result' = [r \in Run |-> result'[r]]
  BY DEF ResultInv, Elapse
<1>2. WorkShape /\ \A r \in Run : run'[r].status = run[r].status
  <2>1. CASE Tick
    <3>1. WorkShape
      BY <2>1 DEF Tick, WorkShape, RowWork
    <3>2. \A r \in Run : run'[r].status = run[r].status
      BY <1>1, <2>1, OpenStatus DEF Tick, StoreInv
    <3> QED
      BY <3>1, <3>2
  <2>2. ASSUME NEW r \in Run, NEW w \in Worker, NEW stall \in 0..MaxStall, Renew(r, w, stall)
        PROVE  WorkShape /\ \A q \in Run : run'[q].status = run[q].status
    <3>1. WorkShape
      BY <1>1, <2>2, WorkerShape DEF WorkerNext
    <3>2. ASSUME NEW q \in Run PROVE run'[q].status = run[q].status
      <4>1. run' = [run EXCEPT ![r].lease = LeaseTicks - stall]
        BY <2>2 DEF Renew
      <4>2. run[q] \in Row /\ DOMAIN run = Run
        BY <1>1 DEF StoreInv
      <4> QED
        BY <4>1, <4>2 DEF Row
    <3> QED
      BY <3>1, <3>2
  <2> QED
    BY <2>1, <2>2 DEF Elapse
<1>3. \A r \in Run : WorkTells(r)
  BY <1>1, <1>2 DEF WorkTells, ResultInv
<1> QED
  BY <1>1, <1>2, <1>3, WorkKeeps

LEMMA CancelKeeps ==
  ASSUME ResultInv, NEW r \in Run, Cancel(r)
  PROVE  ResultInv'
<1> DEFINE new == CancelAsked(run[r])
           res == IF run[r].status = "PENDING" THEN FailedResult(result[r]) ELSE result[r]
<1>1. /\ run[r] \in Row /\ run[r].status \in {"PENDING", "RUNNING"}
      /\ Fair(r, run[r].supersedes, result, result[r]) /\ Told(run[r].status, result[r])
  BY DEF ResultInv, StoreInv, Cancel, RequestCancellation, CancelChanges
<1>2. /\ sessions' = sessions /\ run' = [run EXCEPT ![r] = new]
      /\ result' = [result EXCEPT ![r] = res]
  BY DEF Cancel, RequestCancellation
<1>3. RowWork(run[r], new)
  BY <1>1 DEF RowWork
<1>4. Fair(r, run[r].supersedes, result, res) /\ Told(new.status, res)
  <2>1. CASE run[r].status = "PENDING"
    BY <1>1, <2>1, OpenStatus, FailedIsFair
  <2>2. CASE run[r].status = "RUNNING"
    BY <1>1, <2>2, OpenStatus
  <2> QED
    BY <1>1, <2>1, <2>2
<1> HIDE DEF new, res
<1> QED
  BY <1>1, <1>2, <1>3, <1>4, OneResult

\* The worker that writes owns a RUNNING Run.
LEMMA OwnedRow ==
  ASSUME ResultInv, NEW r \in Run, NEW w \in Worker, Owns(run[r], w, MaxStall)
  PROVE  /\ run[r] \in Row /\ run[r].status = "RUNNING"
         /\ run[r].cancel_requested \in BOOLEAN
         /\ run = [run EXCEPT ![r] = run[r]]
         /\ Fair(r, run[r].supersedes, result, result[r])
         /\ Told(run[r].status, result[r])
BY DEF ResultInv, StoreInv, Owns, Row

LEMMA RecordToolKeeps ==
  ASSUME ResultInv, NEW r \in Run, NEW w \in Worker, NEW tool \in Tool,
         NEW succeeded \in BOOLEAN, NEW degraded \in BOOLEAN,
         RecordTool(r, w, tool, succeeded, degraded)
  PROVE  ResultInv'
<1> DEFINE res == IF succeeded THEN ToolSucceeded(result[r], r, tool, degraded)
                               ELSE ToolFailed(result[r], tool)
<1>1. Owns(run[r], w, MaxStall) /\ sessions' = sessions
  BY DEF RecordTool, Recorded, Progress, storeVars
<1>2. PICK new : /\ run' = [run EXCEPT ![r] = new]
                 /\ RowWork(run[r], new) /\ new.status = "RUNNING"
  <2>1. CASE UNCHANGED storeVars
    BY <1>1, <2>1, OwnedRow DEF storeVars, RowWork
  <2>2. ASSUME NEW type \in ProgressEvent, Progress(r, w, type)
        PROVE  /\ run' = [run EXCEPT ![r] = Logged(run[r], type)]
               /\ RowWork(run[r], Logged(run[r], type))
               /\ Logged(run[r], type).status = "RUNNING"
    BY <1>1, <2>2, OwnedRow, OpenStatus DEF Progress, RowWork
  <2> QED
    BY <2>1, <2>2 DEF RecordTool, Recorded
<1>3. result' = [result EXCEPT ![r] = res]
  BY DEF RecordTool
<1>4. Fair(r, run[r].supersedes, result, res) /\ res.status = "PARTIAL"
  BY <1>1, OwnedRow, ToolIsFair
<1> HIDE DEF res
<1>5. Told(new.status, res)
  BY <1>2, <1>4, ToldPartial
<1> QED
  BY <1>1, <1>2, <1>3, <1>4, <1>5, OwnedRow, OneResult

LEMMA AnswerKeeps ==
  ASSUME ResultInv, NEW r \in Run, NEW w \in Worker, NEW blank \in BOOLEAN,
         Answer(r, w, blank)
  PROVE  ResultInv'
<1> DEFINE new == Completed(run[r])
           res == IF run[r].cancel_requested THEN FailedResult(result[r])
                                             ELSE CompletedResult(result[r], blank)
<1>1. /\ Owns(run[r], w, MaxStall) /\ sessions' = sessions
      /\ run' = [run EXCEPT ![r] = new] /\ result' = [result EXCEPT ![r] = res]
  BY DEF Answer, Complete
<1>2. RowWork(run[r], new)
  BY <1>1, OwnedRow DEF RowWork
<1>3. Fair(r, run[r].supersedes, result, res) /\ Told(new.status, res)
  <2>1. CASE run[r].cancel_requested
    BY <1>1, <2>1, OwnedRow, EndStatus, FailedIsFair
  <2>2. CASE ~run[r].cancel_requested
    BY <1>1, <2>2, OwnedRow, EndStatus, CompletedIsFair
  <2> QED
    BY <2>1, <2>2
<1> HIDE DEF new, res
<1> QED
  BY <1>1, <1>2, <1>3, OwnedRow, OneResult

LEMMA GiveUpKeeps ==
  ASSUME ResultInv, NEW r \in Run, NEW w \in Worker, NEW code \in WorkerError,
         NEW retryable \in BOOLEAN, GiveUp(r, w, code, retryable)
  PROVE  ResultInv'
<1>1. PICK stall \in 0..MaxStall :
        run' = [run EXCEPT ![r] = Failed(run[r], code, retryable, stall)]
  BY DEF GiveUp, Fail
<1> DEFINE new == Failed(run[r], code, retryable, stall)
           res == IF new.status = "PENDING" THEN result[r] ELSE FailedResult(result[r])
<1>2. Owns(run[r], w, MaxStall) /\ sessions' = sessions
  BY DEF GiveUp, Fail
<1>3. RowWork(run[r], new)
  BY <1>2, OwnedRow DEF RowWork
<1>4. new.status \in {"PENDING", "FAILED", "CANCELLED"}
  BY <1>2, OwnedRow, FailStatus
<1> HIDE DEF new
<1>5. run'[r] = new
  BY <1>1 DEF new, ResultInv, StoreInv
<1>6. result' = [result EXCEPT ![r] = res]
  BY <1>5 DEF GiveUp
<1>7. Fair(r, run[r].supersedes, result, res) /\ Told(new.status, res)
  <2>1. CASE new.status = "PENDING"
    BY <1>2, <2>1, OwnedRow, ToldWhileOpen
  <2>2. CASE new.status \in {"FAILED", "CANCELLED"}
    BY <1>2, <2>2, OwnedRow, FailedIsFair
  <2> QED
    BY <1>4, <2>1, <2>2
<1> HIDE DEF res
<1> QED
  BY <1>1, <1>2, <1>3, <1>6, <1>7, OwnedRow, OneResult DEF new

\* claim_next_run ends, claims or leaves every Run.
LEMMA ClaimRows ==
  ASSUME StoreInv, NEW w \in Worker, NEW locked \in SUBSET Run,
         NEW pick \in Run \cup {0}, Claim(w, locked, pick), NEW r \in Run
  PROVE  \/ run'[r] = run[r]
         \/ Sweepable(run[r]) /\ run'[r] = Swept(run[r])
         \/ \E stall \in 0..MaxStall :
              Claimable(run[r]) /\ run'[r] = ClaimedBy(run[r], w, stall)
<1> DEFINE sweepable == {q \in Run \ locked : Sweepable(run[q])}
<1>1. PICK swept \in SUBSET sweepable, stall \in 0..MaxStall :
        run' = [q \in Run |-> CASE q \in swept -> Swept(run[q])
                                [] q = pick    -> ClaimedBy(run[q], w, stall)
                                [] OTHER       -> run[q]]
  BY DEF Claim
<1>2. r = pick => Claimable(run[r])
  <2>1. 0 \notin Run
    BY StoreAssumption DEF Run
  <2> QED
    BY <2>1 DEF Claim
<1>3. r \in swept => Sweepable(run[r]) /\ r # pick
  BY <1>2, SweepOrClaim DEF StoreInv
<1>4. CASE r \in swept
  <2>1. run'[r] = Swept(run[r])
    BY <1>1, <1>3, <1>4, Zenon
  <2> QED
    BY <1>3, <1>4, <2>1
<1>5. CASE r \notin swept /\ r = pick
  <2>1. run'[r] = ClaimedBy(run[r], w, stall)
    BY <1>1, <1>5
  <2> QED
    BY <1>2, <1>5, <2>1
<1>6. CASE r \notin swept /\ r # pick
  BY <1>1, <1>6
<1> QED
  BY <1>4, <1>5, <1>6

LEMMA ClaimKeeps ==
  ASSUME ResultInv, NEW w \in Worker, NEW locked \in SUBSET Run,
         NEW pick \in Run \cup {0}, ClaimAndSweep(w, locked, pick)
  PROVE  ResultInv'
<1>1. StoreInv /\ Claim(w, locked, pick)
  BY DEF ResultInv, ClaimAndSweep
<1>2. WorkShape
  BY <1>1, ClaimShape
<1>3. result' = [r \in Run |-> IF run[r].status = "RUNNING" /\ run'[r].status \in Terminal
                               THEN FailedResult(result[r]) ELSE result[r]]
  BY DEF ClaimAndSweep
<1>4. ASSUME NEW r \in Run PROVE WorkTells(r)
  <2>1. /\ run[r] \in Row
        /\ Fair(r, run[r].supersedes, result, result[r]) /\ Told(run[r].status, result[r])
    BY DEF ResultInv, StoreInv
  <2>2. CASE run'[r] = run[r]
    <3>1. result'[r] = result[r]
      BY <1>3, <2>2 DEF Terminal
    <3> QED
      BY <2>1, <2>2, <3>1 DEF WorkTells
  <2>3. CASE Sweepable(run[r]) /\ run'[r] = Swept(run[r])
    <3>1. run[r].status = "RUNNING" /\ run'[r].status \in {"FAILED", "CANCELLED"}
      BY <2>1, <2>3, EndStatus DEF Sweepable
    <3>2. result'[r] = FailedResult(result[r])
      BY <1>3, <3>1 DEF Terminal
    <3>3. /\ Fair(r, run[r].supersedes, result, FailedResult(result[r]))
          /\ Told(run'[r].status, FailedResult(result[r]))
      BY <2>1, <3>1, FailedIsFair
    <3> QED
      BY <3>1, <3>2, <3>3 DEF WorkTells, Present
  <2>4. ASSUME NEW stall \in 0..MaxStall, Claimable(run[r]),
               run'[r] = ClaimedBy(run[r], w, stall)
        PROVE  WorkTells(r)
    <3>1. run[r].status \in {"PENDING", "RUNNING"} /\ run'[r].status = "RUNNING"
      BY <2>1, <2>4, OpenStatus DEF Claimable
    <3>2. result'[r] = result[r]
      BY <1>3, <3>1 DEF Terminal
    <3>3. Told("RUNNING", result[r])
      BY <2>1, <3>1, ToldWhileOpen
    <3> QED
      BY <2>1, <3>1, <3>2, <3>3 DEF WorkTells
  <2> QED
    BY <1>1, <2>2, <2>3, <2>4, ClaimRows
<1>5. result' = [r \in Run |-> result'[r]]
  BY <1>3
<1> QED
  BY <1>2, <1>4, <1>5, WorkKeeps

LEMMA SubmitKeeps ==
  ASSUME ResultInv, NEW s \in Session, NEW r \in Run, Submit(s, r)
  PROVE  ResultInv'
<1>1. StoreInv /\ ChainInv /\ Enqueue(s, r) /\ DOMAIN result = Run
  BY DEF ResultInv, Submit
<1>2. StoreInv' /\ ChainInv'
  BY <1>1, EnqueueShape, StoreKept, ChainEnqueue
<1>3. PICK previous \in InSession(s) \cup {0} :
        Replaces(s, previous) /\ run' = [run EXCEPT ![r] = NewRun(s, previous)]
  BY <1>1 DEF Enqueue
<1>4. /\ run[r].status = "ABSENT"
      /\ previous \in 0..MaxRuns
      /\ previous # 0 => previous \in Run /\ previous # r
  BY <1>1, <1>3, StoreAssumption DEF Enqueue, InSession, Run, Present
<1>5. /\ run'[r].status = "PENDING" /\ run'[r].supersedes = previous
      /\ \A q \in Run \ {r} : run'[q] = run[q]
  BY <1>1, <1>3 DEF StoreInv, NewRun, Logged, NoRow
<1>6. result' = [result EXCEPT ![r] = Initial(previous)]
  BY <1>5 DEF Submit
<1>7. /\ result' = [q \in Run |-> result'[q]]
      /\ result'[r] = Initial(previous)
      /\ \A q \in Run \ {r} : result'[q] = result[q]
  BY <1>1, <1>6
<1>8. /\ Fair(r, previous, result', result'[r])
      /\ Told("PENDING", result'[r])
  <2>1. /\ Fair(r, previous, result, Initial(previous))
        /\ Told("PENDING", Initial(previous))
    BY <1>4, InitialIsFair DEF ResultInv
  <2>2. previous # 0 => result'[previous] = result[previous]
    BY <1>4, <1>7
  <2> QED
    BY <1>7, <2>1, <2>2, FairStays
<1>9. ASSUME NEW q \in Run \ {r}
      PROVE  Fair(q, run[q].supersedes, result', result[q])
  <2>1. CASE ~Present(run[q])
    BY <2>1, NothingToShow DEF ResultInv
  <2>2. CASE Present(run[q])
    <3> DEFINE p == run[q].supersedes
    <3>1. p # 0 => p \in Run /\ run[p].status = "SUCCEEDED"
      BY <1>1, <2>2, SupersededIsRun DEF ChainInv, RevisionChain
    <3>2. p # 0 => result'[p] = result[p]
      BY <1>4, <1>7, <3>1
    <3> HIDE DEF p
    <3>3. Fair(q, p, result, result[q])
      BY DEF ResultInv, p
    <3>4. Fair(q, p, result', result[q])
      BY <3>2, <3>3, FairStays
    <3> QED
      BY <3>4 DEF p
  <2> QED
    BY <2>1, <2>2
<1>10. ASSUME NEW q \in Run
       PROVE  /\ Fair(q, run'[q].supersedes, result', result'[q])
              /\ Told(run'[q].status, result'[q])
              /\ ~Present(run'[q]) => result'[q] = NoResult
  <2>1. CASE q = r
    BY <1>5, <1>8, <2>1 DEF Present
  <2>2. CASE q # r
    BY <1>5, <1>7, <1>9, <2>2 DEF ResultInv
  <2> QED
    BY <2>1, <2>2
<1> QED
  BY <1>2, <1>7, <1>10 DEF ResultInv

\* The superseded Run belongs to the same session: both results go together.
LEMMA DeleteKeeps ==
  ASSUME ResultInv, NEW s \in Session, Delete(s)
  PROVE  ResultInv'
<1>1. StoreInv /\ ChainInv /\ DeleteSession(s)
  BY DEF ResultInv, Delete
<1>2. StoreInv' /\ ChainInv'
  BY <1>1, DeleteShape, StoreKept, ChainDelete
<1>3. ASSUME NEW r \in Run
      PROVE  /\ run'[r] = IF r \in InSession(s) THEN NoRow("DELETED") ELSE run[r]
             /\ result'[r] = IF r \in InSession(s) THEN NoResult ELSE result[r]
  BY DEF Delete, DeleteSession
<1>4. result' = [r \in Run |-> result'[r]]
  BY DEF Delete
<1>5. ASSUME NEW r \in Run
      PROVE  /\ Fair(r, run'[r].supersedes, result', result'[r])
             /\ Told(run'[r].status, result'[r])
             /\ ~Present(run'[r]) => result'[r] = NoResult
  <2>1. CASE r \in InSession(s)
    <3>1. run'[r].status = "DELETED" /\ result'[r] = NoResult
      BY <1>3, <2>1 DEF NoRow
    <3> QED
      BY <3>1, NothingToShow DEF Terminal
  <2>2. CASE r \notin InSession(s) /\ ~Present(run[r])
    BY <1>3, <2>2, NothingToShow DEF ResultInv
  <2>3. CASE r \notin InSession(s) /\ Present(run[r])
    <3> DEFINE p == run[r].supersedes
    <3>1. p # 0 => p \in Run /\ run[p].session = run[r].session
      BY <1>1, <2>3, SupersededIsRun DEF ChainInv, RevisionChain
    <3>2. p # 0 => p \notin InSession(s)
      BY <2>3, <3>1 DEF InSession
    <3>3. p # 0 => result'[p] = result[p]
      BY <1>3, <3>1, <3>2
    <3> HIDE DEF p
    <3>4. Fair(r, p, result, result[r])
      BY DEF ResultInv, p
    <3>5. Fair(r, p, result', result[r])
      BY <3>3, <3>4, FairStays
    <3> QED
      BY <1>3, <2>3, <3>5 DEF ResultInv, p
  <2> QED
    BY <2>1, <2>2, <2>3
<1> QED
  BY <1>2, <1>4, <1>5 DEF ResultInv

-----------------------------------------------------------------------------
(* The invariant, and the properties the run checks *)

THEOREM ResultInvariant == ResultSpec => []ResultInv
<1>1. ResultInit => ResultInv
  <2> SUFFICES ASSUME ResultInit PROVE ResultInv
    OBVIOUS
  <2>1. StoreInv
    BY InvariantInit DEF ResultInit
  <2>2. \A r \in Run : run[r].status = "ABSENT" /\ result[r] = NoResult
    BY DEF ResultInit, StoreInit, NoRow
  <2>3. ChainInv
    BY <2>2 DEF ChainInv, RevisionChain, Present
  <2>4. result = [r \in Run |-> result[r]]
    BY DEF ResultInit
  <2> QED
    BY <2>1, <2>2, <2>3, <2>4, NothingToShow DEF ResultInv, Terminal
<1>2. ResultInv /\ [ResultNext]_resultVars => ResultInv'
  <2> SUFFICES ASSUME ResultInv, [ResultNext]_resultVars PROVE ResultInv'
    OBVIOUS
  <2>1. CASE UNCHANGED resultVars
    BY <2>1 DEF resultVars, storeVars, ResultInv, StoreInv, ChainInv, RevisionChain, InSession,
                Present
  <2>2. ASSUME NEW s \in Session, NEW r \in Run, Submit(s, r) PROVE ResultInv'
    BY <2>2, SubmitKeeps
  <2>3. ASSUME NEW s \in Session, Delete(s) PROVE ResultInv'
    BY <2>3, DeleteKeeps
  <2>4. ASSUME NEW r \in Run, Cancel(r) PROVE ResultInv'
    BY <2>4, CancelKeeps
  <2>5. ASSUME NEW w \in Worker, NEW locked \in SUBSET {r \in Run : Unfinished(r)},
               NEW pick \in {r \in Run : Unfinished(r)} \cup {0}, ClaimAndSweep(w, locked, pick)
        PROVE  ResultInv'
    BY <2>5, ClaimKeeps
  <2>6. ASSUME NEW r \in Run, NEW w \in Worker, NEW tool \in Tool, NEW succeeded \in BOOLEAN,
               NEW degraded \in BOOLEAN, RecordTool(r, w, tool, succeeded, degraded)
        PROVE  ResultInv'
    BY <2>6, RecordToolKeeps
  <2>7. ASSUME NEW r \in Run, NEW w \in Worker, NEW blank \in BOOLEAN, Answer(r, w, blank)
        PROVE  ResultInv'
    BY <2>7, AnswerKeeps
  <2>8. ASSUME NEW r \in Run, NEW w \in Worker, NEW code \in WorkerError,
               NEW retryable \in BOOLEAN, GiveUp(r, w, code, retryable)
        PROVE  ResultInv'
    BY <2>8, GiveUpKeeps
  <2>9. CASE Elapse
    BY <2>9, ElapseKeeps
  <2> QED
    BY <2>1, <2>2, <2>3, <2>4, <2>5, <2>6, <2>7, <2>8, <2>9 DEF ResultNext
<1> QED
  BY <1>1, <1>2, PTL DEF ResultSpec

\* A part is shown exactly when the payload it stands for is there.
THEOREM ShownCorrect == ResultSpec => []ShownIffContent
<1>1. ResultInv => ShownIffContent
  BY DEF ResultInv, Fair, Honest, Visible, Payload, ShownIffContent
<1> QED
  BY <1>1, ResultInvariant, PTL

\* inherited_from_run_id names the superseded Run exactly for what is its.
THEOREM ProvenanceCorrect == ResultSpec => []ProvenanceTrue
<1>1. ResultInv => ProvenanceTrue
  BY DEF ResultInv, Fair, Honest, Visible, Payload, Origin, ProvenanceTrue
<1> QED
  BY <1>1, ResultInvariant, PTL

\* The status of the result is the outcome of the Run.
THEOREM OutcomeCorrect == ResultSpec => []OutcomeTold
<1>1. ResultInv => OutcomeTold
  BY DEF ResultInv, Told, Visible, Origin, OutcomeTold
<1> QED
  BY <1>1, ResultInvariant, PTL

=============================================================================
