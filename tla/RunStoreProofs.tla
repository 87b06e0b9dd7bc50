--------------------------- MODULE RunStoreProofs ---------------------------
(***************************************************************************)
(* TLAPS proofs about RunStore, for every number of Runs, workers,         *)
(* sessions, attempts and every length of lease, retry delay and stall.    *)
(*                                                                         *)
(* Every property of a single Run follows from one inductive invariant of  *)
(* its row, RowInv.  Each transaction rewrites rows with one of seven row  *)
(* operators; a lemma per operator shows that it preserves RowInv under    *)
(* the guard of the transaction, and InvariantStep only has to say which   *)
(* operator each action applies to which rows.                             *)
(*                                                                         *)
(* What relates a Run to its past (the log as the ledger of the attempts)  *)
(* and to the other Runs of its session (the numbering of the plans) rests *)
(* on that invariant and on the same cases of a step.                      *)
(***************************************************************************)
EXTENDS RunStore, FiniteSetTheorems, TLAPS

-----------------------------------------------------------------------------
(* The inductive invariant *)

\* A Run still open has logged something, and nothing terminal.
LogOpen(row) ==
  /\ Len(row.events) > 0
  /\ \A i \in 1..Len(row.events) : row.events[i].type \notin TerminalEvent

\* A Run that ended has logged its terminal event last, and only then.
LogClosed(row) ==
  /\ Len(row.events) > 0
  /\ row.events[Len(row.events)].type = TerminalEventOf[row.status]
  /\ \A i \in 1..(Len(row.events) - 1) : row.events[i].type \notin TerminalEvent

\* What TypeOK lacks to be inductive is the second conjunct of RowQueued: the
\* claim of a PENDING Run increments attempt without looking at the budget.
RowQueued(row) ==
  row.status = "PENDING" =>
    /\ ~row.cancel_requested
    /\ row.attempt < MaxAttempts

RowLeased(row) ==
  /\ (row.status = "RUNNING") <=> (row.worker # NoWorker)
  /\ (row.worker # NoWorker) <=> (row.lease # NoLease)
  /\ row.finished <=> (row.status \in Terminal)

RowAnswered(row) ==
  row.answers = IF row.status = "SUCCEEDED" THEN 1 ELSE 0

RowCancelled(row) ==
  /\ row.cancel_requested => row.status \in {"RUNNING", "CANCELLED"}
  /\ row.status = "CANCELLED" => row.cancel_requested /\ row.error = "RUN_CANCELLED"

RowLogged(row) ==
  /\ row.status \in {"PENDING", "RUNNING"} => LogOpen(row)
  /\ row.status \in Terminal => LogClosed(row)
  /\ row.status \in {"ABSENT", "DELETED"} => row.events = <<>> /\ row.attempt = 0

RowInv(row) ==
  /\ row \in Row
  /\ RowQueued(row)
  /\ RowLeased(row)
  /\ RowAnswered(row)
  /\ RowCancelled(row)
  /\ RowLogged(row)

StoreInv ==
  /\ sessions \subseteq Session
  /\ run \in [Run -> Row]
  /\ \A r \in Run : RowInv(run[r])

-----------------------------------------------------------------------------
(* Row operators *)

\* Logged changes the log only, and only by one event at its end.
LEMMA LoggedEffect ==
  ASSUME NEW row \in Row, NEW type \in EventType
  PROVE  LET new == Logged(row, type) IN
         /\ new \in Row
         /\ new = [row EXCEPT !.events = new.events]
         /\ Len(new.events) = Len(row.events) + 1
         /\ new.events[Len(row.events) + 1].type = type
         /\ \A i \in 1..Len(row.events) : new.events[i] = row.events[i]
<1> DEFINE event == [type |-> type, attempt |-> row.attempt]
<1>1. row.events \in Seq(Event) /\ event \in Event
  BY DEF Row, Event
<1>2. Append(row.events, event) \in Seq(Event)
  BY <1>1
<1>3. /\ Len(Append(row.events, event)) = Len(row.events) + 1
      /\ Append(row.events, event)[Len(row.events) + 1] = event
      /\ \A i \in 1..Len(row.events) : Append(row.events, event)[i] = row.events[i]
  BY <1>1
<1>4. /\ Logged(row, type) = [row EXCEPT !.events = Append(row.events, event)]
      /\ Logged(row, type).events = Append(row.events, event)
  BY DEF Logged, Row
<1>5. Logged(row, type) \in Row
  BY <1>2, <1>4 DEF Row
<1> HIDE DEF event
<1>6. event.type = type
  BY DEF event
<1> QED
  BY <1>3, <1>4, <1>5, <1>6

\* Every column but the log keeps its value.
LEMMA LoggedColumns ==
  ASSUME NEW row \in Row, NEW type \in EventType
  PROVE  LET new == Logged(row, type) IN
         /\ new.status = row.status
         /\ new.session = row.session
         /\ new.cancel_requested = row.cancel_requested
         /\ new.worker = row.worker
         /\ new.lease = row.lease
         /\ new.retry = row.retry
         /\ new.attempt = row.attempt
         /\ new.error = row.error
         /\ new.finished = row.finished
         /\ new.revision = row.revision
         /\ new.supersedes = row.supersedes
         /\ new.answers = row.answers
BY DEF Logged, Row

\* A log without a terminal event stays open under any other event.
LEMMA LogStaysOpen ==
  ASSUME NEW row \in Row, NEW type \in EventType \ TerminalEvent,
         \A i \in 1..Len(row.events) : row.events[i].type \notin TerminalEvent
  PROVE  LogOpen(Logged(row, type))
<1>1. row.events \in Seq(Event)
  BY DEF Row
<1>2. Len(row.events) \in Nat
  BY <1>1
<1> QED
  BY <1>2, LoggedEffect DEF LogOpen

\* A log without a terminal event is closed by the event of the status.
LEMMA LogCloses ==
  ASSUME NEW row \in Row, row.status \in Terminal,
         \A i \in 1..Len(row.events) : row.events[i].type \notin TerminalEvent
  PROVE  /\ TerminalEventOf[row.status] \in EventType
         /\ LogClosed(Logged(row, TerminalEventOf[row.status]))
<1>1. row.events \in Seq(Event)
  BY DEF Row
<1>2. Len(row.events) \in Nat
  BY <1>1
<1>3. TerminalEventOf[row.status] \in EventType
  BY DEF TerminalEventOf, Terminal, EventType, TerminalEvent
<1> DEFINE new == Logged(row, TerminalEventOf[row.status])
<1>4. new.status = row.status
  BY <1>3, LoggedColumns
<1>5. /\ Len(new.events) = Len(row.events) + 1
      /\ new.events[Len(row.events) + 1].type = TerminalEventOf[row.status]
      /\ \A i \in 1..Len(row.events) : new.events[i] = row.events[i]
  BY <1>3, LoggedEffect
<1> HIDE DEF new
<1>6. LogClosed(new)
  BY <1>2, <1>4, <1>5 DEF LogClosed
<1> QED
  BY <1>3, <1>6 DEF new

\* Closing an open row and logging its terminal event is a correct ending;
\* the answer counter may only have been raised by the success branch.
LEMMA ClosingKeepsInv ==
  ASSUME NEW row, RowInv(row), row.status = "RUNNING",
         NEW status \in Terminal, NEW error \in ErrorCode \cup {NoError},
         NEW answers \in Nat,
         answers = IF status = "SUCCEEDED" THEN 1 ELSE 0,
         row.cancel_requested <=> status = "CANCELLED",
         status = "CANCELLED" => error = "RUN_CANCELLED"
  PROVE  RowInv(Logged([Closed(row, status, error) EXCEPT !.answers = answers],
                       TerminalEventOf[status]))
<1> DEFINE closed == [Closed(row, status, error) EXCEPT !.answers = answers]
           new == Logged(closed, TerminalEventOf[status])
<1>1. row \in Row /\ LogOpen(row)
  BY DEF RowInv, RowLogged
<1>2. /\ closed \in Row
      /\ closed.status = status
      /\ closed.cancel_requested = row.cancel_requested
      /\ closed.worker = NoWorker
      /\ closed.lease = NoLease
      /\ closed.error = error
      /\ closed.finished = TRUE
      /\ closed.answers = answers
      /\ closed.events = row.events
  BY <1>1 DEF Closed, Row, Status
<1>3. \A i \in 1..Len(closed.events) : closed.events[i].type \notin TerminalEvent
  BY <1>1, <1>2 DEF LogOpen
<1> HIDE DEF closed
<1>4. TerminalEventOf[status] \in EventType /\ LogClosed(new)
  BY <1>2, <1>3, LogCloses
<1>5. new \in Row
  BY <1>2, <1>4, LoggedEffect
<1>6. /\ new.status = status
      /\ new.cancel_requested = row.cancel_requested
      /\ new.worker = NoWorker
      /\ new.lease = NoLease
      /\ new.error = error
      /\ new.finished = TRUE
      /\ new.answers = answers
  BY <1>2, <1>4, LoggedColumns
<1> HIDE DEF new
<1>7. RowQueued(new) /\ RowLogged(new)
  BY <1>4, <1>6 DEF RowQueued, RowLogged, Terminal
<1>8. RowLeased(new)
  BY <1>6 DEF RowLeased, Terminal
<1>9. RowAnswered(new) /\ RowCancelled(new)
  BY <1>6 DEF RowAnswered, RowCancelled
<1>10. RowInv(new)
  BY <1>5, <1>7, <1>8, <1>9 DEF RowInv
<1> QED
  BY <1>10 DEF new, closed

-----------------------------------------------------------------------------
(* One lemma per transaction: its row operator preserves RowInv *)

LEMMA NoRowInv ==
  ASSUME NEW status \in {"ABSENT", "DELETED"}
  PROVE  RowInv(NoRow(status))
<1> DEFINE row == NoRow(status)
<1>1. <<>> \in Seq(Event)
  OBVIOUS
<1>2. row \in Row
  BY <1>1, StoreAssumption DEF NoRow, Row, Status
<1>3. /\ row.status = status /\ row.cancel_requested = FALSE
      /\ row.worker = NoWorker /\ row.lease = NoLease /\ row.attempt = 0
      /\ row.finished = FALSE /\ row.answers = 0 /\ row.events = <<>>
  BY DEF NoRow
<1> HIDE DEF row
<1>4. RowQueued(row) /\ RowLeased(row) /\ RowAnswered(row)
  BY <1>3 DEF RowQueued, RowLeased, RowAnswered, Terminal
<1>5. RowCancelled(row) /\ RowLogged(row)
  BY <1>3 DEF RowCancelled, RowLogged, Terminal
<1>6. RowInv(row)
  BY <1>2, <1>4, <1>5 DEF RowInv
<1> QED
  BY <1>6 DEF row

\* enqueue_message: the row is inserted with its first event.
LEMMA EnqueuedInv ==
  ASSUME NEW s \in Session, NEW revision \in 0..MaxRuns, NEW previous \in 0..MaxRuns
  PROVE  RowInv(Logged([NoRow("PENDING") EXCEPT !.session = s,
                                               !.revision = revision,
                                               !.supersedes = previous],
                       "RUN_QUEUED"))
<1> DEFINE row == [NoRow("PENDING") EXCEPT !.session = s,
                                           !.revision = revision,
                                           !.supersedes = previous]
           new == Logged(row, "RUN_QUEUED")
<1>1. <<>> \in Seq(Event) /\ Len(<<>>) = 0
  OBVIOUS
<1>2. row \in Row
  <2>1. NoRow("PENDING") \in Row
    BY <1>1, StoreAssumption DEF NoRow, Row, Status
  <2> QED
    BY <2>1 DEF Row
<1>3. /\ row.status = "PENDING" /\ row.cancel_requested = FALSE
      /\ row.worker = NoWorker /\ row.lease = NoLease /\ row.attempt = 0
      /\ row.finished = FALSE /\ row.answers = 0 /\ row.events = <<>>
  BY DEF NoRow
<1> HIDE DEF row
<1>4. "RUN_QUEUED" \in EventType \ TerminalEvent
  BY DEF EventType, TerminalEvent
<1>5. LogOpen(new)
  BY <1>1, <1>2, <1>3, <1>4, LogStaysOpen
<1>6. new \in Row
  BY <1>2, <1>4, LoggedEffect
<1>7. /\ new.status = "PENDING" /\ new.cancel_requested = FALSE
      /\ new.worker = NoWorker /\ new.lease = NoLease /\ new.attempt = 0
      /\ new.finished = FALSE /\ new.answers = 0
  BY <1>2, <1>3, <1>4, LoggedColumns
<1> HIDE DEF new
<1>8. RowQueued(new) /\ RowLeased(new) /\ RowAnswered(new)
  BY <1>7, StoreAssumption DEF RowQueued, RowLeased, RowAnswered, Terminal
<1>9. RowCancelled(new) /\ RowLogged(new)
  BY <1>5, <1>7 DEF RowCancelled, RowLogged, Terminal
<1>10. RowInv(new)
  BY <1>6, <1>8, <1>9 DEF RowInv
<1> QED
  BY <1>10 DEF new, row

\* An event of a RUNNING Run that is not a terminal one.
LEMMA ProgressInv ==
  ASSUME NEW row, RowInv(row), row.status = "RUNNING",
         NEW type \in EventType \ TerminalEvent
  PROVE  RowInv(Logged(row, type))
<1> DEFINE new == Logged(row, type)
<1>1. row \in Row /\ LogOpen(row)
  BY DEF RowInv, RowLogged
<1>2. LogOpen(new)
  BY <1>1, LogStaysOpen DEF LogOpen
<1>3. new \in Row
  BY <1>1, LoggedEffect
<1>4. /\ new.status = row.status /\ new.cancel_requested = row.cancel_requested
      /\ new.worker = row.worker /\ new.lease = row.lease
      /\ new.attempt = row.attempt /\ new.finished = row.finished
      /\ new.error = row.error /\ new.answers = row.answers
  BY <1>1, LoggedColumns
<1> HIDE DEF new
<1>5. RowQueued(new) /\ RowLeased(new) /\ RowAnswered(new)
  BY <1>4 DEF RowInv, RowQueued, RowLeased, RowAnswered
<1>6. RowCancelled(new) /\ RowLogged(new)
  BY <1>2, <1>4 DEF RowInv, RowCancelled, RowLogged, Terminal
<1>7. RowInv(new)
  BY <1>3, <1>5, <1>6 DEF RowInv
<1> QED
  BY <1>7 DEF new

\* complete_run
LEMMA CompletedInv ==
  ASSUME NEW row, RowInv(row), row.status = "RUNNING"
  PROVE  RowInv(Completed(row))
<1>1. row \in Row /\ row.answers = 0
  BY DEF RowInv, RowAnswered
<1>2. CASE row.cancel_requested
  <2>1. RowInv(Logged([Closed(row, "CANCELLED", "RUN_CANCELLED") EXCEPT !.answers = 0],
                      TerminalEventOf["CANCELLED"]))
    BY <1>2, ClosingKeepsInv DEF Terminal, ErrorCode, WorkerError
  <2>2. [Closed(row, "CANCELLED", "RUN_CANCELLED") EXCEPT !.answers = 0]
          = Closed(row, "CANCELLED", "RUN_CANCELLED")
    BY <1>1 DEF Closed, Row
  <2> QED
    BY <1>2, <2>1, <2>2 DEF Completed, TerminalEventOf
<1>3. CASE ~row.cancel_requested
  <2>1. RowInv(Logged([Closed(row, "SUCCEEDED", NoError) EXCEPT !.answers = 1],
                      TerminalEventOf["SUCCEEDED"]))
    BY <1>3, ClosingKeepsInv DEF Terminal
  <2>2. Closed(row, "SUCCEEDED", NoError).answers = 0
    BY <1>1 DEF Closed, Row
  <2>3. Closed(row, "SUCCEEDED", NoError).answers + 1 = 1
    BY <2>2
  <2> QED
    BY <1>3, <2>1, <2>3 DEF Completed, TerminalEventOf
<1> QED
  BY <1>2, <1>3

\* Ending a RUNNING Run without an answer, by failure or by cancellation.
LEMMA ClosedInv ==
  ASSUME NEW row, RowInv(row), row.status = "RUNNING",
         NEW status \in {"FAILED", "CANCELLED"}, NEW error \in ErrorCode,
         row.cancel_requested <=> status = "CANCELLED",
         status = "CANCELLED" => error = "RUN_CANCELLED"
  PROVE  RowInv(Logged(Closed(row, status, error), TerminalEventOf[status]))
<1>1. row \in Row /\ row.answers = 0
  BY DEF RowInv, RowAnswered
<1>2. RowInv(Logged([Closed(row, status, error) EXCEPT !.answers = 0],
                    TerminalEventOf[status]))
  BY ClosingKeepsInv DEF Terminal
<1>3. [Closed(row, status, error) EXCEPT !.answers = 0] = Closed(row, status, error)
  BY <1>1 DEF Closed, Row
<1> QED
  BY <1>2, <1>3

\* _mark_terminal_expired_runs
LEMMA SweptInv ==
  ASSUME NEW row, RowInv(row), Sweepable(row)
  PROVE  RowInv(Swept(row))
<1>1. row.status = "RUNNING" /\ row.cancel_requested \in BOOLEAN
  BY DEF Sweepable, RowInv, Row
<1>2. CASE row.cancel_requested
  BY <1>1, <1>2, ClosedInv DEF Swept, TerminalEventOf, ErrorCode, WorkerError
<1>3. CASE ~row.cancel_requested
  BY <1>1, <1>3, ClosedInv DEF Swept, TerminalEventOf, ErrorCode, WorkerError
<1> QED
  BY <1>2, <1>3

\* fail_run: the retry branch is where RowQueued is earned.
LEMMA FailedInv ==
  ASSUME NEW row, RowInv(row), row.status = "RUNNING",
         NEW code \in WorkerError, NEW retryable \in BOOLEAN, NEW stall \in 0..MaxStall
  PROVE  RowInv(Failed(row, code, retryable, stall))
<1>1. /\ row \in Row /\ row.cancel_requested \in BOOLEAN
      /\ row.answers = 0 /\ row.finished = FALSE
      /\ LogOpen(row)
  BY DEF RowInv, RowAnswered, RowLeased, RowLogged, Row, Terminal
<1>2. CASE row.cancel_requested
  BY <1>1, <1>2, ClosedInv DEF Failed, TerminalEventOf, ErrorCode, WorkerError
<1>3. CASE ~row.cancel_requested /\ retryable /\ row.attempt < MaxAttempts
  <2> DEFINE queued == [row EXCEPT !.status = "PENDING", !.error = code,
                                   !.retry = RetryLeft(stall), !.worker = NoWorker,
                                   !.lease = NoLease]
             new == Logged(queued, "RUN_RETRY_SCHEDULED")
  <2>a. RetryLeft(stall) \in 0..RetryTicks /\ row.cancel_requested = FALSE
    BY <1>1, <1>3, StoreAssumption DEF RetryLeft
  <2>b. queued \in Row
    BY <1>1, <2>a DEF Row, Status, ErrorCode
  <2>1. /\ queued \in Row
        /\ queued.status = "PENDING" /\ queued.cancel_requested = FALSE
        /\ queued.worker = NoWorker /\ queued.lease = NoLease
        /\ queued.attempt = row.attempt /\ queued.finished = FALSE
        /\ queued.answers = 0 /\ queued.events = row.events
    BY <1>1, <2>a, <2>b DEF Row
  <2> HIDE DEF queued
  <2>2. "RUN_RETRY_SCHEDULED" \in EventType \ TerminalEvent
    BY DEF EventType, TerminalEvent
  <2>3. LogOpen(new)
    BY <1>1, <2>1, <2>2, LogStaysOpen DEF LogOpen
  <2>4. new \in Row
    BY <2>1, <2>2, LoggedEffect
  <2>5. /\ new.status = "PENDING" /\ new.cancel_requested = FALSE
        /\ new.worker = NoWorker /\ new.lease = NoLease
        /\ new.attempt = row.attempt /\ new.finished = FALSE
        /\ new.answers = 0
    BY <2>1, <2>2, LoggedColumns
  <2> HIDE DEF new
  <2>6. RowQueued(new) /\ RowLeased(new) /\ RowAnswered(new)
    BY <1>3, <2>5 DEF RowQueued, RowLeased, RowAnswered, Terminal
  <2>7. RowCancelled(new) /\ RowLogged(new)
    BY <2>3, <2>5 DEF RowCancelled, RowLogged, Terminal
  <2>8. RowInv(new)
    BY <2>4, <2>6, <2>7 DEF RowInv
  <2> QED
    BY <1>3, <2>8 DEF Failed, new, queued
<1>4. CASE ~row.cancel_requested /\ ~(retryable /\ row.attempt < MaxAttempts)
  <2>1. RowInv(Logged(Closed(row, "FAILED", code), "RUN_FAILED"))
    BY <1>4, ClosedInv DEF TerminalEventOf, ErrorCode
  <2> QED
    BY <1>4, <2>1 DEF Failed
<1> QED
  BY <1>1, <1>2, <1>3, <1>4

\* request_cancellation
LEMMA CancelAskedInv ==
  ASSUME NEW row, RowInv(row), row.status \in {"PENDING", "RUNNING"}
  PROVE  RowInv(CancelAsked(row))
<1>1. row \in Row /\ LogOpen(row) /\ row.answers = 0
  BY DEF RowInv, RowLogged, RowAnswered
<1>2. CASE row.status = "RUNNING"
  <2> DEFINE marked == [row EXCEPT !.cancel_requested = TRUE]
  <2>1. /\ marked \in Row
        /\ marked.status = "RUNNING" /\ marked.worker = row.worker
        /\ marked.lease = row.lease /\ marked.finished = row.finished
        /\ marked.answers = row.answers /\ marked.events = row.events
    BY <1>1, <1>2 DEF Row
  <2> HIDE DEF marked
  <2>2. RowQueued(marked) /\ RowLeased(marked) /\ RowAnswered(marked)
    BY <1>2, <2>1 DEF RowInv, RowQueued, RowLeased, RowAnswered
  <2>3. RowCancelled(marked) /\ RowLogged(marked)
    BY <1>1, <2>1 DEF RowCancelled, RowLogged, LogOpen, Terminal
  <2>4. RowInv(marked)
    BY <2>1, <2>2, <2>3 DEF RowInv
  <2>5. "CANCELLATION_REQUESTED" \in EventType \ TerminalEvent
    BY DEF EventType, TerminalEvent
  <2>6. RowInv(Logged(marked, "CANCELLATION_REQUESTED"))
    BY <2>1, <2>4, <2>5, ProgressInv
  <2> QED
    BY <1>2, <2>6 DEF CancelAsked, marked
<1>3. CASE row.status = "PENDING"
  <2> DEFINE ended == [row EXCEPT !.cancel_requested = TRUE, !.status = "CANCELLED",
                                  !.error = "RUN_CANCELLED", !.finished = TRUE]
             new == Logged(ended, "RUN_CANCELLED")
  <2>1. row.worker = NoWorker /\ row.lease = NoLease
    BY <1>3 DEF RowInv, RowLeased
  <2>a. ended \in Row
    BY <1>1 DEF Row, Status, Terminal, ErrorCode, WorkerError
  <2>2. /\ ended \in Row
        /\ ended.status = "CANCELLED" /\ ended.cancel_requested = TRUE
        /\ ended.error = "RUN_CANCELLED" /\ ended.finished = TRUE
        /\ ended.worker = NoWorker /\ ended.lease = NoLease
        /\ ended.answers = 0 /\ ended.events = row.events
    BY <1>1, <2>1, <2>a DEF Row
  <2> HIDE DEF ended
  <2>3. TerminalEventOf[ended.status] = "RUN_CANCELLED" /\ ended.status \in Terminal
    BY <2>2 DEF TerminalEventOf, Terminal
  <2>4. "RUN_CANCELLED" \in EventType /\ LogClosed(new)
    BY <1>1, <2>2, <2>3, LogCloses DEF LogOpen
  <2>5. new \in Row
    BY <2>2, <2>4, LoggedEffect
  <2>6. /\ new.status = "CANCELLED" /\ new.cancel_requested = TRUE
        /\ new.error = "RUN_CANCELLED" /\ new.finished = TRUE
        /\ new.worker = NoWorker /\ new.lease = NoLease /\ new.answers = 0
    BY <2>2, <2>4, LoggedColumns
  <2> HIDE DEF new
  <2>7. RowQueued(new) /\ RowLeased(new) /\ RowAnswered(new)
    BY <2>6 DEF RowQueued, RowLeased, RowAnswered, Terminal
  <2>8. RowCancelled(new) /\ RowLogged(new)
    BY <2>4, <2>6 DEF RowCancelled, RowLogged, Terminal
  <2>9. RowInv(new)
    BY <2>5, <2>7, <2>8 DEF RowInv
  <2> QED
    BY <1>3, <2>9 DEF CancelAsked, new, ended
<1> QED
  BY <1>2, <1>3

\* claim_next_run: RowQueued keeps the incremented attempt inside the budget.
LEMMA ClaimedInv ==
  ASSUME NEW row, RowInv(row), Claimable(row), NEW w \in Worker, NEW stall \in 0..MaxStall
  PROVE  RowInv(ClaimedBy(row, w, stall))
<1> DEFINE left == LeaseTicks - stall
           started == [row EXCEPT !.status = "RUNNING", !.worker = w,
                                  !.lease = left, !.retry = 0,
                                  !.attempt = @ + 1, !.finished = FALSE]
<1>1. /\ row \in Row /\ row.status \in {"PENDING", "RUNNING"}
      /\ row.attempt \in 0..MaxAttempts /\ row.attempt < MaxAttempts
      /\ ~row.cancel_requested /\ LogOpen(row) /\ row.answers = 0
  BY DEF RowInv, RowQueued, RowLogged, RowAnswered, Claimable, Row
<1>2. row.attempt + 1 \in 0..MaxAttempts
  BY <1>1, StoreAssumption
<1>3. left \in -MaxStall..LeaseTicks /\ w # NoWorker /\ left # NoLease
  BY StoreAssumption
<1>a. 0 \in 0..RetryTicks
  BY StoreAssumption
<1> HIDE DEF left
<1>b. started \in Row
  <2> DEFINE owned == [row EXCEPT !.status = "RUNNING", !.worker = w,
                                  !.finished = FALSE]
  <2>1. owned \in Row
    BY <1>1 DEF Row, Status
  <2>2. [owned EXCEPT !.lease = left, !.retry = 0,
                      !.attempt = row.attempt + 1] \in Row
    BY <2>1, <1>2, <1>3, <1>a DEF Row
  <2>3. started = [owned EXCEPT !.lease = left, !.retry = 0,
                                !.attempt = row.attempt + 1]
    BY <1>1 DEF Row
  <2> QED
    BY <2>2, <2>3
<1>4. /\ started \in Row
      /\ started.status = "RUNNING" /\ started.worker = w
      /\ started.lease = left /\ started.finished = FALSE
      /\ started.cancel_requested = row.cancel_requested
      /\ started.answers = 0 /\ started.events = row.events
  BY <1>1, <1>b DEF Row
<1>5. ClaimedBy(row, w, stall) = Logged(started, StartOf(row))
  BY DEF ClaimedBy, left
<1> HIDE DEF started
<1>6. RowQueued(started) /\ RowLeased(started) /\ RowAnswered(started)
  BY <1>3, <1>4 DEF RowQueued, RowLeased, RowAnswered, Terminal
<1>7. RowCancelled(started) /\ RowLogged(started)
  BY <1>1, <1>4 DEF RowCancelled, RowLogged, LogOpen, Terminal
<1>8. RowInv(started)
  BY <1>4, <1>6, <1>7 DEF RowInv
<1>9. StartOf(row) \in EventType \ TerminalEvent
  BY DEF StartOf, EventType, StartEvent, TerminalEvent
<1> QED
  BY <1>4, <1>5, <1>8, <1>9, ProgressInv

\* Moving the timers of a row, as renew_lease and the clock do.
LEMMA RetimedInv ==
  ASSUME NEW row, RowInv(row),
         NEW lease \in (-MaxStall..LeaseTicks) \cup {NoLease},
         NEW retry \in 0..RetryTicks,
         lease = NoLease <=> row.lease = NoLease
  PROVE  RowInv([row EXCEPT !.lease = lease, !.retry = retry])
<1> DEFINE new == [row EXCEPT !.lease = lease, !.retry = retry]
<1>1. row \in Row
  BY DEF RowInv
<1>2. /\ new \in Row
      /\ new.status = row.status /\ new.cancel_requested = row.cancel_requested
      /\ new.worker = row.worker /\ new.attempt = row.attempt
      /\ new.lease = lease
      /\ new.error = row.error /\ new.finished = row.finished
      /\ new.answers = row.answers /\ new.events = row.events
  BY <1>1 DEF Row
<1> HIDE DEF new
<1>3. RowQueued(new) /\ RowLeased(new) /\ RowAnswered(new)
  BY <1>2 DEF RowInv, RowQueued, RowLeased, RowAnswered
<1>4. RowCancelled(new) /\ RowLogged(new)
  BY <1>2 DEF RowInv, RowCancelled, RowLogged, LogOpen, LogClosed
<1>5. RowInv(new)
  BY <1>2, <1>3, <1>4 DEF RowInv
<1> QED
  BY <1>5 DEF new

-----------------------------------------------------------------------------
(* What one transaction can do to one row *)

\* Everything but the insertion and the deletion of the row.
RowWork(old, new) ==
  \/ new = old
  \/ new = Aged(old)
  \/ old.status \in {"PENDING", "RUNNING"} /\ new = CancelAsked(old)
  \/ Sweepable(old) /\ new = Swept(old)
  \/ Claimable(old) /\ \E w \in Worker, stall \in 0..MaxStall : new = ClaimedBy(old, w, stall)
  \/ \E stall \in 0..MaxStall :
       /\ old.status = "RUNNING" /\ old.lease # NoLease
       /\ new = [old EXCEPT !.lease = LeaseTicks - stall]
  \/ old.status = "RUNNING" /\ \E type \in ProgressEvent : new = Logged(old, type)
  \/ old.status = "RUNNING" /\ new = Completed(old)
  \/ /\ old.status = "RUNNING"
     /\ \E code \in WorkerError, retryable \in BOOLEAN, stall \in 0..MaxStall :
          new = Failed(old, code, retryable, stall)

RowNext(old, new) ==
  \/ RowWork(old, new)
  \/ /\ old.status = "ABSENT"
     /\ \E s \in Session, revision, previous \in 0..MaxRuns :
          new = Logged([NoRow("PENDING") EXCEPT !.session = s,
                                                !.revision = revision,
                                                !.supersedes = previous],
                       "RUN_QUEUED")
  \/ Present(old) /\ new = NoRow("DELETED")

\* A step that neither submits a Run nor deletes a session works on the rows.
WorkShape ==
  /\ sessions' = sessions
  /\ run' = [r \in Run |-> run'[r]]
  /\ \A r \in Run : RowWork(run[r], run'[r])

\* A step rewrites every row by RowNext, and creates no session.
StepShape ==
  /\ sessions' \subseteq sessions
  /\ run' = [r \in Run |-> run'[r]]
  /\ \A r \in Run : RowNext(run[r], run'[r])

LEMMA OneRow ==
  ASSUME StoreInv, NEW r \in Run, NEW new, RowNext(run[r], new),
         run' = [run EXCEPT ![r] = new], sessions' \subseteq sessions
  PROVE  StepShape
<1>1. DOMAIN run = Run
  BY DEF StoreInv
<1>2. run' = [q \in Run |-> run'[q]]
  BY <1>1
<1>3. \A q \in Run : run'[q] = IF q = r THEN new ELSE run[q]
  BY <1>1
<1>4. \A q \in Run : RowNext(run[q], run[q])
  BY DEF RowNext, RowWork
<1> QED
  BY <1>2, <1>3, <1>4 DEF StepShape

\* One row is worked on, as most transactions do.
LEMMA OneRowWork ==
  ASSUME StoreInv, NEW r \in Run, NEW new, RowWork(run[r], new),
         run' = [run EXCEPT ![r] = new], sessions' = sessions
  PROVE  WorkShape
<1>1. DOMAIN run = Run
  BY DEF StoreInv
<1>2. run' = [q \in Run |-> run'[q]]
  BY <1>1
<1>3. \A q \in Run : run'[q] = IF q = r THEN new ELSE run[q]
  BY <1>1
<1>4. \A q \in Run : RowWork(run[q], run[q])
  BY DEF RowWork
<1> QED
  BY <1>2, <1>3, <1>4 DEF WorkShape

\* The count behind plan_revision leaves room for the Run being inserted.
LEMMA RevisionInRange ==
  ASSUME StoreInv, NEW s, NEW r \in Run, run[r].status = "ABSENT"
  PROVE  Cardinality(InSession(s)) + 1 \in 0..MaxRuns
<1>1. InSession(s) \subseteq Run \ {r}
  BY DEF InSession, Present
<1>2. IsFiniteSet(Run) /\ Cardinality(Run) = MaxRuns
  BY StoreAssumption, FS_Interval DEF Run
<1>3. IsFiniteSet(Run \ {r}) /\ Cardinality(Run \ {r}) = MaxRuns - 1
  BY <1>2, FS_RemoveElement
<1>4. /\ Cardinality(InSession(s)) <= MaxRuns - 1
      /\ IsFiniteSet(InSession(s))
  BY <1>1, <1>3, FS_Subset
<1>5. Cardinality(InSession(s)) \in Nat
  BY <1>4, FS_CardinalityType
<1> QED
  BY <1>4, <1>5, StoreAssumption


LEMMA EnqueueShape ==
  ASSUME StoreInv, NEW s \in Session, NEW r \in Run, Enqueue(s, r)
  PROVE  StepShape
<1>1. PICK previous \in InSession(s) \cup {0} : run' = [run EXCEPT ![r] = NewRun(s, previous)]
  BY DEF Enqueue
<1>2. previous \in 0..MaxRuns
  BY StoreAssumption DEF InSession, Run
<1>3. /\ Cardinality(InSession(s)) + 1 \in 0..MaxRuns
      /\ run[r].status = "ABSENT" /\ sessions' = sessions
  BY RevisionInRange DEF Enqueue
<1>4. RowNext(run[r], NewRun(s, previous))
  BY <1>2, <1>3 DEF RowNext, NewRun
<1> QED
  BY <1>1, <1>3, <1>4, OneRow

LEMMA DeleteShape ==
  ASSUME StoreInv, NEW s \in Session, DeleteSession(s)
  PROVE  StepShape
BY DEF DeleteSession, StepShape, RowNext, RowWork, InSession

LEMMA CancellationShape ==
  ASSUME StoreInv, NEW r \in Run, RequestCancellation(r)
  PROVE  WorkShape
<1>1. /\ run' = [run EXCEPT ![r] = CancelAsked(run[r])] /\ sessions' = sessions
      /\ RowWork(run[r], CancelAsked(run[r]))
  BY DEF RequestCancellation, CancelChanges, RowWork
<1> QED
  BY <1>1, OneRowWork

\* The sweep and the claim of one transaction never meet on a row.
LEMMA SweepOrClaim ==
  ASSUME NEW row, RowInv(row), Sweepable(row)
  PROVE  ~Claimable(row)
BY StoreAssumption DEF Sweepable, Claimable, RowInv, Row

LEMMA ClaimShape ==
  ASSUME StoreInv, NEW w \in Worker, NEW locked \in SUBSET Run,
         NEW pick \in Run \cup {0}, Claim(w, locked, pick)
  PROVE  WorkShape
<1> DEFINE sweepable == {r \in Run \ locked : Sweepable(run[r])}
<1>1. PICK swept \in SUBSET sweepable, stall \in 0..MaxStall :
        run' = [r \in Run |-> CASE r \in swept -> Swept(run[r])
                                [] r = pick    -> ClaimedBy(run[r], w, stall)
                                [] OTHER       -> run[r]]
  BY DEF Claim
<1>2. \A r \in Run : r = pick => Claimable(run[r])
  <2>1. 0 \notin Run
    BY StoreAssumption DEF Run
  <2> QED
    BY <2>1 DEF Claim
<1>3. ASSUME NEW r \in Run PROVE RowWork(run[r], run'[r])
  <2>1. CASE r \in swept
    <3>1. Sweepable(run[r])
      BY <2>1
    <3>2. r # pick
      BY <1>2, <3>1, SweepOrClaim DEF StoreInv
    <3>3. run'[r] = Swept(run[r])
      BY <1>1, <2>1, <3>2, Zenon
    <3> QED
      BY <3>1, <3>3 DEF RowWork
  <2>2. CASE r \notin swept /\ r = pick
    <3>1. run'[r] = ClaimedBy(run[r], w, stall)
      BY <1>1, <2>2
    <3> QED
      BY <1>2, <2>2, <3>1 DEF RowWork
  <2>3. CASE r \notin swept /\ r # pick
    <3>1. run'[r] = run[r]
      BY <1>1, <2>3
    <3> QED
      BY <3>1 DEF RowWork
  <2> QED
    BY <2>1, <2>2, <2>3
<1>4. sessions' = sessions
  BY DEF Claim
<1>5. run' = [r \in Run |-> run'[r]]
  BY <1>1
<1> QED
  BY <1>3, <1>4, <1>5 DEF WorkShape

LEMMA WorkerShape == StoreInv /\ WorkerNext => WorkShape
<1> SUFFICES ASSUME StoreInv, WorkerNext PROVE WorkShape
  OBVIOUS
<1>1. ASSUME NEW r \in Run, NEW w \in Worker, NEW stall \in 0..MaxStall, Renew(r, w, stall)
      PROVE  WorkShape
  <2> DEFINE new == [run[r] EXCEPT !.lease = LeaseTicks - stall]
  <2>1. run' = [run EXCEPT ![r] = new] /\ sessions' = sessions
    BY <1>1 DEF Renew, Renewable
  <2>2. RowWork(run[r], new)
    BY <1>1 DEF Renew, Renewable, RowWork
  <2> QED
    BY <2>1, <2>2, OneRowWork
<1>2. ASSUME NEW r \in Run, NEW w \in Worker, NEW type \in ProgressEvent,
             Progress(r, w, type)
      PROVE  WorkShape
  <2>1. /\ run' = [run EXCEPT ![r] = Logged(run[r], type)] /\ sessions' = sessions
        /\ RowWork(run[r], Logged(run[r], type))
    BY <1>2 DEF Progress, Owns, RowWork
  <2> QED
    BY <2>1, OneRowWork
<1>3. ASSUME NEW r \in Run, NEW w \in Worker, Complete(r, w) PROVE WorkShape
  <2>1. /\ run' = [run EXCEPT ![r] = Completed(run[r])] /\ sessions' = sessions
        /\ RowWork(run[r], Completed(run[r]))
    BY <1>3 DEF Complete, Owns, RowWork
  <2> QED
    BY <2>1, OneRowWork
<1>4. ASSUME NEW r \in Run, NEW w \in Worker, NEW code \in WorkerError,
             NEW retryable \in BOOLEAN, Fail(r, w, code, retryable)
      PROVE  WorkShape
  <2>1. PICK stall \in 0..MaxStall :
          run' = [run EXCEPT ![r] = Failed(run[r], code, retryable, stall)]
    BY <1>4 DEF Fail
  <2>2. sessions' = sessions /\ run[r].status = "RUNNING"
    BY <1>4 DEF Fail, Owns
  <2>3. RowWork(run[r], Failed(run[r], code, retryable, stall))
    BY <2>2 DEF RowWork
  <2> QED
    BY <2>1, <2>2, <2>3, OneRowWork
<1> QED
  BY <1>1, <1>2, <1>3, <1>4, ClaimShape DEF WorkerNext

\* What a step does: it submits, deletes, or works on rows.
LEMMA StepCases ==
  ASSUME StoreInv, [StoreNext]_storeVars
  PROVE  \/ \E s \in Session, r \in Run : Enqueue(s, r)
         \/ \E s \in Session : DeleteSession(s)
         \/ WorkShape
<1>1. Tick => WorkShape
  BY DEF Tick, WorkShape, RowWork
<1>2. UNCHANGED storeVars => WorkShape
  BY DEF StoreInv, storeVars, WorkShape, RowWork
<1> QED
  BY <1>1, <1>2, CancellationShape, WorkerShape DEF StoreNext, ClientNext

LEMMA EveryStep == StoreInv /\ [StoreNext]_storeVars => StepShape
<1>1. WorkShape => StepShape
  BY DEF WorkShape, StepShape, RowNext
<1> QED
  BY <1>1, StepCases, EnqueueShape, DeleteShape

-----------------------------------------------------------------------------
(* The invariant *)

LEMMA RowStep ==
  ASSUME NEW old, NEW new, RowInv(old), RowNext(old, new)
  PROVE  RowInv(new)
<1>1. old \in Row
  BY DEF RowInv
<1>2. CASE new = Aged(old)
  <2> DEFINE lease == IF old.lease # NoLease /\ old.lease > -MaxStall
                      THEN old.lease - 1 ELSE old.lease
             retry == IF old.retry > 0 THEN old.retry - 1 ELSE 0
  <2>1. /\ old.lease \in (-MaxStall..LeaseTicks) \cup {NoLease}
        /\ old.retry \in 0..RetryTicks
    BY <1>1 DEF Row
  <2>2. /\ lease \in (-MaxStall..LeaseTicks) \cup {NoLease}
        /\ lease = NoLease <=> old.lease = NoLease
        /\ retry \in 0..RetryTicks
    BY <2>1, StoreAssumption
  <2>3. new = [old EXCEPT !.lease = lease, !.retry = retry]
    BY <1>2 DEF Aged
  <2> HIDE DEF lease, retry
  <2>4. RowInv([old EXCEPT !.lease = lease, !.retry = retry])
    BY <2>2, RetimedInv
  <2> QED
    BY <2>3, <2>4
<1>3. ASSUME NEW stall \in 0..MaxStall, old.status = "RUNNING", old.lease # NoLease,
             new = [old EXCEPT !.lease = LeaseTicks - stall]
      PROVE  RowInv(new)
  <2>1. /\ LeaseTicks - stall \in -MaxStall..LeaseTicks
        /\ LeaseTicks - stall # NoLease
    BY StoreAssumption
  <2>2. old.retry \in 0..RetryTicks
    BY <1>1 DEF Row
  <2>3. RowInv([old EXCEPT !.lease = LeaseTicks - stall, !.retry = old.retry])
    BY <1>3, <2>1, <2>2, RetimedInv
  <2>4. [old EXCEPT !.lease = LeaseTicks - stall, !.retry = old.retry] = new
    BY <1>1, <1>3 DEF Row
  <2> QED
    BY <2>3, <2>4
<1>4. ASSUME NEW type \in ProgressEvent, old.status = "RUNNING", new = Logged(old, type)
      PROVE  RowInv(new)
  <2>1. type \in EventType \ TerminalEvent
    BY StoreAssumption DEF EventType, TerminalEvent
  <2> QED
    BY <1>4, <2>1, ProgressInv
<1>5. NoRow("DELETED") = new => RowInv(new)
  BY NoRowInv
<1> QED
  BY <1>2, <1>3, <1>4, <1>5, EnqueuedInv, CancelAskedInv, SweptInv, ClaimedInv,
     CompletedInv, FailedInv DEF RowNext, RowWork

LEMMA InvariantInit == StoreInit => StoreInv
<1> SUFFICES ASSUME StoreInit PROVE StoreInv
  OBVIOUS
<1>1. RowInv(NoRow("ABSENT")) /\ NoRow("ABSENT") \in Row
  BY NoRowInv DEF RowInv
<1>2. sessions \subseteq Session /\ run = [r \in Run |-> NoRow("ABSENT")]
  BY DEF StoreInit
<1> QED
  BY <1>1, <1>2 DEF StoreInv

LEMMA InvariantStep == StoreInv /\ [StoreNext]_storeVars => StoreInv'
<1> SUFFICES ASSUME StoreInv, StepShape PROVE StoreInv'
  BY EveryStep
<1>1. \A r \in Run : RowInv(run'[r])
  BY RowStep DEF StoreInv, StepShape
<1>2. \A r \in Run : run'[r] \in Row
  BY <1>1 DEF RowInv
<1>3. run' \in [Run -> Row]
  BY <1>2 DEF StepShape
<1> QED
  BY <1>1, <1>3 DEF StoreInv, StepShape

\* In every reachable state every row satisfies the row invariant.
THEOREM Invariant == StoreSpec => []StoreInv
BY InvariantInit, InvariantStep, PTL DEF StoreSpec

-----------------------------------------------------------------------------
(* The invariants the runs check *)

\* Type correctness: in particular attempt never exceeds MaxAttempts.
THEOREM TypeCorrect == StoreSpec => []TypeOK
<1>1. StoreInv => TypeOK
  BY DEF StoreInv, TypeOK
<1> QED
  BY <1>1, Invariant, PTL

\* No unfinished Run becomes invisible to both the claim and the sweep.
THEOREM NoStranded == StoreSpec => []NoStrandedRun
<1>1. ASSUME StoreInv, NEW r \in Run, run[r].status \in {"PENDING", "RUNNING"}
      PROVE  Claimable(Elapsed(run[r])) \/ Sweepable(Elapsed(run[r]))
  <2> DEFINE old == run[r]
             new == Elapsed(old)
  <2>1. RowInv(old) /\ old \in Row
    BY <1>1 DEF StoreInv
  <2>2. /\ new.status = old.status /\ new.cancel_requested = old.cancel_requested
        /\ new.attempt = old.attempt /\ new.retry = 0
        /\ new.lease = IF old.lease = NoLease THEN NoLease ELSE -MaxStall
    BY <2>1 DEF Elapsed, Row
  <2>3. /\ old.attempt \in Int /\ old.cancel_requested \in BOOLEAN
        /\ old.status = "PENDING" => ~old.cancel_requested
        /\ old.status = "RUNNING" => old.lease # NoLease
    BY <2>1 DEF RowInv, RowQueued, RowLeased, Row
  <2> HIDE DEF new, old
  <2>4. old.status = "PENDING" => Claimable(new)
    BY <2>2, <2>3 DEF Claimable
  <2>5. old.status = "RUNNING" => Claimable(new) \/ Sweepable(new)
    <3>1. old.status = "RUNNING" => LeaseExpired(new)
      BY <2>2, <2>3, StoreAssumption DEF LeaseExpired
    <3> QED
      BY <2>2, <2>3, <3>1, StoreAssumption DEF Sweepable, Claimable
  <2> QED
    BY <1>1, <2>4, <2>5 DEF new, old
<1>2. StoreInv => NoStrandedRun
  BY <1>1 DEF NoStrandedRun
<1> QED
  BY <1>2, Invariant, PTL

\* The lease columns and finished_at agree with the status.
THEOREM LeaseCorrect == StoreSpec => []LeaseMatchesStatus
<1>1. StoreInv => LeaseMatchesStatus
  BY DEF StoreInv, RowInv, RowLeased, LeaseMatchesStatus
<1> QED
  BY <1>1, Invariant, PTL

\* At most one answer, exactly when the Run SUCCEEDED.
THEOREM AnswerOnce == StoreSpec => []AnswerIffSucceeded
<1>1. StoreInv => AnswerIffSucceeded
  BY DEF StoreInv, RowInv, RowAnswered, AnswerIffSucceeded
<1> QED
  BY <1>1, Invariant, PTL

\* A requested cancellation is never followed by another outcome.
THEOREM CancellationHonoured == StoreSpec => []CancellationWins
<1>1. StoreInv => CancellationWins
  BY DEF StoreInv, RowInv, RowCancelled, CancellationWins
<1> QED
  BY <1>1, Invariant, PTL

\* The terminal event is the last one and names the status.
THEOREM LogCorrect == StoreSpec => []LogClosesWithRun
<1>1. ASSUME NEW row, RowInv(row)
      PROVE  /\ \A i \in 1..(Len(row.events) - 1) : row.events[i].type \notin TerminalEvent
             /\ row.status \in Terminal =>
                  /\ Len(row.events) > 0
                  /\ row.events[Len(row.events)].type = TerminalEventOf[row.status]
             /\ (Present(row) /\ row.status \notin Terminal) =>
                  /\ Len(row.events) > 0
                  /\ row.events[Len(row.events)].type \notin TerminalEvent
  <2>1. row.status \in Status /\ row.events \in Seq(Event) /\ RowLogged(row)
    BY <1>1 DEF RowInv, Row
  <2>2. Len(row.events) \in Nat /\ Len(<<>>) = 0
    BY <2>1
  <2>3. CASE row.status \in {"ABSENT", "DELETED"}
    BY <2>1, <2>2, <2>3 DEF RowLogged, Present, Terminal
  <2>4. CASE row.status \in {"PENDING", "RUNNING"}
    BY <2>1, <2>2, <2>4 DEF RowLogged, LogOpen, Terminal
  <2>5. CASE row.status \in Terminal
    BY <2>1, <2>2, <2>5 DEF RowLogged, LogClosed
  <2> QED
    BY <2>1, <2>3, <2>4, <2>5 DEF Status
<1>2. StoreInv => LogClosesWithRun
  BY <1>1 DEF StoreInv, LogClosesWithRun
<1> QED
  BY <1>2, Invariant, PTL

-----------------------------------------------------------------------------
(* Action properties *)

\* A row that ended changes only by ageing or by deletion.
LEMMA EndedRow ==
  ASSUME NEW old, NEW new, RowInv(old), RowNext(old, new), old.status \in Terminal
  PROVE  new = [old EXCEPT !.retry = new.retry] \/ new.status = "DELETED"
<1>1. /\ old \in Row /\ old.lease = NoLease
      /\ old.status \notin {"ABSENT", "PENDING", "RUNNING"}
  BY DEF RowInv, RowLeased, Terminal
<1>2. CASE new = old
  BY <1>1, <1>2 DEF Row
<1>3. CASE new = Aged(old)
  BY <1>1, <1>3 DEF Aged, Row
<1>4. CASE new = NoRow("DELETED")
  BY <1>4 DEF NoRow
<1> QED
  BY <1>1, <1>2, <1>3, <1>4 DEF RowNext, RowWork, Sweepable, Claimable

\* A Run that ended never changes again.
THEOREM EndIsFinal == StoreSpec => TerminalIsFinal
<1>1. StoreInv /\ [StoreNext]_storeVars =>
        [\A r \in Run : run[r].status \in Terminal =>
           \/ run'[r] = [run[r] EXCEPT !.retry = run'[r].retry]
           \/ run'[r].status = "DELETED"]_storeVars
  BY EveryStep, EndedRow DEF StepShape, StoreInv
<1> QED
  BY <1>1, Invariant, PTL DEF StoreSpec, TerminalIsFinal

\* attempt grows only by a claim, and a claim takes no Run under a lease.
LEMMA TakeoverRow ==
  ASSUME NEW old, NEW new, RowInv(old), RowNext(old, new), new.attempt > old.attempt
  PROVE  ~LeaseActive(old) /\ new.attempt = old.attempt + 1 /\ new.worker # NoWorker
<1>1. old \in Row /\ old.attempt \in Nat
  BY StoreAssumption DEF RowInv, Row
<1>2. ASSUME NEW w \in Worker, NEW stall \in 0..MaxStall, Claimable(old),
             new = ClaimedBy(old, w, stall)
      PROVE  ~LeaseActive(old) /\ new.attempt = old.attempt + 1 /\ new.worker # NoWorker
  <2>1. /\ old.status = "PENDING" => old.lease = NoLease
        /\ old.lease \in Int \cup {NoLease}
    BY DEF RowInv, RowLeased, Row
  <2>2. ~LeaseActive(old)
    BY <1>2, <2>1, StoreAssumption DEF LeaseActive, LeaseExpired, Claimable
  <2>3. new.attempt = old.attempt + 1 /\ new.worker = w
    BY <1>1, <1>2 DEF ClaimedBy, Logged, Row
  <2> QED
    BY <2>2, <2>3, StoreAssumption
<1>3. new = Aged(old) => new.attempt = old.attempt
  BY <1>1 DEF Aged, Row
<1>4. ASSUME old.status = "ABSENT", NEW s \in Session,
             NEW revision \in 0..MaxRuns, NEW previous \in 0..MaxRuns,
             new = Logged([NoRow("PENDING") EXCEPT !.session = s,
                                                   !.revision = revision,
                                                   !.supersedes = previous],
                          "RUN_QUEUED")
      PROVE  new.attempt = 0
  BY <1>4 DEF Logged, NoRow
<1>5. new = NoRow("DELETED") => new.attempt = 0
  BY DEF NoRow
<1>6. new = CancelAsked(old) => new.attempt = old.attempt
  BY <1>1 DEF CancelAsked, Logged, Row
<1>7. new = Swept(old) => new.attempt = old.attempt
  BY <1>1 DEF Swept, Closed, Logged, Row
<1>8. new = Completed(old) => new.attempt = old.attempt
  BY <1>1 DEF Completed, Closed, Logged, Row
<1>9. ASSUME NEW code, NEW retryable, NEW stall, new = Failed(old, code, retryable, stall)
      PROVE  new.attempt = old.attempt
  <2>1. CASE old.cancel_requested
    BY <1>1, <1>9, <2>1 DEF Failed, Closed, Logged, Row
  <2>2. CASE ~old.cancel_requested /\ retryable /\ old.attempt < MaxAttempts
    BY <1>1, <1>9, <2>2 DEF Failed, Closed, Logged, Row
  <2>3. CASE ~old.cancel_requested /\ ~(retryable /\ old.attempt < MaxAttempts)
    BY <1>1, <1>9, <2>3 DEF Failed, Closed, Logged, Row
  <2> QED
    BY <2>1, <2>2, <2>3
<1>10. \A type : new = Logged(old, type) => new.attempt = old.attempt
  BY <1>1 DEF Logged, Row
<1>11. \A stall \in 0..MaxStall :
         new = [old EXCEPT !.lease = LeaseTicks - stall] => new.attempt = old.attempt
  BY <1>1 DEF Row
<1>12. ~(new.attempt = 0) /\ ~(new.attempt = old.attempt) /\ ~(new = old)
  BY <1>1
<1>13. /\ Claimable(old)
       /\ \E w \in Worker, stall \in 0..MaxStall : new = ClaimedBy(old, w, stall)
  BY <1>3, <1>4, <1>5, <1>6, <1>7, <1>8, <1>9, <1>10, <1>11, <1>12, Zenon DEF RowNext, RowWork
<1> QED
  BY <1>2, <1>13

\* Nobody takes over a Run under a valid lease; each takeover costs one attempt.
THEOREM TakeoverCorrect == StoreSpec => TakeoverAfterExpiry
<1>1. StoreInv /\ [StoreNext]_storeVars =>
        [\A r \in Run :
           run'[r].attempt > run[r].attempt =>
             /\ ~LeaseActive(run[r])
             /\ run'[r].attempt = run[r].attempt + 1
             /\ run'[r].worker # NoWorker]_storeVars
  BY EveryStep, TakeoverRow DEF StepShape, StoreInv
<1> QED
  BY <1>1, Invariant, PTL DEF StoreSpec, TakeoverAfterExpiry

-----------------------------------------------------------------------------
(* Refinement of the client's contract *)

\* What RowNext means for the three columns the client sees.
SameView(old, new) ==
  /\ new.status = old.status
  /\ new.cancel_requested = old.cancel_requested
  /\ new.attempt = old.attempt

RowContract(old, new) ==
  \/ SameView(old, new)
  \/ old.status = "ABSENT" /\ SameView([old EXCEPT !.status = "PENDING"], new)
  \/ /\ old.status \in {"PENDING", "RUNNING"} /\ ~old.cancel_requested
     /\ old.attempt < MaxAttempts
     /\ SameView([old EXCEPT !.status = "RUNNING", !.attempt = old.attempt + 1], new)
  \/ /\ old.status = "RUNNING" /\ ~old.cancel_requested /\ old.attempt < MaxAttempts
     /\ SameView([old EXCEPT !.status = "PENDING"], new)
  \/ /\ old.status = "RUNNING" /\ ~old.cancel_requested
     /\ \E ended \in {"SUCCEEDED", "FAILED"} : SameView([old EXCEPT !.status = ended], new)
  \/ /\ old.status = "PENDING"
     /\ SameView([old EXCEPT !.status = "CANCELLED", !.cancel_requested = TRUE], new)
  \/ /\ old.status = "RUNNING"
     /\ SameView([old EXCEPT !.cancel_requested = TRUE], new)
  \/ /\ old.status = "RUNNING" /\ old.cancel_requested
     /\ SameView([old EXCEPT !.status = "CANCELLED"], new)
  \/ /\ Present(old)
     /\ new.status = "DELETED" /\ new.cancel_requested = FALSE /\ new.attempt = 0

LEMMA ContractRow ==
  ASSUME NEW old, NEW new, RowInv(old), RowNext(old, new)
  PROVE  RowContract(old, new)
<1>1. old \in Row /\ old.attempt \in Nat /\ old.cancel_requested \in BOOLEAN
  BY StoreAssumption DEF RowInv, Row
<1>2. new = old \/ new = Aged(old) => SameView(old, new)
  BY <1>1 DEF Aged, SameView, Row
<1>3. ASSUME old.status = "ABSENT", NEW s \in Session,
             NEW revision \in 0..MaxRuns, NEW previous \in 0..MaxRuns,
             new = Logged([NoRow("PENDING") EXCEPT !.session = s,
                                                   !.revision = revision,
                                                   !.supersedes = previous],
                          "RUN_QUEUED")
      PROVE  RowContract(old, new)
  <2>1. old.cancel_requested = FALSE
    BY <1>1, <1>3 DEF RowInv, RowCancelled
  <2>2. old.attempt = 0
    BY <1>3 DEF RowInv, RowLogged
  <2>3. SameView([old EXCEPT !.status = "PENDING"], new)
    BY <1>1, <1>3, <2>1, <2>2 DEF SameView, Logged, NoRow, Row
  <2> QED
    BY <1>3, <2>3 DEF RowContract
<1>4. Present(old) /\ new = NoRow("DELETED") => RowContract(old, new)
  BY DEF RowContract, NoRow
<1>5. ASSUME old.status \in {"PENDING", "RUNNING"}, new = CancelAsked(old)
      PROVE  RowContract(old, new)
  <2>1. CASE old.status = "PENDING"
    <3>1. SameView([old EXCEPT !.status = "CANCELLED", !.cancel_requested = TRUE], new)
      BY <1>1, <1>5, <2>1 DEF CancelAsked, Logged, SameView, Row
    <3> QED
      BY <2>1, <3>1 DEF RowContract
  <2>2. CASE old.status = "RUNNING"
    <3>1. SameView([old EXCEPT !.cancel_requested = TRUE], new)
      BY <1>1, <1>5, <2>2 DEF CancelAsked, Logged, SameView, Row
    <3> QED
      BY <2>2, <3>1 DEF RowContract
  <2> QED
    BY <1>5, <2>1, <2>2
<1>6. ASSUME old.status = "RUNNING", NEW status \in {"SUCCEEDED", "FAILED", "CANCELLED"},
             new.status = status, new.attempt = old.attempt,
             new.cancel_requested = old.cancel_requested,
             old.cancel_requested <=> status = "CANCELLED"
      PROVE  RowContract(old, new)
  <2>1. SameView([old EXCEPT !.status = status], new)
    BY <1>1, <1>6 DEF SameView, Row
  <2> QED
    BY <1>6, <2>1 DEF RowContract
<1>7. ASSUME Sweepable(old), new = Swept(old) PROVE RowContract(old, new)
  <2>1. /\ new.status = IF old.cancel_requested THEN "CANCELLED" ELSE "FAILED"
        /\ new.attempt = old.attempt /\ new.cancel_requested = old.cancel_requested
    BY <1>1, <1>7 DEF Swept, Closed, Logged, Row
  <2> QED
    BY <1>1, <1>6, <1>7, <2>1 DEF Sweepable
<1>8. ASSUME old.status = "RUNNING", new = Completed(old) PROVE RowContract(old, new)
  <2>1. /\ new.status = IF old.cancel_requested THEN "CANCELLED" ELSE "SUCCEEDED"
        /\ new.attempt = old.attempt /\ new.cancel_requested = old.cancel_requested
    BY <1>1, <1>8 DEF Completed, Closed, Logged, Row
  <2> QED
    BY <1>1, <1>6, <1>8, <2>1
<1>9. ASSUME old.status = "RUNNING", NEW code \in WorkerError, NEW retryable \in BOOLEAN,
             NEW stall \in 0..MaxStall, new = Failed(old, code, retryable, stall)
      PROVE  RowContract(old, new)
  <2>1. CASE old.cancel_requested
    <3>1. /\ new.status = "CANCELLED" /\ new.attempt = old.attempt
          /\ new.cancel_requested = old.cancel_requested
      BY <1>1, <1>9, <2>1 DEF Failed, Closed, Logged, Row
    <3> QED
      BY <1>6, <1>9, <2>1, <3>1
  <2>2. CASE ~old.cancel_requested /\ retryable /\ old.attempt < MaxAttempts
    <3>1. SameView([old EXCEPT !.status = "PENDING"], new)
      BY <1>1, <1>9, <2>2 DEF Failed, Logged, SameView, Row
    <3> QED
      BY <1>9, <2>2, <3>1 DEF RowContract
  <2>3. CASE ~old.cancel_requested /\ ~(retryable /\ old.attempt < MaxAttempts)
    <3>1. /\ new.status = "FAILED" /\ new.attempt = old.attempt
          /\ new.cancel_requested = old.cancel_requested
      BY <1>1, <1>9, <2>3 DEF Failed, Closed, Logged, Row
    <3> QED
      BY <1>6, <1>9, <2>3, <3>1
  <2> QED
    BY <1>1, <2>1, <2>2, <2>3
<1>10. ASSUME Claimable(old), NEW w \in Worker, NEW stall \in 0..MaxStall,
              new = ClaimedBy(old, w, stall)
       PROVE  RowContract(old, new)
  <2>1. /\ old.status \in {"PENDING", "RUNNING"} /\ ~old.cancel_requested
        /\ old.attempt < MaxAttempts
    BY <1>10 DEF Claimable, RowInv, RowQueued
  <2>2. SameView([old EXCEPT !.status = "RUNNING", !.attempt = old.attempt + 1], new)
    BY <1>1, <1>10 DEF ClaimedBy, Logged, SameView, Row
  <2> QED
    BY <2>1, <2>2 DEF RowContract
<1>11. ASSUME NEW stall \in 0..MaxStall, new = [old EXCEPT !.lease = LeaseTicks - stall]
       PROVE  RowContract(old, new)
  BY <1>1, <1>11 DEF RowContract, SameView, Row
<1>12. ASSUME NEW type, new = Logged(old, type) PROVE RowContract(old, new)
  BY <1>1, <1>12 DEF RowContract, SameView, Logged, Row
<1> QED
  BY <1>2, <1>3, <1>4, <1>5, <1>7, <1>8, <1>9, <1>10, <1>11, <1>12
     DEF RowNext, RowWork, RowContract

\* A row step, seen through PhaseOf, is a step of the contract or a stutter.
LEMMA ContractStep ==
  ASSUME NEW r \in Run, run[r] \in Row, run'[r] \in Row, RowContract(run[r], run'[r])
  PROVE  Contract(r)!ContractNext \/ UNCHANGED Contract(r)!contractVars
<1> DEFINE old == run[r]
           new == run'[r]
<1>1. /\ old.status \in Status /\ new.status \in Status
      /\ old = [old EXCEPT !.status = old.status]
  BY DEF Row
<1>2. CASE SameView(old, new)
  BY <1>2 DEF SameView, Contract!contractVars
<1>3. CASE old.status = "ABSENT" /\ SameView([old EXCEPT !.status = "PENDING"], new)
  <2>1. /\ new.status = "PENDING" /\ new.attempt = old.attempt
        /\ new.cancel_requested = old.cancel_requested
    BY <1>3 DEF SameView, Row
  <2>2. Contract(r)!Submit
    BY <1>3, <2>1 DEF Contract!Submit, PhaseOf, Status, Terminal
  <2> QED
    BY <2>2 DEF Contract!ContractNext
<1>4. CASE /\ old.status \in {"PENDING", "RUNNING"} /\ ~old.cancel_requested
           /\ old.attempt < MaxAttempts
           /\ SameView([old EXCEPT !.status = "RUNNING", !.attempt = old.attempt + 1], new)
  <2>1. /\ new.status = "RUNNING" /\ new.attempt = old.attempt + 1
        /\ new.cancel_requested = old.cancel_requested
    BY <1>4 DEF SameView, Row
  <2>2. Contract(r)!Attempt
    BY <1>4, <2>1 DEF Contract!Attempt, PhaseOf, Status, Terminal
  <2> QED
    BY <2>2 DEF Contract!ContractNext
<1>5. CASE /\ old.status = "RUNNING" /\ ~old.cancel_requested /\ old.attempt < MaxAttempts
           /\ SameView([old EXCEPT !.status = "PENDING"], new)
  <2>1. /\ new.status = "PENDING" /\ new.attempt = old.attempt
        /\ new.cancel_requested = old.cancel_requested
    BY <1>5 DEF SameView, Row
  <2>2. Contract(r)!Requeue
    BY <1>5, <2>1 DEF Contract!Requeue, PhaseOf, Status, Terminal
  <2> QED
    BY <2>2 DEF Contract!ContractNext
<1>6. CASE /\ old.status = "RUNNING" /\ ~old.cancel_requested
           /\ \E ended \in {"SUCCEEDED", "FAILED"} :
                SameView([old EXCEPT !.status = ended], new)
  <2>1. /\ new.status \in {"SUCCEEDED", "FAILED"} /\ new.attempt = old.attempt
        /\ new.cancel_requested = old.cancel_requested
    BY <1>6 DEF SameView, Row
  <2>2. Contract(r)!Conclude
    BY <1>6, <2>1 DEF Contract!Conclude, PhaseOf, Status, Terminal
  <2> QED
    BY <2>2 DEF Contract!ContractNext
<1>7. CASE /\ old.status = "PENDING"
           /\ SameView([old EXCEPT !.status = "CANCELLED", !.cancel_requested = TRUE], new)
  <2>1. /\ new.status = "CANCELLED" /\ new.attempt = old.attempt
        /\ new.cancel_requested = TRUE
    BY <1>7 DEF SameView, Row
  <2>2. Contract(r)!AskCancel
    BY <1>7, <2>1 DEF Contract!AskCancel, PhaseOf, Status, Terminal
  <2> QED
    BY <2>2 DEF Contract!ContractNext
<1>8. CASE /\ old.status = "RUNNING"
           /\ SameView([old EXCEPT !.cancel_requested = TRUE], new)
  <2>1. /\ new.status = "RUNNING" /\ new.attempt = old.attempt
        /\ new.cancel_requested = TRUE
    BY <1>8 DEF SameView, Row
  <2>2. Contract(r)!AskCancel
    BY <1>8, <2>1 DEF Contract!AskCancel, PhaseOf, Status, Terminal
  <2> QED
    BY <2>2 DEF Contract!ContractNext
<1>9. CASE /\ old.status = "RUNNING" /\ old.cancel_requested
           /\ SameView([old EXCEPT !.status = "CANCELLED"], new)
  <2>1. /\ new.status = "CANCELLED" /\ new.attempt = old.attempt
        /\ new.cancel_requested = old.cancel_requested
    BY <1>9 DEF SameView, Row
  <2>2. Contract(r)!HonourCancel
    BY <1>9, <2>1 DEF Contract!HonourCancel, PhaseOf, Status, Terminal
  <2> QED
    BY <2>2 DEF Contract!ContractNext
<1>10. CASE /\ Present(old)
            /\ new.status = "DELETED" /\ new.cancel_requested = FALSE /\ new.attempt = 0
  <2>1. PhaseOf[old.status] \notin {"none", "gone"}
    BY <1>1, <1>10 DEF Present, PhaseOf, Status, Terminal
  <2>2. Contract(r)!Remove
    BY <1>10, <2>1 DEF Contract!Remove, PhaseOf, Status, Terminal
  <2> QED
    BY <2>2 DEF Contract!ContractNext
<1> QED
  BY <1>2, <1>3, <1>4, <1>5, <1>6, <1>7, <1>8, <1>9, <1>10 DEF RowContract

\* The store implements the contract of every Run: each transaction is one
\* step of the contract of each Run it touches, or invisible to it.
THEOREM ContractKept == StoreSpec => KeepsContract
<1>1. StoreInit => \A r \in Run : Contract(r)!ContractInit
  BY DEF StoreInit, Contract!ContractInit, NoRow, PhaseOf
<1>2. StoreInv /\ StoreInv' /\ [StoreNext]_storeVars =>
        [\A r \in Run : Contract(r)!ContractNext
                         \/ UNCHANGED Contract(r)!contractVars]_storeVars
  BY EveryStep, ContractRow, ContractStep DEF StepShape, StoreInv
<1> QED
  BY <1>1, <1>2, Invariant, PTL DEF StoreSpec, KeepsContract

-----------------------------------------------------------------------------
(* The ledger of the attempts *)

\* AttemptLedger of one row; what it lacks to be inductive is the last conjunct:
\* a reclaim is never the first start.
LedgerRow(row) ==
  /\ \A k \in 1..row.attempt : \E i \in Starts(row) : row.events[i].attempt = k
  /\ \A i \in Starts(row) :
       /\ row.events[i].attempt \in 1..row.attempt
       /\ (row.events[i].type = "RUN_STARTED") <=> (row.events[i].attempt = 1)
       /\ \A j \in Starts(row) : i < j => row.events[i].attempt < row.events[j].attempt
  /\ row.status = "RUNNING" => row.attempt > 0

LedgerInv == \A r \in Run : LedgerRow(run[r])

\* What a transaction does to log and attempt: nothing, an event that is no
\* start, the start of the next attempt, or it empties the row.
LogNext(old, new) ==
  \/ /\ new.events = old.events /\ new.attempt = old.attempt
     /\ new.status = old.status
  \/ /\ \E type \in EventType \ StartEvent :
          new.events = Append(old.events, [type |-> type, attempt |-> old.attempt])
     /\ new.attempt = old.attempt
     /\ new.status = "RUNNING" => old.status = "RUNNING"
  \/ /\ old.status \in {"PENDING", "RUNNING"}
     /\ new.events = Append(old.events, [type |-> StartOf(old), attempt |-> old.attempt + 1])
     /\ new.attempt = old.attempt + 1
  \/ new.events = <<>> /\ new.attempt = 0 /\ new.status = "DELETED"

LEMMA LogOfLogged ==
  ASSUME NEW old \in Row, NEW row \in Row, NEW type \in EventType \ StartEvent,
         row.events = old.events, row.attempt = old.attempt,
         row.status = "RUNNING" => old.status = "RUNNING"
  PROVE  LogNext(old, Logged(row, type))
<1>1. Logged(row, type).events
        = Append(old.events, [type |-> type, attempt |-> old.attempt])
  BY DEF Logged, Row
<1>2. /\ Logged(row, type).attempt = old.attempt
      /\ Logged(row, type).status = row.status
  BY LoggedColumns
<1> QED
  BY <1>1, <1>2 DEF LogNext

\* Every event but those of the claim is no start.
LEMMA LogClosing ==
  ASSUME NEW old \in Row, old.status = "RUNNING", NEW status \in Terminal,
         NEW error \in ErrorCode \cup {NoError}, NEW answers \in Nat,
         NEW type \in TerminalEvent
  PROVE  /\ LogNext(old, Logged(Closed(old, status, error), type))
         /\ LogNext(old, Logged([Closed(old, status, error) EXCEPT !.answers = answers], type))
<1> DEFINE closed == Closed(old, status, error)
           answered == [closed EXCEPT !.answers = answers]
<1>1. closed \in Row /\ answered \in Row
  BY DEF Closed, Row, Status
<1>2. /\ closed.events = old.events /\ closed.attempt = old.attempt
      /\ answered.events = old.events /\ answered.attempt = old.attempt
      /\ closed.status # "RUNNING" /\ answered.status # "RUNNING"
  BY DEF Closed, Row, Terminal
<1>3. type \in EventType \ StartEvent
  BY DEF EventType, StartEvent, TerminalEvent
<1> HIDE DEF closed, answered
<1>4. LogNext(old, Logged(closed, type)) /\ LogNext(old, Logged(answered, type))
  BY <1>1, <1>2, <1>3, LogOfLogged
<1> QED
  BY <1>4 DEF closed, answered

LEMMA LogOfWork ==
  ASSUME NEW old, NEW new, RowInv(old), RowWork(old, new)
  PROVE  LogNext(old, new)
<1>1. old \in Row /\ old.cancel_requested \in BOOLEAN
  BY DEF RowInv, Row
<1>2. CASE new = old \/ new = Aged(old)
  BY <1>1, <1>2 DEF Aged, Row, LogNext
<1>3. CASE old.status \in {"PENDING", "RUNNING"} /\ new = CancelAsked(old)
  <2> DEFINE marked == [old EXCEPT !.cancel_requested = TRUE]
             ended == [old EXCEPT !.cancel_requested = TRUE, !.status = "CANCELLED",
                                  !.error = "RUN_CANCELLED", !.finished = TRUE]
  <2>1. /\ marked \in Row /\ ended \in Row
        /\ marked.events = old.events /\ marked.attempt = old.attempt
        /\ ended.events = old.events /\ ended.attempt = old.attempt
        /\ marked.status = old.status /\ ended.status = "CANCELLED"
    BY <1>1 DEF Row, Status, Terminal, ErrorCode, WorkerError
  <2> HIDE DEF marked, ended
  <2>2. {"RUN_CANCELLED", "CANCELLATION_REQUESTED"} \subseteq EventType \ StartEvent
    BY DEF EventType, StartEvent, TerminalEvent
  <2>3. /\ LogNext(old, Logged(marked, "CANCELLATION_REQUESTED"))
        /\ LogNext(old, Logged(ended, "RUN_CANCELLED"))
    BY <1>1, <2>1, <2>2, LogOfLogged
  <2> QED
    BY <1>3, <2>3 DEF CancelAsked, marked, ended
<1>4. CASE Sweepable(old) /\ new = Swept(old)
  <2>1. old.status = "RUNNING"
    BY <1>4 DEF Sweepable
  <2> QED
    BY <1>1, <1>4, <2>1, LogClosing DEF Swept, Terminal, TerminalEvent, ErrorCode, WorkerError
<1>5. ASSUME Claimable(old), NEW w \in Worker, NEW stall \in 0..MaxStall,
             new = ClaimedBy(old, w, stall)
      PROVE  LogNext(old, new)
  <2>1. old.attempt \in Nat /\ old.status \in {"PENDING", "RUNNING"}
    BY <1>1, <1>5, StoreAssumption DEF Row, Claimable
  <2>2. /\ new.attempt = old.attempt + 1
        /\ new.events = Append(old.events, [type |-> StartOf(old), attempt |-> old.attempt + 1])
    BY <1>1, <1>5 DEF ClaimedBy, Logged, Row
  <2> QED
    BY <2>1, <2>2 DEF LogNext
<1>6. ASSUME NEW stall \in 0..MaxStall, new = [old EXCEPT !.lease = LeaseTicks - stall]
      PROVE  LogNext(old, new)
  BY <1>1, <1>6 DEF LogNext, Row
<1>7. ASSUME NEW type \in ProgressEvent, new = Logged(old, type)
      PROVE  LogNext(old, new)
  <2>1. type \in EventType \ StartEvent
    BY StoreAssumption DEF EventType, StartEvent
  <2> QED
    BY <1>1, <1>7, <2>1, LogOfLogged
<1>8. CASE old.status = "RUNNING" /\ new = Completed(old)
  <2>1. \A status \in Terminal, error \in ErrorCode \cup {NoError} :
          Closed(old, status, error).answers = old.answers
    BY <1>1 DEF Closed, Row
  <2>2. old.answers + 1 \in Nat
    BY <1>1 DEF Row
  <2> QED
    BY <1>1, <1>8, <2>1, <2>2, LogClosing
       DEF Completed, Terminal, TerminalEvent, ErrorCode, WorkerError
<1>9. ASSUME old.status = "RUNNING", NEW code \in WorkerError, NEW retryable \in BOOLEAN,
             NEW stall \in 0..MaxStall, new = Failed(old, code, retryable, stall)
      PROVE  LogNext(old, new)
  <2> DEFINE queued == [old EXCEPT !.status = "PENDING", !.error = code,
                                   !.retry = RetryLeft(stall), !.worker = NoWorker,
                                   !.lease = NoLease]
  <2>1. RetryLeft(stall) \in 0..RetryTicks
    BY StoreAssumption DEF RetryLeft
  <2>2. /\ queued \in Row /\ queued.events = old.events
        /\ queued.attempt = old.attempt /\ queued.status = "PENDING"
    BY <1>1, <2>1 DEF Row, Status, ErrorCode
  <2> HIDE DEF queued
  <2>3. "RUN_RETRY_SCHEDULED" \in EventType \ StartEvent
    BY DEF EventType, StartEvent
  <2>4. LogNext(old, Logged(queued, "RUN_RETRY_SCHEDULED"))
    BY <1>1, <2>2, <2>3, LogOfLogged
  <2>5. /\ LogNext(old, Logged(Closed(old, "CANCELLED", "RUN_CANCELLED"), "RUN_CANCELLED"))
        /\ LogNext(old, Logged(Closed(old, "FAILED", code), "RUN_FAILED"))
    BY <1>1, <1>9, LogClosing DEF Terminal, TerminalEvent, ErrorCode, WorkerError
  <2>6. CASE old.cancel_requested
    BY <1>9, <2>5, <2>6 DEF Failed
  <2>7. CASE ~old.cancel_requested /\ retryable /\ old.attempt < MaxAttempts
    BY <1>9, <2>4, <2>7 DEF Failed, queued
  <2>8. CASE ~old.cancel_requested /\ ~(retryable /\ old.attempt < MaxAttempts)
    BY <1>9, <2>5, <2>8 DEF Failed
  <2> QED
    BY <2>6, <2>7, <2>8
<1> QED
  BY <1>2, <1>3, <1>4, <1>5, <1>6, <1>7, <1>8, <1>9 DEF RowWork

LEMMA LogOfStep ==
  ASSUME NEW old, NEW new, RowInv(old), RowNext(old, new)
  PROVE  LogNext(old, new)
<1>1. ASSUME old.status = "ABSENT", NEW s \in Session,
             NEW revision \in 0..MaxRuns, NEW previous \in 0..MaxRuns,
             new = Logged([NoRow("PENDING") EXCEPT !.session = s,
                                                   !.revision = revision,
                                                   !.supersedes = previous],
                          "RUN_QUEUED")
      PROVE  LogNext(old, new)
  <2>1. old.events = <<>> /\ old.attempt = 0
    BY <1>1 DEF RowInv, RowLogged
  <2>2. /\ new.events = Append(<<>>, [type |-> "RUN_QUEUED", attempt |-> 0])
        /\ new.attempt = 0 /\ new.status = "PENDING"
    BY <1>1 DEF Logged, NoRow
  <2>3. "RUN_QUEUED" \in EventType \ StartEvent
    BY DEF EventType, StartEvent
  <2> QED
    BY <2>1, <2>2, <2>3 DEF LogNext
<1>2. new = NoRow("DELETED") => LogNext(old, new)
  BY DEF NoRow, LogNext
<1> QED
  BY <1>1, <1>2, LogOfWork DEF RowNext

\* The ledger survives an event that is no start, ...
LEMMA LedgerOfEvent ==
  ASSUME NEW old \in Row, NEW new \in Row, LedgerRow(old),
         NEW type \in EventType \ StartEvent,
         new.events = Append(old.events, [type |-> type, attempt |-> old.attempt]),
         new.attempt = old.attempt, new.status = "RUNNING" => old.status = "RUNNING"
  PROVE  LedgerRow(new)
<1>1. old.events \in Seq(Event) /\ Len(old.events) \in Nat
  BY DEF Row
<1>2. /\ Len(new.events) = Len(old.events) + 1
      /\ new.events[Len(old.events) + 1].type = type
      /\ \A i \in 1..Len(old.events) : new.events[i] = old.events[i]
  BY <1>1
<1>3. Starts(new) = Starts(old)
  BY <1>1, <1>2 DEF Starts
<1>4. \A i \in Starts(old) : new.events[i] = old.events[i]
  BY <1>2 DEF Starts
<1> QED
  BY <1>3, <1>4 DEF LedgerRow

\* ... and the start of the next attempt, written at position last.
LEMMA LedgerGrows ==
  ASSUME NEW old, NEW new, LedgerRow(old), old.attempt \in Nat, NEW last \in Nat,
         Starts(new) = Starts(old) \cup {last},
         \A i \in Starts(old) :
           i \in Nat /\ i < last /\ new.events[i] = old.events[i],
         new.attempt = old.attempt + 1,
         new.events[last].attempt = old.attempt + 1,
         (new.events[last].type = "RUN_STARTED") <=> (old.attempt = 0)
  PROVE  LedgerRow(new)
<1>1. \A k \in 1..new.attempt : \E i \in Starts(new) : new.events[i].attempt = k
  <2> TAKE k \in 1..new.attempt
  <2>1. CASE k = old.attempt + 1
    BY <2>1
  <2>2. CASE k # old.attempt + 1
    <3>1. PICK i \in Starts(old) : old.events[i].attempt = k
      BY <2>2 DEF LedgerRow
    <3> QED
      BY <3>1
  <2> QED
    BY <2>1, <2>2
<1>2. \A i \in Starts(new) :
        /\ new.events[i].attempt \in 1..new.attempt
        /\ (new.events[i].type = "RUN_STARTED") <=> (new.events[i].attempt = 1)
  <2> TAKE i \in Starts(new)
  <2>1. CASE i = last
    BY <2>1
  <2>2. CASE i # last
    BY <2>2 DEF LedgerRow
  <2> QED
    BY <2>1, <2>2
<1>3. \A i \in Starts(new) : \A j \in Starts(new) :
        i < j => new.events[i].attempt < new.events[j].attempt
  <2> TAKE i \in Starts(new)
  <2> TAKE j \in Starts(new)
  <2>1. CASE i \in Starts(old) /\ j \in Starts(old)
    BY <2>1 DEF LedgerRow
  <2>2. CASE i \in Starts(old) /\ j = last
    <3>1. new.events[i].attempt \in 1..old.attempt
      BY <2>2 DEF LedgerRow
    <3> QED
      BY <2>2, <3>1
  <2>3. CASE i = last
    BY <2>3
  <2> QED
    BY <2>1, <2>2, <2>3
<1>4. new.attempt > 0
  OBVIOUS
<1> QED
  BY <1>1, <1>2, <1>3, <1>4 DEF LedgerRow

LEMMA LedgerOfStart ==
  ASSUME NEW old \in Row, NEW new \in Row, LedgerRow(old),
         old.status \in {"PENDING", "RUNNING"},
         new.events = Append(old.events, [type |-> StartOf(old), attempt |-> old.attempt + 1]),
         new.attempt = old.attempt + 1
  PROVE  LedgerRow(new)
<1> DEFINE last == Len(old.events) + 1
<1>1. old.events \in Seq(Event) /\ Len(old.events) \in Nat /\ old.attempt \in Nat
  BY StoreAssumption DEF Row
<1>2. /\ Len(new.events) = last
      /\ new.events[last].type = StartOf(old)
      /\ new.events[last].attempt = old.attempt + 1
      /\ \A i \in 1..Len(old.events) : new.events[i] = old.events[i]
  BY <1>1
<1>3. StartOf(old) \in StartEvent
  BY DEF StartOf, StartEvent
<1>4. Starts(new) = Starts(old) \cup {last}
  BY <1>1, <1>2, <1>3 DEF Starts
<1>5. \A i \in Starts(old) : i \in Nat /\ i < last /\ new.events[i] = old.events[i]
  BY <1>1, <1>2 DEF Starts
<1>6. (StartOf(old) = "RUN_STARTED") <=> (old.attempt = 0)
  <2>1. CASE old.status = "RUNNING"
    BY <1>1, <2>1 DEF StartOf, LedgerRow
  <2>2. CASE old.status # "RUNNING" /\ old.attempt > 0
    BY <1>1, <2>2 DEF StartOf
  <2>3. CASE old.status # "RUNNING" /\ old.attempt = 0
    BY <1>1, <2>3 DEF StartOf
  <2> QED
    BY <1>1, <2>1, <2>2, <2>3
<1>7. last \in Nat
  BY <1>1
<1> HIDE DEF last
<1> QED
  BY <1>1, <1>2, <1>4, <1>5, <1>6, <1>7, LedgerGrows

LEMMA LedgerStep ==
  ASSUME NEW old, NEW new, RowInv(old), RowInv(new), LedgerRow(old), LogNext(old, new)
  PROVE  LedgerRow(new)
<1>1. old \in Row /\ new \in Row
  BY DEF RowInv
<1>2. CASE new.events = old.events /\ new.attempt = old.attempt /\ new.status = old.status
  BY <1>2 DEF LedgerRow, Starts
<1>3. CASE new.events = <<>> /\ new.attempt = 0 /\ new.status = "DELETED"
  <2>1. Starts(new) = {}
    BY <1>3 DEF Starts
  <2> QED
    BY <1>3, <2>1 DEF LedgerRow
<1> QED
  BY <1>1, <1>2, <1>3, LedgerOfEvent, LedgerOfStart DEF LogNext

\* The log is the ledger of the attempts, for logs of any length.
THEOREM LedgerCorrect == StoreSpec => []AttemptLedger
<1>1. StoreInit => LedgerInv
  <2>1. Starts(NoRow("ABSENT")) = {}
    BY DEF Starts, NoRow
  <2>2. NoRow("ABSENT").attempt = 0 /\ NoRow("ABSENT").status = "ABSENT"
    BY DEF NoRow
  <2>3. LedgerRow(NoRow("ABSENT"))
    BY <2>1, <2>2 DEF LedgerRow
  <2> QED
    BY <2>3 DEF StoreInit, LedgerInv
<1>2. StoreInv /\ StoreInv' /\ LedgerInv /\ [StoreNext]_storeVars => LedgerInv'
  BY EveryStep, LogOfStep, LedgerStep DEF StepShape, StoreInv, LedgerInv
<1>3. LedgerInv => AttemptLedger
  BY DEF LedgerInv, LedgerRow, AttemptLedger
<1> QED
  BY <1>1, <1>2, <1>3, Invariant, PTL DEF StoreSpec

-----------------------------------------------------------------------------
(* The plans of a session *)

\* The columns that place a Run in its session, and whether it is there.
Placed(old, new) ==
  /\ new.session = old.session
  /\ new.revision = old.revision
  /\ new.supersedes = old.supersedes
  /\ Present(new) <=> Present(old)
  /\ old.status = "SUCCEEDED" => new.status = "SUCCEEDED"

LEMMA PlacedLogged ==
  ASSUME NEW old, NEW row \in Row, NEW type \in EventType, Placed(old, row)
  PROVE  Placed(old, Logged(row, type))
BY LoggedColumns DEF Placed, Present

LEMMA PlacedClosing ==
  ASSUME NEW old \in Row, old.status = "RUNNING", NEW status \in Terminal,
         NEW error \in ErrorCode \cup {NoError}, NEW answers \in Nat,
         NEW type \in TerminalEvent
  PROVE  /\ Placed(old, Logged(Closed(old, status, error), type))
         /\ Placed(old, Logged([Closed(old, status, error) EXCEPT !.answers = answers], type))
<1> DEFINE closed == Closed(old, status, error)
           answered == [closed EXCEPT !.answers = answers]
<1>1. closed \in Row /\ answered \in Row
  BY DEF Closed, Row, Status
<1>2. Placed(old, closed) /\ Placed(old, answered)
  BY DEF Closed, Row, Terminal, Placed, Present
<1>3. type \in EventType
  BY DEF EventType
<1> HIDE DEF closed, answered
<1>4. Placed(old, Logged(closed, type)) /\ Placed(old, Logged(answered, type))
  BY <1>1, <1>2, <1>3, PlacedLogged
<1> QED
  BY <1>4 DEF closed, answered

\* Work on a Run leaves it where it is, and its success for good.
LEMMA PlacedByWork ==
  ASSUME NEW old, NEW new, RowInv(old), RowWork(old, new)
  PROVE  Placed(old, new)
<1>1. old \in Row /\ Placed(old, old)
  BY DEF RowInv, Placed
<1>2. CASE new = Aged(old)
  BY <1>1, <1>2 DEF Aged, Row, Placed, Present
<1>3. CASE old.status \in {"PENDING", "RUNNING"} /\ new = CancelAsked(old)
  <2> DEFINE marked == [old EXCEPT !.cancel_requested = TRUE]
             ended == [old EXCEPT !.cancel_requested = TRUE, !.status = "CANCELLED",
                                  !.error = "RUN_CANCELLED", !.finished = TRUE]
  <2>1. marked \in Row /\ ended \in Row
    BY <1>1 DEF Row, Status, Terminal, ErrorCode, WorkerError
  <2>2. Placed(old, marked) /\ Placed(old, ended)
    BY <1>1, <1>3 DEF Row, Placed, Present
  <2> HIDE DEF marked, ended
  <2>3. {"RUN_CANCELLED", "CANCELLATION_REQUESTED"} \subseteq EventType
    BY DEF EventType, TerminalEvent
  <2>4. /\ Placed(old, Logged(marked, "CANCELLATION_REQUESTED"))
        /\ Placed(old, Logged(ended, "RUN_CANCELLED"))
    BY <2>1, <2>2, <2>3, PlacedLogged
  <2> QED
    BY <1>3, <2>4 DEF CancelAsked, marked, ended
<1>4. CASE Sweepable(old) /\ new = Swept(old)
  <2>1. old.status = "RUNNING"
    BY <1>4 DEF Sweepable
  <2> QED
    BY <1>1, <1>4, <2>1, PlacedClosing
       DEF Swept, Terminal, TerminalEvent, ErrorCode, WorkerError
<1>5. ASSUME Claimable(old), NEW w \in Worker, NEW stall \in 0..MaxStall,
             new = ClaimedBy(old, w, stall)
      PROVE  Placed(old, new)
  <2>1. old.status \in {"PENDING", "RUNNING"}
    BY <1>5 DEF Claimable
  <2>2. /\ new.status = "RUNNING" /\ new.session = old.session
        /\ new.revision = old.revision /\ new.supersedes = old.supersedes
    BY <1>1, <1>5 DEF ClaimedBy, Logged, Row
  <2> QED
    BY <2>1, <2>2 DEF Placed, Present
<1>6. ASSUME NEW stall \in 0..MaxStall, new = [old EXCEPT !.lease = LeaseTicks - stall]
      PROVE  Placed(old, new)
  BY <1>1, <1>6 DEF Row, Placed, Present
<1>7. ASSUME NEW type \in ProgressEvent, new = Logged(old, type)
      PROVE  Placed(old, new)
  <2>1. type \in EventType
    BY <1>7 DEF EventType
  <2> QED
    BY <1>1, <1>7, <2>1, PlacedLogged
<1>8. CASE old.status = "RUNNING" /\ new = Completed(old)
  <2>1. \A status \in Terminal, error \in ErrorCode \cup {NoError} :
          Closed(old, status, error).answers = old.answers
    BY <1>1 DEF Closed, Row
  <2>2. old.answers + 1 \in Nat
    BY <1>1 DEF Row
  <2> QED
    BY <1>1, <1>8, <2>1, <2>2, PlacedClosing
       DEF Completed, Terminal, TerminalEvent, ErrorCode, WorkerError
<1>9. ASSUME old.status = "RUNNING", NEW code \in WorkerError, NEW retryable \in BOOLEAN,
             NEW stall \in 0..MaxStall, new = Failed(old, code, retryable, stall)
      PROVE  Placed(old, new)
  <2> DEFINE queued == [old EXCEPT !.status = "PENDING", !.error = code,
                                   !.retry = RetryLeft(stall), !.worker = NoWorker,
                                   !.lease = NoLease]
  <2>1. RetryLeft(stall) \in 0..RetryTicks
    BY StoreAssumption DEF RetryLeft
  <2>2. queued \in Row
    BY <1>1, <2>1 DEF Row, Status, ErrorCode
  <2>3. Placed(old, queued)
    BY <1>1, <1>9 DEF Row, Placed, Present
  <2> HIDE DEF queued
  <2>4. "RUN_RETRY_SCHEDULED" \in EventType
    BY DEF EventType
  <2>5. Placed(old, Logged(queued, "RUN_RETRY_SCHEDULED"))
    BY <2>2, <2>3, <2>4, PlacedLogged
  <2>6. /\ Placed(old, Logged(Closed(old, "CANCELLED", "RUN_CANCELLED"), "RUN_CANCELLED"))
        /\ Placed(old, Logged(Closed(old, "FAILED", code), "RUN_FAILED"))
    BY <1>1, <1>9, PlacedClosing DEF Terminal, TerminalEvent, ErrorCode, WorkerError
  <2>7. CASE old.cancel_requested
    BY <1>9, <2>6, <2>7 DEF Failed
  <2>8. CASE ~old.cancel_requested /\ retryable /\ old.attempt < MaxAttempts
    BY <1>9, <2>5, <2>8 DEF Failed, queued
  <2>9. CASE ~old.cancel_requested /\ ~(retryable /\ old.attempt < MaxAttempts)
    BY <1>9, <2>6, <2>9 DEF Failed
  <2>10. old.cancel_requested \in BOOLEAN
    BY <1>1 DEF Row
  <2> QED
    BY <2>7, <2>8, <2>9, <2>10
<1> QED
  BY <1>1, <1>2, <1>3, <1>4, <1>5, <1>6, <1>7, <1>8, <1>9 DEF RowWork

\* RevisionChain is not inductive: that a new Run gets a fresh revision needs
\* that no revision of the session exceeds the number of its Runs.
ChainInv ==
  /\ \A r \in Run : Present(run[r]) =>
       run[r].revision <= Cardinality(InSession(run[r].session))
  /\ RevisionChain

LEMMA SessionFinite ==
  ASSUME NEW s
  PROVE  IsFiniteSet(InSession(s)) /\ Cardinality(InSession(s)) \in Nat
<1>1. IsFiniteSet(Run)
  BY StoreAssumption, FS_Interval DEF Run
<1>2. InSession(s) \subseteq Run
  BY DEF InSession
<1> QED
  BY <1>1, <1>2, FS_Subset, FS_CardinalityType

\* The Runs of a session after the step.
InSessionNext(s) == {r \in Run : Present(run'[r]) /\ run'[r].session = s}

\* ChainInv' in terms of one row.
ChainNext(r) ==
  Present(run'[r]) =>
    /\ run'[r].revision <= Cardinality(InSessionNext(run'[r].session))
    /\ \A q \in InSessionNext(run'[r].session) :
         q < r => run'[q].revision < run'[r].revision
    /\ run'[r].supersedes # 0 =>
         /\ run'[r].supersedes < r
         /\ run'[run'[r].supersedes].status = "SUCCEEDED"
         /\ run'[run'[r].supersedes].session = run'[r].session

LEMMA ChainOfRows ==
  ASSUME \A r \in Run : ChainNext(r)
  PROVE  ChainInv'
BY DEF ChainNext, ChainInv, RevisionChain, InSession, InSessionNext, Present

LEMMA SupersededIsRun ==
  ASSUME StoreInv, NEW r \in Run, run[r].supersedes # 0
  PROVE  run[r].supersedes \in Run
<1>1. run[r] \in Row
  BY DEF StoreInv
<1>2. run[r].supersedes \in 0..MaxRuns
  BY <1>1 DEF Row
<1> QED
  BY <1>2, StoreAssumption DEF Run

LEMMA ChainWork ==
  ASSUME StoreInv, ChainInv, WorkShape
  PROVE  ChainInv'
<1>1. \A r \in Run : Placed(run[r], run'[r])
  BY PlacedByWork DEF StoreInv, WorkShape
<1>2. ASSUME NEW s PROVE InSessionNext(s) = InSession(s)
  BY <1>1 DEF InSession, InSessionNext, Placed
<1>3. ASSUME NEW r \in Run, Present(run'[r])
      PROVE  run'[r].revision <= Cardinality(InSessionNext(run'[r].session))
  BY <1>1, <1>2, <1>3 DEF ChainInv, Placed
<1>4. ASSUME NEW r \in Run, Present(run'[r])
      PROVE  \A q \in InSessionNext(run'[r].session) : q < r => run'[q].revision < run'[r].revision
  <2>1. /\ Present(run[r]) /\ run'[r].session = run[r].session
        /\ run'[r].revision = run[r].revision
    BY <1>1, <1>4 DEF Placed
  <2>2. InSessionNext(run'[r].session) = InSession(run[r].session)
    BY <1>2, <2>1
  <2>3. \A q \in InSession(run[r].session) : run'[q].revision = run[q].revision
    BY <1>1 DEF InSession, Placed
  <2> QED
    BY <2>1, <2>2, <2>3 DEF ChainInv, RevisionChain
<1>5. ASSUME NEW r \in Run, Present(run'[r]), run'[r].supersedes # 0
      PROVE  /\ run'[r].supersedes < r
             /\ run'[run'[r].supersedes].status = "SUCCEEDED"
             /\ run'[run'[r].supersedes].session = run'[r].session
  <2> DEFINE p == run[r].supersedes
  <2>1. /\ Present(run[r]) /\ run'[r].supersedes = p
        /\ run'[r].session = run[r].session
    BY <1>1, <1>5 DEF Placed
  <2>2. p < r /\ run[p].status = "SUCCEEDED" /\ run[p].session = run[r].session
    BY <1>5, <2>1 DEF ChainInv, RevisionChain
  <2>3. p \in Run
    BY <1>5, <2>1, SupersededIsRun
  <2> HIDE DEF p
  <2> QED
    BY <1>1, <2>1, <2>2, <2>3 DEF Placed
<1> QED
  BY <1>3, <1>4, <1>5, ChainOfRows DEF ChainNext

LEMMA ChainDelete ==
  ASSUME StoreInv, ChainInv, NEW s \in Session, DeleteSession(s)
  PROVE  ChainInv'
<1>1. /\ ~Present(NoRow("DELETED"))
      /\ \A r \in Run : run'[r] = IF r \in InSession(s) THEN NoRow("DELETED") ELSE run[r]
  BY DEF DeleteSession, Present, NoRow
<1>2. \A r \in Run : Present(run'[r]) => run'[r] = run[r] /\ run[r].session # s
  BY <1>1 DEF InSession
<1>3. ASSUME NEW t, t # s PROVE InSessionNext(t) = InSession(t)
  BY <1>1, <1>2, <1>3 DEF InSession, InSessionNext
<1>4. ASSUME NEW r \in Run, Present(run'[r])
      PROVE  /\ run'[r] = run[r] /\ run[r].session # s /\ Present(run[r])
             /\ InSessionNext(run'[r].session) = InSession(run[r].session)
             /\ \A q \in InSession(run[r].session) : run'[q] = run[q]
  BY <1>1, <1>2, <1>3, <1>4 DEF InSession
<1>5. ASSUME NEW r \in Run, Present(run'[r]), run[r].supersedes # 0
      PROVE  run'[run[r].supersedes] = run[run[r].supersedes]
  <2>1. /\ Present(run[r]) /\ run[r].supersedes < r /\ run[r].session # s
        /\ run[run[r].supersedes].session = run[r].session
    BY <1>4, <1>5 DEF ChainInv, RevisionChain
  <2>2. run[r].supersedes \in Run
    BY <1>5, SupersededIsRun
  <2> QED
    BY <1>1, <2>1, <2>2 DEF InSession
<1>6. \A r \in Run : ChainNext(r)
  BY <1>4, <1>5 DEF ChainInv, RevisionChain, ChainNext
<1> QED
  BY <1>6, ChainOfRows

LEMMA ChainEnqueue ==
  ASSUME StoreInv, ChainInv, NEW s \in Session, NEW r \in Run, Enqueue(s, r)
  PROVE  ChainInv'
<1> DEFINE plans == InSession(s)
<1>1. PICK previous \in plans \cup {0} :
        Replaces(s, previous) /\ run' = [run EXCEPT ![r] = NewRun(s, previous)]
  BY DEF Enqueue
<1>2. /\ run[r].status = "ABSENT" /\ ~Present(run[r])
      /\ \A q \in plans : q < r
  BY DEF Enqueue, Present
<1>3. /\ run'[r].status = "PENDING" /\ run'[r].session = s
      /\ run'[r].revision = Cardinality(plans) + 1
      /\ run'[r].supersedes = previous
      /\ \A q \in Run \ {r} : run'[q] = run[q]
  BY <1>1 DEF StoreInv, NewRun, Logged, NoRow
<1>4. IsFiniteSet(plans) /\ Cardinality(plans) \in Nat
  BY SessionFinite
<1>5. /\ InSessionNext(s) = plans \cup {r}
      /\ r \notin plans
      /\ \A t : t # s => InSessionNext(t) = InSession(t)
  BY <1>2, <1>3 DEF InSession, InSessionNext, Present
<1>6. Cardinality(InSessionNext(s)) = Cardinality(plans) + 1
  BY <1>4, <1>5, FS_AddElement
<1>7. \A q \in plans : q \in Run \ {r} /\ run'[q] = run[q]
  BY <1>2, <1>3 DEF InSession
<1> HIDE DEF plans
<1>8. ASSUME NEW q \in Run, Present(run'[q])
      PROVE  /\ run'[q].revision <= Cardinality(InSessionNext(run'[q].session))
             /\ \A p \in InSessionNext(run'[q].session) :
                  p < q => run'[p].revision < run'[q].revision
             /\ run'[q].supersedes # 0 =>
                  /\ run'[q].supersedes < q
                  /\ run'[run'[q].supersedes].status = "SUCCEEDED"
                  /\ run'[run'[q].supersedes].session = run'[q].session
  <2>1. CASE q = r
    <3>1. ASSUME NEW p \in InSessionNext(s), p < r PROVE run'[p].revision < run'[r].revision
      <4>1. p \in plans
        BY <1>5, <3>1, StoreAssumption DEF Run
      <4>2. /\ Present(run[p]) /\ run[p].session = s /\ p \in Run
            /\ run[p].revision \in Nat
        BY <4>1 DEF plans, InSession, StoreInv, Row
      <4>3. run[p].revision <= Cardinality(plans)
        BY <4>2 DEF ChainInv, plans
      <4> QED
        BY <1>3, <1>4, <1>7, <4>1, <4>2, <4>3
    <3>2. run'[r].revision <= Cardinality(InSessionNext(s))
      BY <1>3, <1>4, <1>6
    <3>3. previous # 0 =>
            /\ previous < r
            /\ run'[previous].status = "SUCCEEDED"
            /\ run'[previous].session = s
      BY <1>1, <1>2, <1>7 DEF Replaces, plans, InSession
    <3> QED
      BY <1>3, <2>1, <3>1, <3>2, <3>3
  <2>2. CASE q # r
    <3>1. run'[q] = run[q] /\ Present(run[q])
      BY <1>3, <1>8, <2>2
    <3>2. run[q].revision \in Nat /\ q \in Int /\ r \in Int
      BY DEF StoreInv, Row, Run
    <3>3. run[q].revision <= Cardinality(InSessionNext(run[q].session))
      <4>1. run[q].revision <= Cardinality(InSession(run[q].session))
        BY <3>1 DEF ChainInv
      <4>2. CASE run[q].session = s
        BY <1>4, <1>6, <3>2, <4>1, <4>2 DEF plans
      <4>3. CASE run[q].session # s
        BY <1>5, <4>1, <4>3
      <4> QED
        BY <4>2, <4>3
    <3>4. ASSUME NEW p \in InSessionNext(run[q].session), p < q
          PROVE  run'[p].revision < run'[q].revision
      <4>1. p # r
        <5>1. CASE run[q].session = s
          <6>1. q \in plans
            BY <3>1, <5>1 DEF plans, InSession
          <6> QED
            BY <1>2, <3>2, <3>4, <6>1
        <5>2. CASE run[q].session # s
          BY <1>2, <1>5, <5>2 DEF InSession
        <5> QED
          BY <5>1, <5>2
      <4>2. p \in InSession(run[q].session)
        BY <1>5, <4>1 DEF plans
      <4>3. run'[p] = run[p]
        BY <1>3, <4>1, <4>2 DEF InSession
      <4> QED
        BY <3>1, <3>4, <4>2, <4>3 DEF ChainInv, RevisionChain
    <3>5. ASSUME run[q].supersedes # 0
          PROVE  /\ run[q].supersedes < q
                 /\ run'[run[q].supersedes].status = "SUCCEEDED"
                 /\ run'[run[q].supersedes].session = run[q].session
      <4> DEFINE p == run[q].supersedes
      <4>1. p < q /\ run[p].status = "SUCCEEDED" /\ run[p].session = run[q].session
        BY <3>1, <3>5 DEF ChainInv, RevisionChain
      <4>2. p \in Run
        BY <3>5, SupersededIsRun
      <4>3. p # r
        BY <1>2, <4>1
      <4> QED
        BY <1>3, <4>1, <4>2, <4>3
    <3> QED
      BY <3>1, <3>3, <3>4, <3>5
  <2> QED
    BY <2>1, <2>2
<1> QED
  BY <1>8, ChainOfRows DEF ChainNext

\* Plan revisions are unique and increase within a session, and every plan
\* replaces an earlier success of its own session.
THEOREM ChainCorrect == StoreSpec => []RevisionChain
<1>1. StoreInit => ChainInv
  BY DEF StoreInit, ChainInv, RevisionChain, Present, NoRow
<1>2. StoreInv /\ ChainInv /\ [StoreNext]_storeVars => ChainInv'
  BY StepCases, ChainWork, ChainDelete, ChainEnqueue
<1>3. ChainInv => RevisionChain
  BY DEF ChainInv
<1> QED
  BY <1>1, <1>2, <1>3, Invariant, PTL DEF StoreSpec
=============================================================================
