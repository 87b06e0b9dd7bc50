----------------------------- MODULE WorkerPool -----------------------------
(***************************************************************************)
(* The worker processes of app/worker.py driving the queue of RunStore:    *)
(* claim, execute with the cancel and lease checks and the call limits of  *)
(* app/callbacks.py, report, extract memories, and the heartbeat thread    *)
(* that renews the lease meanwhile.  Processes crash for good (a restarted *)
(* process draws a new worker_id, i.e. another member of Worker); a        *)
(* renewal may still be in flight when its thread is abandoned.            *)
(*                                                                         *)
(* One action is what happens between two transactions of a worker, with   *)
(* the second of them.  The agent (the runner) is external: it decides     *)
(* which call comes next and may raise at any time.                        *)
(***************************************************************************)
EXTENDS RunStore

CONSTANTS
  MaxLlmCalls,   \* agent_max_llm_calls
  MaxToolCalls,  \* agent_max_tool_calls
  MaxCrashes,    \* bound: worker processes that ever go down
  NoRenewal

ASSUME PoolAssumption ==
  /\ MaxLlmCalls \in Nat \ {0}
  /\ MaxToolCalls \in Nat \ {0}
  /\ MaxCrashes \in Nat

VARIABLES
  worker,     \* worker[w]: the process, in execute_run or idle
  renewal     \* renewal[w]: the UPDATE its heartbeat thread has in flight

processVars == <<worker, renewal>>
poolVars == <<storeVars, processVars>>

-----------------------------------------------------------------------------
(* Processes *)

\* pc     idle, loading, preparing, running (inside the agent), asking (about
\*        to read cancel_requested), holding (about to read the lease),
\*        starting (a call), overLimit, calling (a Tool), completing,
\*        extracting, failing (about to call fail_run), down
\* after  what the process is up to once the step it is in succeeds: a call,
\*        the end of a Tool call, or the failure to report
\* attempt is the attempt_count this execution was claimed with.
Verdict == {"OK", "RETRYABLE", "FATAL"}
Process ==
  [pc: {"idle", "loading", "preparing", "running", "asking", "holding", "starting",
        "overLimit", "calling", "completing", "extracting", "failing", "down"},
   job: Run \cup {0},
   attempt: 0..MaxAttempts,
   after: {"none", "LLM", "TOOL", "CANCELLED"} \cup Verdict,
   llm: 0..MaxLlmCalls,
   tool: 0..MaxToolCalls,
   thinking: BOOLEAN,     \* _thinking_emitted
   lost: BOOLEAN,         \* heartbeat.lost
   late: Nat]             \* calls begun after the Run was cancelled or removed

Renewal == [run: Run, attempt: 0..MaxAttempts, age: 0..MaxStall]

Idle == [pc |-> "idle", job |-> 0, attempt |-> 0, after |-> "none", llm |-> 0,
         tool |-> 0, thinking |-> FALSE, lost |-> FALSE, late |-> 0]

\* Inside "with LeaseHeartbeat": the heartbeat thread is alive.
Guarded == {"preparing", "running", "asking", "holding", "starting",
            "overLimit", "calling"}

Job(w) == worker[w].job
JobRow(w) == run[Job(w)]
OwnsJob(w) == Owns(JobRow(w), w, 0)
MayWrite(w) == Owns(JobRow(w), w, MaxStall)

At(w, pc) == worker[w].pc = pc
Becomes(w, process) == worker' = [worker EXCEPT ![w] = process]
GoesTo(w, pc) == Becomes(w, [worker[w] EXCEPT !.pc = pc])

\* Outside the agent the callback and the heartbeat of the execution are history.
Leaves(w, pc, verdict) ==
  [Idle EXCEPT !.pc = pc, !.job = Job(w), !.attempt = worker[w].attempt, !.after = verdict]
Failing(w, verdict) == Leaves(w, "failing", verdict)

Init ==
  /\ StoreInit
  /\ worker = [w \in Worker |-> Idle]
  /\ renewal = [w \in Worker |-> NoRenewal]

\* A fenced progress write.  WorkerLeaseLost ends the execution in silence; a
\* missing Run (LookupError) is reported like any other error.
Writes(w, type, written) ==
  \/ Recorded(Job(w), w, type) /\ Becomes(w, written)
  \/ /\ Present(JobRow(w)) /\ ~OwnsJob(w)
     /\ Becomes(w, Idle)
     /\ UNCHANGED storeVars
  \/ /\ ~Present(JobRow(w))
     /\ Becomes(w, Failing(w, "RETRYABLE"))
     /\ UNCHANGED storeVars

-----------------------------------------------------------------------------
(* Claim and preparation *)

\* run_once: claim, or sleep until the next poll.
Poll(w, locked, pick) ==
  /\ At(w, "idle")
  /\ Claim(w, locked, pick)
  /\ IF pick = 0
     THEN UNCHANGED worker
     ELSE Becomes(w, [Idle EXCEPT !.pc = "loading", !.job = pick,
                                  !.attempt = run[pick].attempt + 1])
  /\ UNCHANGED renewal

\* get_run_execution_input: without a row there is nothing to fail either.
Load(w) ==
  /\ At(w, "loading")
  /\ IF Present(JobRow(w)) THEN GoesTo(w, "preparing") ELSE Becomes(w, Idle)
  /\ UNCHANGED <<storeVars, renewal>>

\* recall and prepare_session_context, which may raise, then
\* record_context_snapshot.
Prepare(w) ==
  /\ At(w, "preparing")
  /\ \/ Writes(w, "CONTEXT_PREPARED", [worker[w] EXCEPT !.pc = "running"])
     \/ Becomes(w, Failing(w, "RETRYABLE")) /\ UNCHANGED storeVars
  /\ UNCHANGED renewal

-----------------------------------------------------------------------------
(* Inside the agent: the callbacks *)

\* The agent makes its next call, and the callback is entered.
NextCall(w, kind) ==
  /\ At(w, "running")
  /\ Becomes(w, [worker[w] EXCEPT !.pc = "asking", !.after = kind])
  /\ UNCHANGED <<storeVars, renewal>>

\* The model client, a Tool or the agent itself raises.
AgentRaises(w) ==
  /\ At(w, "running")
  /\ Becomes(w, Failing(w, "RETRYABLE"))
  /\ UNCHANGED <<storeVars, renewal>>

\* The agent returns; the answer is thrown away if the heartbeat saw the loss.
AgentReturns(w) ==
  /\ At(w, "running")
  /\ Becomes(w, IF worker[w].lost THEN Idle ELSE Leaves(w, "completing", "none"))
  /\ UNCHANGED <<storeVars, renewal>>

\* MUTANT of AskCancelled: cancellation is only looked at when a Tool ends.
AskCancelledAtEndOnly(w) ==
  /\ At(w, "asking")
  /\ IF JobRow(w).cancel_requested /\ worker[w].after \in Verdict
     THEN Becomes(w, Failing(w, "CANCELLED"))
     ELSE GoesTo(w, "holding")
  /\ UNCHANGED <<storeVars, renewal>>

\* _check_cancelled, first read (a missing Run reads as not cancelled)
AskCancelled(w) ==
  /\ At(w, "asking")
  /\ IF JobRow(w).cancel_requested
     THEN Becomes(w, Failing(w, "CANCELLED"))
     ELSE GoesTo(w, "holding")
  /\ UNCHANGED <<storeVars, renewal>>

\* MUTANT of Reserved: the limit is compared after the count was raised.
ReservedOneMore(process) ==
  CASE process.after = "LLM" ->
         IF process.llm >= MaxLlmCalls
         THEN [process EXCEPT !.pc = "overLimit"]
         ELSE [process EXCEPT !.pc = "starting", !.llm = @ + 1]
    [] process.after = "TOOL" ->
         IF process.tool > MaxToolCalls
         THEN [process EXCEPT !.pc = "overLimit"]
         ELSE [process EXCEPT !.pc = "starting", !.tool = @ + 1]

\* _reserve_invocation
Reserved(process) ==
  CASE process.after = "LLM" ->
         IF process.llm >= MaxLlmCalls
         THEN [process EXCEPT !.pc = "overLimit"]
         ELSE [process EXCEPT !.pc = "starting", !.llm = @ + 1]
    [] process.after = "TOOL" ->
         IF process.tool >= MaxToolCalls
         THEN [process EXCEPT !.pc = "overLimit"]
         ELSE [process EXCEPT !.pc = "starting", !.tool = @ + 1]

\* MUTANT of CheckLease: a lost lease is reported as a cancellation.
CheckLeaseAsCancelled(w) ==
  /\ At(w, "holding")
  /\ Becomes(w,
       CASE ~OwnsJob(w) -> Failing(w, "CANCELLED")
         [] OwnsJob(w) /\ worker[w].after \in {"LLM", "TOOL"} -> Reserved(worker[w])
         [] OwnsJob(w) /\ worker[w].after = "OK" ->
              [worker[w] EXCEPT !.pc = "running", !.after = "none"]
         [] OTHER -> Failing(w, worker[w].after))
  /\ UNCHANGED <<storeVars, renewal>>

\* Second read of _check_cancelled; then on_chat_model_start and on_tool_start
\* reserve the call, on_tool_end raises or gives the result to the agent.
CheckLease(w) ==
  /\ At(w, "holding")
  /\ Becomes(w,
       CASE ~OwnsJob(w) -> Idle
         [] OwnsJob(w) /\ worker[w].after \in {"LLM", "TOOL"} -> Reserved(worker[w])
         [] OwnsJob(w) /\ worker[w].after = "OK" ->
              [worker[w] EXCEPT !.pc = "running", !.after = "none"]
         [] OTHER -> Failing(w, worker[w].after))
  /\ UNCHANGED <<storeVars, renewal>>

\* The call is refused for good: the log says so, then fail_run does.
ReachLimit(w) ==
  /\ At(w, "overLimit")
  /\ Writes(w, "CONTEXT_LIMIT_REACHED", Failing(w, "FATAL"))
  /\ UNCHANGED renewal

\* A model call in progress is "running": its end touches nothing.
Begun(w) ==
  [worker[w] EXCEPT
    !.pc = IF worker[w].after = "TOOL" THEN "calling" ELSE "running",
    !.after = "none",
    !.thinking = worker[w].thinking \/ worker[w].after = "LLM",
    !.late = IF JobRow(w).cancel_requested \/ ~Present(JobRow(w))
             THEN worker[w].late + 1 ELSE worker[w].late]

\* The announcement is a fenced write, except that a second model call of the
\* attempt announces nothing and so begins unchecked.
StartCall(w) ==
  /\ At(w, "starting")
  /\ CASE worker[w].after = "TOOL" -> Writes(w, "TOOL_STARTED", Begun(w))
       [] worker[w].after = "LLM" /\ ~worker[w].thinking ->
            Writes(w, "AGENT_THINKING", Begun(w))
       [] OTHER -> Becomes(w, Begun(w)) /\ UNCHANGED storeVars
  /\ UNCHANGED renewal

\* on_tool_end: the snapshot is written before the checks, so it is also
\* written for a Tool that failed, whatever its error says about retrying.
EndTool(w, verdict) ==
  /\ At(w, "calling")
  /\ Writes(w, IF verdict = "OK" THEN "TOOL_SUCCEEDED" ELSE "TOOL_FAILED",
            [worker[w] EXCEPT !.pc = "asking", !.after = verdict])
  /\ UNCHANGED renewal

\* on_tool_error: the Tool raised.  The snapshot, then the exception goes on
\* through the agent, except for bad arguments, which the agent framework
\* answers to the model; a lost lease replaces the exception.
ToolRaises(w) ==
  /\ At(w, "calling")
  /\ \/ Writes(w, "TOOL_FAILED", Failing(w, "RETRYABLE"))
     \/ Writes(w, "TOOL_FAILED", [worker[w] EXCEPT !.pc = "running"])
  /\ UNCHANGED renewal

-----------------------------------------------------------------------------
(* Reporting *)

\* complete_run.  If the acknowledgement of the commit is lost, or the commit
\* fails, the worker does not know the outcome and reports a failure.
Finish(w) ==
  /\ At(w, "completing")
  /\ \/ Complete(Job(w), w) /\ GoesTo(w, "extracting")
     \/ Complete(Job(w), w) /\ Becomes(w, Failing(w, "RETRYABLE"))
     \/ Becomes(w, Failing(w, "RETRYABLE")) /\ UNCHANGED storeVars
     \/ ~OwnsJob(w) /\ Becomes(w, Idle) /\ UNCHANGED storeVars
  /\ UNCHANGED renewal

\* complete_run also returns True for a Run it cancelled, hence a re-read, which
\* may raise; the extraction that follows an answer is module Memory's and
\* swallows its errors.
Extract(w) ==
  /\ At(w, "extracting")
  /\ \/ Becomes(w, Idle)
     \/ Becomes(w, Failing(w, "RETRYABLE"))
  /\ UNCHANGED <<storeVars, renewal>>

\* The code and the retryable flag each except-branch of execute_run passes.
CodeOf(verdict) == IF verdict = "CANCELLED" THEN "RUN_CANCELLED" ELSE "AGENT_ERROR"

\* record_failure_if_owned; without the lease the failure is discarded.
Report(w) ==
  /\ At(w, "failing")
  /\ \/ Fail(Job(w), w, CodeOf(worker[w].after), worker[w].after = "RETRYABLE")
     \/ ~OwnsJob(w) /\ UNCHANGED storeVars
  /\ Becomes(w, Idle)
  /\ UNCHANGED renewal

-----------------------------------------------------------------------------
(* Heartbeat, crash, clock *)

\* The thread reads the clock and sends its UPDATE (bound: one in flight).
SendRenewal(w) ==
  /\ worker[w].pc \in Guarded /\ ~worker[w].lost
  /\ renewal[w] = NoRenewal
  /\ renewal' = [renewal EXCEPT ![w] = [run |-> Job(w), attempt |-> worker[w].attempt,
                                        age |-> 0]]
  /\ UNCHANGED <<storeVars, worker>>

\* The thread that sent the UPDATE still belongs to the current execution.
Attended(w) ==
  /\ worker[w].pc \in Guarded
  /\ Job(w) = renewal[w].run /\ worker[w].attempt = renewal[w].attempt

LandRenewal(w) ==
  /\ renewal[w] # NoRenewal
  /\ \/ Renew(renewal[w].run, w, renewal[w].age) /\ UNCHANGED worker
     \/ /\ ~Renewable(run[renewal[w].run], w, renewal[w].age)
        /\ IF Attended(w) THEN Becomes(w, [worker[w] EXCEPT !.lost = TRUE])
                          ELSE UNCHANGED worker
        /\ UNCHANGED storeVars
  /\ renewal' = [renewal EXCEPT ![w] = NoRenewal]

\* An error of the UPDATE is logged and the thread goes on.
DropRenewal(w) ==
  /\ renewal[w] # NoRenewal
  /\ renewal' = [renewal EXCEPT ![w] = NoRenewal]
  /\ UNCHANGED <<storeVars, worker>>

\* The process dies, stops on SIGTERM between two Runs, or leaves the loop
\* with an error of claim, load or fail_run that nothing catches.
Crash(w) ==
  /\ ~At(w, "down")
  /\ Cardinality({v \in Worker : At(v, "down")}) < MaxCrashes
  /\ Becomes(w, [Idle EXCEPT !.pc = "down"])
  /\ UNCHANGED <<storeVars, renewal>>

\* An UPDATE older than MaxStall (bound) is given up.
Clock ==
  /\ Tick
  /\ renewal' = [w \in Worker |->
       IF renewal[w] = NoRenewal \/ renewal[w].age = MaxStall
       THEN NoRenewal
       ELSE [renewal[w] EXCEPT !.age = @ + 1]]
  /\ UNCHANGED worker

-----------------------------------------------------------------------------

Call(w) ==
  \/ \E kind \in {"LLM", "TOOL"} : NextCall(w, kind)
  \/ AskCancelled(w) \/ CheckLease(w) \/ ReachLimit(w) \/ StartCall(w)
  \/ \E verdict \in Verdict : EndTool(w, verdict)
  \/ ToolRaises(w)

\* Every step of a process that is not down and has claimed a Run.
Execute(w) ==
  \/ Load(w) \/ Prepare(w) \/ Call(w) \/ AgentRaises(w) \/ AgentReturns(w)
  \/ Finish(w) \/ Extract(w) \/ Report(w)

Heartbeat(w) == SendRenewal(w) \/ LandRenewal(w) \/ DropRenewal(w)

Next ==
  \/ ClientNext /\ UNCHANGED processVars
  \/ \E w \in Worker, locked \in SUBSET Run, pick \in Run \cup {0} : Poll(w, locked, pick)
  \/ \E w \in Worker : Execute(w) \/ Heartbeat(w) \/ Crash(w)
  \/ Clock

\* Workers and time do not stop: a process keeps executing (every call of the
\* agent has a timeout), an idle one polls and now and then finds no row
\* locked.  Nothing is assumed of clients, heartbeats or crashes.
Fairness ==
  /\ \A w \in Worker :
       /\ WF_poolVars(Execute(w))
       /\ WF_poolVars(\E pick \in Run \cup {0} : Poll(w, {}, pick))
  /\ WF_poolVars(Clock)

SafeSpec == Init /\ [][Next]_poolVars
Spec == SafeSpec /\ Fairness

-----------------------------------------------------------------------------
(* Properties *)

\* The writes are fenced by worker_id and lease, not by an attempt number; that
\* is enough: whenever the fence lets an execution write, the Run is in the
\* very attempt this execution was claimed with.
FencedByAttempt ==
  \A w \in Worker : Job(w) # 0 /\ MayWrite(w) => JobRow(w).attempt = worker[w].attempt

\* Cancelling or deleting a Run stops the work: each process begins at most
\* one more call, the one already past its checks.
CancellationStopsWork == \A w \in Worker : worker[w].late <= 1

\* RunStore takes for granted that a worker reports RUN_CANCELLED only for a Run
\* whose cancellation was requested.  It does.
CancelledAsAsked ==
  \A w \in Worker : At(w, "failing") /\ worker[w].after = "CANCELLED" /\ MayWrite(w) =>
    JobRow(w).cancel_requested

LogCount(r, type, k) ==
  Cardinality({i \in 1..Len(run[r].events) :
                 run[r].events[i] = [type |-> type, attempt |-> k]})

\* No attempt calls more Tools than agent_max_tool_calls, whoever else works
\* or believes to work on the Run at the same time.
ToolCallsPerAttempt ==
  \A r \in Run, k \in 1..MaxAttempts : LogCount(r, "TOOL_STARTED", k) <= MaxToolCalls

\* Every submitted Run comes to an end, or goes with its session.
EveryRunEnds ==
  \A r \in Run : run[r].status = "PENDING" ~>
                   run[r].status \in Terminal \cup {"DELETED"}

\* A cancellation takes effect.
CancellationTakesEffect ==
  \A r \in Run : run[r].cancel_requested ~> run[r].status \in {"CANCELLED", "DELETED"}
=============================================================================
