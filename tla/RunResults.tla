----------------------------- MODULE RunResults -----------------------------
(***************************************************************************)
(* The versioned result of a Run (output_json, app/run_results.py), which  *)
(* every transaction of the queue that says something about the Run        *)
(* updates together with its row: submission copies the result of the Run  *)
(* it supersedes, Tool results replace parts of it, the end of the Run     *)
(* closes it.  The action of RunStore and the update of the result are one *)
(* transaction, hence one action here.                                     *)
(*                                                                         *)
(* A payload is represented by the Run that computed it; warnings, sources *)
(* and texts are left out.                                                 *)
(***************************************************************************)
EXTENDS RunStore

CONSTANT MaxOpen  \* bound: unfinished Runs at any time

ASSUME ResultAssumption == MaxOpen \in Nat \ {0}

VARIABLE result  \* result[r]: output_json of Run r

resultVars == <<storeVars, result>>

-----------------------------------------------------------------------------

\* The Tool that fills a part of the result.
ToolOf == [weather |-> "find_best_weather_window",
           guide |-> "plan_wikivoyage_trip", route |-> "plan_wikivoyage_trip"]
Part == DOMAIN ToolOf
Tool == {ToolOf[p] : p \in Part}

Shown == {"READY", "DEGRADED"}
PartStatus == Shown \cup {"PENDING", "UNAVAILABLE"}

\* content[tool]: the Run whose call of the tool computed the payload shown
\* (weather_window, itinerary), 0 if None.  from: inherited_from_run_id.
Result == [status: {"PARTIAL", "COMPLETE", "FAILED"},
           content: [Tool -> 0..MaxRuns],
           part: [Part -> [status: PartStatus, from: 0..MaxRuns]]]

NoResult == [status |-> "PARTIAL",
             content |-> [tool \in Tool |-> 0],
             part |-> [p \in Part |-> [status |-> "PENDING", from |-> 0]]]

ResultInit == StoreInit /\ result = [r \in Run |-> NoResult]

\* build_initial_result: everything of the superseded Run is copied, what
\* can be shown is marked with that Run.
Initial(previous) ==
  IF previous = 0
  THEN NoResult
  ELSE [result[previous] EXCEPT
          !.status = "PARTIAL",
          !.part = [p \in Part |->
                      IF @[p].status \in Shown
                      THEN [@[p] EXCEPT !.from = previous] ELSE @[p]]]

\* MUTANT of ToolFailed: a failed call hides the part.
ToolFailedHiding(res, tool) ==
  [res EXCEPT !.status = "PARTIAL",
              !.part = [p \in Part |->
                 IF ToolOf[p] = tool
                 THEN [status |-> "UNAVAILABLE", from |-> @[p].from] ELSE @[p]]]

\* MUTANT of ToolFailed: a failed call forgets where the payload came from.
ToolFailedUnmarking(res, tool) ==
  [res EXCEPT !.status = "PARTIAL",
              !.part = [p \in Part |->
                 IF ToolOf[p] = tool
                 THEN [status |-> IF res.content[tool] # 0 THEN "DEGRADED"
                                                           ELSE "UNAVAILABLE",
                       from |-> 0]
                 ELSE @[p]]]

\* apply_tool_result, not succeeded: a payload that is there stays, degraded.
ToolFailed(res, tool) ==
  [res EXCEPT !.status = "PARTIAL",
              !.part = [p \in Part |->
                 IF ToolOf[p] = tool
                 THEN [status |-> IF res.content[tool] # 0 THEN "DEGRADED"
                                                           ELSE "UNAVAILABLE",
                       from |-> @[p].from]
                 ELSE @[p]]]

\* apply_tool_result, succeeded: degraded says whether the warnings of the
\* itinerary name a substitute for the routing service.
ToolSucceeded(res, r, tool, degraded) ==
  [res EXCEPT !.status = "PARTIAL",
              !.content[tool] = r,
              !.part = [p \in Part |->
                 IF ToolOf[p] = tool
                 THEN [status |-> IF p = "route" /\ degraded THEN "DEGRADED"
                                                             ELSE "READY",
                       from |-> 0]
                 ELSE @[p]]]

\* complete_result
CompletedResult(res, blank) ==
  LET part == [p \in Part |->
                 IF res.part[p].status = "PENDING"
                 THEN [status |-> "UNAVAILABLE", from |-> 0] ELSE res.part[p]]
  IN [res EXCEPT !.part = part,
                 !.status = IF ~blank /\ \A p \in Part : part[p].status \in Shown
                            THEN "COMPLETE" ELSE "PARTIAL"]

\* fail_result, terminal; for a retry it only adds a warning.
FailedResult(res) ==
  [res EXCEPT !.status = "FAILED",
              !.part = [p \in Part |->
                 CASE @[p].status = "PENDING" -> [status |-> "UNAVAILABLE", from |-> 0]
                   [] @[p].status # "PENDING" /\ @[p].from # 0 ->
                        [@[p] EXCEPT !.status = "DEGRADED"]
                   [] OTHER -> @[p]]]

-----------------------------------------------------------------------------
(* The transactions *)

Unfinished(r) == run[r].status \in {"PENDING", "RUNNING"}

Submit(s, r) ==
  /\ Cardinality({q \in Run : Unfinished(q)}) < MaxOpen
  /\ Enqueue(s, r)
  /\ result' = [result EXCEPT ![r] = Initial(run'[r].supersedes)]

Delete(s) ==
  /\ DeleteSession(s)
  /\ result' = [r \in Run |-> IF r \in InSession(s) THEN NoResult ELSE result[r]]

\* Only a PENDING Run ends here.
Cancel(r) ==
  /\ RequestCancellation(r)
  /\ result' = [result EXCEPT
                 ![r] = IF run[r].status = "PENDING" THEN FailedResult(@) ELSE @]

\* The sweep closes the results of the Runs it ends.
ClaimAndSweep(w, locked, pick) ==
  /\ Claim(w, locked, pick)
  /\ result' = [r \in Run |-> IF run[r].status = "RUNNING" /\ run'[r].status \in Terminal
                              THEN FailedResult(result[r]) ELSE result[r]]

\* record_tool_snapshot
RecordTool(r, w, tool, succeeded, degraded) ==
  /\ Recorded(r, w, IF succeeded THEN "TOOL_SUCCEEDED" ELSE "TOOL_FAILED")
  /\ result' = [result EXCEPT
                 ![r] = IF succeeded THEN ToolSucceeded(@, r, tool, degraded)
                                     ELSE ToolFailed(@, tool)]

\* MUTANT of Answer: the result is completed before the cancellation is read.
AnswerFirst(r, w, blank) ==
  /\ Complete(r, w)
  /\ result' = [result EXCEPT ![r] = CompletedResult(@, blank)]

\* complete_run; blank says whether the answer is.
Answer(r, w, blank) ==
  /\ Complete(r, w)
  /\ result' = [result EXCEPT ![r] = IF run[r].cancel_requested
                                     THEN FailedResult(@)
                                     ELSE CompletedResult(@, blank)]

GiveUp(r, w, code, retryable) ==
  /\ Fail(r, w, code, retryable)
  /\ result' = [result EXCEPT ![r] = IF run'[r].status = "PENDING"
                                     THEN @ ELSE FailedResult(@)]

\* Renewals and time do not touch results.
Elapse ==
  /\ Tick \/ \E r \in Run, w \in Worker, stall \in 0..MaxStall : Renew(r, w, stall)
  /\ UNCHANGED result

ResultNext ==
  \/ \E s \in Session, r \in Run : Submit(s, r)
  \/ \E s \in Session : Delete(s)
  \/ \E r \in Run : Cancel(r)
  \/ LET open == {r \in Run : Unfinished(r)} IN  \* locks of other rows do not matter
     \E w \in Worker, locked \in SUBSET open, pick \in open \cup {0} :
       ClaimAndSweep(w, locked, pick)
  \/ \E r \in Run, w \in Worker :
       \/ \E tool \in Tool, succeeded \in BOOLEAN, degraded \in BOOLEAN :
            (degraded => succeeded) /\ RecordTool(r, w, tool, succeeded, degraded)
       \/ \E blank \in BOOLEAN : Answer(r, w, blank)
       \/ \E code \in WorkerError, retryable \in BOOLEAN : GiveUp(r, w, code, retryable)
  \/ Elapse

ResultSpec == ResultInit /\ [][ResultNext]_resultVars

-----------------------------------------------------------------------------
(* Properties *)

\* A part is shown exactly when there is something to show: the status of a
\* component and the payload it stands for are separate fields, the payload of
\* two components even the same field, updated over several attempts and Runs.
ShownIffContent ==
  \A r \in Run, p \in Part :
    (result[r].part[p].status \in Shown) <=> (result[r].content[ToolOf[p]] # 0)

\* inherited_from_run_id tells the truth: a part that carries it shows what the
\* superseded, successful Run shows, and a part without it what this Run has
\* computed itself, through failed calls, retries and chains of versions.
ProvenanceTrue ==
  \A r \in Run, p \in Part :
    LET part == result[r].part[p]
        shown == result[r].content[ToolOf[p]]
    IN /\ part.from # 0 =>
            /\ part.from = run[r].supersedes
            /\ shown = result[part.from].content[ToolOf[p]]
       /\ part.from = 0 /\ part.status \in Shown => shown = r

\* The result tells the outcome of the Run: failed exactly for the Runs that
\* failed or were cancelled, complete only for answered ones that show every
\* part; nothing is pending after the end, and what a failed Run inherited is
\* not presented as up to date.
OutcomeTold ==
  \A r \in Run :
    LET res == result[r] IN
    /\ (res.status = "FAILED") <=> (run[r].status \in {"FAILED", "CANCELLED"})
    /\ res.status = "COMPLETE" =>
         run[r].status = "SUCCEEDED" /\ \A p \in Part : res.part[p].status \in Shown
    /\ run[r].status \in Terminal => \A p \in Part : res.part[p].status # "PENDING"
    /\ res.status = "FAILED" =>
         \A p \in Part : res.part[p].from # 0 => res.part[p].status = "DEGRADED"
=============================================================================
