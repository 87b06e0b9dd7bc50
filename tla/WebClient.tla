------------------------------ MODULE WebClient ------------------------------
(***************************************************************************)
(* The page (app/web/app.js): what it shows of which session and Run, and  *)
(* the asynchronous functions that change it.                              *)
(*                                                                         *)
(* A call of such a function is a thread: it runs without interruption     *)
(* between two awaits, sends a request before each of them, and goes on    *)
(* with the answer in whatever state other calls and the event stream      *)
(* have left the page.  Several calls are under way at a time because the  *)
(* rail of sessions stays usable while one runs and because events of the  *)
(* Run start calls that nobody awaits.  The server answers a request at    *)
(* one moment; answers arrive in any order.                                *)
(*                                                                         *)
(* Left out: login, logout and memories, renaming and archiving (no Run or *)
(* session changes hands), pages of the history, a second tab, and what    *)
(* EventStream shows about lost connections.  Each Run is one Tool result  *)
(* followed by its end; the weather and the itinerary of a result (its     *)
(* cards) are one part, which the Tool adds if it does not fail.           *)
(***************************************************************************)
EXTENDS Integers, Sequences, FiniteSets, FiniteSetsExt

CONSTANTS
  Thread,       \* bound: calls under way at any time
  MaxSessions,  \* bound: sessions
  MaxRuns,      \* bound: Runs
  Known,        \* sessions that exist when the page is opened, with one Run each
  MayFail       \* whether requests may fail

ASSUME WebAssumption ==
  /\ MaxSessions \in Nat /\ MaxRuns \in Nat
  /\ Known \in 0..Min({MaxSessions, MaxRuns})
  /\ MayFail \in BOOLEAN

VARIABLES
  session,  \* server: whether a session is "new", "there" or "deleted"
  run,      \* server: the session, the progress and the result of each Run
  page,     \* state.sessionId, runId, runActive; whose timeline is shown
  output,   \* the version of a Run's result that is shown, and whose cards are
  stream,   \* state.eventSource: its Run, whether open, the events handled
  items,    \* state.sessionItems
  thread,   \* thread[t]: the call t
  overlap   \* history: "background" calls have overlapped with a user's action,
            \* or it was "disturbed" by other actions or a failed request

vars == <<session, run, page, output, stream, items, thread, overlap>>

-----------------------------------------------------------------------------

Session == 1..MaxSessions
Run == 1..MaxRuns

\* home 0: not yet submitted.  progress: -1 deleted, 0 queued, 1 a Tool has
\* returned, 2 ended.  cards: its result has weather or an itinerary.
NoRun == [home |-> 0, progress |-> 0, cards |-> FALSE, succeeded |-> FALSE]
There(r) == run[r].home # 0 /\ run[r].progress >= 0

\* An entry of the list of sessions: the last Run and whether it has ended.
Unlisted == [listed |-> FALSE, last |-> 0, ended |-> FALSE]
NoItems == [s \in Session |-> Unlisted]

\* at: the await the call is in.  session, run: what it has captured.  flag: a
\* follow-up (post), refreshMessages (fetch), restoreLatest (list), an ended
\* Run (restore).  reply: sent, answered or failed; value, cards, items: its contents.
Idle == [at |-> "idle", session |-> 0, run |-> 0, flag |-> FALSE,
         reply |-> "sent", value |-> 0, cards |-> FALSE, items |-> NoItems]

NoOutput == [run |-> 0, progress |-> 0, cards |-> 0]

KnownRuns(progress, cards, succeeded) ==
  [r \in Run |-> IF r \in 1..Known
                 THEN [home |-> r, progress |-> progress[r],
                       cards |-> cards[r], succeeded |-> succeeded[r]]
                 ELSE NoRun]

Init ==
  /\ session = [s \in Session |-> IF s \in 1..Known THEN "there" ELSE "new"]
  /\ \E progress \in [1..Known -> {0, 2}], cards, succeeded \in [1..Known -> BOOLEAN] :
       /\ \A r \in 1..Known : cards[r] \/ succeeded[r] => progress[r] = 2
       /\ run = KnownRuns(progress, cards, succeeded)
  /\ page = [session |-> 0, run |-> 0, active |-> FALSE, timeline |-> 0]
  /\ output = NoOutput
  /\ stream = [run |-> 0, open |-> FALSE, seen |-> 0]
  /\ items = NoItems
  /\ \E t \in Thread :
       thread = [u \in Thread |->
                   IF u = t THEN [Idle EXCEPT !.at = "list", !.flag = TRUE] ELSE Idle]
  /\ overlap = "none"

-----------------------------------------------------------------------------
(* Calls *)

At(t, at) == thread[t].at = at
Free == {t \in Thread : At(t, "idle")}

\* Background calls change what is shown of a session, not the session.
Background == {t \in Thread : \/ At(t, "fetch") \/ At(t, "refresh")
                              \/ At(t, "list") /\ ~thread[t].flag}
Foreground == Thread \ (Free \cup Background)

Goes(t, call) == thread' = [thread EXCEPT ![t] = call]

Starts(calls) ==
  \E place \in [DOMAIN calls -> Free] :
    /\ \A i, j \in DOMAIN calls : i # j => place[i] # place[j]
    /\ thread' = [t \in Thread |->
         IF \E i \in DOMAIN calls : place[i] = t
         THEN calls[CHOOSE i \in DOMAIN calls : place[i] = t] ELSE thread[t]]

Listing == [Idle EXCEPT !.at = "list"]
Fetching(refresh) == [Idle EXCEPT !.at = "fetch", !.run = page.run, !.flag = refresh]
Restoring(s, item) == [Idle EXCEPT !.at = "restore", !.session = s,
                                   !.run = item.last, !.flag = item.ended]

\* resetWorkspace
Reset(s, active) ==
  /\ page' = [session |-> s, run |-> 0, active |-> active, timeline |-> 0]
  /\ output' = NoOutput
  /\ stream' = [stream EXCEPT !.open = FALSE]

\* renderRunOutput: everything is the version's, but cards it does not have stay.
Drawn(r, progress, cards) ==
  output' = [run |-> r, progress |-> progress, cards |-> IF cards THEN r ELSE output.cards]

-----------------------------------------------------------------------------
(* What the user does; Acts records what is under way meanwhile. *)

Acts ==
  /\ overlap' = CASE overlap = "disturbed" \/ Foreground # {} -> "disturbed"
                  [] overlap # "disturbed" /\ Foreground = {} /\ Free # Thread -> "background"
                  [] OTHER -> overlap
  /\ UNCHANGED <<session, run, items>>

\* The button is disabled while a Run is active.
SubmitJourney ==
  /\ ~page.active
  /\ Reset(0, TRUE)
  /\ Starts(<<[Idle EXCEPT !.at = "create"]>>)
  /\ Acts

\* MUTANT of SubmitFollowUp: only the button is disabled, not the shortcut.
SubmitFollowUpAnytime ==
  /\ page.session # 0
  /\ page' = [page EXCEPT !.run = 0, !.active = TRUE]
  /\ stream' = [stream EXCEPT !.open = FALSE]
  /\ Starts(<<[Idle EXCEPT !.at = "post", !.session = page.session, !.flag = TRUE]>>)
  /\ Acts
  /\ UNCHANGED output

SubmitFollowUp ==
  /\ page.session # 0
  /\ ~page.active
  /\ page' = [page EXCEPT !.run = 0, !.active = TRUE]
  /\ stream' = [stream EXCEPT !.open = FALSE]
  /\ Starts(<<[Idle EXCEPT !.at = "post", !.session = page.session, !.flag = TRUE]>>)
  /\ Acts
  /\ UNCHANGED output

RestoreSession(s) ==
  /\ items[s].listed
  /\ Reset(s, page.active)
  /\ Starts(<<Restoring(s, items[s])>>)
  /\ Acts

DeleteSession(s) ==
  /\ items[s].listed
  /\ Starts(<<[Idle EXCEPT !.at = "delete", !.session = s]>>)
  /\ Acts
  /\ UNCHANGED <<page, output, stream>>

OpenHistory ==
  /\ Starts(<<Listing>>)
  /\ Acts
  /\ UNCHANGED <<page, output, stream>>

-----------------------------------------------------------------------------
(* The server *)

LastRun(s) == Max({0} \cup {r \in Run : There(r) /\ run[r].home = s})

\* list_sessions, one snapshot
Listed == [s \in Session |->
             IF session[s] = "there"
             THEN [listed |-> TRUE, last |-> LastRun(s),
                   ended |-> LastRun(s) # 0 /\ run[LastRun(s)].progress = 2]
             ELSE Unlisted]

\* create_message_run starts from the result of the last success, build_initial_result.
Supersedes(s) ==
  Max({0} \cup {r \in Run : There(r) /\ run[r].home = s /\ run[r].succeeded})

Inherits(s) == Supersedes(s) # 0 /\ run[Supersedes(s)].cards

\* A lost answer leaves the effect of the request in place.
Answers(t, value, cards, list) ==
  \E reply \in {"answered"} \cup (IF MayFail THEN {"failed"} ELSE {}) :
    Goes(t, [thread[t] EXCEPT !.reply = reply,
               !.value = IF reply = "answered" THEN value ELSE 0,
               !.cards = reply = "answered" /\ cards,
               !.items = IF reply = "answered" THEN list ELSE NoItems])

Refuses(t) ==
  /\ Goes(t, [thread[t] EXCEPT !.reply = "failed"])
  /\ UNCHANGED <<session, run>>

Serve(t) ==
  LET call == thread[t]
      s == call.session
      newSession == {q \in Session : session[q] = "new"}
      newRun == {r \in Run : run[r].home = 0}
  IN
  /\ call.reply = "sent"
  /\ CASE call.at = "create" /\ newSession # {} ->
            /\ session' = [session EXCEPT ![Min(newSession)] = "there"]
            /\ Answers(t, Min(newSession), FALSE, NoItems)
            /\ UNCHANGED run
       [] call.at = "post" /\ session[s] = "there" /\ newRun # {} ->
            /\ run' = [run EXCEPT ![Min(newRun)] = [@ EXCEPT !.home = s, !.cards = Inherits(s)]]
            /\ Answers(t, Min(newRun), Inherits(s), NoItems)
            /\ UNCHANGED session
       [] call.at \in {"fetch", "restored"} /\ There(call.run) ->
            /\ Answers(t, run[call.run].progress, run[call.run].cards, NoItems)
            /\ UNCHANGED <<session, run>>
       [] call.at = "list" ->
            /\ Answers(t, 0, FALSE, Listed)
            /\ UNCHANGED <<session, run>>
       [] call.at = "delete" /\ session[s] = "there" ->
            /\ session' = [session EXCEPT ![s] = "deleted"]
            /\ run' = [r \in Run |-> IF run[r].home = s
                                     THEN [run[r] EXCEPT !.progress = -1] ELSE run[r]]
            /\ Answers(t, 0, FALSE, NoItems)
       [] \/ call.at \in {"post", "delete"} /\ session[s] = "deleted"
          \/ call.at \in {"fetch", "restored"} /\ ~There(call.run) ->
            Refuses(t)
       [] OTHER -> FALSE  \* no request is waiting, or a bound is reached
  /\ overlap' = IF thread'[t].reply = "failed" THEN "disturbed" ELSE overlap
  /\ UNCHANGED <<page, output, stream, items>>

\* A Run gets on: its Tool adds cards or fails, which leaves what the result has;
\* then the Run ends, well or not.
GetsOn(r, progress, cards, succeeded) ==
  run' = [run EXCEPT ![r] = [home |-> @.home, progress |-> progress,
                             cards |-> cards, succeeded |-> succeeded]]

Work(r) ==
  /\ There(r)
  /\ \/ /\ run[r].progress = 0
        /\ \E cards \in {run[r].cards, TRUE} : GetsOn(r, 1, cards, FALSE)
     \/ /\ run[r].progress = 1
        /\ \E succeeded \in BOOLEAN : GetsOn(r, 2, run[r].cards, succeeded)
  /\ UNCHANGED <<session, page, output, stream, items, thread, overlap>>

-----------------------------------------------------------------------------
(* Calls go on *)

Answered(t, at) == At(t, at) /\ thread[t].reply = "answered"
Failed(t, at) == At(t, at) /\ thread[t].reply = "failed"

\* The page goes on by itself.
Page == UNCHANGED <<session, run, overlap>>

\* loadMessageTimeline, from its answer on.
Timeline(t, arrives) ==
  LET s == thread[t].session
  IN IF arrives /\ s # 0 /\ session[s] = "there" THEN s ELSE page.timeline

\* The server's part of it is one step with the page's.
Arrives(arrives) ==
  /\ arrives \/ MayFail
  /\ overlap' = IF arrives THEN overlap ELSE "disturbed"
  /\ UNCHANGED <<session, run>>

\* submitJourney has its session.
Created(t) ==
  /\ \/ /\ Answered(t, "create")
        /\ page' = [page EXCEPT !.session = thread[t].value]
        /\ Goes(t, [Idle EXCEPT !.at = "post", !.session = thread[t].value])
     \/ /\ Failed(t, "create")
        /\ page' = [page EXCEPT !.active = FALSE]
        /\ Goes(t, Idle)
  /\ Page
  /\ UNCHANGED <<output, stream, items>>

\* submitJourney or submitFollowUp has its Run.
Posted(t) ==
  LET call == thread[t]
      followUp == call.flag
  IN
  /\ \/ /\ Answered(t, "post")
        /\ page' = [page EXCEPT !.run = call.value]
        /\ IF followUp THEN Drawn(call.value, 0, call.cards) ELSE UNCHANGED output
        /\ Goes(t, [Idle EXCEPT !.at = "timeline", !.session = page.session,
                                !.run = call.value])
     \/ /\ Failed(t, "post")
        /\ page' = [page EXCEPT !.active = FALSE]
        /\ UNCHANGED output
        /\ Goes(t, IF followUp THEN [Idle EXCEPT !.at = "refresh", !.session = page.session]
                               ELSE Idle)
  /\ Page
  /\ UNCHANGED <<stream, items>>

\* openEventStream
Opened(r) == [run |-> r, open |-> TRUE, seen |-> 0]

\* submitJourney and submitFollowUp, last part.
Submitted(t, arrives) ==
  /\ At(t, "timeline")
  /\ page' = [page EXCEPT !.timeline = Timeline(t, arrives)]
  /\ stream' = Opened(thread[t].run)
  /\ Goes(t, Listing)
  /\ Arrives(arrives)
  /\ UNCHANGED <<output, items>>

\* restoreSession has the timeline.
Restored(t, arrives) ==
  LET call == thread[t] IN
  /\ At(t, "restore")
  /\ page' = [page EXCEPT !.timeline = Timeline(t, arrives),
                          !.run = IF call.run = 0 THEN @ ELSE call.run,
                          !.active = call.run # 0 /\ ~call.flag]
  /\ Goes(t, IF call.run = 0 THEN Idle
             ELSE [Idle EXCEPT !.at = "restored", !.run = call.run])
  /\ Arrives(arrives)
  /\ UNCHANGED <<output, stream, items>>

\* fetchFinalRun: the answer is for the Run it was asked for.
Rendered(t) ==
  IF thread[t].reply = "answered" /\ page.run = thread[t].run
  THEN Drawn(thread[t].run, thread[t].value, thread[t].cards)
  ELSE UNCHANGED output

\* restoreSession, last part.
Watched(t) ==
  /\ At(t, "restored")
  /\ thread[t].reply # "sent"
  /\ Rendered(t)
  /\ stream' = Opened(page.run)
  /\ Goes(t, Idle)
  /\ Page
  /\ UNCHANGED <<page, items>>

Fetched(t) ==
  LET goesOn == Answered(t, "fetch") /\ page.run = thread[t].run /\ thread[t].flag
  IN
  /\ At(t, "fetch")
  /\ thread[t].reply # "sent"
  /\ Rendered(t)
  /\ Goes(t, IF goesOn /\ page.session # 0
             THEN [Idle EXCEPT !.at = "refresh", !.session = page.session] ELSE Idle)
  /\ Page
  /\ UNCHANGED <<page, stream, items>>

Refreshed(t, arrives) ==
  /\ At(t, "refresh")
  /\ page' = [page EXCEPT !.timeline = Timeline(t, arrives)]
  /\ Goes(t, Idle)
  /\ Arrives(arrives)
  /\ UNCHANGED <<output, stream, items>>

\* loadSessionHistory; the first one restores the latest session, here any of
\* the list.
Loaded(t) ==
  LET list == thread[t].items
      listed == {s \in Session : list[s].listed}
  IN
  /\ \/ /\ Answered(t, "list")
        /\ items' = list
        /\ IF thread[t].flag /\ listed # {}
           THEN \E s \in listed : Reset(s, page.active) /\ Goes(t, Restoring(s, list[s]))
           ELSE Goes(t, Idle) /\ UNCHANGED <<page, output, stream>>
     \/ /\ Failed(t, "list")
        /\ Goes(t, Idle)
        /\ UNCHANGED <<page, output, stream, items>>
  /\ Page

\* MUTANT of Deleted: the page forgets the session but not its Run.
DeletedKeepingRun(t) ==
  /\ \/ /\ Answered(t, "delete")
        /\ IF page.session = thread[t].session
           THEN /\ page' = [page EXCEPT !.session = 0]
                /\ stream' = [stream EXCEPT !.open = FALSE]
           ELSE UNCHANGED <<page, stream>>
        /\ Goes(t, Listing)
     \/ /\ Failed(t, "delete")
        /\ Goes(t, Idle)
        /\ UNCHANGED <<page, stream>>
  /\ Page
  /\ UNCHANGED <<output, items>>

\* deleteSession
Deleted(t) ==
  /\ \/ /\ Answered(t, "delete")
        /\ IF page.session = thread[t].session
           THEN /\ page' = [page EXCEPT !.session = 0, !.run = 0]
                /\ stream' = [stream EXCEPT !.open = FALSE]
           ELSE UNCHANGED <<page, stream>>
        /\ Goes(t, Listing)
     \/ /\ Failed(t, "delete")
        /\ Goes(t, Idle)
        /\ UNCHANGED <<page, stream>>
  /\ Page
  /\ UNCHANGED <<output, items>>

-----------------------------------------------------------------------------
(* The event stream *)

\* handleProgressEvent: the next event of the Run; the second one is its end.
Handle ==
  LET ends == stream.seen = 1
      fetch == IF page.run = 0 THEN <<>> ELSE <<Fetching(ends)>>
  IN
  /\ stream.open
  /\ stream.run # 0
  /\ stream.seen < run[stream.run].progress
  /\ stream' = [stream EXCEPT !.seen = @ + 1, !.open = ~ends]
  /\ page' = [page EXCEPT !.active = @ /\ ~ends]
  /\ Starts(IF ends THEN Append(fetch, Listing) ELSE fetch)
  /\ UNCHANGED <<session, run, output, items, overlap>>

-----------------------------------------------------------------------------

Next ==
  \/ SubmitJourney \/ SubmitFollowUp \/ OpenHistory \/ Handle
  \/ \E s \in Session : RestoreSession(s) \/ DeleteSession(s)
  \/ \E r \in Run : Work(r)
  \/ \E t \in Thread :
       \/ Serve(t) \/ Created(t) \/ Posted(t) \/ Watched(t) \/ Fetched(t)
       \/ Loaded(t) \/ Deleted(t)
       \/ \E arrives \in BOOLEAN :
            Submitted(t, arrives) \/ Restored(t, arrives) \/ Refreshed(t, arrives)

Spec == Init /\ [][Next]_vars

-----------------------------------------------------------------------------
(* Properties *)

\* Between actions, everything on the page belongs together: the Run is one of
\* the session that a follow-up would go to, the stream that decides when the
\* page is free again is the stream of that Run, the answer, the warnings and the
\* sources shown are the Run's, the weather and the itinerary the Run's too once
\* the version shown has any, and until then those of an earlier Run of the
\* session, and the timeline is the session's.  Background calls may overlap, but
\* a late refresh shows a timeline that was left; actions that overlap break it all.
PageCoherent ==
  overlap # "disturbed" /\ Foreground = {} =>
    /\ page.run # 0 => /\ run[page.run].home = page.session
                       /\ stream.run = page.run
    /\ page.active /\ page.session # 0 => stream.open
    /\ page.run # 0 /\ output.run # 0 =>
         /\ output.run = page.run
         /\ output.progress > 0 /\ run[page.run].cards => output.cards = page.run
    /\ page.run # 0 /\ output.cards # 0 =>
         output.cards <= page.run /\ run[output.cards].home = page.session
    /\ overlap = "none" /\ page.session # 0 => page.timeline = page.session

\* One Run at a time in a session, which the context of a Run relies on: the
\* page is free only if the last Run of its session has ended, although it
\* learns of Runs through lists and events.
OneRunAtATime ==
  overlap = "none" =>
    \A s \in Session :
      Cardinality({r \in Run : There(r) /\ run[r].home = s /\ run[r].progress < 2}) <= 1

\* README, line 51, and ADR 0007: once the Run has ended the page shows its
\* final answer.
FinalAnswerShown ==
  overlap = "none" /\ Free = Thread /\ stream.seen = 2 /\ stream.run = page.run /\ page.run # 0
    => output.run = page.run /\ output.progress = 2
=============================================================================
