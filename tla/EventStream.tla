---------------------------- MODULE EventStream ----------------------------
(***************************************************************************)
(* The event stream of a Run: the generator behind stream_run_events in    *)
(* app/main.py, which polls read_events_after of app/store.py, the         *)
(* connection, and the browser's EventSource, which reconnects with        *)
(* Last-Event-ID until the page closes it on a terminal event.             *)
(*                                                                         *)
(* read_events_after reads the status and then the events in two           *)
(* statements of a READ COMMITTED transaction, so the queue of RunStore    *)
(* may move between them.  Connections share nothing but the queue.        *)
(***************************************************************************)
EXTENDS RunStore

CONSTANTS
  Client,     \* EventSource objects, one per opened stream
  MaxBreaks   \* bound: connection losses of one client

ASSUME StreamAssumption == MaxBreaks \in Nat

VARIABLES
  client,  \* client[c]: the browser's side
  server,  \* server[c]: the generator of its current connection
  wire     \* wire[c]: events sent and not received, in order

streamVars == <<client, server, wire>>
allVars == <<storeVars, streamVars>>

-----------------------------------------------------------------------------

\* watches: its Run.  phase: closed (not opened), open, lost (will reconnect),
\* done (closed by the page at the terminal event), refused (HTTP error: an
\* EventSource gives up).  got: the sequence numbers handled, in order.
NewClient == [watches |-> 0, phase |-> "closed", got |-> <<>>, lastId |-> 0, breaks |-> 0]

\* pc: none, status (about to read it), events (about to read them), sending,
\* ended.  seen: the status read.
NoServer == [pc |-> "none", cursor |-> 0, seen |-> "ABSENT", batch |-> <<>>]

LogOf(c) == run[client[c].watches].events

\* The events after a cursor, by sequence.
EventsAfter(c, cursor) ==
  [i \in 1..(Len(LogOf(c)) - cursor) |->
     [sequence |-> cursor + i, type |-> LogOf(c)[cursor + i].type]]

\* MUTANT of PageCloses: the page does not listen to cancellations.
PageClosesAtOutcome(type) == type \in {"RUN_SUCCEEDED", "RUN_FAILED"}

\* handleProgressEvent closes the EventSource.
PageCloses(type) == type \in {"RUN_SUCCEEDED", "RUN_FAILED", "RUN_CANCELLED"}

StreamInit ==
  /\ StoreInit
  /\ client = [c \in Client |-> NewClient]
  /\ server = [c \in Client |-> NoServer]
  /\ wire = [c \in Client |-> <<>>]

ClientBecomes(c, new) == client' = [client EXCEPT ![c] = new]
ServerBecomes(c, new) == server' = [server EXCEPT ![c] = new]

-----------------------------------------------------------------------------
(* Connecting *)

\* MUTANT of Resumed: the header is ignored, only the query parameter counts.
ResumedFromQuery(c) == 0

\* cursor = max(after, Last-Event-ID); the page opens the stream at after = 0.
Resumed(c) == client[c].lastId

\* stream_run_events up to the response: a missing Run is a 404.
Serve(c, r, connected) ==
  IF Present(run[r])
  THEN /\ ClientBecomes(c, [connected EXCEPT !.phase = "open"])
       /\ ServerBecomes(c, [NoServer EXCEPT !.pc = "status", !.cursor = Resumed(c)])
  ELSE /\ ClientBecomes(c, [connected EXCEPT !.phase = "refused"])
       /\ UNCHANGED server

\* openEventStream, after the submission returned the Run.
Open(c, r) ==
  /\ client[c].phase = "closed"
  /\ run[r].status # "ABSENT"
  /\ Serve(c, r, [client[c] EXCEPT !.watches = r])
  /\ UNCHANGED <<storeVars, wire>>

Reconnect(c) ==
  /\ client[c].phase = "lost"
  /\ Serve(c, client[c].watches, client[c])
  /\ UNCHANGED <<storeVars, wire>>

\* The connection breaks with everything in flight; the generator of the old
\* connection notices at its next step and has no effect on anything.
Break(c) ==
  /\ client[c].phase = "open"
  /\ client[c].breaks < MaxBreaks
  /\ ClientBecomes(c, [client[c] EXCEPT !.phase = "lost", !.breaks = @ + 1])
  /\ ServerBecomes(c, NoServer)
  /\ wire' = [wire EXCEPT ![c] = <<>>]
  /\ UNCHANGED storeVars

-----------------------------------------------------------------------------
(* The generator *)

\* read_events_after, first statement (no row: neither status is terminal)
ReadStatus(c) ==
  /\ server[c].pc = "status"
  /\ ServerBecomes(c, [server[c] EXCEPT !.pc = "events",
                                        !.seen = run[client[c].watches].status])
  /\ UNCHANGED <<storeVars, client, wire>>

\* Second statement.
ReadEvents(c) ==
  /\ server[c].pc = "events"
  /\ ServerBecomes(c, [server[c] EXCEPT
                        !.pc = "sending",
                        !.batch = EventsAfter(c, server[c].cursor)])
  /\ UNCHANGED <<storeVars, client, wire>>

\* One turn of the for loop.
Send(c) ==
  /\ server[c].pc = "sending"
  /\ server[c].batch # <<>>
  /\ ServerBecomes(c, [server[c] EXCEPT !.cursor = Head(server[c].batch).sequence,
                                        !.batch = Tail(server[c].batch)])
  /\ wire' = [wire EXCEPT ![c] = Append(@, Head(server[c].batch))]
  /\ UNCHANGED <<storeVars, client>>

\* MUTANT of EndBatch: the status is read again, after the events.
EndBatchRereading(c) ==
  /\ server[c].pc = "sending"
  /\ server[c].batch = <<>>
  /\ ServerBecomes(c, [server[c] EXCEPT
                        !.pc = IF run[client[c].watches].status \in Terminal
                               THEN "ended" ELSE "status"])
  /\ UNCHANGED <<storeVars, client, wire>>

\* After the batch: end at a terminal status, else poll again.
EndBatch(c) ==
  /\ server[c].pc = "sending"
  /\ server[c].batch = <<>>
  /\ ServerBecomes(c, [server[c] EXCEPT !.pc = IF server[c].seen \in Terminal
                                               THEN "ended" ELSE "status"])
  /\ UNCHANGED <<storeVars, client, wire>>

-----------------------------------------------------------------------------
(* The browser *)

\* The page handles an event and closes the EventSource if it is terminal.
Receive(c) ==
  /\ client[c].phase = "open"
  /\ wire[c] # <<>>
  /\ LET event == Head(wire[c])
         closes == PageCloses(event.type)
     IN /\ ClientBecomes(c, [client[c] EXCEPT
                              !.got = Append(@, event.sequence), !.lastId = event.sequence,
                              !.phase = IF closes THEN "done" ELSE "open"])
        /\ IF closes THEN ServerBecomes(c, NoServer) ELSE UNCHANGED server
        /\ wire' = [wire EXCEPT ![c] = IF closes THEN <<>> ELSE Tail(@)]
  /\ UNCHANGED storeVars

\* The response ended and the page did not close: the browser reconnects.
EndOfStream(c) ==
  /\ client[c].phase = "open"
  /\ server[c].pc = "ended"
  /\ wire[c] = <<>>
  /\ ClientBecomes(c, [client[c] EXCEPT !.phase = "lost"])
  /\ ServerBecomes(c, NoServer)
  /\ UNCHANGED <<storeVars, wire>>

-----------------------------------------------------------------------------

Serving(c) == ReadStatus(c) \/ ReadEvents(c) \/ Send(c) \/ EndBatch(c)
Browsing(c) == Reconnect(c) \/ Receive(c) \/ EndOfStream(c)

StreamNext ==
  \/ StoreNext /\ UNCHANGED streamVars
  \/ \E c \in Client :
       \/ \E r \in Run : Open(c, r)
       \/ Break(c) \/ Serving(c) \/ Browsing(c)

\* The event loop schedules every generator, the browser takes what arrives
\* and reconnects by itself.  Nothing is assumed of the queue.
StreamFairness == \A c \in Client : WF_allVars(Serving(c)) /\ WF_allVars(Browsing(c))

StreamSafe == StreamInit /\ [][StreamNext]_allVars
StreamSpec == StreamSafe /\ StreamFairness

-----------------------------------------------------------------------------
(* Properties *)

\* Exactly once and in order: through every loss and reconnection the page has
\* handled events 1, 2, ... without gap or repetition.
ExactlyOnce == \A c \in Client : \A i \in 1..Len(client[c].got) : client[c].got[i] = i

\* A generator ends only when it has sent the whole log, the terminal event
\* included (deletion aside, which removes the log).
EndsComplete ==
  \A c \in Client :
    server[c].pc = "ended" /\ run[client[c].watches].status # "DELETED" =>
      /\ server[c].cursor = Len(LogOf(c))
      /\ LogOf(c)[server[c].cursor].type \in TerminalEvent

\* The end of a Run reaches every page that watches it.
EndReachesPage ==
  \A c \in Client, r \in Run :
    (client[c].watches = r /\ run[r].status \in Terminal) ~>
      (client[c].phase \in {"done", "refused"} \/ run[r].status = "DELETED")
=============================================================================
