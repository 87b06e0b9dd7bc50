# Verification of the travel agent service

TLA+ models of the service in `src/`, the TLC runs that check them and the
TLAPS proofs about them. The service lets a user submit travel questions in
sessions. Every question becomes a *Run*, a row of a PostgreSQL table that
serves as a durable queue. Worker processes claim Runs, execute an LLM agent
with Tools under a lease kept alive by a heartbeat thread, log progress events
that the API streams to the browser (SSE), and finally answer, fail, retry or
cancel. Two of the Tools are deterministic algorithms of some depth: one
recommends dates from a forecast, one plans an itinerary.

## Inventory

| component | state | operations | what makes it correct |
| --- | --- | --- | --- |
| Run queue (`app/store.py`, `app/models.py`) | rows of `agent_runs` (status, cancel flag, owner, lease, retry time, attempts, error), `run_events`, assistant messages | enqueue, cancel, sweep and claim, renew, log progress, complete, fail or retry; deletion by cascade | no Run stranded, answered twice or taken over early; ends are final; cancellation wins; the log tells the history |
| Worker (`app/worker.py`, `app/callbacks.py`) | the execution in progress, call counters, heartbeat thread, lost flag | poll, load, prepare, callbacks around every LLM and Tool call, complete or report, extract memories | stale executions never write; work stops after cancellation; limits hold; every Run ends while a worker lives |
| Event stream (`app/main.py`, `store.read_events_after`, `app.js`) | cursor of each connection, the page's `EventSource` | poll status and events, send, break, reconnect with `Last-Event-ID` | every event delivered once and in order, the terminal one included |
| Run results (`app/run_results.py`) | the versioned snapshot in `output_json` | initial, Tool result, complete, fail | what is shown has a payload of the origin it names; status agrees with the Run's end |
| Long-term memory (`app/memory.py`) | `travel_memories` rows, mirror items in the LangGraph Store | create, update, delete (tombstone), extract, recall | deleted or unconfirmed memories never reach the agent |
| Session context (`app/context.py`) | rolling summary and its cursor | prepare per attempt | nothing of the conversation lost, nothing summarised twice, budgets kept |
| HTTP API, auth (`app/main.py`, `app/auth.py`) | users, auth sessions, sessions, the cookies and CSRF tokens of the browser | register, login, logout, CRUD of sessions, submit, cancel, stream | a page acts for the account it shows; tokens are refused only for a reason a reload cures |
| Web client (`app/web/app.js`) | current session, Run, stream, timeline, list of sessions | submit, follow up, restore, delete, handle events, query results | what is shown belongs to what is selected |
| Weather window (`weather_tool.py`) | none | score days, find runs of consecutive days, recommend one | the recommended window is the best of the complete ones |
| Listings (`travel_planner/sources.py`, `scoring.py`) | none beyond the call | choose pages, merge the listings of one attraction, filter, score | every attraction told of is planned, reported or excluded; no warning of a later page is lost |
| Planner (`travel_planner/`) | none beyond the call | search, geocode, select, cluster, trim, match days, route | nothing lost, days fit, routes and matching optimal, every loop ends |

They interact through the database: the API inserts Runs and flags, workers
take them with `FOR UPDATE SKIP LOCKED`, the stream polls what the workers
logged, results and context are updated in the transactions of the queue, and
deletion of a session cascades to Runs under execution. Within the browser,
asynchronous functions share one page state. Threads exist in two places, the
heartbeat of a worker and the request threads of the API. The hard behaviour
is therefore: interleavings of transactions of several processes on one row,
leases that expire while an agent works, renewals that land late, crashes
between any two transactions, lost acknowledgements, retries, rows loaded
without a lock and written later, answers that arrive out of order, reads that
guard a later call, and timers. In the planner it is numeric: ties, capacity
boundaries, loops whose end is not obvious.

`PROJECT.json` lists the hazards with the line where each bites and the
properties that watch it.

## Modules

    RunContract
        | INSTANCE
    RunStore --- RunStoreProofs
     /  |  |  \        |
    /   |  |   Transactions --- TransactionsProofs
    |   |  EventStream ---.
    |   RunResults ---------|
    WorkerPool -------------`-- ExecutionProofs

            Ordering
       /        |       \
    Attractions  WeatherWindow  DayRoutes   DayMatching
             \         |          |         /
              `---------- TripPlanner --- PlannerInductive --- PlannerProofs

    Memory --- MemoryProofs        SessionContext --- SessionContextProofs
    WebClient --- WebClientProofs  Accounts --- AccountsProofs

Each module that is run has an `MC...` module with its bounds and symmetries.

### RunStore, RunContract

`RunStore` is the queue as a caller may think of it. `run[r]` is the row of the
r-th Run in `created_at` order together with its event log; one action is one
committed transaction. A transaction that raises `WorkerLeaseLost` rolls back
and is no action. Callers are unconstrained: any worker may call anything at
any time, which covers stale, stalled and restarted processes. `Claim` includes
the sweep of expired Runs that precedes it in the same transaction, the limit
of the sweep and the effect of `SKIP LOCKED` (`locked` is the set of rows other
transactions hold). Time is kept as remaining time per row: `Tick` ages every
lease and retry delay. A transaction reads the clock once and commits later;
between the two up to `MaxStall` ticks pass. So `Claim`, `Renew` and `Fail` may
write a lease or a retry time that is up to `MaxStall` old, and the fencing
check `Owns` accepts a lease that ran out within the last `MaxStall` ticks.

`RunContract` is what a client may rely on for one Run, without workers,
leases or timers. `KeepsContract` says that every Run of `RunStore` follows it
under the mapping `Contract(r)`. It is written as "initial states map to
initial states, every step to a step or a stutter" so that it can quantify
over all Runs.

### Transactions

`RunStore` takes every transaction for one step. `Transactions` is why it may:
`txn[c]` is the transaction open on connection `c`, and a step of it locks one
row, reads and decides, or commits. Row locks have the three modes PostgreSQL
uses here. `enqueue_message` and `prepare_session_context` lock the session,
`update_session` only writes it, `delete_session` locks it and then, by
cascade, its Runs; `request_cancellation` locks both rows of its join, the Run
first; `complete_run` locks the Run, then its INSERT holds the session and its
UPDATE writes it; the sweep and the claim are two queries that skip locked
rows and may see different ones; `renew_lease` reads the clock, waits, and
checks the row again. A transaction may disconnect at any point, and the
deadlock detector of PostgreSQL aborts one of a circle of waiting transactions.

`ImplementsStore` is `StoreSpec` itself: the committed rows move by steps of
`RunStore` only. `OnlyDeletionsDeadlock` says which circles are possible at
all: `delete_session` (session, then Runs) against `complete_run` or
`request_cancellation` (Run, then session). The victim's user is answered
`DATABASE_UNAVAILABLE` or the worker fails to report; what that means for the
Run is in `WorkerPool`.

### WorkerPool

`WorkerPool` extends `RunStore` with the processes that call it: `worker[w]`
is the program counter of `execute_run` and the local state of its
`ProgressCallback`, `renewal[w]` the `UPDATE` the heartbeat thread has in
flight. One action is what a worker does between two transactions, including
the second. The agent is external: at `running` it may ask for an LLM or a Tool
call, raise or return. Every call passes through the two separate reads of
`_check_cancelled`, the reservation and the announcement, as in the callbacks.
Leaving the `with LeaseHeartbeat` block stops the thread, but a renewal in
flight stays in flight and lands later (`Thread.join` has a timeout). A crash
is final, since a restarted process draws a new `worker_id`. `Finish` includes
a commit whose acknowledgement is lost. Tool calls of one agent are sequential.
A progress event is logged only if the model tells its type apart
(`ProgressEvent`) and below the bound `MaxEvents`; the fencing check is made in
any case.

### EventStream

`EventStream` extends `RunStore` with connections: `server[c]` is the generator
of `stream_run_events`, `client[c]` the browser's `EventSource`, `wire[c]` what
is in flight. `read_events_after` reads the status and the events in two
statements of a READ COMMITTED transaction, so they are two actions and the
queue moves between them. A connection breaks at any point with everything on
the wire; the browser reconnects with the last identifier it handled, until
the page closes the stream at a terminal event or a response is an error.

### RunResults

`RunResults` extends `RunStore` with `result[r]`, the versioned `output_json`.
Each transaction of the queue that says something about a Run updates the
result in the same action. A payload is represented by the Run that computed
it, which is what `inherited_from_run_id` is compared with. Warnings, sources
and texts are left out.

### Memory

`Memory` models the calls of `MemoryService` on the rows of one user and on
the LangGraph Store. A call loads a row without a lock, commits the columns
it changed, and copies its own object into the Store; a failure there is
swallowed. So a call takes up to three actions, and calls of several callers
interleave. `orderly` records that no two calls overlapped and no copy was
lost: under it the strong properties are claimed, without it the weak one.

### SessionContext

`SessionContext` models `prepare_session_context` as one transaction (it locks
the session) over a growing conversation. Messages are token counts. Which
messages are selected, truncated, summarised, and where the cursor goes, is
computed as in the code, for Runs prepared in any order, again for every
attempt, and by workers that have lost them. `merged[m]` counts how often a
message went into the summary. A message that is cut off has exactly the tokens
it is allowed; the code may yield fewer, since it counts the text again that it
decoded. No property depends on the difference: only the newest message is cut,
and nothing comes after it.

### WebClient

`WebClient` models the page. Every call of an asynchronous function is a
thread that runs without interruption between two awaits; requests are
answered in any order or lost. Background calls (result queries, refreshes of
the timeline, lists of sessions) are told apart from calls that change what is
selected; `overlap` records which have overlapped. The server part is the
effect of the requests; connection losses are the business of `EventStream`.

The weather and the itinerary of a result are its *cards*. A Run begins with
those of the last success of its session, a Tool adds some or fails, and the Run
ends well or not. `output` says which Run and which version of it is shown, and
whose cards: `renderRunOutput` replaces the answer, the warnings and the sources
always, the cards only by others (`Drawn`), and a follow-up clears nothing.
Weather and itinerary are kept one by one in the code, and what is said of cards
is to be read of each of them, the Tool being the one that computes it. So
cards of an earlier Run of the session stay until the Run on the page has its
own, and longer if it ends without any. `PageCoherent` says just that.

### Accounts

`Accounts` is one browser with several pages that share a cookie jar, and the
server's sessions and CSRF tokens. A request carries the cookies and the
`X-CSRF-Token` of the moment it is sent and is answered later; the answer sets
its cookies when it arrives, so answers overtake one another, across pages too.
A guarded operation is admitted (`current_user` and `require_csrf`, in the
order each endpoint names them) in one step and performed in another. Requests
and answers get lost, sessions expire. `ActsAsShown` and `RefusedOnlyIfBehind`
tell what the double-submit cookie achieves although it was made for something
else: a page left open while another page signs in to a different account is
refused rather than acting for that account.

### Ordering, Attractions, WeatherWindow, DayMatching, DayRoutes, TripPlanner

`Ordering` is what the planner uses of Python to order, choose and round: the
order of tuples, `sort`, `min` with a key, a list comprehension with a
condition, and `round` (halves to the even number).
`Attractions`, `WeatherWindow` and `DayRoutes` are pure operators. The first
chooses pages as `collect_pages`, merges listings as `extract_pois` and scores
them as `score_poi`; texts are the classes of keywords found in them, and ages
are whole half-lives, for which the freshness is an exact integer. The others
are scores, consecutive windows and their ranking; the shortest open path by
dynamic programming over subsets, the greedy one above `ExactLimit` stops, the
order and the clock of a day. The loops of the code over lists and subsets are
recursive functions here (`AllVisited` has one layer per number of stops
visited), so that the proofs can reason about them. `DayMatching` is `hungarian`
as a record of registers (potentials, match, trail, least reduced costs, used
columns) and the operator of one pass of its loop; `math.inf` is a column
without a reduced cost, and moving the rows back along the trail (`Augmented`)
is one step. `TripPlanner` is the state machine of both Tools, one after the
other as the workflow calls them: every error return, the geocoder that goes
down or answers nonsense in the middle, and every iteration of the medoids, the
trimming and the matching as a step.

Travel times (`Durations`) are in fractions of a minute, `PerMinute` of them to
a minute: the searches, the medoids and the trimming add them up as they are,
the clock of a day rounds each leg to whole minutes (`DayEnd`), as in
`routing.py`. Scores are in hundredths, and the symmetric distance is twice the
mean, so all arithmetic is on integers and exact, where the code has floats: a
sum of times that differs from a limit by less than the error of a float addition
may be decided differently by the code. The parts of a weather score are rounded
down to whole percents, where the code has fractions. Windows are ranked on their mean rounded
to two decimals like in the Tool; at an exact half the model takes the even
hundredth, the float may lie on either side of it.

## Runs

| run | question | instance |
| --- | --- | --- |
| `store` | the queue lock by lock: rows, log, revisions, the contract, the atomic queue it implements, deadlocks | 1 session, 2 Runs, 2 workers, 2 connections, 2 attempts; lease, retry delay and stall of 1 tick; sweep limit 1; no progress events |
| `accounts` | for whom a page acts, and why it is refused | 2 pages of one browser, 2 accounts, 2 sign-ins, 3 CSRF tokens, 2 requests under way |
| `pool_safe` | stale executions, cancellation, call limits | 2 processes, one may crash, 1 Run, 2 attempts, 2 LLM calls, 1 Tool call, lease of 2 ticks, renewals 1 tick late |
| `pool_live` | every Run ends, every cancellation takes effect | 2 processes, one may crash, 1 call of each kind, no symmetry, under fairness |
| `stream` | events once, in order, and always the last | 1 page, 1 Run with 2 attempts, 2 connection losses |
| `results` | provenance and status of the snapshot | 3 versions of a plan, at most one of them retried, cancelled or failed |
| `memory` | what recall may return | 2 callers, a guess, an explicit and a manual memory, a Store that fails in every call |
| `memory_revived` | violated: extraction does not revive what was deleted | 2 callers, 1 explicit memory, a Store that works |
| `context` | window, budget, cursor | 3 Runs in any order with retries and stale workers, messages of 0, 2 and 9 tokens, budget 12, window of 2 |
| `web` | does the page mix up session, Run, stream, timeline | 3 calls at a time, 2 sessions, 2 Runs, failing requests |
| `web_final` | violated: after the Run the page shows the final answer | as above without failures |
| `planner` | from a forecast with gaps and some wiki pages to an itinerary | 1 to 4 days, up to 5 selected attractions at 3 places, 241 minutes a day, tenths of minutes |

Why the bounds are enough for the cases that matter:

- Two workers give every stale and every competing caller, a third one only
  repeats them. Two attempts give a first and a last one. A lease of one tick
  with a stall of one tick is valid, expired, written late and renewed after it
  ran out. Two Runs exceed the sweep limit, and one supersedes the other. Two
  connections are enough for every wait and for the circles the lock order
  permits; a second session only adds rows that nobody waits for. Progress
  events touch the same row under the same lock as the others and are logged in
  `pool_safe` and `stream`.
- Two connection losses give a loss before, within and after the batch that
  holds the terminal event, and a reconnection that is lost again.
- Three versions give a result that inherits what was inherited; the constraint
  `OneTroubled` leaves every position of the troubled one in the chain.
- In `memory` the constraint `FewRows` allows three rows as long as calls are
  orderly and fewer when they race; races are between two calls on one row.
- In `context` three user messages and up to three answers exceed the window,
  and 9 tokens exceed every budget, so that truncation, skipping and the
  summary all happen; empty answers reach the boundary rules.
- In `web` the constraint `Apart` stops concurrency only after actions have
  already overlapped or a request was lost, where the properties claim nothing;
  results have cards only before that, and with two calls at a time once
  background calls overlapped with an action. Only Runs with cards succeed,
  which leaves out a success that hands on nothing. The known Run may be queued,
  or have ended in every way, so a follow-up supersedes a success or a failure.
- In `accounts` two pages and two accounts give a page that is left behind, and
  one that is not asked. Nobody submits the form before the page has loaded, and
  passwords are right. `ActsAsShown` carries one exception, `crossed`: a page
  that takes its token while another page signs in, or when it shows an account
  already, acts for the account of the browser, whichever it shows. The first
  case is in the run. The second needs a third sign-in: `logout` offers the form
  again (the account button) before its `refreshCsrfToken` is answered, somebody
  signs in with the old token, another page signs in to another account, and
  then the refresh is answered. It was found by the proof, not by the run, whose
  two sign-ins are too few; an instance with three (5.1 million states, too
  large to keep) agrees with the theorem.
- In `planner` the places are one-way streets (the matrix is asymmetric) some
  tenths of a minute away from whole minutes, and 241 minutes a day is where the
  trimming lets a day pass that the clock, leg by leg, ends after its budget. The
  forecast has missing days, scores tie, some attractions close on some days.
  The wikis are all mixes of up to five kinds on one page, two cities told of
  on two pages that add a closed day, a place, a warning or a shut-down mark,
  attractions without coordinates or with half of them, a campus, listings that
  are no sights, hits that do not fit, pages that are gone, and none at all. All
  error returns, several rounds of the medoids, trims and augmentations over
  several columns occur. `ExactLimit` is 4 instead of 10, so that groups of five
  take the greedy path.

Processes, callers and calls are interchangeable, so the runs without liveness
use their symmetry. Deadlock is checked in every run but `web` and `web_final`,
where the bounds on sessions and Runs really stop the page; in the planner it
stands for "no loop gets stuck", in `store` for "no transaction waits for ever".

What the runs show beyond single properties:

- `FencedByAttempt`: the fence has no attempt number, and needs none: an
  execution passes it only in the attempt it was claimed with.
- `CancelledAsAsked` discharges what `RunStore` assumes of the worker, that it
  reports a cancellation only when one was requested.
- `NothingLost`: a listing of any page the search kept is in the itinerary, in
  the list of what did not fit, or left out for a reason that can be named.
- `AlwaysCloser` replaces a liveness property of the planner: a measure that
  every step lowers, together with the deadlock check. It ends the rounds of
  the medoids only through `MaxIterations`.
- `PotentialsFeasible` is why `CheapestDays` holds; the second compares the
  matching with all permutations. `PlannerProofs` derives one from the other.
- `ClosedOnlyIfUnavoidable` compares with all permutations too: bad weather,
  crowds and sunsets together never outweigh one closed day.

## Fairness

`pool_live` assumes that a process that is not down keeps executing, that an
idle one keeps polling and now and then finds no row locked by another
transaction (transactions are short), and that the clock advances. The agent's
calls return or raise: the HTTP clients of the Tools and of the model have
timeouts, and the call limits bound their number. Nothing is assumed about
clients, heartbeats or crashes, and at least one process stays up.

`stream` assumes that the event loop schedules every generator and that the
browser takes what arrives and reconnects; nothing of the queue, and losses are
bounded by `MaxBreaks`: a connection that always breaks delivers nothing.

## Proofs

All theorems hold for every number of Runs, workers, sessions, connections and
attempts and every length of lease, retry delay and stall. The assumptions are
`StoreAssumption` (the validated ranges of `app/config.py`, distinct null
values) and the distinct null values of the modules that extend `RunStore`. Those
about the planner are listed with it.

`RunStoreProofs`: `TypeCorrect`, `NoStranded`, `AnswerOnce`,
`CancellationHonoured`, `LogCorrect`, `TakeoverCorrect`, `ContractKept` (the
store implements `RunContract` for every Run), and two facts no run checks:
`LeaseCorrect`, a lease belongs to RUNNING Runs exactly, and `EndIsFinal`, no
transaction changes a Run that ended except the deletion of its session. The
argument is one inductive invariant of a row, `RowInv`. What the checked
properties lack to be inductive is `RowQueued`: a PENDING Run is neither
cancelled nor out of attempts. The claim of a PENDING Run increments
`attempt_count` without comparing it with `max_attempts`, and relies on
`fail_run` having compared it when it scheduled the retry; without `RowQueued`
even the type of `attempt` is not preserved. One lemma per row operator shows
that it preserves `RowInv` under the guard of its transaction, `EveryStep` says
which row operators an action applies, and the theorems follow from
`Invariant`.

Of the history of a Run: `LedgerCorrect`, from a row invariant that counts the
events of each kind in the log, by what each row operator appends;
`ChainCorrect`, from `ChainInv`, which adds that the revision of a Run is
bounded by the number of Runs of its session, since `Supersedes` looks only at
those present.

`TransactionsProofs`: `TransactionsRefine` (`SafeSpec => StoreSpec`),
`DeadlocksAreDeletions`, and `TransactionsCorrect`, which carries the theorems
about `RunStore` over. The invariant `TxnInv` says of every open transaction
that what it decided is still what it would decide now, with a reading of the
clock as old as it is itself. Commits of others keep it because of the locks
held, one lemma per kind of transaction; the passing of time keeps it because
the uncommitted versions age exactly as the rows do. `DeadlocksAreDeletions`
is about a circle of any length: a waiting transaction that deletes nothing
holds no session, or holds it in share mode while it answers. So in a circle of
such transactions everyone is waited for because of a share lock, hence is about
to write the row of the session, and that is what no share lock hinders.

`ExecutionProofs`, of the events: `StreamExactlyOnce` and `StreamEndsComplete`. What the page
has handled, what is on the wire and what the generator holds are three
adjacent intervals of the log, and the cursor is the end of the third. The log
only grows and does not grow once the Run ended; since the generator reads the
status before the events, a terminal status found means that the events found
are all.

`ExecutionProofs`, of the workers: `Fenced`, `CancelledOnlyAsAsked`, `WorkStops`, and
`PoolDrivesQueue` (`SafeSpec => StoreSpec`), by which the theorems about the
queue hold of the queue as the processes drive it. The invariant `PoolInv` says
what a process may rely on as long as it owns its Run (`Owned`): the Run is in
the attempt it claimed, and a cancellation it has read is still there. A process
claims only when it has nothing else to do, nobody else makes it an owner, and
no transaction but a claim begins an attempt (`OwnerStays`). `Belated` says
where a process may be that has begun a call too late: past the read of
`cancel_requested` only if its Run was deleted, and then the read of the lease
stops it.

`ExecutionProofs`, of the calls: `ToolCallsBounded`. The limit is kept by a counter in the
memory of a process, and the statement is about the log, which every process
writes. The log of an attempt is compared with the counter of the owner
(`Spent`): a call is counted before it is logged, only the owner logs, and an
attempt begins with no call in the log and none counted.

`ExecutionProofs`, of the results: `ShownCorrect`, `ProvenanceCorrect`, `OutcomeCorrect`. Each
function of `run_results.py` leaves a result that is `Fair` to what it shows; one
lemma each. That a result naming another Run stays true needs the queue: the
superseded Run succeeded and is of the same session (`RevisionChain`), a result
changes only with a Run that has not succeeded, and a deletion takes both.

`AccountsProofs`: `ActsAsShownCorrect`, `RefusalCorrect`. The invariant
`AccountsInv` follows a CSRF token: it is under way once, or with one page at
most (`TokenInv`). So the page whose token the cookie holds (`Current`) is the
last that took one; nobody else can sign in meanwhile, because that takes the
same token (`Undisturbed`), and what `me` told the page, or the page itself
signed in to, is still the account of the cookie (`Shows`). But for
`Load`, all actions of the pages have one of two shapes, one lemma each: `Paged` leaves the CSRF cookie
alone, `Rekeyed` replaces it and leaves every other page behind. Those of the
server have a third, `Served`.

`MemoryProofs`: `ReachesTheAgentConfirmed` and `RecallIsExact`, for any number of
memories and callers. The property of the answers is lost at once unless
everything that may become an answer has it: `AllVouched` says of rows, Store
items and every object a call holds between two of its steps that it is
confirmed only if its key ever was. That needs nothing of the order of calls, so
it survives any overlap and any lost copy. The strong property needs `InStep`:
while the history is `orderly`, one call is under way, what it has loaded is
what the rows still say (`UpToDate`), and every Store item is the copy of its
row or still in the queue of that call (`Settled`, `Pending`).

`WebClientProofs`: `PageStaysCoherent` and `SessionsRunOneAtATime`, for any number
of calls, sessions and Runs. `overlap` splits the invariant in three. Whatever
the user does, a Run shares the fate of its session and lists name Runs of the
session they are listed under (`RunsHoused`, `ListsTrue`). While nothing was
`"disturbed"`, one call decides what the page shows, the stream is closed for as
long, and `Prepared` says per function and await what the page is like until the
answer comes; a page that no call decides belongs together (`Coherent`). What
cards are shown is an invariant of its own, `CardsInv`: that a version whose Tool
has returned tells of the cards of its Run (`Told`), so that, once drawn, it
leaves no others (`OwnCards`), and that those of before are of an earlier Run of the session (`EarlierCards`, and `Ready` for a Run that is just
being submitted: Runs are numbered in the order of submission). While
nothing overlapped at all, `Sequential` says what the page knows: its list of
sessions names the last Run of each (`Current`), or a call is under way that will
renew it (`Renewing`); every session has a Run or a call that is about to give it
one (`Unborn`); and the Run on the page is the last of its session, ended if the
page is free (`Followed`). So whatever is submitted follows a Run that has ended,
and only the last Run of a session can be unfinished (`OthersEnded`). The step of
the proof that is not local is restoring: the list shows whether the last Run had
ended when the list was read, a Run begun since would be missing from it, and it
is `Current` that excludes this. `Max` of the Runs of a session is taken from the
library's well-founded minimum (`LeastNumber`, `MaxNumber`).

`SessionContextProofs`: `NothingIsLost`, `HistoryAlwaysFits` and `PromisesKept`, for
conversations of any length, messages of any size and all settings. Two
loops of the code decide, and they count differently: one selects messages from the
newest backwards until the budget is used up, the other goes through the
selection forwards and skips what no longer fits. `FittingKept` compares the
turns of the second with partial sums of the tokens selected: what fits together
is kept whole. `LonelyKept` is the one selection that may not fit, a single message,
which is truncated. So the second loop never skips anything, and every previous
message is behind the cursor, dropped now, or in the history. That what is behind
the cursor has been summarised (`SummaryReaches`) survives Runs prepared out of
order, although they move the cursor back. `CursorParts` is what order adds: the
cursor stays before the last message any Run has seen. The loops are recursive
functions; that a recursion over `0..N` has a value (`Recursion`) and that a set
which holds 0 and with each number the next holds all (`StepByStep`) are derived
from the library's well-founded minimum. `Referring` bounds the messages by the
Runs: one message each and at most one answer.

`PlannerProofs`: `NothingIsLost`, `PotentialsAreFeasible`, `DaysAreCheapest`,
`ClosedOnlyWhenUnavoidable`, `DaysFit`, `DaysAreShortest`,
`BestWindowRecommended`, `EveryStepIsCloser` and `FinitelyManySteps`, from
`PlannerInvariant`. They hold for any requests, forecasts, wikis, places and
travel times, any number of attractions, any number of rounds and any limit of the exact
search. The assumptions give the constants their types: `AsksAssumption` (the
ranges of `WeatherToolInput` and `TravelPlannerInput`), `ForecastsAssumption`
(a daily forecast is not empty, its dates ascend and may have gaps, a day's
weather may be missing; the code takes the first and the last date for the
limits of the forecast and neighbours for days that follow each other),
`WikisAssumption` (a page is told from no page, ages are finitely many),
`PlacesAssumption` (travel times are whole numbers of fractions of a minute,
asymmetric or not) and `LimitsAssumption`. `PerMinute` is any positive number.
The inductive invariant `PlannerInv`, in the module `PlannerInductive`, says phase by phase
what the call has established: the attractions are a catalogue of the pages
(`CatalogueOf`), usable, selected and measured; medoids are distinct, the best
round so far partitions the attractions (`GroupsOf`), and a trim moves one
attraction from a group to those dropped; the registers of the matching satisfy
`MatchInv`. The theorems follow from it.

- *The merge.* `MergedFrom` says of the list that is being built that it has one
  attraction per key, and that this one is closed on the days any of its
  listings tells and shut if any says so. Filter, geocoder, score, ranking and selection
  take parts of a catalogue, which are catalogues (`PartOfCatalogue`).
- *The matching.* `PotentialsFeasible` is not inductive. `MatchInv` adds what a
  pass relies on: every used column is tight, the least reduced costs are those
  of the tree of used columns (`TreeOfUsed`), and the trail leads from every
  column back to column 0 through used columns, ranked by when they were used
  (`Ranked`). `ScanKeeps` moves potentials and slacks together; `Augmented`
  moves the rows along the trail, which ends because the ranks fall. Then
  `DaysAreCheapest` is duality: the cost of the matching is the sum of all
  potentials, and no other assignment costs less than that sum.
- *Closed days.* On a day without a conflict a group costs at most 13500: the
  weather at most 10000, crowds and night views the rest. A trip has at most
  seven days; so the total of all that is less than one penalty of 1000000, and a
  cheapest assignment is one with the fewest conflicts. That the conflicts are
  those the pages tell is the merge again.
- *The exact search.* `Layers` is what a layer of the search keeps: the state of a
  set of stops and a last stop holds a path over just these stops that ends there
  and costs what it says, and no order of the same stops ending there is shorter
  (`ShortestTo`). The last stop of any competitor is taken off, and the layer below
  bounds the rest.
- *The days.* Both searches return an order of the group (`Reorders`), above the
  limit too, and moving night views to the end keeps it one. `DayEnd` is the
  start, the visits, the rounded legs and one lunch (`DayEndIs`), in whatever
  order; a rounded leg is at most half a minute longer than the leg (`RoundedLegs`), so
  without a night view a day ends at most half a minute a leg after what
  `Overfull` compared with the budget, or it has a single stop that fits by itself.
- *The window.* The code looks at rows, the property at the calendar.
  `RunIsWindow` and `WindowIsRun` match the two: the rows of a run of dates are
  neighbours because dates ascend, and a window holds all days of the forecast
  within its dates (`AscendingIs`: there is one way to list a set by size).
- *Termination.* Liveness is out of the prover's reach, what it rests on is not:
  `EveryStepIsCloser` proves that every step lowers `Remaining`, a pair compared
  lexicographically, and `FinitelyManySteps` that it is a pair of natural numbers.
  A trim lowers the sum of the lengths of the groups (`TrimLowers`); a scan uses
  one more column, and an augmentation begins the next row, which is worth as
  much as all its columns. That no call gets stuck before is the check for
  deadlock of the run.

Only model-checked: the properties that a run expects to be violated, and liveness,
which is out of the prover's reach. The library's induction theorems take an operator as
a parameter, which the installed provers do not instantiate; `StepByStep` and
`Recursion` take a set and a function instead, which they do. That the greedy search
is not optimal above the limit is by design of the code and nothing is claimed of it
but that it returns an order.

## What the models show about the documentation

Kept as runs that TLC refutes:

- `memory_revived`. ADR 0012 line 16: automatic extraction must not silently
  revive what the user deleted. `extract_from_run` loads the row without a
  lock; a deletion that commits before its `UPDATE` is overwritten.
- `web_final`. ADR 0007 line 21 and README line 51: after the Run the page shows
  the final answer. The query started by the last Tool event may be answered
  before the end and arrive after the answer of the final query; it then hides
  the final answer, since only the Run is compared.

Met while modelling, and why the properties carry the conditions they carry:

- ADR 0008 line 18 limits the calls of *every Run*. The counters live in the
  callback of one attempt, so the bound per Run is `max_attempts` times the
  limit; `ToolCallsPerAttempt` says what holds. The same line says a Run over
  its limit is not retried; the event and the failure are two transactions, and
  a worker lost in between leaves a Run that is reclaimed with fresh counters.
- ADR 0008 lines 12 to 16 (window, latest message, no second summary) hold as
  long as Runs are prepared in the order of their messages; Runs out of order
  may summarise messages twice, keep the summary of later messages, or miss the
  latest one. Hence `inOrder` in `PromisesInOrder`.
- ADR 0012 lines 16 and 25: a late copy or recall may put a deleted item back
  into the Store, and a failed copy has no fallback to the rows as long as the
  search itself works. Hence `orderly`. An extraction of the same key also puts
  the extracted text back over the user's edit.
- ADR 0011 line 14: a component that could not be shown in the superseded Run is
  copied without a mark of its origin.
- ADR 0011 lines 14 and 17: what a Run takes over from an earlier one is marked,
  and the statuses of the components say which parts may be shown. A Run that
  showed weather and then failed hands on nothing; after a follow-up, without any
  overlap or lost request, the page still shows its weather, under the new Run
  and with no mark (`app.js:888`). Hence `output.cards` in `PageCoherent`.
- ADR 0010 line 14: overlapping `restoreSession` and `submitJourney` can leave
  the page with the Run of one session and the timeline of another; the first
  list of sessions may restore a session over a submitted journey; deleting the
  session of an active Run leaves the page busy. Hence `overlap`.
- The planner trims by the shortest path and then moves night views to the end
  of the day: a day with one may exceed its budget. Hence the condition in
  `DayFits`. It also trims by times that are not rounded while the clock of a day
  rounds each leg: four visits of 30 minutes and legs of 19.6, 19.6 and 20.6
  minutes pass a capacity of 180 minutes and end one minute after the budget.
  Hence the half minute a leg in `DayFits`. `max_candidates` may be below `trip_days`, and then every request
  ends in `CAPACITY_TOO_SMALL`.

Without a document that says otherwise:

- Repeated cancellations of a RUNNING Run each log another event; leases compare
  the clocks of different processes; nothing bounds the time of one agent call
  but the timeouts of its clients; the stream of a deleted Run sends heartbeats
  until the page goes away.
- An operation that was admitted before a logout is performed after it.
- A page that signs in again before the refresh at the end of its `logout` is
  answered (`app.js:1034`, `app.js:1471`) ends up with a token that is newer than
  the account it shows (`crossed`).
- A listing with a latitude and no longitude blocks the complete pair of a later
  listing (`sources.py:269`): the attraction is then geocoded although its place
  was told.
- `submitAuth` reads `event.currentTarget` after an await (`app.js:994`), where it
  is null: a form submitted without a CSRF token fails, and one that signs in
  throws at `reset()` (`app.js:1005`), before the history is loaded.
- `deleteSession` leaves `runActive` set when the Run of the deleted session was
  active.

## Plan

Done: the modules above, and a proof of every invariant and action property that a
passing run checks.

Left: the skew of the clocks of different processes, which the store relies on
and the model does not have.

## Not modelled

- Telemetry and logging observe only; migrations are one-off, and the schema they
  produce is the row of `RunStore`; benchmarks are no part of the service.
- Parsing: wikitext, dates, opening hours, coordinates and keywords (`Attractions`
  starts from what they yield), the text rules of memory extraction, legacy
  result JSON. They are functions of one text without state.
- In the API: paging and lists, renaming and archiving (a column that only lists
  filter by), the synchronous invoke endpoint, the demo seed.
- In the page: the memory dialog, renaming and archiving, drawing.
- In the database: the limit and the timeout of the connection pool, and the
  skew of the clocks of different processes (there is one clock).
- In the worker: an agent that never returns, and the extraction of memories
  after the answer, which is part of `Memory` but has no retry to model.
- The wording of prompts and pages, maps, and the ranking the planner reports
  next to its itinerary.
