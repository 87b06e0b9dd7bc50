--------------------------- MODULE SessionContext ---------------------------
(***************************************************************************)
(* The context of a Run in one session (app/context.py): the messages      *)
(* before its own, as many of the last ones as the budget allows, and a    *)
(* rolling summary of the older ones, which a cursor in the session keeps  *)
(* from being summarised again.                                            *)
(*                                                                         *)
(* prepare_session_context is one transaction under the lock of the        *)
(* session, but it looks at neither lease nor status of the Run: Runs of   *)
(* a session are prepared in any order, again for every attempt, and by    *)
(* workers that have lost them.  A message is its position in the session  *)
(* (created_at, id); texts are their token counts, and a text that is cut  *)
(* off has all the tokens it is allowed (the code may leave some unused).  *)
(***************************************************************************)
EXTENDS Integers, Sequences, FiniteSets, FiniteSetsExt

CONSTANTS
  MaxTurns,         \* bound: user messages, one Run each
  MaxOpen,          \* bound: unfinished Runs at any time
  StaleWorkers,     \* whether a worker prepares a Run that has ended
  Size,             \* bound: the token counts of messages
  MemoryTokens,     \* bound: the token counts of recalled memories
  InputBudget,      \* max_input - system_reserved - tool_reserved
  RecentLimit,      \* recent_message_limit
  SummaryMax,       \* summary_max_tokens
  SummaryFloor,     \* the 64 of the summary budget
  MinRecent         \* minimum_recent_tokens

ASSUME ContextAssumption ==
  /\ MaxTurns \in Nat \ {0} /\ MaxOpen \in Nat \ {0}
  /\ StaleWorkers \in BOOLEAN
  /\ Size \subseteq Nat /\ MemoryTokens \subseteq Nat
  /\ InputBudget \in Int
  /\ {RecentLimit, SummaryMax, SummaryFloor, MinRecent} \subseteq Nat \ {0}

VARIABLES
  messages,  \* the messages of the session: their token counts, in order
  turn,      \* turn[r]: the user message of Run r and whether it is open
  cursor,    \* summary_through_message_id, 0 if NULL
  merged,    \* merged[m]: how often message m went into the summary
  context,   \* the context prepared last
  inOrder    \* history: no Run was prepared after one with a later message

vars == <<messages, turn, cursor, merged, context, inOrder>>

-----------------------------------------------------------------------------

Run == 1..MaxTurns
Position == 1..(2 * MaxTurns)

NoTurn == [message |-> 0, open |-> FALSE]
NoContext == [message |-> 0, history |-> {}, tokens |-> 0, budget |-> 0, summary |-> {}]

Init ==
  /\ messages = <<>>
  /\ turn = [r \in Run |-> NoTurn]
  /\ cursor = 0
  /\ merged = [m \in Position |-> 0]
  /\ context = NoContext
  /\ inOrder = TRUE

\* The tokens of a set of messages.
Tokens(set) ==
  LET upTo[m \in 0..Len(messages)] ==
        IF m = 0 THEN 0 ELSE upTo[m - 1] + (IF m \in set THEN messages[m] ELSE 0)
  IN upTo[Len(messages)]

\* enqueue_message; a user message is not empty.
Submit(r, size) ==
  /\ size > 0
  /\ turn[r].message = 0
  /\ \A q \in Run : q < r => turn[q].message # 0
  /\ Cardinality({q \in Run : turn[q].open}) < MaxOpen
  /\ messages' = Append(messages, size)
  /\ turn' = [turn EXCEPT ![r] = [message |-> Len(messages) + 1, open |-> TRUE]]
  /\ UNCHANGED <<cursor, merged, context, inOrder>>

\* complete_run appends the answer, any other end appends nothing.
Finish(r, answer) ==
  /\ turn[r].open
  /\ turn' = [turn EXCEPT ![r].open = FALSE]
  /\ messages' = messages \o answer
  /\ UNCHANGED <<cursor, merged, context, inOrder>>

-----------------------------------------------------------------------------
(* prepare_session_context *)

\* previous_messages
Previous(r) == 1..(turn[r].message - 1)

\* MUTANT of Unsummarised: what was summarised before is not looked up.
UnsummarisedAll(r) == Previous(r)

\* The cursor counts only if it is one of the previous messages.
Unsummarised(r) == IF cursor \in Previous(r) THEN Previous(r) \ (1..cursor) ELSE Previous(r)

HistoryBudget(r, memory) ==
  Max({MinRecent, InputBudget - messages[turn[r].message] - memory})

SummaryBudget(r, memory) ==
  LET budget == HistoryBudget(r, memory)
      needed == \/ cursor # 0
                \/ Cardinality(Unsummarised(r)) > RecentLimit
                \/ Tokens(Unsummarised(r)) > budget
  IN IF needed THEN Min({SummaryMax, Max({SummaryFloor, budget \div 3})}) ELSE 0

RecentBudget(r, memory) ==
  Max({MinRecent, HistoryBudget(r, memory) - SummaryBudget(r, memory)})

\* The last n of a set of messages.
LastOf(set, n) == {m \in set : Cardinality({q \in set : q > m}) < n}

\* The n-th message from the end is taken after the n-1 behind it.
Joins(set, n, budget) ==
  \/ n = 1
  \/ Tokens(LastOf(set, n)) <= budget /\ Tokens(LastOf(set, n - 1)) < budget

\* The selection loop, from the newest message backwards.
Selected(set, budget) ==
  LET takes == {n \in 0..Min({RecentLimit, Cardinality(set)}) :
                  \A k \in 1..n : Joins(set, k, budget)}
  IN LastOf(set, Max(takes))

\* MUTANT of Trimmed: a newest message that is too long is not truncated.
TrimmedNever(selected, kept, m) ==
  [messages |-> kept.messages \cup {m}, left |-> kept.left - messages[m]]

\* One turn of the history loop: a message that does not fit is skipped, the
\* newest one truncated instead.
Trimmed(selected, kept, m) ==
  LET allowed == Max({MinRecent, kept.left}) IN
  IF messages[m] <= Max({0, kept.left})
  THEN [messages |-> kept.messages \cup {m}, left |-> kept.left - messages[m]]
  ELSE IF m # Max(selected)
       THEN kept
       ELSE [messages |-> kept.messages \cup {m},
             left |-> kept.left - Min({messages[m], allowed})]

\* The history loop, from the oldest message selected to the newest.
History(selected, budget) ==
  LET kept[m \in 0..Len(messages)] ==
        IF m = 0 THEN [messages |-> {}, left |-> budget]
        ELSE IF m \in selected THEN Trimmed(selected, kept[m - 1], m) ELSE kept[m - 1]
  IN kept[Len(messages)]

\* MUTANT of Through: the cursor is put on the first message that is kept.
ThroughNext(dropped) == Max(dropped) + 1

\* The new cursor.
Through(dropped) == Max(dropped)

Prepare(r, memory) ==
  LET budget == RecentBudget(r, memory)
      selected == Selected(Unsummarised(r), budget)
      dropped == Unsummarised(r) \ selected
      history == History(selected, budget)
  IN
  /\ turn[r].message # 0
  /\ turn[r].open \/ StaleWorkers
  /\ cursor' = IF dropped = {} THEN cursor ELSE Through(dropped)
  /\ merged' = [m \in Position |-> IF m \in dropped THEN Min({2, merged[m] + 1})
                                                    ELSE merged[m]]
  /\ context' = [message |-> turn[r].message, history |-> history.messages,
                 tokens |-> budget - history.left, budget |-> budget,
                 summary |-> {m \in Position : merged'[m] > 0}]
  /\ inOrder' = (inOrder /\ turn[r].message >= context.message)
  /\ UNCHANGED <<messages, turn>>

-----------------------------------------------------------------------------

Next ==
  \E r \in Run :
    \/ \E size \in Size : Submit(r, size)
    \/ \E answer \in {<<>>} \cup {<<size>> : size \in Size} : Finish(r, answer)
    \/ \E memory \in MemoryTokens : Prepare(r, memory)

Spec == Init /\ [][Next]_vars

-----------------------------------------------------------------------------
(* Properties; all of them are about the context prepared last. *)

Before == 1..(context.message - 1)

\* Nothing of the conversation vanishes: each message before the Run's own is
\* in its history or has gone into the summary, whatever the order in which
\* Runs moved the cursor.
NothingVanishes == Before \subseteq context.history \cup context.summary

\* The history keeps to its budget and to its number of messages, although the
\* newest message is taken whatever its size and the loop that selects and the
\* loop that truncates count separately.
HistoryFits ==
  /\ context.tokens <= context.budget
  /\ Cardinality(context.history) <= RecentLimit

\* At least the most recent message before the Run's own is in the history.
LatestKept == Before # {} => Max(Before) \in context.history

\* The cursor keeps later Runs and retries from summarising a message again.
SummarisedOnce == \A m \in Position : merged[m] <= 1

\* The context is made of what was said before the Run's message.
ContextIsPast == context.history \cup context.summary \subseteq Before

\* What ADR 0008 promises of window, cursor and history holds as long as Runs
\* are prepared in the order of their messages, whatever retries there are.
PromisesInOrder == inOrder => LatestKept /\ SummarisedOnce /\ ContextIsPast
=============================================================================
