------------------------------- MODULE Memory -------------------------------
(***************************************************************************)
(* The long-term memories of one user (app/memory.py): the rows of         *)
(* travel_memories, their copies in the LangGraph Store, and the calls of  *)
(* MemoryService that API threads and workers make at the same time.       *)
(*                                                                         *)
(* A call loads a row without locking it, commits what it changed, and     *)
(* then copies its own object, which it does not read again, into the      *)
(* Store; every failure of the Store is swallowed.  Another user's         *)
(* memories differ in every query and namespace, so one user is enough.    *)
(* Left out: expiry (nothing sets expires_at), ranking and the limits of   *)
(* recall (more memories than are recalled), several candidates in one     *)
(* extraction.                                                             *)
(***************************************************************************)
EXTENDS FiniteSets

CONSTANTS
  FormKey,      \* memories extracted from the planning form, by normalized_key
  ExplicitKey,  \* memories extracted from explicit statements
  ManualKey,    \* memories the user adds by hand
  Caller,       \* API threads and worker processes
  Failing       \* which calls of the Store may fail: "sync", "search"

ASSUME MemoryAssumption ==
  /\ FormKey \cap ExplicitKey = {} /\ ManualKey \cap (FormKey \cup ExplicitKey) = {}
  /\ Failing \subseteq {"sync", "search"}

VARIABLES
  memory,    \* memory[k]: the row, as the database has it
  store,     \* store[k]: the item of the Store
  caller,    \* caller[c]: the call in progress
  confirmed, \* history: the memories that have been CONFIRMED at some time
  orderly    \* history: no two calls have overlapped and no copy was lost

vars == <<memory, store, caller, confirmed, orderly>>

-----------------------------------------------------------------------------

Key == FormKey \cup ExplicitKey \cup ManualKey
Live == {"CANDIDATE", "CONFIRMED"}

\* A row, an object loaded from it, or a Store item; ABSENT: there is none.
\* The text is what was extracted or entered first, or the user's edit of it.
Memory == [status: Live \cup {"DELETED", "ABSENT"}, content: {"original", "edited"}]
NoMemory == [status |-> "ABSENT", content |-> "original"]

\* pc: idle, writing (row loaded), syncing, searching, recalled.  loaded and
\* wanted: the object as loaded and as changed.  objects, queue: what is still
\* to be copied.  values: the result of the recall.
Idle == [pc |-> "idle", op |-> "none", key |-> "none",
         loaded |-> NoMemory, wanted |-> NoMemory,
         objects |-> [k \in {} |-> NoMemory], queue |-> {}, values |-> {}]

Init ==
  /\ memory = [k \in Key |-> NoMemory]
  /\ store = [k \in Key |-> NoMemory]
  /\ caller = [c \in Caller |-> Idle]
  /\ confirmed = {}
  /\ orderly = TRUE

At(c, pc) == caller[c].pc = pc
Alone(c) == \A d \in Caller \ {c} : At(d, "idle")

Becomes(c, call) ==
  /\ caller' = [caller EXCEPT ![c] = call]
  /\ orderly' = (orderly /\ Alone(c))

-----------------------------------------------------------------------------
(* Loading *)

Loads(c, op, k, wanted) ==
  /\ At(c, "idle")
  /\ Becomes(c, [Idle EXCEPT !.pc = "writing", !.op = op, !.key = k,
                             !.loaded = memory[k], !.wanted = wanted])
  /\ UNCHANGED <<memory, store, confirmed>>

\* update: confirm, withdraw the confirmation, or edit; a tombstone is a 404.
Update(c, k, content, status) ==
  /\ memory[k].status \in Live
  /\ Loads(c, "update", k, [status |-> status, content |-> content])

\* delete
Delete(c, k) ==
  /\ memory[k].status \in Live
  /\ Loads(c, "delete", k, [memory[k] EXCEPT !.status = "DELETED"])

\* The status a candidate is extracted with.
CandidateStatus(k) == IF k \in ExplicitKey THEN "CONFIRMED" ELSE "CANDIDATE"

\* extract_from_run: a tombstone is skipped, an existing row gets the
\* extracted text back and may be confirmed, never the reverse.
Extract(c, k) ==
  /\ k \notin ManualKey
  /\ memory[k].status # "DELETED"
  /\ Loads(c, "extract", k,
           [content |-> "original",
            status |-> IF memory[k].status = "CONFIRMED"
                      THEN "CONFIRMED" ELSE CandidateStatus(k)])

-----------------------------------------------------------------------------
(* Committing *)

\* The UPDATE names the columns whose value the object changed, no others.
Written(row, loaded, wanted) ==
  [status |-> IF wanted.status = loaded.status THEN row.status ELSE wanted.status,
   content |-> IF wanted.content = loaded.content THEN row.content ELSE wanted.content]

\* MUTANT of Syncs: the object is copied as it was loaded.
SyncsLoaded(c, k, object) ==
  Becomes(c, [Idle EXCEPT !.pc = "syncing", !.key = k, !.queue = {k},
                          !.objects = [q \in {k} |-> caller[c].loaded]])

Syncs(c, k, object) ==
  Becomes(c, [Idle EXCEPT !.pc = "syncing", !.key = k, !.queue = {k},
                          !.objects = [q \in {k} |-> object]])

Confirms(k) ==
  confirmed' = IF memory'[k].status = "CONFIRMED" THEN confirmed \cup {k} ELSE confirmed

\* Two extractions may insert the same normalized_key: the second one fails on
\* the unique constraint and is given up.
Commit(c) ==
  LET call == caller[c]
      k == call.key
  IN
  /\ At(c, "writing")
  /\ IF call.loaded.status = "ABSENT" /\ memory[k].status # "ABSENT"
     THEN Becomes(c, Idle) /\ UNCHANGED <<memory, confirmed>>
     ELSE /\ memory' = [memory EXCEPT ![k] = Written(@, call.loaded, call.wanted)]
          /\ Syncs(c, k, call.wanted)
          /\ Confirms(k)
  /\ UNCHANGED store

\* create_manual inserts under a fresh key.
Create(c, k) ==
  /\ At(c, "idle")
  /\ k \in ManualKey
  /\ memory[k].status = "ABSENT"
  /\ memory' = [memory EXCEPT ![k] = [status |-> "CONFIRMED", content |-> "original"]]
  /\ Syncs(c, k, memory'[k])
  /\ Confirms(k)
  /\ UNCHANGED store

-----------------------------------------------------------------------------
(* The Store *)

\* recall, up to its query of the confirmed rows
Recall(c) ==
  LET found == {k \in Key : memory[k].status = "CONFIRMED"} IN
  /\ At(c, "idle")
  /\ Becomes(c, [Idle EXCEPT
                  !.pc = IF found = {} THEN "searching" ELSE "syncing", !.op = "recall",
                  !.objects = [k \in found |-> memory[k]], !.queue = found])
  /\ UNCHANGED <<memory, store, confirmed>>

Copied(object) == IF object.status = "DELETED" THEN NoMemory ELSE object

\* _sync of one object; whether the copy arrived is only logged.
Sync(c, k, arrives) ==
  LET call == caller[c]
      rest == call.queue \ {k}
  IN
  /\ At(c, "syncing")
  /\ k \in call.queue
  /\ arrives \/ "sync" \in Failing
  /\ store' = IF arrives THEN [store EXCEPT ![k] = Copied(call.objects[k])] ELSE store
  /\ caller' = [caller EXCEPT
       ![c] = CASE rest # {} -> [call EXCEPT !.queue = rest]
                [] rest = {} /\ call.op = "recall" ->
                     [call EXCEPT !.queue = {}, !.pc = "searching"]
                [] OTHER -> Idle]
  /\ orderly' = (orderly /\ Alone(c) /\ arrives)
  /\ UNCHANGED <<memory, confirmed>>

\* What of a set of memories goes to the agent.
Values(items) == {[key |-> k, content |-> items[k].content] : k \in DOMAIN items}

\* MUTANT of Found: the search does not filter by status.
FoundAny == {k \in Key : store[k].status # "ABSENT"}

Found == {k \in Key : store[k].status = "CONFIRMED"}

\* recall, second half: the rows read at the start serve if the search fails.
Search(c) ==
  /\ At(c, "searching")
  /\ \/ Becomes(c, [caller[c] EXCEPT !.pc = "recalled",
                      !.values = Values([k \in Found |-> store[k]])])
     \/ /\ "search" \in Failing
        /\ Becomes(c, [caller[c] EXCEPT !.pc = "recalled",
                         !.values = Values(caller[c].objects)])
  /\ UNCHANGED <<memory, store, confirmed>>

Return(c) ==
  /\ At(c, "recalled")
  /\ Becomes(c, Idle)
  /\ UNCHANGED <<memory, store, confirmed>>

-----------------------------------------------------------------------------

Next ==
  \E c \in Caller :
    \/ \E k \in Key :
         \/ \E content \in {memory[k].content, "edited"}, status \in Live :
              Update(c, k, content, status)
         \/ Delete(c, k) \/ Extract(c, k) \/ Create(c, k)
         \/ \E arrives \in BOOLEAN : Sync(c, k, arrives)
    \/ Commit(c) \/ Recall(c) \/ Search(c) \/ Return(c)

Spec == Init /\ [][Next]_vars

-----------------------------------------------------------------------------
(* Properties *)

\* Recall gives the agent the memories that are CONFIRMED, all of them, with
\* their current text, whether the Store answers or the rows serve instead
\* (ADR 0012, decision 3), as long as calls neither overlap nor lose a copy.
RecallsTheConfirmed ==
  \A c \in Caller : orderly /\ At(c, "recalled") =>
    caller[c].values =
      Values([k \in {q \in Key : memory[q].status = "CONFIRMED"} |-> memory[k]])

\* Whatever races and fails, a memory that was only guessed from the form and
\* never confirmed does not reach the agent.
NeverUnconfirmed ==
  \A c \in Caller : \A value \in caller[c].values : value.key \in confirmed

\* ADR 0012, decision 5: automatic extraction does not silently revive what the
\* user deleted.
NoSilentRevival ==
  [][\A k \in Key, c \in Caller :
       memory[k].status = "DELETED" /\ caller[c].op = "extract" /\ Commit(c) =>
         memory'[k].status = "DELETED"]_vars
=============================================================================
