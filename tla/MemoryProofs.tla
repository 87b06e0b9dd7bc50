---------------------------- MODULE MemoryProofs ----------------------------
(***************************************************************************)
(* Proofs about Memory, for any number of memories and callers and any     *)
(* failures of the Store: what reaches the agent was confirmed at some     *)
(* time (NeverUnconfirmed), and as long as calls do not overlap and no     *)
(* copy is lost, a recall answers with the confirmed rows                  *)
(* (RecallsTheConfirmed).                                                  *)
(***************************************************************************)
EXTENDS Memory, TLAPS

-----------------------------------------------------------------------------
(* Types *)

Contents == {"original", "edited"}
Objects == UNION {[S -> Memory] : S \in SUBSET Key}

Call == [pc : {"idle", "writing", "syncing", "searching", "recalled"},
         op : {"none", "update", "delete", "extract", "recall"},
         key : Key \cup {"none"}, loaded : Memory, wanted : Memory,
         objects : Objects, queue : SUBSET Key,
         values : SUBSET [key : Key, content : Contents]]

\* What is still to be copied is among the objects loaded, and a call that is
\* about to write has a row in mind.
WellFormed(call) ==
  /\ call.queue \subseteq DOMAIN call.objects
  /\ call.pc = "writing" => call.key \in Key

\* The type invariant: rows, items and calls have the fields the code gives
\* them, and a call copies only objects it holds.
TypeOK ==
  /\ memory \in [Key -> Memory]
  /\ store \in [Key -> Memory]
  /\ caller \in [Caller -> Call]
  /\ confirmed \subseteq Key
  /\ orderly \in BOOLEAN
  /\ \A c \in Caller : WellFormed(caller[c])

-----------------------------------------------------------------------------
(* What was confirmed *)

\* An object that says CONFIRMED was loaded from, or written to, a row that was.
Vouched(object, k) == object.status = "CONFIRMED" => k \in confirmed

\* A call carries nothing of which it is not known that it was confirmed.
CallVouched(call) ==
  /\ call.pc = "writing" => Vouched(call.loaded, call.key)
  /\ \A k \in DOMAIN call.objects : Vouched(call.objects[k], k)
  /\ call.pc = "searching" \/ call.op = "recall" => DOMAIN call.objects \subseteq confirmed
  /\ \A value \in call.values : value.key \in confirmed

\* Rows, Store items and calls in progress: the inductive form of
\* NeverUnconfirmed.
AllVouched ==
  /\ \A k \in Key : Vouched(memory[k], k) /\ Vouched(store[k], k)
  /\ \A c \in Caller : CallVouched(caller[c])

-----------------------------------------------------------------------------
(* What an orderly history leaves *)

ConfirmedRows == [k \in {q \in Key : memory[q].status = "CONFIRMED"} |-> memory[k]]

Settled(k) == store[k] = Copied(memory[k])
Pending(k) == \E c \in Caller : At(c, "syncing") /\ k \in caller[c].queue

\* What a call loaded is still what the database has.
UpToDate(call) ==
  /\ call.pc = "writing" => call.loaded = memory[call.key]
  /\ call.pc = "syncing" => \A k \in call.queue : call.objects[k] = memory[k]
  /\ call.pc = "searching" \/ (call.pc = "syncing" /\ call.op = "recall") =>
       call.objects = ConfirmedRows
  /\ call.pc = "recalled" => call.values = Values(ConfirmedRows)

\* Without overlap and loss, one call is in progress, what it loaded is current,
\* and only what it is about to copy is missing from the Store: the inductive
\* form of RecallsTheConfirmed.
InStep ==
  orderly =>
    /\ \A c, d \in Caller : c # d => At(c, "idle") \/ At(d, "idle")
    /\ \A k \in Key : Settled(k) \/ Pending(k)
    /\ \A c \in Caller : UpToDate(caller[c])

IInv == TypeOK /\ AllVouched /\ InStep

-----------------------------------------------------------------------------
(* A step of one call *)

\* Caller c goes on to the given call; what was ever confirmed is remembered.
Proceeds(c, call) ==
  /\ c \in Caller
  /\ call \in Call /\ WellFormed(call)
  /\ caller' = [caller EXCEPT ![c] = call]
  /\ orderly' \in BOOLEAN /\ (orderly' => orderly /\ Alone(c))

\* The idle call is a call.
LEMMA IdleIsCall ==
  /\ Idle \in Call /\ WellFormed(Idle)
  /\ NoMemory \in Memory
<1>1. NoMemory \in Memory
  BY DEF NoMemory, Memory, Live
<1>2. [k \in {} |-> NoMemory] \in Objects
  <2>1. [k \in {} |-> NoMemory] \in [{} -> Memory]
    BY <1>1
  <2> QED BY <2>1 DEF Objects
<1> HIDE DEF Objects
<1>3. Idle \in Call
  BY <1>1, <1>2 DEF Idle, Call
<1>4. WellFormed(Idle)
  BY DEF Idle, WellFormed
<1> QED BY <1>1, <1>3, <1>4

\* A function from memories to objects may be the objects of a call.
LEMMA SomeObjects ==
  ASSUME NEW S \in SUBSET Key, NEW objects \in [S -> Memory]
  PROVE  objects \in Objects
BY DEF Objects

\* What a function of a call holds for a memory that it has.
LEMMA ObjectOf ==
  ASSUME NEW objects \in Objects, NEW k \in DOMAIN objects
  PROVE  objects[k] \in Memory /\ k \in Key
BY DEF Objects

\* The fields of a call have their types.
LEMMA CallFields ==
  ASSUME NEW call \in Call
  PROVE  /\ call.loaded \in Memory /\ call.wanted \in Memory
         /\ call.objects \in Objects /\ call.queue \subseteq Key
BY DEF Call

\* The step of one call keeps the types if rows, items and history have theirs.
LEMMA StepTyped ==
  ASSUME TypeOK, NEW c, NEW call, Proceeds(c, call),
         memory' \in [Key -> Memory], store' \in [Key -> Memory],
         confirmed' \subseteq Key
  PROVE  TypeOK'
<1> HIDE DEF Call
<1>1. caller' \in [Caller -> Call]
  BY DEF TypeOK, Proceeds
<1>2. \A d \in Caller : WellFormed(caller'[d])
  BY DEF TypeOK, Proceeds
<1> QED BY <1>1, <1>2 DEF TypeOK, Proceeds

\* The step of one call keeps what was confirmed vouched for, if what it writes
\* and what it holds afterwards is.
LEMMA StepVouched ==
  ASSUME TypeOK, AllVouched, NEW c, NEW call, Proceeds(c, call),
         confirmed \subseteq confirmed',
         \A k \in Key : Vouched(memory[k], k)' /\ Vouched(store[k], k)',
         CallVouched(call)'
  PROVE  AllVouched'
<1>1. ASSUME NEW d \in Caller PROVE CallVouched(caller[d])'
  <2>1. CASE d = c
    <3>1. caller'[d] = call
      BY <2>1 DEF TypeOK, Proceeds
    <3> QED BY <3>1 DEF CallVouched, Vouched
  <2>2. CASE d # c
    <3>1. caller'[d] = caller[d]
      BY <2>2, <1>1 DEF TypeOK, Proceeds
    <3>2. CallVouched(caller[d])
      BY <1>1 DEF AllVouched
    <3> QED BY <3>1, <3>2 DEF CallVouched, Vouched
  <2> QED BY <2>1, <2>2
<1> QED BY <1>1 DEF AllVouched

\* The step of one call that keeps the history orderly leaves the others idle,
\* so it need only see to its own objects and to the Store.
LEMMA StepInStep ==
  ASSUME TypeOK, InStep, NEW c, NEW call, Proceeds(c, call),
         orderly' => UpToDate(call)',
         orderly' =>
           \A k \in Key : Settled(k)' \/ (call.pc = "syncing" /\ k \in call.queue)
  PROVE  InStep'
<1> SUFFICES ASSUME orderly'
             PROVE  /\ \A d, e \in Caller : d # e => At(d, "idle")' \/ At(e, "idle")'
                    /\ \A k \in Key : Settled(k)' \/ Pending(k)'
                    /\ \A d \in Caller : UpToDate(caller[d])'
  BY DEF InStep
<1>1. caller'[c] = call /\ c \in Caller
  BY DEF TypeOK, Proceeds
<1>2. ASSUME NEW d \in Caller \ {c} PROVE At(d, "idle")'
  BY DEF TypeOK, Proceeds, Alone, At
<1>3. \A d, e \in Caller : d # e => At(d, "idle")' \/ At(e, "idle")'
  BY <1>2
<1>4. ASSUME NEW k \in Key PROVE Settled(k)' \/ Pending(k)'
  BY <1>1 DEF Pending, At
<1>5. ASSUME NEW d \in Caller PROVE UpToDate(caller[d])'
  <2>1. CASE d = c
    BY <1>1, <2>1 DEF UpToDate, ConfirmedRows, Values
  <2>2. CASE d # c
    BY <1>2, <2>2 DEF At, UpToDate
  <2> QED BY <2>1, <2>2
<1> QED BY <1>3, <1>4, <1>5

\* In an orderly history, when c is the only call in progress, what is missing
\* from the Store is what c is about to copy.
LEMMA OnlyMine ==
  ASSUME TypeOK, InStep, orderly, NEW c \in Caller, Alone(c), NEW k \in Key
  PROVE  Settled(k) \/ (At(c, "syncing") /\ k \in caller[c].queue)
BY DEF InStep, Pending, Alone, At

-----------------------------------------------------------------------------
(* Loading and committing *)

\* The call that has loaded row k and wants to write it.
Writing(op, k, wanted) ==
  [Idle EXCEPT !.pc = "writing", !.op = op, !.key = k,
               !.loaded = memory[k], !.wanted = wanted]

\* The call that copies the object it wrote.
Copying(k, object) ==
  [Idle EXCEPT !.pc = "syncing", !.key = k, !.queue = {k},
               !.objects = [q \in {k} |-> object]]

\* Loading a row keeps the invariant, whatever the call wants to make of it.
LEMMA LoadsKeeps ==
  ASSUME IInv, NEW c \in Caller, NEW k \in Key, NEW wanted \in Memory,
         NEW op \in {"update", "delete", "extract"}, Loads(c, op, k, wanted)
  PROVE  IInv'
<1>0. PICK call : call = Writing(op, k, wanted)
  OBVIOUS
<1>1. memory[k] \in Memory
  BY DEF IInv, TypeOK
<1>2. /\ call.pc = "writing" /\ call.op = op /\ call.key = k /\ call.loaded = memory[k]
      /\ call.wanted = wanted /\ call.objects = [q \in {} |-> NoMemory]
      /\ call.queue = {} /\ call.values = {}
  BY <1>0 DEF Writing, Idle
<1>3. call \in Call /\ WellFormed(call)
  <2>1. call \in Call
    <3> HIDE DEF Objects
    <3> QED BY <1>0, <1>1, IdleIsCall DEF Writing, Call, Idle
  <2> QED BY <1>2, <2>1 DEF WellFormed
<1>4. Proceeds(c, call)
  BY <1>0, <1>3 DEF Loads, Becomes, Proceeds, Writing, IInv, TypeOK
<1>5. UNCHANGED <<memory, store, confirmed>>
  BY DEF Loads
<1>6. TypeOK'
  BY <1>4, <1>5, StepTyped DEF IInv, TypeOK
<1>7. AllVouched'
  <2>1. CallVouched(call)'
    BY <1>2, <1>5 DEF CallVouched, Vouched, IInv, AllVouched
  <2> QED BY <1>4, <1>5, <2>1, StepVouched DEF IInv, AllVouched, Vouched
<1>8. InStep'
  <2>1. UpToDate(call)'
    BY <1>2, <1>5 DEF UpToDate
  <2>2. ASSUME orderly', NEW q \in Key PROVE Settled(q)'
    BY <1>4, <1>5, <2>2, OnlyMine DEF Settled, Proceeds, IInv, Loads, At
  <2> QED BY <1>4, <2>1, <2>2, StepInStep DEF IInv
<1> QED BY <1>6, <1>7, <1>8 DEF IInv

LEMMA UpdateKeeps ==
  ASSUME IInv, NEW c \in Caller, NEW k \in Key,
         NEW content \in {memory[k].content, "edited"}, NEW status \in Live,
         Update(c, k, content, status)
  PROVE  IInv'
<1>1. [status |-> status, content |-> content] \in Memory
  BY DEF IInv, TypeOK, Memory
<1> QED BY <1>1, LoadsKeeps DEF Update

LEMMA DeleteKeeps ==
  ASSUME IInv, NEW c \in Caller, NEW k \in Key, Delete(c, k)
  PROVE  IInv'
<1>1. [memory[k] EXCEPT !.status = "DELETED"] \in Memory
  BY DEF IInv, TypeOK, Memory
<1> QED BY <1>1, LoadsKeeps DEF Delete

LEMMA ExtractKeeps ==
  ASSUME IInv, NEW c \in Caller, NEW k \in Key, Extract(c, k)
  PROVE  IInv'
<1>1. [content |-> "original",
       status |-> IF memory[k].status = "CONFIRMED"
                  THEN "CONFIRMED" ELSE CandidateStatus(k)] \in Memory
  BY DEF Memory, CandidateStatus, Live
<1> QED BY <1>1, LoadsKeeps DEF Extract

\* Where row k is written, the history of confirmations goes with it.
Recorded(k, object) ==
  /\ memory' = [memory EXCEPT ![k] = object]
  /\ confirmed' = IF object.status = "CONFIRMED" THEN confirmed \cup {k} ELSE confirmed
  /\ UNCHANGED store

\* Writing row k and going on to copy an object keeps the invariant: what the
\* object says was confirmed, and in an orderly history it is the row.
LEMMA WriteKeeps ==
  ASSUME IInv, NEW c \in Caller, NEW k \in Key,
         NEW row \in Memory, NEW object \in Memory,
         At(c, "idle") \/ At(c, "writing"),
         Recorded(k, row), Becomes(c, Copying(k, object)),
         object.status = "CONFIRMED" => k \in confirmed',
         orderly' => object = row
  PROVE  IInv'
<1> DEFINE call == Copying(k, object)
<1>1. /\ call.pc = "syncing" /\ call.op = "none" /\ call.queue = {k}
      /\ call.objects = [q \in {k} |-> object] /\ call.values = {}
  BY DEF Copying, Idle
<1>2. call \in Call /\ WellFormed(call)
  <2>1. call.objects \in Objects
    BY <1>1, SomeObjects
  <2>2. call \in Call
    <3> HIDE DEF Objects
    <3> QED BY <1>1, <2>1, IdleIsCall DEF Copying, Call, Idle
  <2> QED BY <1>1, <2>2 DEF WellFormed
<1>3. Proceeds(c, call)
  BY <1>2 DEF Becomes, Proceeds, Copying, IInv, TypeOK
<1>4. memory' = [memory EXCEPT ![k] = row] /\ store' = store
  BY DEF Recorded
<1>5. confirmed \subseteq confirmed' /\ confirmed' \subseteq confirmed \cup {k}
  BY DEF Recorded
<1>6. row.status = "CONFIRMED" => k \in confirmed'
  BY DEF Recorded
<1> HIDE DEF call
<1>7. TypeOK'
  BY <1>3, <1>4, <1>5, StepTyped DEF IInv, TypeOK
<1>8. AllVouched'
  <2>1. CallVouched(call)'
    BY <1>1 DEF CallVouched, Vouched
  <2>2. ASSUME NEW q \in Key PROVE Vouched(memory[q], q)' /\ Vouched(store[q], q)'
    BY <1>4, <1>5, <1>6 DEF Vouched, IInv, AllVouched, TypeOK
  <2> QED BY <1>3, <1>5, <2>1, <2>2, StepVouched DEF IInv
<1>9. InStep'
  <2>1. ASSUME orderly' PROVE UpToDate(call)'
    BY <1>1, <1>4, <2>1 DEF UpToDate, IInv, TypeOK
  <2>2. ASSUME orderly', NEW q \in Key
        PROVE  Settled(q)' \/ (call.pc = "syncing" /\ q \in call.queue)
    <3>1. CASE q = k
      BY <1>1, <3>1
    <3>2. CASE q # k
      <4>1. Settled(q)
        BY <1>3, <2>2, OnlyMine DEF Proceeds, IInv, At
      <4> QED BY <1>4, <3>2, <4>1 DEF Settled, IInv, TypeOK
    <3> QED BY <3>1, <3>2
  <2> QED BY <1>3, <2>1, <2>2, StepInStep DEF IInv
<1> QED BY <1>7, <1>8, <1>9 DEF IInv

LEMMA CreateKeeps ==
  ASSUME IInv, NEW c \in Caller, NEW k \in Key, Create(c, k)
  PROVE  IInv'
<1> DEFINE row == [status |-> "CONFIRMED", content |-> "original"]
<1>1. row \in Memory
  BY DEF Memory, Live
<1>2. memory'[k] = row
  BY DEF Create, IInv, TypeOK
<1>3. Recorded(k, row)
  BY <1>2 DEF Create, Recorded, Confirms
<1>4. Becomes(c, Copying(k, row))
  BY <1>2 DEF Create, Syncs, Copying
<1>5. k \in confirmed'
  BY <1>3 DEF Recorded
<1> QED BY <1>1, <1>3, <1>4, <1>5, WriteKeeps DEF Create

\* Giving up: the call ends and nothing else changes.
LEMMA EndKeeps ==
  ASSUME IInv, NEW c \in Caller, Becomes(c, Idle), ~At(c, "syncing"),
         UNCHANGED <<memory, store, confirmed>>
  PROVE  IInv'
<1>1. Proceeds(c, Idle)
  BY IdleIsCall DEF Becomes, Proceeds, IInv, TypeOK
<1>2. TypeOK'
  BY <1>1, StepTyped DEF IInv, TypeOK
<1>3. AllVouched'
  <2>1. CallVouched(Idle)'
    BY DEF CallVouched, Idle
  <2> QED BY <1>1, <2>1, StepVouched DEF IInv, AllVouched, Vouched
<1>4. InStep'
  <2>1. UpToDate(Idle)'
    BY DEF UpToDate, Idle
  <2>2. ASSUME orderly', NEW q \in Key PROVE Settled(q)'
    BY <1>1, <2>2, OnlyMine DEF Settled, Proceeds, IInv
  <2> QED BY <1>1, <2>1, <2>2, StepInStep DEF IInv
<1> QED BY <1>2, <1>3, <1>4 DEF IInv

\* Writing over the row that was loaded makes it the object.
LEMMA WrittenIsWanted ==
  ASSUME NEW loaded \in Memory, NEW wanted \in Memory
  PROVE  Written(loaded, loaded, wanted) = wanted
BY DEF Written, Memory

LEMMA WrittenIsMemory ==
  ASSUME NEW row \in Memory, NEW loaded \in Memory, NEW wanted \in Memory
  PROVE  Written(row, loaded, wanted) \in Memory
BY DEF Written, Memory

LEMMA CommitKeeps ==
  ASSUME IInv, NEW c \in Caller, Commit(c)
  PROVE  IInv'
<1> DEFINE call == caller[c]
           k == call.key
           row == Written(memory[k], call.loaded, call.wanted)
<1>1. At(c, "writing") /\ UNCHANGED store
  BY DEF Commit
<1>2. call \in Call /\ WellFormed(call) /\ k \in Key
  BY <1>1 DEF IInv, TypeOK, WellFormed, At
<1>3. memory[k] \in Memory /\ call.loaded \in Memory /\ call.wanted \in Memory
  BY <1>2, CallFields DEF IInv, TypeOK
<1>4. CASE call.loaded.status = "ABSENT" /\ memory[k].status # "ABSENT"
  <2>1. Becomes(c, Idle) /\ UNCHANGED <<memory, store, confirmed>>
    BY <1>1, <1>4 DEF Commit
  <2> QED BY <1>1, <2>1, EndKeeps DEF At
<1>5. CASE ~(call.loaded.status = "ABSENT" /\ memory[k].status # "ABSENT")
  <2>1. /\ memory' = [memory EXCEPT ![k] = row]
        /\ Becomes(c, Copying(k, call.wanted))
        /\ Confirms(k)
    BY <1>5 DEF Commit, Syncs, Copying
  <2>2. memory'[k] = row
    BY <1>2, <2>1 DEF IInv, TypeOK
  <2>3. Recorded(k, row)
    BY <1>1, <2>1, <2>2 DEF Recorded, Confirms
  <2>4. row \in Memory
    BY <1>3, WrittenIsMemory
  <2>5. call.wanted.status = "CONFIRMED" => k \in confirmed'
    <3>1. call.loaded.status = "CONFIRMED" => k \in confirmed
      BY <1>1, <1>2 DEF IInv, AllVouched, CallVouched, Vouched, At
    <3>2. call.wanted.status # call.loaded.status => row.status = call.wanted.status
      BY DEF Written
    <3> HIDE DEF row
    <3> QED BY <2>3, <3>1, <3>2 DEF Recorded
  <2>6. orderly' => call.wanted = row
    <3>1. orderly' => call.loaded = memory[k]
      BY <1>1, <2>1 DEF Becomes, IInv, InStep, UpToDate, At
    <3> QED BY <1>3, <3>1, WrittenIsWanted
  <2> HIDE DEF call, k, row
  <2> QED BY <1>1, <1>2, <1>3, <2>1, <2>3, <2>4, <2>5, <2>6, WriteKeeps
<1> QED BY <1>4, <1>5

-----------------------------------------------------------------------------
(* Recalling *)

\* The rows that are confirmed may be the objects of a call.
LEMMA ConfirmedRowsAreObjects ==
  ASSUME TypeOK
  PROVE  ConfirmedRows \in Objects
<1> DEFINE found == {q \in Key : memory[q].status = "CONFIRMED"}
<1>1. ConfirmedRows \in [found -> Memory]
  BY DEF ConfirmedRows, TypeOK
<1>2. found \in SUBSET Key
  OBVIOUS
<1> QED BY <1>1, <1>2, SomeObjects

LEMMA RecallKeeps ==
  ASSUME IInv, NEW c \in Caller, Recall(c)
  PROVE  IInv'
<1> DEFINE found == {k \in Key : memory[k].status = "CONFIRMED"}
<1>1. PICK call :
        call = [Idle EXCEPT !.pc = IF found = {} THEN "searching" ELSE "syncing",
                            !.op = "recall", !.objects = ConfirmedRows, !.queue = found]
  OBVIOUS
<1>2. /\ At(c, "idle") /\ Becomes(c, call)
      /\ UNCHANGED <<memory, store, confirmed>>
  BY <1>1 DEF Recall, ConfirmedRows
<1>3. /\ call.pc = IF found = {} THEN "searching" ELSE "syncing"
      /\ call.op = "recall" /\ call.queue = found /\ call.values = {}
      /\ call.objects = ConfirmedRows
  BY <1>1 DEF Idle
<1>4. DOMAIN ConfirmedRows = found /\ \A k \in found : ConfirmedRows[k] = memory[k]
  BY DEF ConfirmedRows
<1>5. call \in Call /\ WellFormed(call)
  <2>1. ConfirmedRows \in Objects
    BY ConfirmedRowsAreObjects DEF IInv
  <2>2. call \in Call
    <3> HIDE DEF Objects
    <3> QED BY <1>1, <2>1, IdleIsCall DEF Call, Idle
  <2> QED BY <1>3, <1>4, <2>2 DEF WellFormed
<1>6. Proceeds(c, call)
  BY <1>2, <1>5 DEF Becomes, Proceeds, IInv, TypeOK
<1>7. TypeOK'
  BY <1>2, <1>6, StepTyped DEF IInv, TypeOK
<1>8. AllVouched'
  <2>1. found \subseteq confirmed
    BY DEF IInv, AllVouched, Vouched
  <2>2. CallVouched(call)'
    BY <1>2, <1>3, <1>4, <2>1 DEF CallVouched, Vouched
  <2> QED BY <1>2, <1>6, <2>2, StepVouched DEF IInv, AllVouched, Vouched
<1>9. InStep'
  <2>1. UpToDate(call)'
    BY <1>2, <1>3, <1>4 DEF UpToDate, ConfirmedRows
  <2>2. ASSUME orderly', NEW q \in Key PROVE Settled(q)'
    BY <1>2, <1>6, <2>2, OnlyMine DEF Settled, Proceeds, IInv, At
  <2> QED BY <1>6, <2>1, <2>2, StepInStep DEF IInv
<1> QED BY <1>7, <1>8, <1>9 DEF IInv

\* The call of c once memory k is off its queue.
AfterSync(c, k) ==
  LET call == caller[c]
      rest == call.queue \ {k}
  IN CASE rest # {} -> [call EXCEPT !.queue = rest]
       [] rest = {} /\ call.op = "recall" ->
            [call EXCEPT !.queue = {}, !.pc = "searching"]
       [] OTHER -> Idle

\* The three ways a call goes on after a copy.
LEMMA SyncOutcome ==
  ASSUME TypeOK, NEW c \in Caller, At(c, "syncing"), NEW k \in caller[c].queue,
         NEW call, call = AfterSync(c, k)
  PROVE  /\ call \in Call /\ WellFormed(call)
         /\ \/ /\ call.pc = "syncing" /\ call.queue = caller[c].queue \ {k}
               /\ call.objects = caller[c].objects /\ call.op = caller[c].op
               /\ call.values = caller[c].values
            \/ /\ call.pc = "searching" /\ caller[c].queue = {k}
               /\ call.objects = caller[c].objects /\ call.op = "recall"
               /\ caller[c].op = "recall" /\ call.values = caller[c].values
            \/ /\ call = Idle /\ caller[c].queue = {k}
<1> HIDE DEF Objects
<1>1. caller[c] \in Call /\ WellFormed(caller[c]) /\ caller[c].pc = "syncing"
  BY DEF TypeOK, At
<1>2. CASE caller[c].queue \ {k} # {}
  <2>1. call = [caller[c] EXCEPT !.queue = caller[c].queue \ {k}]
    BY <1>2 DEF AfterSync
  <2>2. call \in Call
    BY <1>1, <2>1 DEF Call
  <2> QED BY <1>1, <2>1, <2>2 DEF WellFormed, Call
<1>3. CASE caller[c].queue \ {k} = {} /\ caller[c].op = "recall"
  <2>1. call = [caller[c] EXCEPT !.queue = {}, !.pc = "searching"]
    BY <1>3 DEF AfterSync
  <2>2. call \in Call
    BY <1>1, <2>1 DEF Call
  <2> QED BY <1>1, <1>3, <2>1, <2>2 DEF WellFormed, Call
<1>4. CASE caller[c].queue \ {k} = {} /\ caller[c].op # "recall"
  BY <1>4, IdleIsCall DEF AfterSync
<1> QED BY <1>2, <1>3, <1>4

LEMMA SyncKeeps ==
  ASSUME IInv, NEW c \in Caller, NEW k \in Key, NEW arrives \in BOOLEAN,
         Sync(c, k, arrives)
  PROVE  IInv'
<1>1. /\ At(c, "syncing") /\ k \in caller[c].queue
      /\ store' = IF arrives THEN [store EXCEPT ![k] = Copied(caller[c].objects[k])]
                              ELSE store
      /\ orderly' = (orderly /\ Alone(c) /\ arrives)
      /\ UNCHANGED <<memory, confirmed>>
  BY DEF Sync
<1>2. PICK call : call = AfterSync(c, k)
  OBVIOUS
<1>3. caller' = [caller EXCEPT ![c] = call]
  BY <1>2 DEF Sync, AfterSync
<1>4. /\ call \in Call /\ WellFormed(call)
      /\ \/ /\ call.pc = "syncing" /\ call.queue = caller[c].queue \ {k}
            /\ call.objects = caller[c].objects /\ call.op = caller[c].op
            /\ call.values = caller[c].values
         \/ /\ call.pc = "searching" /\ caller[c].queue = {k}
            /\ call.objects = caller[c].objects /\ call.op = "recall"
            /\ caller[c].op = "recall" /\ call.values = caller[c].values
         \/ /\ call = Idle /\ caller[c].queue = {k}
  BY <1>1, <1>2, SyncOutcome DEF IInv
<1>5. Proceeds(c, call)
  BY <1>1, <1>3, <1>4 DEF Proceeds, IInv, TypeOK
<1>6. k \in DOMAIN caller[c].objects /\ caller[c].objects[k] \in Memory
  <2>1. k \in DOMAIN caller[c].objects
    BY <1>1 DEF IInv, TypeOK, WellFormed
  <2>2. caller[c].objects \in Objects
    BY CallFields DEF IInv, TypeOK
  <2> QED BY <2>1, <2>2, ObjectOf
<1>7. /\ Copied(caller[c].objects[k]) \in Memory
      /\ Copied(caller[c].objects[k]).status = "CONFIRMED" =>
           caller[c].objects[k].status = "CONFIRMED"
  BY <1>6, IdleIsCall DEF Copied, NoMemory
<1>8. TypeOK'
  BY <1>1, <1>5, <1>7, StepTyped DEF IInv, TypeOK
<1>9. AllVouched'
  <2>1. CallVouched(caller[c])
    BY DEF IInv, AllVouched
  <2>2. CallVouched(call)'
    <3>1. CASE call = Idle
      BY <3>1 DEF CallVouched, Idle
    <3>2. CASE call # Idle
      BY <1>1, <1>4, <2>1, <3>2 DEF CallVouched, Vouched
    <3> QED BY <3>1, <3>2
  <2>3. \A q \in Key : Vouched(memory[q], q)' /\ Vouched(store[q], q)'
    BY <1>1, <1>6, <1>7, <2>1 DEF CallVouched, Vouched, IInv, AllVouched, TypeOK
  <2> QED BY <1>1, <1>5, <2>2, <2>3, StepVouched DEF IInv
<1>10. InStep'
  <2>1. ASSUME orderly' PROVE UpToDate(call)'
    <3>1. UpToDate(caller[c])
      BY <1>1, <2>1 DEF IInv, InStep
    <3>2. CASE call = Idle
      BY <3>2 DEF UpToDate, Idle
    <3>3. CASE call # Idle
      BY <1>1, <1>4, <3>1, <3>3 DEF UpToDate, At, ConfirmedRows
    <3> QED BY <3>2, <3>3
  <2>2. ASSUME orderly', NEW q \in Key
        PROVE  Settled(q)' \/ (call.pc = "syncing" /\ q \in call.queue)
    <3>1. arrives /\ orderly /\ Alone(c)
      BY <1>1, <2>2
    <3>2. CASE q = k
      <4>1. caller[c].objects[k] = memory[k]
        BY <1>1, <3>1 DEF IInv, InStep, UpToDate, At
      <4> QED BY <1>1, <3>1, <3>2, <4>1 DEF Settled, IInv, TypeOK
    <3>3. CASE q # k
      <4>1. Settled(q) \/ q \in caller[c].queue
        BY <3>1, OnlyMine DEF IInv
      <4>2. Settled(q) => Settled(q)'
        BY <1>1, <3>1, <3>3 DEF Settled, IInv, TypeOK
      <4> QED BY <1>4, <3>3, <4>1, <4>2
    <3> QED BY <3>2, <3>3
  <2> QED BY <1>5, <2>1, <2>2, StepInStep DEF IInv
<1> QED BY <1>8, <1>9, <1>10 DEF IInv

\* What goes to the agent of a set of objects names only those objects.
LEMMA ValuesOf ==
  ASSUME NEW items \in Objects
  PROVE  /\ Values(items) \subseteq [key : Key, content : Contents]
         /\ \A value \in Values(items) : value.key \in DOMAIN items
<1>1. \A k \in DOMAIN items : items[k] \in Memory /\ k \in Key
  BY ObjectOf
<1> QED BY <1>1 DEF Values, Memory, Contents

\* In an orderly history the Store finds the confirmed rows, once all is copied.
LEMMA FoundIsConfirmed ==
  ASSUME TypeOK, \A k \in Key : Settled(k)
  PROVE  [k \in Found |-> store[k]] = ConfirmedRows
<1>1. ASSUME NEW k \in Key
      PROVE  /\ store[k].status = "CONFIRMED" <=> memory[k].status = "CONFIRMED"
             /\ memory[k].status = "CONFIRMED" => store[k] = memory[k]
  BY DEF Settled, Copied, NoMemory
<1> QED BY <1>1 DEF Found, ConfirmedRows

LEMMA SearchKeeps ==
  ASSUME IInv, NEW c \in Caller, Search(c)
  PROVE  IInv'
<1>1. At(c, "searching") /\ UNCHANGED <<memory, store, confirmed>>
  BY DEF Search
<1>2. PICK items \in {[k \in Found |-> store[k]], caller[c].objects} :
        Becomes(c, [caller[c] EXCEPT !.pc = "recalled", !.values = Values(items)])
  BY DEF Search
<1>3. PICK call : call = [caller[c] EXCEPT !.pc = "recalled", !.values = Values(items)]
  OBVIOUS
<1>4. caller[c] \in Call /\ caller[c].objects \in Objects
  BY CallFields DEF IInv, TypeOK
<1>5. items \in Objects
  <2>1. [k \in Found |-> store[k]] \in [Found -> Memory] /\ Found \in SUBSET Key
    BY DEF Found, IInv, TypeOK
  <2>2. [k \in Found |-> store[k]] \in Objects
    BY <2>1, SomeObjects
  <2> QED BY <1>2, <1>4, <2>2
<1>6. DOMAIN items \subseteq confirmed
  <2>1. Found \subseteq confirmed
    BY DEF Found, IInv, AllVouched, Vouched
  <2>2. DOMAIN caller[c].objects \subseteq confirmed
    BY <1>1 DEF IInv, AllVouched, CallVouched, At
  <2> QED BY <1>2, <2>1, <2>2
<1>7. /\ call.pc = "recalled" /\ call.values = Values(items)
      /\ call.objects = caller[c].objects /\ call.queue = caller[c].queue
      /\ call.op = caller[c].op
  BY <1>3, <1>4 DEF Call
<1>8. call \in Call /\ WellFormed(call)
  <2>1. call \in Call
    <3> HIDE DEF Objects
    <3> QED BY <1>3, <1>4, <1>5, ValuesOf DEF Call
  <2> QED BY <1>7, <2>1 DEF WellFormed, IInv, TypeOK
<1>9. Proceeds(c, call)
  BY <1>2, <1>3, <1>8 DEF Becomes, Proceeds, IInv, TypeOK
<1>10. TypeOK'
  BY <1>1, <1>9, StepTyped DEF IInv, TypeOK
<1>11. AllVouched'
  <2>1. CallVouched(caller[c])
    BY DEF IInv, AllVouched
  <2>2. \A value \in call.values : value.key \in confirmed
    BY <1>5, <1>6, <1>7, ValuesOf
  <2>3. CallVouched(call)'
    BY <1>1, <1>7, <2>1, <2>2 DEF CallVouched, Vouched, At
  <2> QED BY <1>1, <1>9, <2>3, StepVouched DEF IInv, AllVouched, Vouched
<1>12. InStep'
  <2>1. ASSUME orderly', NEW q \in Key PROVE Settled(q) /\ Settled(q)'
    BY <1>1, <1>9, <2>1, OnlyMine DEF Settled, Proceeds, IInv, At
  <2>2. ASSUME orderly' PROVE UpToDate(call)'
    <3>1. caller[c].objects = ConfirmedRows
      BY <1>1, <1>9, <2>2 DEF Proceeds, IInv, InStep, UpToDate, At
    <3>2. [k \in Found |-> store[k]] = ConfirmedRows
      BY <2>1, <2>2, FoundIsConfirmed DEF IInv
    <3>3. items = ConfirmedRows
      BY <1>2, <3>1, <3>2
    <3>4. ConfirmedRows' = ConfirmedRows
      BY <1>1 DEF ConfirmedRows
    <3> QED BY <1>7, <3>3, <3>4 DEF UpToDate, Values
  <2> QED BY <1>9, <2>1, <2>2, StepInStep DEF IInv
<1> QED BY <1>10, <1>11, <1>12 DEF IInv

LEMMA ReturnKeeps ==
  ASSUME IInv, NEW c \in Caller, Return(c)
  PROVE  IInv'
BY EndKeeps DEF Return, At

-----------------------------------------------------------------------------
(* The theorems *)

LEMMA InitInv == Init => IInv
<1> SUFFICES ASSUME Init PROVE IInv
  OBVIOUS
<1>1. TypeOK
  <2> HIDE DEF Call
  <2> QED BY IdleIsCall DEF Init, TypeOK
<1>2. AllVouched
  BY DEF Init, AllVouched, CallVouched, Vouched, Idle, NoMemory
<1>3. InStep
  BY DEF Init, InStep, At, Settled, Copied, UpToDate, Idle, NoMemory
<1> QED BY <1>1, <1>2, <1>3 DEF IInv

LEMMA NextInv == IInv /\ [Next]_vars => IInv'
<1> SUFFICES ASSUME IInv, [Next]_vars PROVE IInv'
  OBVIOUS
<1>1. CASE UNCHANGED vars
  BY <1>1 DEF vars, IInv, TypeOK, AllVouched, CallVouched, Vouched, InStep, At,
              Settled, Pending, UpToDate, ConfirmedRows
<1>2. ASSUME Next PROVE IInv'
  BY <1>2, UpdateKeeps, DeleteKeeps, ExtractKeeps, CreateKeeps, SyncKeeps,
     CommitKeeps, RecallKeeps, SearchKeeps, ReturnKeeps DEF Next
<1> QED BY <1>1, <1>2

\* The inductive invariant holds in every state.
THEOREM MemorySafe == Spec => []IInv
BY InitInv, NextInv, PTL DEF Spec

\* Whatever calls overlap and whatever copies the Store loses, a recall
\* (MemoryService.recall) names only memories that were confirmed at some time.
THEOREM ReachesTheAgentConfirmed == Spec => []NeverUnconfirmed
<1>1. IInv => NeverUnconfirmed
  BY DEF IInv, AllVouched, CallVouched, NeverUnconfirmed
<1> QED BY <1>1, MemorySafe, PTL

\* When calls do not overlap and no copy is lost, a recall answers with the
\* confirmed rows and their text, from the Store or from the database.
THEOREM RecallIsExact == Spec => []RecallsTheConfirmed
<1>1. IInv => RecallsTheConfirmed
  BY DEF IInv, InStep, UpToDate, ConfirmedRows, RecallsTheConfirmed, At
<1> QED BY <1>1, MemorySafe, PTL
=============================================================================
