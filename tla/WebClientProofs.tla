--------------------------- MODULE WebClientProofs ---------------------------
(***************************************************************************)
(* Proofs about WebClient, for any number of calls, sessions and Runs:     *)
(* what the page shows belongs together between actions (PageCoherent),    *)
(* and a page whose user waits for its calls has one Run at a time in a    *)
(* session (OneRunAtATime).  IInv relates the page, its calls and the      *)
(* server; CardsInv, proved on top of it, follows the weather and the      *)
(* itinerary, which stay on the page until a version has its own.          *)
(***************************************************************************)
EXTENDS WebClient, WellFoundedInduction, FiniteSetTheorems, TLAPS

-----------------------------------------------------------------------------
(* Types *)

OrNone(S) == S \cup {0}
Item == [listed : BOOLEAN, last : OrNone(Run), ended : BOOLEAN]
List == [Session -> Item]
Ats == {"idle", "list", "create", "post", "timeline", "restore", "restored",
        "fetch", "refresh", "delete"}

Call == [at : Ats, session : OrNone(Session), run : OrNone(Run), flag : BOOLEAN,
         reply : {"sent", "answered", "failed"}, value : Nat, cards : BOOLEAN,
         items : List]

\* What the type of a call does not say of its captured values.
WellFormed(call) ==
  /\ call.at = "create" /\ call.reply = "answered" => call.value \in Session
  /\ call.at \in {"post", "restore", "delete"} => call.session \in Session
  /\ call.at = "post" /\ call.reply = "answered" => call.value \in Run
  /\ call.at \in {"timeline", "restored", "fetch"} => call.run \in Run

ServerTyped ==
  /\ session \in [Session -> {"new", "there", "deleted"}]
  /\ run \in [Run -> [home : OrNone(Session), progress : -1..2,
                     cards : BOOLEAN, succeeded : BOOLEAN]]

PageTyped ==
  /\ page \in [session : OrNone(Session), run : OrNone(Run), active : BOOLEAN,
               timeline : OrNone(Session)]
  /\ output \in [run : OrNone(Run), progress : Nat, cards : OrNone(Run)]
  /\ stream \in [run : OrNone(Run), open : BOOLEAN, seen : 0..2]
  /\ items \in List

CallsTyped ==
  /\ thread \in [Thread -> Call]
  /\ \A t \in Thread : WellFormed(thread[t])

\* The type invariant: the server's, the page's and the calls' values.
TypeOK ==
  /\ ServerTyped /\ PageTyped /\ CallsTyped
  /\ overlap \in {"none", "background", "disturbed"}

-----------------------------------------------------------------------------
(* What holds whatever the user does *)

\* A Run has the fate of its session, and Runs are numbered as they come.
RunsHoused ==
  /\ \A r \in Run : IF run[r].home = 0 THEN run[r].progress = 0
                    ELSE /\ session[run[r].home] # "new"
                         /\ run[r].progress = -1 <=> session[run[r].home] = "deleted"
  /\ \A q, r \in Run : q < r /\ run[r].home # 0 => run[q].home # 0

\* A list names a Run of the session it is listed under.
OfItsSession(list) ==
  \A s \in Session : list[s].last # 0 => run[list[s].last].home = s

\* And so does what a call has captured.
CallsTrue(call) ==
  /\ OfItsSession(call.items)
  /\ call.at = "restore" /\ call.run # 0 => run[call.run].home = call.session
  /\ call.at = "post" /\ call.reply = "answered" => run[call.value].home = call.session

ListsTrue == OfItsSession(items) /\ \A t \in Thread : CallsTrue(thread[t])

-----------------------------------------------------------------------------
(* What holds as long as actions do not overlap and no request fails *)

\* A call that decides what the page shows; deleting may only clear it.
Busy(call) == \/ call.at \in {"create", "post", "timeline", "restore", "restored"}
              \/ call.at = "list" /\ call.flag

Acting(call) == Busy(call) \/ call.at = "delete"

Blank == page.run = 0 /\ output.run = 0

\* The session is the one of the Run, and the result shown, if any, the Run's.
OfItsRun ==
  /\ page.session # 0 /\ run[page.run].home = page.session
  /\ output.run \in {0, page.run}

\* The page belongs together.
Whole ==
  /\ page.run # 0 => OfItsRun /\ stream.run = page.run
  /\ page.active /\ page.session # 0 => stream.open

\* What the page is like while a call decides what it shows.
Prepared(call) ==
  /\ call.at = "list" /\ call.flag => page.session = 0 /\ page.run = 0 /\ ~page.active
  /\ call.at = "create" => Blank /\ page.session = 0
  /\ call.at = "post" => /\ page.session = call.session /\ page.run = 0
                         /\ ~call.flag => output.run = 0
  /\ call.at = "timeline" => page.run = call.run /\ OfItsRun
  /\ call.at = "restore" => Blank /\ page.session = call.session
  /\ call.at = "restored" => page.run = call.run /\ OfItsRun

\* One action is under way; while it decides what is shown no stream is open,
\* and otherwise the page belongs together.
Coherent ==
  /\ \A t, u \in Thread : Acting(thread[t]) /\ Acting(thread[u]) => t = u
  /\ \A t \in Thread : Busy(thread[t]) => ~stream.open /\ Prepared(thread[t])
  /\ (\A t \in Thread : ~Busy(thread[t])) => Whole

-----------------------------------------------------------------------------
(* What holds as long as the user waits for every call *)

\* r is the last Run of session s, and it has ended if that is said.
Latest(s, r, ended) ==
  /\ r # 0 /\ run[r].home = s
  /\ \A q \in Run : run[q].home = s => q <= r
  /\ ended => run[r].progress \in {-1, 2}

\* A list that is older than the last Run of a session is never acted upon.
Current(list) ==
  \A s \in Session : list[s].listed => Latest(s, list[s].last, list[s].ended)

\* Calls after which the list will be current.
Renewing(call) == \/ call.at = "post" /\ call.reply = "answered"
                  \/ call.at \in {"timeline", "list"}

\* Only the last Run of a session may be unfinished.
OthersEnded ==
  \A q, r \in Run : run[q].home # 0 /\ run[q].home = run[r].home /\ q < r =>
    run[q].progress \in {-1, 2}

AllEnded(s) == \A r \in Run : run[r].home = s => run[r].progress \in {-1, 2}

\* A session of which no Run is known yet.
Unborn(call, s) ==
  \/ call.at = "create" /\ call.reply = "answered" /\ call.value = s
  \/ call.at = "post" /\ call.reply = "sent" /\ call.session = s

\* The last Run of the page's session is the page's, which is free only when
\* that Run has ended.
Followed ==
  page.session # 0 => /\ Latest(page.session, page.run, ~page.active)
                      /\ page.timeline = page.session

\* What a call knows of the Runs, and what it will show.
Informed(call) ==
  /\ call.at = "list" /\ call.reply = "answered" => Current(call.items)
  /\ call.at = "create" => page.active
  /\ call.at = "create" /\ call.reply = "answered" =>
       \A r \in Run : run[r].home # call.value
  /\ call.at = "post" => page.active
  /\ call.at = "post" /\ call.reply = "sent" => AllEnded(call.session)
  /\ call.at = "post" /\ call.reply = "answered" =>
       Latest(call.session, call.value, FALSE) /\ session[call.session] = "there"
  /\ call.at = "timeline" =>
       /\ Latest(page.session, page.run, FALSE) /\ page.active
       /\ call.session = page.session /\ session[page.session] = "there"
  /\ call.at = "restore" => Latest(call.session, call.run, call.flag)
  /\ call.at = "restored" =>
       /\ Latest(page.session, page.run, ~page.active)
       /\ session[page.session] = "there" => page.timeline = page.session
       /\ call.reply = "answered" => session[page.session] = "there"
  /\ call.at = "refresh" => page.session \in {0, call.session}

Sequential ==
  /\ \A t, u \in Thread : Busy(thread[t]) /\ t # u => At(u, "idle")
  /\ \A t \in Thread : Informed(thread[t])
  /\ Current(items) \/ \E t \in Thread : Renewing(thread[t])
  /\ \A s \in Session : session[s] = "there" =>
       (\E r \in Run : run[r].home = s) \/ \E t \in Thread : Unborn(thread[t], s)
  /\ OthersEnded
  /\ (\A t \in Thread : ~Busy(thread[t])) => Followed

NoneFailed == \A t \in Thread : thread[t].reply # "failed"

\* The inductive invariant.
IInv ==
  /\ TypeOK /\ RunsHoused /\ ListsTrue
  /\ overlap # "disturbed" => Coherent /\ NoneFailed
  /\ overlap = "none" => Sequential

-----------------------------------------------------------------------------
(* Least and greatest numbers *)

\* A set of natural numbers that is not empty has a least element.
LEMMA LeastNumber ==
  ASSUME NEW S \in SUBSET Nat, S # {}
  PROVE  \E m \in S : \A n \in S : m <= n
<1> DEFINE R == OpToRel(<, Nat)
<1>1. IsWellFoundedOn(R, Nat)
  BY NatLessThanWellFounded
<1>2. \A x, y \in Nat : <<x, y>> \in R <=> x < y
  BY DEF OpToRel
<1> HIDE DEF R
<1>3. PICK m \in S : \A n \in S : <<n, m>> \notin R
  BY <1>1, WFMin
<1>4. ASSUME NEW n \in S PROVE m <= n
  <2>1. m \in Nat /\ n \in Nat
    OBVIOUS
  <2>2. ~(n < m)
    BY <1>2, <1>3, <2>1
  <2> QED BY <2>1, <2>2
<1> QED BY <1>4

\* Min picks the least number of a set that is not empty.
LEMMA MinNumber ==
  ASSUME NEW S \in SUBSET Nat, S # {}
  PROVE  Min(S) \in S /\ \A n \in S : Min(S) <= n
BY LeastNumber DEF Min

\* Max picks the greatest number of a set that is bounded and not empty.
LEMMA MaxNumber ==
  ASSUME NEW S \in SUBSET Nat, S # {}, NEW bound \in Nat, \A n \in S : n <= bound
  PROVE  Max(S) \in S /\ \A n \in S : n <= Max(S)
<1> DEFINE Rest == {bound - n : n \in S}
<1>1. Rest \in SUBSET Nat /\ Rest # {}
  <2>1. ASSUME NEW n \in S PROVE bound - n \in Nat
    OBVIOUS
  <2>2. Rest # {}
    OBVIOUS
  <2> QED BY <2>1, <2>2
<1>2. PICK m \in Rest : \A n \in Rest : m <= n
  BY <1>1, LeastNumber
<1>3. PICK x \in S : m = bound - x
  OBVIOUS
<1>4. ASSUME NEW n \in S PROVE x >= n
  <2>1. bound - n \in Rest
    OBVIOUS
  <2>2. bound - x <= bound - n
    BY <1>2, <1>3, <2>1
  <2> QED BY <2>2
<1>5. \E y \in S : \A n \in S : y >= n
  BY <1>4
<1>6. Max(S) \in S /\ \A n \in S : Max(S) >= n
  BY <1>5 DEF Max
<1>7. ASSUME NEW n \in S PROVE n <= Max(S)
  BY <1>6
<1> QED BY <1>6, <1>7

\* The last Run of a session that lists a Run.
LEMMA LastRunOf ==
  ASSUME NEW s \in Session, MaxRuns \in Nat
  PROVE  /\ LastRun(s) \in OrNone(Run)
         /\ LastRun(s) # 0 => There(LastRun(s)) /\ run[LastRun(s)].home = s
         /\ \A r \in Run : There(r) /\ run[r].home = s => r <= LastRun(s) /\ LastRun(s) # 0
<1> DEFINE S == {0} \cup {r \in Run : There(r) /\ run[r].home = s}
<1>1. S \in SUBSET Nat /\ S # {} /\ \A n \in S : n <= MaxRuns
  BY DEF Run
<1>2. Max(S) \in S /\ \A n \in S : n <= Max(S)
  BY <1>1, MaxNumber
<1>3. LastRun(s) = Max(S)
  BY DEF LastRun
<1>4. ASSUME NEW r \in Run, There(r), run[r].home = s
      PROVE  r <= LastRun(s) /\ LastRun(s) # 0
  <2>1. r \in S /\ r \in 1..MaxRuns
    BY <1>4 DEF Run
  <2>2. r <= Max(S)
    BY <1>2, <2>1
  <2> QED BY <1>1, <1>2, <1>3, <2>1, <2>2
<1> HIDE DEF S
<1>5. LastRun(s) \in S
  BY <1>2, <1>3
<1> QED BY <1>4, <1>5 DEF S, OrNone

-----------------------------------------------------------------------------
(* Starting calls *)

\* Starts puts each call into a call that was free and leaves the others alone.
LEMMA StartsPlaces ==
  ASSUME NEW calls, Starts(calls)
  PROVE  /\ \A t \in Thread :
              \/ thread'[t] = thread[t]
              \/ At(t, "idle") /\ \E i \in DOMAIN calls : thread'[t] = calls[i]
         /\ \A i \in DOMAIN calls : \E t \in Thread : At(t, "idle") /\ thread'[t] = calls[i]
         /\ thread' = [t \in Thread |-> thread'[t]]
<1>1. PICK place \in [DOMAIN calls -> Free] :
        /\ \A i, j \in DOMAIN calls : i # j => place[i] # place[j]
        /\ thread' = [t \in Thread |->
             IF \E i \in DOMAIN calls : place[i] = t
             THEN calls[CHOOSE i \in DOMAIN calls : place[i] = t] ELSE thread[t]]
  BY DEF Starts
<1>2. ASSUME NEW t \in Thread
      PROVE  \/ thread'[t] = thread[t]
             \/ At(t, "idle") /\ \E i \in DOMAIN calls : thread'[t] = calls[i]
  <2>1. CASE \E i \in DOMAIN calls : place[i] = t
    <3>1. PICK i \in DOMAIN calls : i = (CHOOSE j \in DOMAIN calls : place[j] = t) /\ place[i] = t
      BY <2>1
    <3>2. thread'[t] = calls[i] /\ t \in Free
      BY <1>1, <2>1, <3>1
    <3> QED BY <3>2 DEF Free
  <2>2. CASE ~\E i \in DOMAIN calls : place[i] = t
    BY <1>1, <2>2
  <2> QED BY <2>1, <2>2
<1>3. ASSUME NEW i \in DOMAIN calls
      PROVE  \E t \in Thread : At(t, "idle") /\ thread'[t] = calls[i]
  <2>1. place[i] \in Free
    BY <1>1
  <2>2. place[i] \in Thread /\ At(place[i], "idle")
    BY <2>1 DEF Free
  <2>3. (CHOOSE j \in DOMAIN calls : place[j] = place[i]) = i
    BY <1>1
  <2>4. thread'[place[i]] = calls[i]
    BY <1>1, <2>2, <2>3
  <2> QED BY <2>2, <2>4
<1> QED BY <1>1, <1>2, <1>3

\* One call is put into one free call.
LEMMA StartsOne ==
  ASSUME NEW call, Starts(<<call>>), TypeOK
  PROVE  \E t \in Thread : At(t, "idle") /\ thread' = [thread EXCEPT ![t] = call]
<1>1. PICK place \in [{1} -> Free] :
        thread' = [t \in Thread |->
             IF \E i \in {1} : place[i] = t
             THEN <<call>>[CHOOSE i \in {1} : place[i] = t] ELSE thread[t]]
  <2>1. DOMAIN <<call>> = {1}
    OBVIOUS
  <2> QED BY <2>1 DEF Starts
<1>2. place[1] \in Thread /\ At(place[1], "idle")
  BY DEF Free
<1>3. ASSUME NEW t \in Thread
      PROVE  thread'[t] = IF t = place[1] THEN call ELSE thread[t]
  <2>1. CASE t = place[1]
    <3>1. (CHOOSE i \in {1} : place[i] = t) = 1
      BY <2>1
    <3>2. thread'[t] = <<call>>[1]
      BY <1>1, <2>1, <3>1
    <3> QED BY <2>1, <3>2
  <2>2. CASE t # place[1]
    BY <1>1, <2>2
  <2> QED BY <2>1, <2>2
<1>4. thread' = [thread EXCEPT ![place[1]] = call]
  BY <1>1, <1>3 DEF TypeOK, CallsTyped
<1> QED BY <1>2, <1>4

-----------------------------------------------------------------------------
(* A step of one call *)

\* Call t goes on as the given one, the others stay where they are.
Moves(t, call) ==
  /\ t \in Thread
  /\ call \in Call /\ WellFormed(call)
  /\ thread' = [thread EXCEPT ![t] = call]

\* Numbers of sessions and Runs start at 1; 0 is none.
LEMMA Numbers ==
  /\ 0 \notin Session /\ 0 \notin Run
  /\ Session \subseteq Nat /\ Run \subseteq Nat
BY DEF Session, Run

LEMMA IdleIsCall ==
  Idle \in Call /\ WellFormed(Idle) /\ NoItems \in List
<1>1. NoItems \in List
  BY DEF NoItems, Unlisted, List, Item, OrNone
<1> HIDE DEF List
<1>2. Idle \in Call
  BY <1>1 DEF Idle, NoItems, Call, Ats, OrNone
<1>3. WellFormed(Idle)
  BY DEF Idle, WellFormed
<1> QED BY <1>1, <1>2, <1>3

\* After a step the call that moved is the new one and the others are the old.
LEMMA Moved ==
  ASSUME CallsTyped, NEW t, NEW call, Moves(t, call)
  PROVE  /\ t \in Thread /\ thread'[t] = call
         /\ \A u \in Thread \ {t} : thread'[u] = thread[u]
         /\ CallsTyped'
<1> HIDE DEF Call
<1> QED BY DEF CallsTyped, Moves

\* The fields of a call and of a list have their types.
LEMMA CallFields ==
  ASSUME NEW call \in Call
  PROVE  /\ call.at \in Ats /\ call.session \in OrNone(Session)
         /\ call.run \in OrNone(Run) /\ call.flag \in BOOLEAN
         /\ call.reply \in {"sent", "answered", "failed"} /\ call.value \in Nat
         /\ call.cards \in BOOLEAN /\ call.items \in List
BY DEF Call

LEMMA ItemFields ==
  ASSUME NEW list \in List, NEW s \in Session
  PROVE  /\ list[s].listed \in BOOLEAN /\ list[s].last \in OrNone(Run)
         /\ list[s].ended \in BOOLEAN
BY DEF List, Item

LEMMA RunFields ==
  ASSUME ServerTyped, NEW r \in Run
  PROVE  /\ run[r].home \in OrNone(Session) /\ run[r].progress \in -1..2
         /\ run[r].cards \in BOOLEAN /\ run[r].succeeded \in BOOLEAN
BY DEF ServerTyped

-----------------------------------------------------------------------------
(* Lists and Runs *)

\* A Run stays in its session.
HomesKept == \A r \in Run : run[r].home # 0 => run'[r].home = run[r].home

\* What is true of a list or a call stays true while Runs stay where they are.
LEMMA ListStaysTrue ==
  ASSUME NEW list \in List, OfItsSession(list), HomesKept
  PROVE  OfItsSession(list)'
<1> SUFFICES ASSUME NEW s \in Session, list[s].last # 0
             PROVE  run'[list[s].last].home = s
  BY DEF OfItsSession
<1>1. list[s].last \in Run
  BY ItemFields DEF OrNone
<1>2. run[list[s].last].home = s
  BY DEF OfItsSession
<1> QED BY <1>1, <1>2, Numbers DEF HomesKept

LEMMA CallStaysTrue ==
  ASSUME NEW call \in Call, WellFormed(call), CallsTrue(call), HomesKept
  PROVE  CallsTrue(call)'
<1>1. OfItsSession(call.items)'
  BY CallFields, ListStaysTrue DEF CallsTrue
<1>2. ASSUME call.at = "restore", call.run # 0
      PROVE  run'[call.run].home = call.session
  <2>1. call.run \in Run /\ call.session \in Session
    BY <1>2, CallFields DEF OrNone, WellFormed
  <2> QED BY <1>2, <2>1, Numbers DEF HomesKept, CallsTrue
<1>3. ASSUME call.at = "post", call.reply = "answered"
      PROVE  run'[call.value].home = call.session
  <2>1. call.value \in Run /\ call.session \in Session
    BY <1>3 DEF WellFormed
  <2> QED BY <1>3, <2>1, Numbers DEF HomesKept, CallsTrue
<1> QED BY <1>1, <1>2, <1>3 DEF CallsTrue

\* Steps keep the lists true if what is new is true.
LEMMA ListsStayTrue ==
  ASSUME TypeOK, ListsTrue, HomesKept, OfItsSession(items)',
         \A t \in Thread : thread'[t] = thread[t] \/ CallsTrue(thread[t])'
  PROVE  ListsTrue'
<1>1. ASSUME NEW t \in Thread PROVE CallsTrue(thread[t])'
  <2>1. CASE thread'[t] = thread[t]
    <3>1. PICK call \in Call : call = thread[t]
      BY DEF TypeOK, CallsTyped
    <3>2. WellFormed(call) /\ CallsTrue(call)
      BY <3>1 DEF TypeOK, CallsTyped, ListsTrue
    <3>3. CallsTrue(call)'
      BY <3>2, CallStaysTrue
    <3>4. thread'[t] = call
      BY <2>1, <3>1
    <3> QED BY <3>3, <3>4 DEF CallsTrue, OfItsSession
  <2> QED BY <2>1
<1> QED BY <1>1 DEF ListsTrue

\* Lists stay true while neither they nor the Runs change.
LEMMA SameLists ==
  ASSUME TypeOK, ListsTrue, UNCHANGED <<run, items>>
  PROVE  HomesKept /\ OfItsSession(items)'
BY DEF HomesKept, ListsTrue, OfItsSession

-----------------------------------------------------------------------------
(* Coherence from step to step *)

\* When the others are not acting, it is on the call that moved what the page
\* is like.
LEMMA ActingCoherent ==
  ASSUME CallsTyped, NEW t, NEW call, Moves(t, call),
         \A u \in Thread \ {t} : ~Acting(thread[u]),
         Busy(call) => ~stream'.open /\ Prepared(call)',
         ~Busy(call) => Whole'
  PROVE  Coherent'
<1>1. t \in Thread /\ thread'[t] = call
  BY Moved
<1>2. \A u \in Thread \ {t} : ~Acting(thread'[u]) /\ ~Busy(thread'[u])
  BY Moved DEF Acting
<1>3. \A u, v \in Thread : Acting(thread'[u]) /\ Acting(thread'[v]) => u = v
  BY <1>2
<1>4. ASSUME NEW u \in Thread, Busy(thread'[u])
      PROVE  ~stream'.open /\ Prepared(thread[u])'
  <2>1. u = t
    BY <1>2, <1>4
  <2> QED BY <1>1, <1>4, <2>1 DEF Prepared, Blank, OfItsRun
<1>5. (\A u \in Thread : ~Busy(thread'[u])) => Whole'
  BY <1>1
<1> QED BY <1>3, <1>4, <1>5 DEF Coherent, Acting, Busy

\* Calls that do not act neither open a stream nor disturb what is prepared.
LEMMA OthersCoherent ==
  ASSUME CallsTyped, Coherent,
         \A u \in Thread :
           thread'[u] = thread[u] \/ (~Acting(thread[u]) /\ ~Acting(thread'[u])),
         stream'.open => stream.open,
         \A call \in Call : Prepared(call) => Prepared(call)',
         (\A u \in Thread : ~Busy(thread[u])) /\ Whole => Whole'
  PROVE  Coherent'
<1>1. \A u \in Thread : /\ Acting(thread'[u]) => thread'[u] = thread[u] /\ Acting(thread[u])
                        /\ Busy(thread'[u]) <=> Busy(thread[u])
  BY DEF Acting
<1>2. \A u, v \in Thread : Acting(thread'[u]) /\ Acting(thread'[v]) => u = v
  BY <1>1 DEF Coherent
<1>3. ASSUME NEW u \in Thread, Busy(thread'[u])
      PROVE  ~stream'.open /\ Prepared(thread[u])'
  <2>1. thread'[u] = thread[u] /\ Busy(thread[u])
    BY <1>1, <1>3 DEF Acting
  <2>2. PICK call \in Call : call = thread[u]
    BY DEF CallsTyped
  <2>3. ~stream'.open /\ Prepared(call)
    BY <2>1, <2>2 DEF Coherent
  <2>4. Prepared(call)'
    BY <2>3
  <2>5. thread'[u] = call
    BY <2>1, <2>2
  <2> QED BY <2>3, <2>4, <2>5 DEF Prepared, Blank, OfItsRun
<1>4. (\A u \in Thread : ~Busy(thread'[u])) => Whole'
  BY <1>1 DEF Coherent
<1> QED BY <1>2, <1>3, <1>4 DEF Coherent, Acting, Busy

-----------------------------------------------------------------------------
(* What the user does *)

\* While the history is undisturbed, the user acts when no call does.
LEMMA ActsMeans ==
  ASSUME TypeOK, Acts
  PROVE  /\ overlap' \in {"none", "background", "disturbed"}
         /\ overlap' # "disturbed" =>
              overlap # "disturbed" /\ \A u \in Thread : ~Acting(thread[u])
         /\ overlap' = "none" => overlap = "none" /\ \A u \in Thread : At(u, "idle")
<1>1. \A u \in Thread : thread[u].at \in Ats /\ thread[u].flag \in BOOLEAN
  BY CallFields DEF TypeOK, CallsTyped
<1>2. overlap' = CASE overlap = "disturbed" \/ Foreground # {} -> "disturbed"
                   [] overlap # "disturbed" /\ Foreground = {} /\ Free # Thread -> "background"
                   [] OTHER -> overlap
  BY DEF Acts
<1>3. CASE overlap = "disturbed" \/ Foreground # {}
  BY <1>2, <1>3
<1>4. CASE overlap # "disturbed" /\ Foreground = {}
  <2>1. ASSUME NEW u \in Thread PROVE ~Acting(thread[u])
    BY <1>1, <1>4 DEF Foreground, Free, Background, Acting, Busy, At, Ats
  <2>2. CASE Free # Thread
    BY <1>2, <1>4, <2>1, <2>2
  <2>3. CASE Free = Thread
    <3>1. overlap' = overlap
      BY <1>2, <1>4, <2>3
    <3>2. \A u \in Thread : At(u, "idle")
      BY <2>3 DEF Free
    <3> QED BY <1>4, <2>1, <3>1, <3>2 DEF TypeOK
  <2> QED BY <2>2, <2>3
<1> QED BY <1>3, <1>4

\* An action of the user keeps the invariant if the call it starts is prepared
\* for, and leaves the page whole if it decides nothing.
LEMMA UserKeeps ==
  ASSUME IInv, Acts, NEW t, NEW call, Moves(t, call), At(t, "idle"), PageTyped',
         CallsTrue(call)', call.reply = "sent",
         overlap' # "disturbed" /\ Busy(call) => ~stream'.open /\ Prepared(call)',
         overlap' # "disturbed" /\ ~Busy(call) /\ Whole => Whole',
         overlap' = "none" => Informed(call)',
         overlap' = "none" /\ ~Busy(call) /\ Followed => Followed'
  PROVE  IInv'
<1>1. /\ overlap' \in {"none", "background", "disturbed"}
      /\ overlap' # "disturbed" =>
           overlap # "disturbed" /\ \A u \in Thread : ~Acting(thread[u])
      /\ overlap' = "none" => overlap = "none" /\ \A u \in Thread : At(u, "idle")
  BY ActsMeans DEF IInv
<1>2. UNCHANGED <<session, run, items>>
  BY DEF Acts
<1>3. /\ t \in Thread /\ thread'[t] = call
      /\ \A u \in Thread \ {t} : thread'[u] = thread[u]
      /\ CallsTyped'
  BY Moved DEF IInv, TypeOK
<1>4. TypeOK'
  BY <1>1, <1>2, <1>3 DEF IInv, TypeOK, ServerTyped
<1>5. RunsHoused'
  BY <1>2 DEF IInv, RunsHoused
<1>6. ListsTrue'
  <2>1. CallsTrue(thread[t])'
    BY <1>3 DEF CallsTrue, OfItsSession
  <2> QED BY <1>2, <1>3, <2>1, SameLists, ListsStayTrue DEF IInv
<1>7. ASSUME overlap' # "disturbed" PROVE Coherent'
  <2>1. \A u \in Thread : ~Acting(thread[u]) /\ ~Busy(thread[u])
    BY <1>1, <1>7 DEF Acting
  <2>2. Whole
    BY <1>1, <1>7, <2>1 DEF IInv, Coherent
  <2> QED BY <1>7, <2>1, <2>2, ActingCoherent DEF IInv, TypeOK
<1>9. overlap' # "disturbed" => NoneFailed'
  BY <1>1, <1>3 DEF IInv, NoneFailed
<1>8. ASSUME overlap' = "none" PROVE Sequential'
  <2>1. \A u \in Thread : thread[u].at = "idle"
    BY <1>1, <1>8 DEF At
  <2>2. \A u \in Thread \ {t} : thread'[u].at = "idle"
    BY <1>3, <2>1
  <2>3. Sequential
    BY <1>1, <1>8 DEF IInv
  <2>4. \A u \in Thread : ~Busy(thread[u])
    BY <2>1 DEF Busy
  <2>5. \A u, v \in Thread : Busy(thread'[u]) /\ u # v => At(v, "idle")'
    <3>1. \A u \in Thread \ {t} : ~Busy(thread'[u])
      BY <2>2 DEF Busy
    <3> QED BY <2>2, <3>1 DEF At
  <2>6. ASSUME NEW u \in Thread PROVE Informed(thread[u])'
    <3>1. CASE u = t
      BY <1>3, <1>8, <3>1 DEF Informed, Current, Latest, AllEnded
    <3>2. CASE u # t
      BY <2>2, <3>2 DEF Informed
    <3> QED BY <3>1, <3>2
  <2>7. Current(items)'
    <3>1. Current(items)
      BY <2>1, <2>3 DEF Sequential, Renewing
    <3> QED BY <1>2, <3>1 DEF Current, Latest
  <2>8. ASSUME NEW s \in Session, session'[s] = "there"
        PROVE  \E r \in Run : run'[r].home = s
    <3>1. \A u \in Thread : ~Unborn(thread[u], s)
      BY <2>1 DEF Unborn
    <3> QED BY <1>2, <2>3, <2>8, <3>1 DEF Sequential
  <2>9. OthersEnded'
    BY <1>2, <2>3 DEF Sequential, OthersEnded
  <2>10. ASSUME \A u \in Thread : ~Busy(thread'[u]) PROVE Followed'
    <3>1. Followed
      BY <2>3, <2>4 DEF Sequential
    <3>2. ~Busy(call)
      BY <1>3, <2>10
    <3> QED BY <1>8, <3>1, <3>2
  <2> QED BY <2>5, <2>6, <2>7, <2>8, <2>9, <2>10 DEF Sequential, Busy
<1> QED BY <1>4, <1>5, <1>6, <1>7, <1>8, <1>9 DEF IInv

\* The user who waits finds a page that follows its session and a current list.
LEMMA WaitingFinds ==
  ASSUME IInv, Acts, overlap' = "none"
  PROVE  Followed /\ Current(items) /\ OthersEnded
<1>1. overlap = "none" /\ \A u \in Thread : At(u, "idle")
  BY ActsMeans DEF IInv
<1>2. Sequential
  BY <1>1 DEF IInv
<1>3. \A u \in Thread : ~Busy(thread[u]) /\ ~Renewing(thread[u])
  BY <1>1 DEF At, Busy, Renewing
<1> QED BY <1>2, <1>3 DEF Sequential

\* When the last Run has ended, all have.
LEMMA LatestEnded ==
  ASSUME ServerTyped, OthersEnded, NEW s \in Session, NEW r \in Run, Latest(s, r, TRUE)
  PROVE  AllEnded(s)
<1> SUFFICES ASSUME NEW q \in Run, run[q].home = s
             PROVE  run[q].progress \in {-1, 2}
  BY DEF AllEnded
<1>1. q <= r /\ run[r].home = s /\ run[r].progress \in {-1, 2}
  BY DEF Latest
<1>2. CASE q = r
  BY <1>1, <1>2
<1>3. CASE q # r
  <2>1. q < r
    BY <1>1, <1>3, Numbers
  <2> QED BY <1>1, <2>1, Numbers DEF OthersEnded
<1> QED BY <1>2, <1>3

LEMMA SubmitJourneyKeeps ==
  ASSUME IInv, SubmitJourney
  PROVE  IInv'
<1>1. PICK call : call = [Idle EXCEPT !.at = "create"]
  OBVIOUS
<1>2. /\ call.at = "create" /\ call.reply = "sent" /\ call.items = NoItems
      /\ call \in Call /\ WellFormed(call)
  <2> HIDE DEF List
  <2> QED BY <1>1, IdleIsCall DEF Idle, Call, Ats, WellFormed
<1>3. Acts /\ Starts(<<call>>)
  BY <1>1 DEF SubmitJourney
<1>4. PICK t \in Thread : At(t, "idle") /\ thread' = [thread EXCEPT ![t] = call]
  BY <1>3, StartsOne DEF IInv
<1>5. Moves(t, call)
  BY <1>2, <1>4 DEF Moves
<1>6. /\ page' = [session |-> 0, run |-> 0, active |-> TRUE, timeline |-> 0]
      /\ output' = [run |-> 0, progress |-> 0, cards |-> 0]
      /\ stream' = [stream EXCEPT !.open = FALSE]
      /\ items' = items
  BY DEF SubmitJourney, Reset, NoOutput, Acts
<1>7. PageTyped'
  <2> HIDE DEF List
  <2> QED BY <1>6 DEF PageTyped, IInv, TypeOK, OrNone
<1>8. CallsTrue(call)'
  BY <1>2 DEF CallsTrue, OfItsSession, NoItems, Unlisted
<1>9. Busy(call) /\ ~stream'.open /\ Prepared(call)'
  BY <1>2, <1>6 DEF Busy, Prepared, Blank, IInv, TypeOK, PageTyped
<1>10. Informed(call)'
  BY <1>2, <1>6 DEF Informed
<1> QED BY <1>2, <1>3, <1>4, <1>5, <1>7, <1>8, <1>9, <1>10, UserKeeps

LEMMA SubmitFollowUpKeeps ==
  ASSUME IInv, SubmitFollowUp
  PROVE  IInv'
<1>1. PICK call : call = [Idle EXCEPT !.at = "post", !.session = page.session, !.flag = TRUE]
  OBVIOUS
<1>2. page.session \in Session
  BY DEF SubmitFollowUp, IInv, TypeOK, PageTyped, OrNone
<1>3. /\ call.at = "post" /\ call.reply = "sent" /\ call.items = NoItems
      /\ call.session = page.session /\ call.flag
      /\ call \in Call /\ WellFormed(call)
  <2> HIDE DEF List
  <2> QED BY <1>1, <1>2, IdleIsCall DEF Idle, Call, Ats, WellFormed, OrNone
<1>4. Acts /\ Starts(<<call>>) /\ ~page.active
  BY <1>1 DEF SubmitFollowUp
<1>5. PICK t \in Thread : At(t, "idle") /\ thread' = [thread EXCEPT ![t] = call]
  BY <1>4, StartsOne DEF IInv
<1>6. Moves(t, call)
  BY <1>3, <1>5 DEF Moves
<1>7. /\ page' = [page EXCEPT !.run = 0, !.active = TRUE]
      /\ stream' = [stream EXCEPT !.open = FALSE]
      /\ UNCHANGED <<output, items, run>>
  BY DEF SubmitFollowUp, Acts
<1>8. PageTyped'
  <2> HIDE DEF List
  <2> QED BY <1>7 DEF PageTyped, IInv, TypeOK, OrNone
<1>9. CallsTrue(call)'
  BY <1>3 DEF CallsTrue, OfItsSession, NoItems, Unlisted
<1>10. page'.session = call.session /\ page'.run = 0 /\ page'.active /\ ~stream'.open
  BY <1>3, <1>7 DEF IInv, TypeOK, PageTyped
<1>11. Busy(call) /\ ~stream'.open /\ Prepared(call)'
  BY <1>3, <1>10 DEF Busy, Prepared
<1>12. ASSUME overlap' = "none" PROVE Informed(call)'
  <2>1. Followed /\ OthersEnded
    BY <1>4, <1>12, WaitingFinds
  <2>2. Latest(page.session, page.run, TRUE) /\ page.run \in Run
    BY <1>2, <1>4, <2>1, Numbers DEF Followed, Latest, IInv, TypeOK, PageTyped, OrNone
  <2>3. AllEnded(page.session)
    BY <1>2, <2>1, <2>2, LatestEnded DEF IInv, TypeOK
  <2>4. AllEnded(call.session)'
    BY <1>3, <1>7, <2>3 DEF AllEnded
  <2> QED BY <1>3, <1>10, <2>4 DEF Informed
<1> QED BY <1>3, <1>4, <1>5, <1>6, <1>8, <1>9, <1>11, <1>12, UserKeeps

\* The call that restores session s as the list has it.
LEMMA RestoringIsCall ==
  ASSUME NEW list \in List, NEW s \in Session, NEW call, call = Restoring(s, list[s])
  PROVE  /\ call.at = "restore" /\ call.reply = "sent" /\ call.items = NoItems
         /\ call.session = s /\ call.run = list[s].last /\ call.flag = list[s].ended
         /\ call \in Call /\ WellFormed(call)
<1> HIDE DEF List
<1> QED BY IdleIsCall, ItemFields DEF Restoring, Idle, Call, Ats, WellFormed, OrNone

LEMMA RestoreSessionKeeps ==
  ASSUME IInv, NEW s \in Session, RestoreSession(s)
  PROVE  IInv'
<1>1. PICK call : call = Restoring(s, items[s])
  OBVIOUS
<1>2. items \in List
  BY DEF IInv, TypeOK, PageTyped
<1>3. /\ call.at = "restore" /\ call.reply = "sent" /\ call.items = NoItems
      /\ call.session = s /\ call.run = items[s].last /\ call.flag = items[s].ended
      /\ call \in Call /\ WellFormed(call)
  BY <1>1, <1>2, RestoringIsCall
<1>4. Acts /\ Starts(<<call>>) /\ items[s].listed
  BY <1>1 DEF RestoreSession
<1>5. PICK t \in Thread : At(t, "idle") /\ thread' = [thread EXCEPT ![t] = call]
  BY <1>4, StartsOne DEF IInv
<1>6. Moves(t, call)
  BY <1>3, <1>5 DEF Moves
<1>7. /\ page' = [session |-> s, run |-> 0, active |-> page.active, timeline |-> 0]
      /\ output' = [run |-> 0, progress |-> 0, cards |-> 0]
      /\ stream' = [stream EXCEPT !.open = FALSE]
      /\ UNCHANGED <<items, run>>
  BY DEF RestoreSession, Reset, NoOutput, Acts
<1>8. PageTyped'
  <2> HIDE DEF List
  <2> QED BY <1>7 DEF PageTyped, IInv, TypeOK, OrNone
<1>9. CallsTrue(call)'
  BY <1>3, <1>7 DEF CallsTrue, OfItsSession, NoItems, Unlisted, IInv, ListsTrue
<1>10. page'.session = s /\ page'.run = 0 /\ output'.run = 0 /\ ~stream'.open
  BY <1>7 DEF IInv, TypeOK, PageTyped
<1>11. Busy(call) /\ ~stream'.open /\ Prepared(call)'
  BY <1>3, <1>10 DEF Busy, Prepared, Blank
<1>12. ASSUME overlap' = "none" PROVE Informed(call)'
  <2>1. Current(items)
    BY <1>4, <1>12, WaitingFinds
  <2>2. Latest(s, call.run, call.flag)
    BY <1>3, <1>4, <2>1 DEF Current
  <2>3. Latest(call.session, call.run, call.flag)'
    BY <1>3, <1>7, <2>2 DEF Latest
  <2> QED BY <1>3, <2>3 DEF Informed
<1> QED BY <1>3, <1>4, <1>5, <1>6, <1>8, <1>9, <1>11, <1>12, UserKeeps

\* An action that leaves the page as it is starts a call that decides nothing.
LEMMA AsideKeeps ==
  ASSUME IInv, Acts, UNCHANGED <<page, output, stream>>,
         NEW call \in Call, WellFormed(call), Starts(<<call>>),
         call.at \in {"delete", "list"}, ~Busy(call), call.reply = "sent",
         call.items = NoItems
  PROVE  IInv'
<1>1. PICK t \in Thread : At(t, "idle") /\ thread' = [thread EXCEPT ![t] = call]
  BY StartsOne DEF IInv
<1>2. Moves(t, call)
  BY <1>1 DEF Moves
<1>3. UNCHANGED <<session, run, items>>
  BY DEF Acts
<1>4. PageTyped'
  BY <1>3 DEF PageTyped, IInv, TypeOK
<1>5. CallsTrue(call)'
  BY DEF CallsTrue, OfItsSession, NoItems, Unlisted
<1>6. Whole => Whole'
  BY <1>3 DEF Whole, OfItsRun
<1>7. Informed(call)'
  BY DEF Informed
<1>8. Followed => Followed'
  BY <1>3 DEF Followed, Latest
<1> QED BY <1>1, <1>2, <1>4, <1>5, <1>6, <1>7, <1>8, UserKeeps

LEMMA DeleteSessionKeeps ==
  ASSUME IInv, NEW s \in Session, DeleteSession(s)
  PROVE  IInv'
<1>1. PICK call : call = [Idle EXCEPT !.at = "delete", !.session = s]
  OBVIOUS
<1>2. /\ call.at = "delete" /\ call.reply = "sent" /\ call.items = NoItems
      /\ call \in Call /\ WellFormed(call) /\ ~Busy(call)
  <2> HIDE DEF List
  <2> QED BY <1>1, IdleIsCall DEF Idle, Call, Ats, WellFormed, OrNone, Busy
<1> QED BY <1>1, <1>2, AsideKeeps DEF DeleteSession

\* The call that reads the list of sessions.
LEMMA ListingIsCall ==
  /\ Listing.at = "list" /\ Listing.reply = "sent" /\ Listing.items = NoItems
  /\ ~Listing.flag /\ ~Busy(Listing) /\ ~Acting(Listing)
  /\ Listing \in Call /\ WellFormed(Listing)
<1> HIDE DEF List
<1> QED BY IdleIsCall DEF Listing, Idle, Call, Ats, WellFormed, Busy, Acting

LEMMA OpenHistoryKeeps ==
  ASSUME IInv, OpenHistory
  PROVE  IInv'
BY ListingIsCall, AsideKeeps DEF OpenHistory

-----------------------------------------------------------------------------
(* The server *)

\* The Runs stay in their sessions, and what has ended stays so.
RunsOn ==
  \A r \in Run : /\ run'[r].home = run[r].home
                 /\ run[r].progress \in {-1, 2} => run'[r].progress \in {-1, 2}

\* What is known of the last Runs survives.
LEMMA LatestStays ==
  ASSUME RunsOn, NEW s, NEW r \in OrNone(Run), NEW ended, Latest(s, r, ended)
  PROVE  Latest(s, r, ended)'
BY DEF RunsOn, Latest, OrNone

LEMMA CurrentStays ==
  ASSUME RunsOn, NEW list \in List, Current(list)
  PROVE  Current(list)'
<1> SUFFICES ASSUME NEW s \in Session, list[s].listed
             PROVE  Latest(s, list[s].last, list[s].ended)'
  BY DEF Current
<1>1. Latest(s, list[s].last, list[s].ended)
  BY DEF Current
<1> QED BY <1>1, ItemFields, LatestStays

\* A call that was only answered still does what it did.
SameCall(old, new) ==
  /\ new.at = old.at /\ new.session = old.session
  /\ new.run = old.run /\ new.flag = old.flag

LEMMA SameCallActs ==
  ASSUME NEW old, NEW new, SameCall(old, new)
  PROVE  (Busy(old) <=> Busy(new)) /\ (Acting(old) <=> Acting(new))
BY DEF SameCall, Busy, Acting

\* While the page stays as it is, so does what it is prepared for.
LEMMA PreparedStays ==
  ASSUME NEW old, NEW new, SameCall(old, new), WellFormed(old), Prepared(old),
         PageTyped, ServerTyped, HomesKept, UNCHANGED <<page, output, stream>>
  PROVE  Prepared(new)'
<1>1. OfItsRun /\ page.run \in Run => OfItsRun'
  BY DEF OfItsRun, HomesKept
<1> QED BY <1>1 DEF Prepared, SameCall, Blank, WellFormed

\* The page stays coherent while the server answers and Runs stay at home.
LEMMA ServedCoherent ==
  ASSUME TypeOK, Coherent, HomesKept, UNCHANGED <<page, output, stream>>,
         \A u \in Thread : SameCall(thread[u], thread'[u])
  PROVE  Coherent'
<1>1. \A u \in Thread : /\ Busy(thread[u]) <=> Busy(thread'[u])
                        /\ Acting(thread[u]) <=> Acting(thread'[u])
  BY SameCallActs
<1>2. \A u, v \in Thread : Acting(thread'[u]) /\ Acting(thread'[v]) => u = v
  BY <1>1 DEF Coherent
<1>3. ASSUME NEW u \in Thread, Busy(thread'[u])
      PROVE  ~stream'.open /\ Prepared(thread[u])'
  <2>1. PICK old : old = thread[u]
    OBVIOUS
  <2>2. PICK new : new = thread'[u]
    OBVIOUS
  <2>3. ~stream.open /\ Prepared(old)
    BY <1>1, <1>3, <2>1 DEF Coherent
  <2>4. WellFormed(old) /\ SameCall(old, new)
    BY <2>1, <2>2 DEF TypeOK, CallsTyped
  <2>5. Prepared(new)'
    BY <2>3, <2>4, PreparedStays DEF TypeOK
  <2> QED BY <2>2, <2>3, <2>5 DEF Prepared, Blank, OfItsRun
<1>4. ASSUME \A u \in Thread : ~Busy(thread'[u]) PROVE Whole'
  <2>1. Whole
    BY <1>1, <1>4 DEF Coherent
  <2>2. page.run # 0 => page.run \in Run
    BY DEF TypeOK, PageTyped, OrNone
  <2> QED BY <2>1, <2>2 DEF Whole, OfItsRun, HomesKept
<1> QED BY <1>2, <1>3, <1>4 DEF Coherent, Acting, Busy

\* What a call knows survives while sessions and the page stay as they are.
LEMMA InformedStays ==
  ASSUME RunsOn, UNCHANGED <<session, page>>, PageTyped,
         NEW call \in Call, WellFormed(call), CallsTrue(call), Informed(call)
  PROVE  Informed(call)'
<1>1. /\ call.items \in List /\ call.run \in OrNone(Run) /\ page.run \in OrNone(Run)
  BY CallFields DEF PageTyped
<1>2. Current(call.items) => Current(call.items)'
  BY <1>1, CurrentStays
<1>3. AllEnded(call.session) => AllEnded(call.session)'
  BY DEF AllEnded, RunsOn
<1>4. ASSUME NEW r \in OrNone(Run), NEW s, NEW ended
      PROVE  Latest(s, r, ended) => Latest(s, r, ended)'
  BY LatestStays
<1>5. call.at = "post" /\ call.reply = "answered" => call.value \in OrNone(Run)
  BY DEF OrNone, WellFormed
<1>6. Latest(page.session, page.run, FALSE) => Latest(page.session, page.run, FALSE)'
  <2>1. PICK s : s = page.session
    OBVIOUS
  <2>2. PICK r \in OrNone(Run) : r = page.run
    BY <1>1
  <2>3. Latest(s, r, FALSE) => Latest(s, r, FALSE)'
    BY <1>4
  <2> QED BY <2>1, <2>2, <2>3 DEF Latest
<1>7. Latest(page.session, page.run, ~page.active)
        => Latest(page.session, page.run, ~page.active)'
  <2>1. PICK s : s = page.session
    OBVIOUS
  <2>2. PICK r \in OrNone(Run) : r = page.run
    BY <1>1
  <2>3. PICK ended : ended = ~page.active
    OBVIOUS
  <2>4. Latest(s, r, ended) => Latest(s, r, ended)'
    BY <1>4
  <2> QED BY <2>1, <2>2, <2>3, <2>4 DEF Latest
<1>8. (\A r \in Run : run[r].home # call.value) => \A r \in Run : run'[r].home # call.value
  BY DEF RunsOn
<1> QED BY <1>1, <1>2, <1>3, <1>4, <1>5, <1>6, <1>7, <1>8 DEF Informed

\* Sequence is kept by steps of the server that add no Run and no session, if
\* the calls stay informed.
LEMMA ServedSequential ==
  ASSUME TypeOK, Sequential, RunsOn, UNCHANGED <<page, items>>,
         \A u \in Thread : /\ SameCall(thread[u], thread'[u])
                           /\ Informed(thread[u])'
                           /\ Renewing(thread[u]) => Renewing(thread'[u]),
         \A s \in Session :
           /\ session'[s] = "there" => session[s] = "there"
           /\ \A u \in Thread : Unborn(thread[u], s) => Unborn(thread'[u], s)
  PROVE  Sequential'
<1>1. \A u \in Thread : Busy(thread[u]) <=> Busy(thread'[u])
  BY SameCallActs
<1>2. \A u, v \in Thread : Busy(thread'[u]) /\ u # v => At(v, "idle")'
  BY <1>1 DEF Sequential, SameCall, At
<1>3. Current(items)' \/ \E u \in Thread : Renewing(thread'[u])
  <2>1. CASE Current(items)
    <3>1. PICK list \in List : list = items
      BY DEF TypeOK, PageTyped
    <3>2. Current(list)'
      BY <2>1, <3>1, CurrentStays
    <3> QED BY <3>1, <3>2 DEF Current, Latest
  <2>2. CASE ~Current(items)
    BY <2>2 DEF Sequential
  <2> QED BY <2>1, <2>2
<1>4. ASSUME NEW s \in Session, session'[s] = "there"
      PROVE  (\E r \in Run : run'[r].home = s) \/ \E u \in Thread : Unborn(thread'[u], s)
  BY <1>4 DEF Sequential, RunsOn
<1>5. OthersEnded'
  BY DEF Sequential, OthersEnded, RunsOn
<1>6. ASSUME \A u \in Thread : ~Busy(thread'[u]) PROVE Followed'
  <2>1. Followed
    BY <1>1, <1>6 DEF Sequential
  <2>2. PICK s : s = page.session
    OBVIOUS
  <2>3. PICK r \in OrNone(Run) : r = page.run
    BY DEF TypeOK, PageTyped
  <2>4. PICK ended : ended = ~page.active
    OBVIOUS
  <2>5. Latest(s, r, ended) => Latest(s, r, ended)'
    BY LatestStays
  <2> QED BY <2>1, <2>2, <2>3, <2>4, <2>5 DEF Followed, Latest
<1> QED BY <1>2, <1>3, <1>4, <1>5, <1>6 DEF Sequential, Busy, Unborn, Renewing

\* A Run that gets on keeps its session, and what its result has.
Works(r) ==
  /\ ServerTyped'
  /\ \A q \in Run : /\ run'[q].home = run[q].home
                    /\ q # r => run'[q] = run[q]
  /\ run'[r].progress = run[r].progress + 1
  /\ run[r].progress = 1 => run'[r].cards = run[r].cards

LEMMA WorkCases ==
  ASSUME IInv, NEW r \in Run, Work(r)
  PROVE  /\ run[r].home # 0 /\ run[r].progress \in 0..1
         /\ UNCHANGED <<session, page, output, stream, items, thread, overlap>>
         /\ Works(r)
<1>1. run[r].progress \in -1..2 /\ run[r].home \in OrNone(Session) /\ run[r].cards \in BOOLEAN
  BY RunFields DEF IInv, TypeOK
<1>2. PICK p \in 1..2, cards \in BOOLEAN, succeeded \in BOOLEAN :
        /\ GetsOn(r, p, cards, succeeded)
        /\ run[r].progress = p - 1
        /\ run[r].progress = 1 => cards = run[r].cards
  <2>1. CASE /\ run[r].progress = 0
             /\ \E cards \in {run[r].cards, TRUE} : GetsOn(r, 1, cards, FALSE)
    <3>1. PICK cards \in BOOLEAN : GetsOn(r, 1, cards, FALSE)
      BY <1>1, <2>1
    <3>2. 1 \in 1..2 /\ FALSE \in BOOLEAN /\ run[r].progress = 1 - 1 /\ run[r].progress # 1
      BY <2>1
    <3> QED BY <3>1, <3>2
  <2>2. CASE /\ run[r].progress = 1
             /\ \E succeeded \in BOOLEAN : GetsOn(r, 2, run[r].cards, succeeded)
    <3>1. PICK succeeded \in BOOLEAN : GetsOn(r, 2, run[r].cards, succeeded)
      BY <2>2
    <3> QED BY <1>1, <2>2, <3>1
  <2> QED BY <2>1, <2>2 DEF Work
<1>3. /\ run[r].home # 0 /\ run[r].progress \in 0..1
      /\ UNCHANGED <<session, page, output, stream, items, thread, overlap>>
  BY <1>1, <1>2 DEF Work, There
<1>4. PICK new \in [home : OrNone(Session), progress : -1..2,
                   cards : BOOLEAN, succeeded : BOOLEAN] :
        /\ run' = [run EXCEPT ![r] = new]
        /\ new.home = run[r].home /\ new.progress = p /\ new.cards = cards
  <2>1. p \in -1..2
    OBVIOUS
  <2>2. PICK new : new = [home |-> run[r].home, progress |-> p,
                          cards |-> cards, succeeded |-> succeeded]
    OBVIOUS
  <2>3. /\ new \in [home : OrNone(Session), progress : -1..2,
                   cards : BOOLEAN, succeeded : BOOLEAN]
        /\ new.home = run[r].home /\ new.progress = p /\ new.cards = cards
    BY <1>1, <2>1, <2>2
  <2>4. run' = [run EXCEPT ![r] = new]
    BY <1>2, <2>2 DEF GetsOn
  <2> QED BY <2>3, <2>4
<1>5. /\ run'[r] = new /\ \A q \in Run : q # r => run'[q] = run[q]
      /\ ServerTyped'
  BY <1>3, <1>4 DEF IInv, TypeOK, ServerTyped
<1>6. run[r].progress + 1 = p
  BY <1>2
<1> QED BY <1>2, <1>3, <1>4, <1>5, <1>6 DEF Works

LEMMA WorkKeeps ==
  ASSUME IInv, NEW r \in Run, Work(r)
  PROVE  IInv'
<1>1. /\ run[r].home # 0 /\ run[r].progress \in 0..1
      /\ UNCHANGED <<session, page, output, stream, items, thread, overlap>>
      /\ Works(r)
  BY WorkCases
<1>2. \A q \in Run : /\ run'[q].home = run[q].home
                     /\ q # r => run'[q] = run[q]
  BY <1>1 DEF Works
<1>3. run'[r].progress = run[r].progress + 1
  BY <1>1 DEF Works
<1>4. TypeOK'
  <2>1. ServerTyped'
    BY <1>1 DEF Works
  <2> QED BY <1>1, <2>1 DEF IInv, TypeOK, PageTyped, CallsTyped
<1>5. RunsOn /\ HomesKept
  <2>1. run[r].progress \notin {-1, 2}
    BY <1>1
  <2> QED BY <1>2, <2>1 DEF RunsOn, HomesKept
<1>6. RunsHoused'
  <2>1. run'[r].progress # -1 /\ run[r].progress # -1
    BY <1>1, <1>3
  <2> QED BY <1>1, <1>2, <2>1 DEF IInv, RunsHoused
<1>7. ListsTrue'
  <2>1. OfItsSession(items)'
    BY <1>1, <1>2 DEF IInv, ListsTrue, OfItsSession, TypeOK, PageTyped, List, Item, OrNone
  <2> QED BY <1>1, <1>5, <2>1, ListsStayTrue DEF IInv
<1>8. \A u \in Thread : SameCall(thread[u], thread'[u])
  BY <1>1 DEF SameCall
<1>9. overlap' # "disturbed" => Coherent'
  BY <1>1, <1>5, <1>8, ServedCoherent DEF IInv
<1>10. overlap' # "disturbed" => NoneFailed'
  BY <1>1 DEF IInv, NoneFailed
<1>11. ASSUME overlap' = "none" PROVE Sequential'
  <2>1. ASSUME NEW u \in Thread PROVE Informed(thread[u])'
    <3>1. PICK call \in Call : call = thread[u]
      BY DEF IInv, TypeOK, CallsTyped
    <3>2. WellFormed(call) /\ CallsTrue(call) /\ Informed(call)
      BY <1>1, <1>11, <3>1 DEF IInv, TypeOK, CallsTyped, ListsTrue, Sequential
    <3>3. Informed(call)'
      BY <1>1, <1>5, <3>2, InformedStays DEF IInv, TypeOK
    <3> QED BY <1>1, <3>1, <3>3 DEF Informed, Current, Latest, AllEnded
  <2> QED BY <1>1, <1>5, <1>8, <1>11, <2>1, ServedSequential DEF IInv
<1> QED BY <1>4, <1>6, <1>7, <1>9, <1>11, <1>10 DEF IInv

\* What a request gets for an answer: a value and a list, or a failure.
AnsweredAs(old, new, value, cards, list) ==
  /\ SameCall(old, new)
  /\ \/ /\ new.reply = "answered" /\ new.value = value
        /\ new.cards = cards /\ new.items = list
     \/ new.reply = "failed" /\ new.items = NoItems

LEMMA AnswersMoves ==
  ASSUME CallsTyped, NEW t \in Thread, NEW value \in Nat, NEW cards \in BOOLEAN,
         NEW list \in List, Answers(t, value, cards, list),
         thread[t].at = "create" => value \in Session,
         thread[t].at = "post" => value \in Run
  PROVE  \E call \in Call : Moves(t, call) /\ AnsweredAs(thread[t], call, value, cards, list)
<1> HIDE DEF List
<1>0. PICK reply \in {"answered", "failed"} :
        thread' = [thread EXCEPT ![t] = [thread[t] EXCEPT !.reply = reply,
               !.value = IF reply = "answered" THEN value ELSE 0,
               !.cards = reply = "answered" /\ cards,
               !.items = IF reply = "answered" THEN list ELSE NoItems]]
  BY DEF Answers, Goes
<1>1. PICK known \in BOOLEAN :
        /\ known = (reply = "answered" /\ cards)
        /\ thread' = [thread EXCEPT ![t] = [thread[t] EXCEPT !.reply = reply,
               !.value = IF reply = "answered" THEN value ELSE 0,
               !.cards = known,
               !.items = IF reply = "answered" THEN list ELSE NoItems]]
  BY <1>0
<1>2. PICK call : call = [thread[t] EXCEPT !.reply = reply,
               !.value = IF reply = "answered" THEN value ELSE 0,
               !.cards = known,
               !.items = IF reply = "answered" THEN list ELSE NoItems]
  OBVIOUS
<1>3. thread[t] \in Call /\ WellFormed(thread[t])
  BY DEF CallsTyped
<1>4. call \in Call
  BY <1>2, <1>3, IdleIsCall DEF Call
<1>5. AnsweredAs(thread[t], call, value, cards, list) /\ call.reply = reply
  BY <1>1, <1>2, <1>3 DEF AnsweredAs, SameCall, Call
<1>6. WellFormed(call)
  BY <1>3, <1>5 DEF WellFormed, AnsweredAs, SameCall
<1> QED BY <1>1, <1>2, <1>4, <1>5, <1>6 DEF Moves

LEMMA RefusesMoves ==
  ASSUME CallsTyped, NEW t \in Thread, Refuses(t)
  PROVE  \E call \in Call : /\ Moves(t, call) /\ SameCall(thread[t], call)
                            /\ call.reply = "failed" /\ call.items = thread[t].items
<1> HIDE DEF List
<1>1. PICK call : call = [thread[t] EXCEPT !.reply = "failed"]
  OBVIOUS
<1>2. thread[t] \in Call /\ WellFormed(thread[t])
  BY DEF CallsTyped
<1>3. /\ call \in Call /\ SameCall(thread[t], call) /\ call.reply = "failed"
      /\ call.items = thread[t].items
  BY <1>1, <1>2 DEF Call, SameCall
<1>4. WellFormed(call)
  BY <1>2, <1>3 DEF WellFormed, SameCall
<1> QED BY <1>1, <1>3, <1>4 DEF Moves, Refuses, Goes

\* The requests the server answers.
Creating(t) ==
  LET new == {q \in Session : session[q] = "new"} IN
  /\ At(t, "create") /\ new # {}
  /\ session' = [session EXCEPT ![Min(new)] = "there"]
  /\ Answers(t, Min(new), FALSE, NoItems)
  /\ UNCHANGED run

Posting(t) ==
  LET new == {r \in Run : run[r].home = 0} IN
  /\ At(t, "post") /\ session[thread[t].session] = "there" /\ new # {}
  /\ run' = [run EXCEPT ![Min(new)] =
               [@ EXCEPT !.home = thread[t].session, !.cards = Inherits(thread[t].session)]]
  /\ Answers(t, Min(new), Inherits(thread[t].session), NoItems)
  /\ UNCHANGED session

Reading(t) ==
  /\ \/ /\ thread[t].at \in {"fetch", "restored"} /\ There(thread[t].run)
        /\ Answers(t, run[thread[t].run].progress, run[thread[t].run].cards, NoItems)
     \/ At(t, "list") /\ Answers(t, 0, FALSE, Listed)
  /\ UNCHANGED <<session, run>>

Deleting(t) ==
  LET s == thread[t].session IN
  /\ At(t, "delete") /\ session[s] = "there"
  /\ session' = [session EXCEPT ![s] = "deleted"]
  /\ run' = [r \in Run |-> IF run[r].home = s THEN [run[r] EXCEPT !.progress = -1]
                           ELSE run[r]]
  /\ Answers(t, 0, FALSE, NoItems)

LEMMA ServeCases ==
  ASSUME NEW t \in Thread, Serve(t)
  PROVE  /\ thread[t].reply = "sent"
         /\ Creating(t) \/ Posting(t) \/ Reading(t) \/ Deleting(t) \/ Refuses(t)
         /\ overlap' = IF thread'[t].reply = "failed" THEN "disturbed" ELSE overlap
         /\ UNCHANGED <<page, output, stream, items>>
<1> DEFINE call == thread[t]
           s == call.session
           newSession == {q \in Session : session[q] = "new"}
           newRun == {r \in Run : run[r].home = 0}
           create == call.at = "create" /\ newSession # {}
           post == call.at = "post" /\ session[s] = "there" /\ newRun # {}
           read == call.at \in {"fetch", "restored"} /\ There(call.run)
           list == call.at = "list"
           delete == call.at = "delete" /\ session[s] = "there"
           refuse == \/ call.at \in {"post", "delete"} /\ session[s] = "deleted"
                     \/ call.at \in {"fetch", "restored"} /\ ~There(call.run)
<1>1. CASE create
  BY <1>1 DEF Serve, Creating, At
<1>2. CASE post
  BY <1>2 DEF Serve, Posting, At
<1>3. CASE read
  BY <1>3 DEF Serve, Reading, At
<1>4. CASE list
  BY <1>4 DEF Serve, Reading, At
<1>5. CASE delete
  BY <1>5 DEF Serve, Deleting, At
<1>6. CASE refuse
  BY <1>6 DEF Serve, Refuses
<1>7. CASE ~create /\ ~post /\ ~read /\ ~list /\ ~delete /\ ~refuse
  BY <1>7 DEF Serve
<1> QED BY <1>1, <1>2, <1>3, <1>4, <1>5, <1>6, <1>7

\* A step of the server for call t keeps the invariant if it keeps the types and
\* Runs housed and, in a sequential history, the sequence.
LEMMA ServedKeeps ==
  ASSUME IInv, NEW t \in Thread, NEW call, Moves(t, call), SameCall(thread[t], call),
         UNCHANGED <<page, output, stream, items>>, ServerTyped', RunsHoused', HomesKept,
         CallsTrue(call)',
         overlap' = IF call.reply = "failed" THEN "disturbed" ELSE overlap,
         overlap' = "none" => Sequential'
  PROVE  IInv'
<1>1. /\ thread'[t] = call
      /\ \A u \in Thread \ {t} : thread'[u] = thread[u]
      /\ CallsTyped'
  BY Moved DEF IInv, TypeOK
<1>2. TypeOK'
  BY <1>1 DEF IInv, TypeOK, PageTyped
<1>3. ListsTrue'
  <2>1. PICK list \in List : list = items
    BY DEF IInv, TypeOK, PageTyped
  <2>2. OfItsSession(list)'
    BY <2>1, ListStaysTrue DEF IInv, ListsTrue
  <2>3. OfItsSession(items)'
    BY <2>1, <2>2 DEF OfItsSession
  <2>4. CallsTrue(thread[t])'
    BY <1>1 DEF CallsTrue, OfItsSession
  <2> QED BY <1>1, <2>3, <2>4, ListsStayTrue DEF IInv
<1>4. \A u \in Thread : SameCall(thread[u], thread'[u])
  BY <1>1 DEF SameCall
<1>5. overlap' # "disturbed" => Coherent'
  BY <1>4, ServedCoherent DEF IInv
<1>6. overlap' # "disturbed" => NoneFailed'
  BY <1>1 DEF IInv, NoneFailed
<1> QED BY <1>2, <1>3, <1>5, <1>6 DEF IInv

\* A busy call of a sequential history is alone; what it needs to stay so.
LEMMA AloneSequential ==
  ASSUME TypeOK, Sequential, NEW t, NEW call, Moves(t, call), Busy(thread[t]),
         Informed(call)',
         ~Busy(call) => Followed',
         Current(items)' \/ Renewing(call),
         \A s \in Session : session'[s] = "there" =>
           (\E r \in Run : run'[r].home = s) \/ Unborn(call, s),
         OthersEnded'
  PROVE  Sequential'
<1>1. /\ t \in Thread /\ thread'[t] = call
      /\ \A u \in Thread \ {t} : thread'[u] = thread[u]
  BY Moved DEF TypeOK
<1>2. \A u \in Thread \ {t} : thread'[u].at = "idle"
  BY <1>1 DEF Sequential, At
<1>3. \A u, v \in Thread : Busy(thread'[u]) /\ u # v => At(v, "idle")'
  <2>1. \A u \in Thread \ {t} : ~Busy(thread'[u])
    BY <1>2 DEF Busy
  <2> QED BY <1>2, <2>1 DEF At
<1>4. ASSUME NEW u \in Thread PROVE Informed(thread[u])'
  <2>1. CASE u = t
    BY <1>1, <2>1 DEF Informed, Current, Latest, AllEnded
  <2>2. CASE u # t
    BY <1>2, <2>2 DEF Informed
  <2> QED BY <2>1, <2>2
<1>5. Current(items)' \/ \E u \in Thread : Renewing(thread'[u])
  BY <1>1
<1>6. \A s \in Session : session'[s] = "there" =>
        (\E r \in Run : run'[r].home = s) \/ \E u \in Thread : Unborn(thread'[u], s)
  BY <1>1
<1>7. (\A u \in Thread : ~Busy(thread'[u])) => Followed'
  BY <1>1
<1> QED BY <1>3, <1>4, <1>5, <1>6, <1>7 DEF Sequential, Busy, Unborn, Renewing

\* Before a call that is alone and renews nothing, the list is current.
LEMMA AloneFinds ==
  ASSUME Sequential, NEW t \in Thread, Busy(thread[t])
  PROVE  /\ Informed(thread[t]) /\ OthersEnded
         /\ ~Renewing(thread[t]) => Current(items)
         /\ \A s \in Session : session[s] = "there" =>
              (\E r \in Run : run[r].home = s) \/ Unborn(thread[t], s)
<1>1. \A u \in Thread \ {t} : ~Renewing(thread[u]) /\ \A s : ~Unborn(thread[u], s)
  BY DEF Sequential, At, Renewing, Unborn
<1> QED BY <1>1 DEF Sequential

LEMMA CreatingKeeps ==
  ASSUME IInv, NEW t \in Thread, Creating(t), thread[t].reply = "sent",
         overlap' = IF thread'[t].reply = "failed" THEN "disturbed" ELSE overlap,
         UNCHANGED <<page, output, stream, items>>
  PROVE  IInv'
<1> DEFINE new == {q \in Session : session[q] = "new"}
<1>1. PICK s : s = Min(new)
  OBVIOUS
<1>2. s \in Session /\ session[s] = "new"
  <2>1. new \in SUBSET Nat /\ new # {}
    BY Numbers DEF Creating
  <2>2. Min(new) \in new
    BY <2>1, MinNumber
  <2> QED BY <1>1, <2>2
<1>3. At(t, "create") /\ session' = [session EXCEPT ![s] = "there"] /\ run' = run
  BY <1>1 DEF Creating
<1>4. PICK call : Moves(t, call) /\ AnsweredAs(thread[t], call, s, FALSE, NoItems)
  <2>1. Answers(t, s, FALSE, NoItems)
    BY <1>1 DEF Creating
  <2>2. s \in Nat
    BY <1>2, Numbers
  <2> QED BY <1>2, <1>3, <2>1, <2>2, AnswersMoves, IdleIsCall DEF At, IInv, TypeOK
<1>5. thread'[t] = call
  BY <1>4, Moved DEF IInv, TypeOK
<1>6. \A r \in Run : run[r].home # s
  BY <1>2, Numbers DEF IInv, RunsHoused
<1>7. ServerTyped' /\ RunsHoused' /\ HomesKept
  <2>1. ServerTyped'
    BY <1>2, <1>3 DEF IInv, TypeOK, ServerTyped
  <2>2. \A q \in Session : q # s => session'[q] = session[q]
    BY <1>3 DEF IInv, TypeOK, ServerTyped
  <2>3. \A r \in Run : run[r].home # 0 =>
          run[r].home \in Session /\ session'[run[r].home] = session[run[r].home]
    BY <1>6, <2>2, RunFields DEF IInv, TypeOK, OrNone
  <2>4. RunsHoused'
    BY <1>3, <2>3 DEF IInv, RunsHoused
  <2> QED BY <1>3, <2>1, <2>4 DEF HomesKept
<1>8. /\ SameCall(thread[t], call) /\ call.at = "create" /\ call.items = NoItems
      /\ (call.reply = "answered" /\ call.value = s) \/ call.reply = "failed"
  BY <1>3, <1>4 DEF AnsweredAs, SameCall, At
<1>9. CallsTrue(call)'
  BY <1>8 DEF CallsTrue, OfItsSession, NoItems, Unlisted
<1>10. ASSUME overlap' = "none" PROVE Sequential'
  <2>1. call.reply = "answered" /\ call.value = s /\ overlap = "none"
    BY <1>5, <1>8, <1>10
  <2>2. Sequential /\ Busy(thread[t])
    BY <1>3, <2>1 DEF IInv, Busy, At
  <2>3. /\ page.active /\ OthersEnded /\ Current(items)
        /\ \A q \in Session : session[q] = "there" => \E r \in Run : run[r].home = q
    <3>1. ~Renewing(thread[t]) /\ \A q : ~Unborn(thread[t], q)
      BY <1>3 DEF Renewing, Unborn, At
    <3> QED BY <1>3, <2>2, <3>1, AloneFinds DEF Informed, At
  <2>4. Informed(call)'
    BY <1>3, <1>6, <1>8, <2>1, <2>3 DEF Informed
  <2>5. Current(items)' /\ OthersEnded'
    BY <1>3, <2>3 DEF Current, Latest, OthersEnded
  <2>6. \A q \in Session : session'[q] = "there" =>
          (\E r \in Run : run'[r].home = q) \/ Unborn(call, q)
    BY <1>3, <1>8, <2>1, <2>3 DEF Unborn, IInv, TypeOK, ServerTyped
  <2>7. Busy(call)
    BY <1>8 DEF Busy
  <2> QED BY <1>4, <2>2, <2>4, <2>5, <2>6, <2>7, AloneSequential DEF IInv
<1> QED BY <1>4, <1>5, <1>7, <1>8, <1>9, <1>10, ServedKeeps

LEMMA PostingKeeps ==
  ASSUME IInv, NEW t \in Thread, Posting(t), thread[t].reply = "sent",
         overlap' = IF thread'[t].reply = "failed" THEN "disturbed" ELSE overlap,
         UNCHANGED <<page, output, stream, items>>
  PROVE  IInv'
<1> DEFINE new == {r \in Run : run[r].home = 0}
<1>1. PICK m : m = Min(new)
  OBVIOUS
<1>2. /\ m \in Run /\ run[m].home = 0 /\ run[m].progress = 0
      /\ \A r \in Run : run[r].home = 0 => m <= r
  <2>1. new \in SUBSET Nat /\ new # {}
    BY Numbers DEF Posting
  <2>2. Min(new) \in new /\ \A r \in new : Min(new) <= r
    BY <2>1, MinNumber
  <2>3. m \in Run /\ run[m].home = 0
    BY <1>1, <2>2
  <2> QED BY <1>1, <2>2, <2>3 DEF IInv, RunsHoused
<1>3. PICK s : s = thread[t].session
  OBVIOUS
<1>4. /\ At(t, "post") /\ session[s] = "there"
      /\ run' = [run EXCEPT ![m] = [@ EXCEPT !.home = s, !.cards = Inherits(s)]]
      /\ session' = session
  BY <1>1, <1>3 DEF Posting
<1>5. s \in Session
  BY <1>3, <1>4 DEF IInv, TypeOK, CallsTyped, WellFormed, At
<1>6. PICK call : Moves(t, call) /\ AnsweredAs(thread[t], call, m, Inherits(s), NoItems)
  <2>1. Answers(t, m, Inherits(s), NoItems) /\ Inherits(s) \in BOOLEAN
    BY <1>1, <1>3 DEF Posting, Inherits
  <2>2. m \in Nat
    BY <1>2, Numbers
  <2> QED BY <1>2, <1>4, <2>1, <2>2, AnswersMoves, IdleIsCall DEF At, IInv, TypeOK
<1>7. thread'[t] = call
  BY <1>6, Moved DEF IInv, TypeOK
<1>8. /\ run'[m].home = s /\ run'[m].progress = 0
      /\ \A r \in Run : r # m => run'[r] = run[r]
      /\ \A r \in Run : r < m => run[r].home # 0
      /\ \A r \in Run : m < r => run[r].home = 0
  <2>1. run'[m].home = s /\ run'[m].progress = 0
    BY <1>2, <1>4 DEF IInv, TypeOK, ServerTyped
  <2>2. \A r \in Run : r # m => run'[r] = run[r]
    BY <1>4 DEF IInv, TypeOK, ServerTyped
  <2>3. \A r \in Run : r < m => run[r].home # 0
    BY <1>2, Numbers
  <2>4. \A r \in Run : m < r => run[r].home = 0
    BY <1>2 DEF IInv, RunsHoused
  <2> QED BY <2>1, <2>2, <2>3, <2>4
<1>9. ServerTyped' /\ RunsHoused' /\ HomesKept
  <2>1. ServerTyped'
    <3>1. PICK cards \in BOOLEAN : cards = Inherits(s)
      BY DEF Inherits
    <3> QED BY <1>2, <1>4, <1>5, <3>1 DEF IInv, TypeOK, ServerTyped, OrNone
  <2>2. \A r \in Run : IF run'[r].home = 0 THEN run'[r].progress = 0
                       ELSE /\ session'[run'[r].home] # "new"
                            /\ run'[r].progress = -1 <=> session'[run'[r].home] = "deleted"
    BY <1>4, <1>5, <1>8, Numbers DEF IInv, RunsHoused
  <2>3. ASSUME NEW q \in Run, NEW r \in Run, q < r, run'[r].home # 0
        PROVE  run'[q].home # 0
    <3>1. r <= m
      BY <1>2, <1>8, <2>3, Numbers
    <3>2. q < m
      BY <1>2, <2>3, <3>1, Numbers
    <3>3. q # m
      BY <1>2, <3>2, Numbers
    <3> QED BY <1>8, <3>2, <3>3
  <2>4. HomesKept
    BY <1>2, <1>8 DEF HomesKept
  <2> QED BY <2>1, <2>2, <2>3, <2>4 DEF RunsHoused
<1>10. /\ SameCall(thread[t], call) /\ call.at = "post" /\ call.items = NoItems
       /\ call.session = s
       /\ (call.reply = "answered" /\ call.value = m) \/ call.reply = "failed"
  BY <1>3, <1>4, <1>6 DEF AnsweredAs, SameCall, At
<1>11. CallsTrue(call)'
  BY <1>8, <1>10 DEF CallsTrue, OfItsSession, NoItems, Unlisted
<1>12. ASSUME overlap' = "none" PROVE Sequential'
  <2>1. call.reply = "answered" /\ call.value = m /\ overlap = "none"
    BY <1>7, <1>10, <1>12
  <2>2. Sequential /\ Busy(thread[t])
    BY <1>4, <2>1 DEF IInv, Busy, At
  <2>3. /\ page.active /\ AllEnded(s) /\ OthersEnded
        /\ \A q \in Session : session[q] = "there" /\ q # s => \E r \in Run : run[r].home = q
    <3>1. \A q : Unborn(thread[t], q) => q = s
      BY <1>3, <1>4 DEF Unborn, At
    <3>2. Informed(thread[t]) /\ OthersEnded
      BY <2>2, AloneFinds
    <3>3. page.active /\ AllEnded(s)
      BY <1>3, <1>4, <3>2 DEF Informed, At
    <3> QED BY <2>2, <3>1, <3>2, <3>3, AloneFinds
  <2>4. Latest(s, m, FALSE)'
    <3>1. \A r \in Run : run'[r].home = s => r <= m
      BY <1>2, <1>5, <1>8, Numbers
    <3> QED BY <1>2, <1>8, <3>1, Numbers DEF Latest
  <2>5. Informed(call)'
    BY <1>4, <1>10, <2>1, <2>3, <2>4 DEF Informed
  <2>6. Renewing(call) /\ Busy(call)
    BY <1>10, <2>1 DEF Renewing, Busy
  <2>7. \A q \in Session : session'[q] = "there" => \E r \in Run : run'[r].home = q
    <3>1. \A q \in Session : \A r \in Run : run[r].home = q => run'[r].home = q
      BY <1>9, Numbers DEF HomesKept
    <3> QED BY <1>2, <1>4, <1>8, <2>3, <3>1
  <2>8. OthersEnded'
    <3> SUFFICES ASSUME NEW q \in Run, NEW r \in Run, run'[q].home # 0,
                        run'[q].home = run'[r].home, q < r
                 PROVE  run'[q].progress \in {-1, 2}
      BY DEF OthersEnded
    <3>1. r <= m
      BY <1>2, <1>8, Numbers
    <3>2. q # m
      BY <1>2, <3>1, Numbers
    <3>3. CASE r = m
      <4>1. run[q].home = s
        BY <1>8, <3>2, <3>3
      <4> QED BY <1>8, <2>3, <3>2, <4>1 DEF AllEnded
    <3>4. CASE r # m
      BY <1>8, <2>3, <3>2, <3>4 DEF OthersEnded
    <3> QED BY <3>3, <3>4
  <2> QED BY <1>6, <2>2, <2>5, <2>6, <2>7, <2>8, AloneSequential DEF IInv
<1> QED BY <1>6, <1>7, <1>9, <1>10, <1>11, <1>12, ServedKeeps

\* What the server lists of the sessions names their Runs, and the last of them
\* if every session has one.
LEMMA ListedTyped ==
  ASSUME TypeOK
  PROVE  Listed \in List /\ OfItsSession(Listed)
<1>1. ASSUME NEW s \in Session
      PROVE  Listed[s] \in Item /\ (Listed[s].last # 0 => run[Listed[s].last].home = s)
  <2>1. LastRun(s) \in OrNone(Run) /\ (LastRun(s) # 0 => run[LastRun(s)].home = s)
    BY LastRunOf, WebAssumption
  <2>2. CASE session[s] = "there"
    <3>1. PICK l \in OrNone(Run), e \in BOOLEAN :
            /\ l = LastRun(s)
            /\ Listed[s] = [listed |-> TRUE, last |-> l, ended |-> e]
      BY <2>1, <2>2 DEF Listed
    <3> QED BY <2>1, <3>1 DEF Item
  <2>3. CASE session[s] # "there"
    BY <2>3 DEF Listed, Unlisted, Item, OrNone
  <2> QED BY <2>2, <2>3
<1>2. Listed = [s \in Session |-> Listed[s]]
  BY DEF Listed
<1> QED BY <1>1, <1>2 DEF List, OfItsSession

LEMMA ListedCurrent ==
  ASSUME TypeOK, RunsHoused,
         \A s \in Session : session[s] = "there" => \E r \in Run : run[r].home = s
  PROVE  Current(Listed)
<1> SUFFICES ASSUME NEW s \in Session, Listed[s].listed
             PROVE  Latest(s, Listed[s].last, Listed[s].ended)
  BY DEF Current
<1>1. session[s] = "there"
  BY DEF Listed, Unlisted
<1>2. PICK l : l = LastRun(s)
  OBVIOUS
<1>3. Listed[s] = [listed |-> TRUE, last |-> l, ended |-> l # 0 /\ run[l].progress = 2]
  BY <1>1, <1>2 DEF Listed
<1>4. \A r \in Run : run[r].home = s => There(r)
  <2> SUFFICES ASSUME NEW r \in Run, run[r].home = s PROVE There(r)
    OBVIOUS
  <2>1. s # 0
    BY Numbers
  <2>2. run[r].progress # -1
    BY <1>1, <2>1 DEF RunsHoused
  <2>3. run[r].progress \in -1..2
    BY RunFields DEF TypeOK
  <2> QED BY <2>1, <2>2, <2>3 DEF There
<1>5. PICK q \in Run : run[q].home = s
  BY <1>1
<1>6. /\ l # 0 => run[l].home = s
      /\ \A r \in Run : run[r].home = s => r <= l /\ l # 0
  BY <1>2, <1>4, LastRunOf, WebAssumption
<1>7. l # 0
  BY <1>5, <1>6
<1>8. Listed[s].last = l /\ (Listed[s].ended => run[l].progress = 2)
  <2>1. PICK e : e = (l # 0 /\ run[l].progress = 2)
    OBVIOUS
  <2>2. Listed[s] = [listed |-> TRUE, last |-> l, ended |-> e]
    BY <1>3, <2>1
  <2>3. Listed[s].last = l /\ Listed[s].ended = e
    BY <2>2
  <2> QED BY <2>1, <2>3
<1> QED BY <1>6, <1>7, <1>8 DEF Latest

\* An answer that only reads keeps the invariant if what is answered is true and
\* tells the call what it needs to know.
LEMMA ReadKeeps ==
  ASSUME IInv, NEW t \in Thread, NEW value \in Nat, NEW cards \in BOOLEAN,
         NEW list \in List, Answers(t, value, cards, list), thread[t].reply = "sent",
         thread[t].at \in {"fetch", "restored", "list"}, OfItsSession(list),
         overlap = "none" /\ At(t, "list") => Current(list),
         overlap = "none" /\ At(t, "restored") => session[page.session] = "there",
         overlap' = IF thread'[t].reply = "failed" THEN "disturbed" ELSE overlap,
         UNCHANGED <<session, run, page, output, stream, items>>
  PROVE  IInv'
<1>1. PICK call : Moves(t, call) /\ AnsweredAs(thread[t], call, value, cards, list)
  BY AnswersMoves DEF IInv, TypeOK
<1>2. /\ thread'[t] = call
      /\ \A u \in Thread \ {t} : thread'[u] = thread[u]
  BY <1>1, Moved DEF IInv, TypeOK
<1>3. RunsOn /\ HomesKept
  BY DEF RunsOn, HomesKept
<1>4. ServerTyped' /\ RunsHoused'
  BY DEF IInv, TypeOK, ServerTyped, RunsHoused
<1>5. /\ SameCall(thread[t], call) /\ call.at \in {"fetch", "restored", "list"}
      /\ \/ call.reply = "answered" /\ call.items = list
         \/ call.reply = "failed" /\ call.items = NoItems
  BY <1>1 DEF AnsweredAs, SameCall
<1>6. CallsTrue(call)'
  BY <1>5 DEF CallsTrue, OfItsSession, NoItems, Unlisted
<1>7. ASSUME overlap' = "none" PROVE Sequential'
  <2>1. overlap = "none" /\ call.reply = "answered" /\ call.items = list
    BY <1>2, <1>5, <1>7
  <2>2. Sequential
    BY <2>1 DEF IInv
  <2>3. Informed(call)'
    <3>1. Informed(thread[t])
      BY <2>2 DEF Sequential
    <3>2. CASE call.at = "list"
      BY <1>5, <2>1, <3>2 DEF Informed, Current, Latest, SameCall, At
    <3>3. CASE call.at = "restored"
      <4>1. At(t, "restored")
        BY <1>5, <3>3 DEF SameCall, At
      <4> QED BY <2>1, <3>1, <3>3, <4>1 DEF Informed, Latest, At
    <3>4. CASE call.at = "fetch"
      BY <3>4 DEF Informed
    <3> QED BY <1>5, <3>2, <3>3, <3>4
  <2>4. ASSUME NEW u \in Thread PROVE Informed(thread[u])'
    <3>1. CASE u = t
      BY <1>2, <2>3, <3>1 DEF Informed, Current, Latest, AllEnded
    <3>2. CASE u # t
      <4>1. Informed(thread[u]) /\ thread'[u] = thread[u]
        BY <1>2, <2>2, <3>2 DEF Sequential
      <4> QED BY <4>1 DEF Informed, Current, Latest, AllEnded
    <3> QED BY <3>1, <3>2
  <2>5. \A u \in Thread : SameCall(thread[u], thread'[u])
    BY <1>2, <1>5 DEF SameCall
  <2>6. \A u \in Thread : Renewing(thread[u]) => Renewing(thread'[u])
    BY <1>2, <1>5 DEF Renewing, SameCall
  <2>7. \A u \in Thread, s \in Session : Unborn(thread[u], s) => Unborn(thread'[u], s)
    BY <1>2, <1>5 DEF Unborn, SameCall
  <2> QED BY <1>3, <2>2, <2>4, <2>5, <2>6, <2>7, ServedSequential DEF IInv
<1> QED BY <1>1, <1>2, <1>3, <1>4, <1>5, <1>6, <1>7, ServedKeeps

LEMMA ReadingKeeps ==
  ASSUME IInv, NEW t \in Thread, Reading(t), thread[t].reply = "sent",
         overlap' = IF thread'[t].reply = "failed" THEN "disturbed" ELSE overlap,
         UNCHANGED <<page, output, stream, items>>
  PROVE  IInv'
<1>1. CASE /\ thread[t].at \in {"fetch", "restored"} /\ There(thread[t].run)
           /\ Answers(t, run[thread[t].run].progress, run[thread[t].run].cards, NoItems)
  <2>1. thread[t].run \in Run
    BY <1>1 DEF IInv, TypeOK, CallsTyped, WellFormed
  <2>2. run[thread[t].run].progress \in Nat /\ run[thread[t].run].cards \in BOOLEAN
    BY <1>1, <2>1, RunFields DEF There, IInv, TypeOK
  <2>3. OfItsSession(NoItems) /\ NoItems \in List
    BY IdleIsCall DEF OfItsSession, NoItems, Unlisted
  <2>4. ASSUME overlap = "none", At(t, "restored") PROVE session[page.session] = "there"
    <3>1. page.run = thread[t].run /\ OfItsRun
      BY <2>4 DEF IInv, Coherent, Busy, Prepared, At
    <3>2. run[page.run].progress # -1 /\ run[page.run].home = page.session
      BY <1>1, <2>1, <2>2, <3>1 DEF OfItsRun
    <3>3. page.session # 0 /\ page.session \in Session
      BY <3>1 DEF OfItsRun, IInv, TypeOK, PageTyped, OrNone
    <3>4. session[page.session] # "new" /\ session[page.session] # "deleted"
      BY <2>1, <3>1, <3>2, <3>3 DEF IInv, RunsHoused
    <3> QED BY <3>3, <3>4 DEF IInv, TypeOK, ServerTyped
  <2> QED BY <1>1, <2>2, <2>3, <2>4, ReadKeeps DEF Reading, At
<1>2. CASE At(t, "list") /\ Answers(t, 0, FALSE, Listed)
  <2>1. Listed \in List /\ OfItsSession(Listed)
    BY ListedTyped DEF IInv
  <2>2. ASSUME overlap = "none" PROVE Current(Listed)
    <3>1. Sequential
      BY <2>2 DEF IInv
    <3>2. ASSUME NEW u \in Thread, NEW s \in Session PROVE ~Unborn(thread[u], s)
      BY <1>2, <3>1 DEF Sequential, Unborn, Busy, At
    <3>3. \A s \in Session : session[s] = "there" => \E r \in Run : run[r].home = s
      BY <3>1, <3>2 DEF Sequential
    <3> QED BY <3>3, ListedCurrent DEF IInv
  <2> QED BY <1>2, <2>1, <2>2, ReadKeeps DEF Reading, At
<1> QED BY <1>1, <1>2 DEF Reading

LEMMA DeletingKeeps ==
  ASSUME IInv, NEW t \in Thread, Deleting(t), thread[t].reply = "sent",
         overlap' = IF thread'[t].reply = "failed" THEN "disturbed" ELSE overlap,
         UNCHANGED <<page, output, stream, items>>
  PROVE  IInv'
<1>1. PICK s : s = thread[t].session
  OBVIOUS
<1>2. /\ At(t, "delete") /\ session[s] = "there"
      /\ session' = [session EXCEPT ![s] = "deleted"]
      /\ run' = [r \in Run |-> IF run[r].home = s THEN [run[r] EXCEPT !.progress = -1]
                               ELSE run[r]]
      /\ Answers(t, 0, FALSE, NoItems)
  BY <1>1 DEF Deleting
<1>3. s \in Session
  BY <1>1, <1>2 DEF IInv, TypeOK, CallsTyped, WellFormed, At
<1>4. PICK call : Moves(t, call) /\ AnsweredAs(thread[t], call, 0, FALSE, NoItems)
  BY <1>2, AnswersMoves, IdleIsCall DEF At, IInv, TypeOK
<1>5. /\ thread'[t] = call
      /\ \A u \in Thread \ {t} : thread'[u] = thread[u]
  BY <1>4, Moved DEF IInv, TypeOK
<1>6. ASSUME NEW r \in Run
      PROVE  /\ run'[r].home = run[r].home
             /\ run'[r].progress = IF run[r].home = s THEN -1 ELSE run[r].progress
  BY <1>2 DEF IInv, TypeOK, ServerTyped
<1>7. RunsOn /\ HomesKept
  BY <1>6 DEF RunsOn, HomesKept
<1>8. ServerTyped'
  <2>1. session' \in [Session -> {"new", "there", "deleted"}]
    BY <1>2 DEF IInv, TypeOK, ServerTyped
  <2>2. ASSUME NEW r \in Run
        PROVE  (IF run[r].home = s THEN [run[r] EXCEPT !.progress = -1] ELSE run[r])
                 \in [home : OrNone(Session), progress : -1..2,
                      cards : BOOLEAN, succeeded : BOOLEAN]
    BY DEF IInv, TypeOK, ServerTyped
  <2>3. run' \in [Run -> [home : OrNone(Session), progress : -1..2,
                          cards : BOOLEAN, succeeded : BOOLEAN]]
    BY <1>2, <2>2
  <2> QED BY <2>1, <2>3 DEF ServerTyped
<1>9. RunsHoused'
  <2>1. session'[s] = "deleted" /\ \A q \in Session : q # s => session'[q] = session[q]
    BY <1>2, <1>3 DEF IInv, TypeOK, ServerTyped
  <2>2. \A r \in Run : run[r].home # 0 => run[r].home \in Session
    BY RunFields DEF IInv, TypeOK, OrNone
  <2>3. ASSUME NEW r \in Run
        PROVE  IF run'[r].home = 0 THEN run'[r].progress = 0
               ELSE /\ session'[run'[r].home] # "new"
                    /\ run'[r].progress = -1 <=> session'[run'[r].home] = "deleted"
    <3>1. CASE run[r].home = 0
      <4>1. s # 0 /\ run[r].progress = 0
        BY <1>3, <3>1, Numbers DEF IInv, RunsHoused
      <4> QED BY <1>6, <3>1, <4>1
    <3>2. CASE run[r].home = s
      <4>1. s # 0
        BY <1>3, Numbers
      <4> QED BY <1>6, <2>1, <3>2, <4>1
    <3>3. CASE run[r].home # 0 /\ run[r].home # s
      <4>1. /\ session[run[r].home] # "new"
            /\ run[r].progress = -1 <=> session[run[r].home] = "deleted"
        BY <3>3 DEF IInv, RunsHoused
      <4>2. session'[run[r].home] = session[run[r].home]
        BY <2>1, <2>2, <3>3
      <4> QED BY <1>6, <3>3, <4>1, <4>2
    <3> QED BY <3>1, <3>2, <3>3
  <2>4. \A q, r \in Run : q < r /\ run'[r].home # 0 => run'[q].home # 0
    BY <1>6 DEF IInv, RunsHoused
  <2> QED BY <2>3, <2>4 DEF RunsHoused
<1>10. /\ SameCall(thread[t], call) /\ call.at = "delete" /\ call.items = NoItems
  BY <1>2, <1>4 DEF AnsweredAs, SameCall, At
<1>11. CallsTrue(call)'
  BY <1>10 DEF CallsTrue, OfItsSession, NoItems, Unlisted
<1>12. ASSUME overlap' = "none" PROVE Sequential'
  <2>1. overlap = "none"
    BY <1>12
  <2>2. Sequential /\ Coherent
    BY <2>1 DEF IInv
  <2>3. \A u \in Thread : ~Busy(thread[u])
    BY <1>2, <2>2 DEF Coherent, Acting, Busy, At
  <2>4. ASSUME NEW u \in Thread PROVE Informed(thread[u])'
    <3>1. CASE u = t
      BY <1>5, <1>10, <3>1 DEF Informed
    <3>2. CASE u # t
      <4>1. PICK old \in Call : old = thread[u]
        BY DEF IInv, TypeOK, CallsTyped
      <4>2. thread'[u] = old /\ Informed(old) /\ ~Busy(old)
        BY <1>5, <2>2, <2>3, <3>2, <4>1 DEF Sequential
      <4>3. Current(old.items) => Current(old.items)'
        BY <1>7, CallFields, CurrentStays
      <4> QED BY <4>2, <4>3 DEF Informed, Busy, Current, Latest
    <3> QED BY <3>1, <3>2
  <2>5. \A u \in Thread : SameCall(thread[u], thread'[u])
    BY <1>5, <1>10 DEF SameCall
  <2>6. \A u \in Thread : Renewing(thread[u]) => Renewing(thread'[u])
    BY <1>2, <1>5 DEF Renewing, At
  <2>7. \A u \in Thread, q \in Session : Unborn(thread[u], q) => Unborn(thread'[u], q)
    BY <1>2, <1>5 DEF Unborn, At
  <2>8. \A q \in Session : session'[q] = "there" => session[q] = "there"
    BY <1>2, <1>3 DEF IInv, TypeOK, ServerTyped
  <2> QED BY <1>7, <2>2, <2>4, <2>5, <2>6, <2>7, <2>8, ServedSequential DEF IInv
<1> QED BY <1>4, <1>5, <1>7, <1>8, <1>9, <1>10, <1>11, <1>12, ServedKeeps

LEMMA RefusesKeeps ==
  ASSUME IInv, NEW t \in Thread, Refuses(t), thread[t].reply = "sent",
         overlap' = IF thread'[t].reply = "failed" THEN "disturbed" ELSE overlap,
         UNCHANGED <<page, output, stream, items>>
  PROVE  IInv'
<1>1. PICK call \in Call : /\ Moves(t, call) /\ SameCall(thread[t], call)
                           /\ call.reply = "failed" /\ call.items = thread[t].items
  BY RefusesMoves DEF IInv, TypeOK
<1>2. thread'[t] = call
  BY <1>1, Moved DEF IInv, TypeOK
<1>3. UNCHANGED <<session, run>>
  BY DEF Refuses
<1>4. ServerTyped' /\ RunsHoused' /\ HomesKept
  BY <1>3 DEF IInv, TypeOK, ServerTyped, RunsHoused, HomesKept
<1>5. CallsTrue(call)'
  BY <1>1, <1>3 DEF CallsTrue, OfItsSession, SameCall, IInv, ListsTrue
<1> QED BY <1>1, <1>2, <1>4, <1>5, ServedKeeps

LEMMA ServeKeeps ==
  ASSUME IInv, NEW t \in Thread, Serve(t)
  PROVE  IInv'
BY ServeCases, CreatingKeeps, PostingKeeps, ReadingKeeps, DeletingKeeps, RefusesKeeps

-----------------------------------------------------------------------------
(* Calls go on *)

\* A call that acts keeps the invariant when it goes on, if what it makes of
\* the page is what it goes on with, or whole.
LEMMA ActingKeeps ==
  ASSUME IInv, NEW t, NEW call, Moves(t, call), Acting(thread[t]), call.reply = "sent",
         UNCHANGED <<session, run>>, overlap' \in {overlap, "disturbed"},
         PageTyped', OfItsSession(items)', CallsTrue(call)',
         overlap' # "disturbed" /\ Busy(call) => ~stream'.open /\ Prepared(call)',
         overlap' # "disturbed" /\ ~Busy(call) => Whole',
         overlap' = "none" => Sequential'
  PROVE  IInv'
<1>1. /\ t \in Thread /\ thread'[t] = call
      /\ \A u \in Thread \ {t} : thread'[u] = thread[u]
      /\ CallsTyped'
  BY Moved DEF IInv, TypeOK
<1>2. TypeOK'
  BY <1>1 DEF IInv, TypeOK, ServerTyped
<1>3. RunsHoused'
  BY DEF IInv, RunsHoused
<1>4. ListsTrue'
  <2>1. CallsTrue(thread[t])'
    BY <1>1 DEF CallsTrue, OfItsSession
  <2>2. HomesKept
    BY DEF HomesKept
  <2> QED BY <1>1, <2>1, <2>2, ListsStayTrue DEF IInv
<1>5. ASSUME overlap' # "disturbed" PROVE Coherent' /\ NoneFailed'
  <2>1. \A u \in Thread \ {t} : ~Acting(thread[u])
    BY <1>1, <1>5 DEF IInv, Coherent
  <2>2. Coherent'
    BY <1>5, <2>1, ActingCoherent DEF IInv, TypeOK
  <2>3. NoneFailed'
    BY <1>1, <1>5 DEF IInv, NoneFailed
  <2> QED BY <2>2, <2>3
<1> QED BY <1>2, <1>3, <1>4, <1>5 DEF IInv

\* A call that decides what is shown is alone in a sequential history.
LEMMA BusyKeeps ==
  ASSUME IInv, NEW t, NEW call, Moves(t, call), Busy(thread[t]), call.reply = "sent",
         UNCHANGED <<session, run>>, overlap' \in {overlap, "disturbed"},
         PageTyped', OfItsSession(items)', CallsTrue(call)',
         overlap' # "disturbed" /\ Busy(call) => ~stream'.open /\ Prepared(call)',
         overlap' # "disturbed" /\ ~Busy(call) => Whole',
         overlap' = "none" => Informed(call)',
         overlap' = "none" /\ ~Busy(call) => Followed',
         overlap' = "none" => Current(items)' \/ Renewing(call),
         overlap' = "none" => \A s : Unborn(thread[t], s) => Unborn(call, s)
  PROVE  IInv'
<1>1. ASSUME overlap' = "none" PROVE Sequential'
  <2>1. overlap = "none" /\ t \in Thread
    BY <1>1 DEF Moves
  <2>2. Sequential
    BY <2>1 DEF IInv
  <2>3. OthersEnded'
    BY <2>2 DEF Sequential, OthersEnded
  <2>4. \A s \in Session : session'[s] = "there" =>
          (\E r \in Run : run'[r].home = s) \/ Unborn(call, s)
    BY <1>1, <2>1, <2>2, AloneFinds
  <2> QED BY <1>1, <2>2, <2>3, <2>4, AloneSequential DEF IInv
<1> QED BY <1>1, ActingKeeps DEF Acting

\* Lists that stay are true still.
LEMMA ItemsStay ==
  ASSUME IInv, UNCHANGED <<run, items>>
  PROVE  OfItsSession(items)' /\ (Current(items) => Current(items)')
BY DEF IInv, ListsTrue, OfItsSession, Current, Latest

LEMMA CreatedKeeps ==
  ASSUME IInv, NEW t \in Thread, Created(t)
  PROVE  IInv'
<1>1. /\ At(t, "create") /\ Busy(thread[t]) /\ UNCHANGED <<session, run, overlap>>
      /\ UNCHANGED <<output, stream, items>>
  BY DEF Created, Answered, Failed, At, Busy, Page
<1>2. overlap # "disturbed" => /\ ~stream.open /\ Blank /\ page.session = 0
                               /\ thread[t].reply # "failed"
  BY <1>1 DEF IInv, Coherent, NoneFailed, Prepared, At
<1>3. CASE /\ Answered(t, "create")
           /\ page' = [page EXCEPT !.session = thread[t].value]
           /\ Goes(t, [Idle EXCEPT !.at = "post", !.session = thread[t].value])
  <2>1. PICK s : s = thread[t].value
    OBVIOUS
  <2>2. s \in Session /\ thread[t].reply = "answered"
    BY <1>3, <2>1 DEF Answered, At, IInv, TypeOK, CallsTyped, WellFormed
  <2>3. PICK call : call = [Idle EXCEPT !.at = "post", !.session = s]
    OBVIOUS
  <2>4. /\ call.at = "post" /\ call.session = s /\ call.reply = "sent" /\ ~call.flag
        /\ call.items = NoItems /\ call \in Call /\ WellFormed(call)
    <3> HIDE DEF List
    <3> QED BY <2>2, <2>3, IdleIsCall DEF Idle, Call, Ats, WellFormed, OrNone
  <2>5. Moves(t, call)
    BY <1>3, <2>1, <2>3, <2>4 DEF Moves, Goes
  <2>6. PageTyped'
    <3> HIDE DEF List
    <3> QED BY <1>1, <1>3, <2>1, <2>2 DEF PageTyped, IInv, TypeOK, OrNone
  <2>7. CallsTrue(call)'
    BY <2>4 DEF CallsTrue, OfItsSession, NoItems, Unlisted
  <2>8. page'.session = s /\ page'.run = page.run /\ page'.active = page.active
    BY <1>3, <2>1 DEF IInv, TypeOK, PageTyped
  <2>9. Busy(call) /\ (overlap' # "disturbed" => ~stream'.open /\ Prepared(call)')
    BY <1>1, <1>2, <2>4, <2>8 DEF Busy, Prepared, Blank
  <2>10. ASSUME overlap' = "none"
         PROVE  /\ Informed(call)' /\ Current(items)'
                /\ \A q : Unborn(thread[t], q) => Unborn(call, q)
    <3>1. Sequential /\ ~Renewing(thread[t])
      BY <1>1, <2>10 DEF IInv, Renewing, At
    <3>2. Informed(thread[t]) /\ Current(items)
      BY <1>1, <3>1, AloneFinds
    <3>3. AllEnded(s)'
      BY <1>1, <2>1, <2>2, <3>2 DEF Informed, AllEnded, At
    <3>4. Informed(call)'
      BY <1>1, <2>4, <2>8, <3>2, <3>3 DEF Informed, At
    <3>5. \A q : Unborn(thread[t], q) => Unborn(call, q)
      BY <1>1, <2>1, <2>4 DEF Unborn, At
    <3> QED BY <1>1, <3>2, <3>4, <3>5, ItemsStay
  <2> QED BY <1>1, <2>4, <2>5, <2>6, <2>7, <2>9, <2>10, ItemsStay, BusyKeeps
<1>4. CASE /\ Failed(t, "create")
           /\ page' = [page EXCEPT !.active = FALSE]
           /\ Goes(t, Idle)
  <2>1. overlap = "disturbed"
    BY <1>2, <1>4 DEF Failed, IInv, TypeOK
  <2>2. Moves(t, Idle)
    BY <1>4, IdleIsCall DEF Moves, Goes
  <2>3. PageTyped'
    <3> HIDE DEF List
    <3> QED BY <1>1, <1>4 DEF PageTyped, IInv, TypeOK
  <2>4. CallsTrue(Idle)' /\ Idle.reply = "sent"
    BY DEF CallsTrue, OfItsSession, NoItems, Unlisted, Idle
  <2> QED BY <1>1, <2>1, <2>2, <2>3, <2>4, ItemsStay, BusyKeeps
<1> QED BY <1>3, <1>4 DEF Created

\* In an undisturbed history a busy call finds the page prepared and no stream.
LEMMA BusyFinds ==
  ASSUME IInv, overlap # "disturbed", NEW t \in Thread, Busy(thread[t])
  PROVE  ~stream.open /\ Prepared(thread[t]) /\ thread[t].reply # "failed"
BY DEF IInv, Coherent, NoneFailed

LEMMA PostedKeeps ==
  ASSUME IInv, NEW t \in Thread, Posted(t)
  PROVE  IInv'
<1>1. /\ At(t, "post") /\ Busy(thread[t]) /\ UNCHANGED <<session, run, overlap>>
      /\ UNCHANGED <<stream, items>>
  BY DEF Posted, Answered, Failed, At, Busy, Page
<1>2. overlap # "disturbed" =>
        /\ ~stream.open /\ thread[t].reply # "failed"
        /\ page.session = thread[t].session /\ page.run = 0
        /\ ~thread[t].flag => output.run = 0
  BY <1>1, BusyFinds DEF Prepared, At
<1>3. page.session \in OrNone(Session) /\ thread[t].session \in Session
  BY <1>1 DEF IInv, TypeOK, PageTyped, CallsTyped, WellFormed, At
<1>4. CASE /\ Answered(t, "post")
           /\ page' = [page EXCEPT !.run = thread[t].value]
           /\ IF thread[t].flag THEN Drawn(thread[t].value, 0, thread[t].cards)
                                ELSE output' = output
           /\ Goes(t, [Idle EXCEPT !.at = "timeline", !.session = page.session,
                                   !.run = thread[t].value])
  <2>1. PICK r : r = thread[t].value
    OBVIOUS
  <2>2. r \in Run /\ thread[t].reply = "answered"
    BY <1>4, <2>1 DEF Answered, At, IInv, TypeOK, CallsTyped, WellFormed
  <2>3. PICK s \in OrNone(Session) : s = page.session
    BY <1>3
  <2>4. PICK call : call = [Idle EXCEPT !.at = "timeline", !.session = s, !.run = r]
    OBVIOUS
  <2>5. /\ call.at = "timeline" /\ call.session = s /\ call.run = r /\ call.reply = "sent"
        /\ call.items = NoItems /\ call \in Call /\ WellFormed(call)
    <3> HIDE DEF List
    <3> QED BY <2>2, <2>3, <2>4, IdleIsCall DEF Idle, Call, Ats, WellFormed, OrNone
  <2>6. Moves(t, call)
    BY <1>4, <2>1, <2>3, <2>4, <2>5 DEF Moves, Goes
  <2>7. PageTyped'
    <3> HIDE DEF List
    <3> QED BY <1>1, <1>4, <2>1, <2>2 DEF PageTyped, IInv, TypeOK, OrNone, Drawn
  <2>8. CallsTrue(call)'
    BY <2>5 DEF CallsTrue, OfItsSession, NoItems, Unlisted
  <2>9. page'.session = s /\ page'.run = r /\ page'.active = page.active
    BY <1>4, <2>1, <2>3 DEF IInv, TypeOK, PageTyped
  <2>10. run[r].home = thread[t].session
    BY <1>1, <2>1, <2>2 DEF IInv, ListsTrue, CallsTrue, At
  <2>11. ASSUME overlap' # "disturbed" PROVE ~stream'.open /\ Prepared(call)'
    <3>1. output'.run \in {0, r}
      BY <1>1, <1>2, <1>4, <2>1, <2>11 DEF Drawn
    <3>2. OfItsRun'
      BY <1>1, <1>2, <1>3, <2>3, <2>9, <2>10, <2>11, <3>1, Numbers DEF OfItsRun
    <3> QED BY <1>1, <1>2, <2>5, <2>9, <2>11, <3>2 DEF Prepared
  <2>12. ASSUME overlap' = "none" PROVE Informed(call)'
    <3>1. Informed(thread[t])
      BY <1>1, <2>12 DEF IInv, Sequential
    <3>2. /\ Latest(thread[t].session, r, FALSE) /\ session[thread[t].session] = "there"
          /\ page.active /\ s = thread[t].session
      BY <1>1, <1>2, <2>1, <2>2, <2>3, <2>12, <3>1 DEF Informed, At
    <3> QED BY <1>1, <2>5, <2>9, <3>2 DEF Informed, Latest
  <2>13. Busy(call) /\ Renewing(call) /\ \A q : ~Unborn(thread[t], q)
    BY <1>1, <2>2, <2>5 DEF Busy, Renewing, Unborn, At
  <2> QED BY <1>1, <2>5, <2>6, <2>7, <2>8, <2>11, <2>12, <2>13, ItemsStay, BusyKeeps
<1>5. CASE /\ Failed(t, "post")
           /\ page' = [page EXCEPT !.active = FALSE]
           /\ output' = output
           /\ Goes(t, IF thread[t].flag
                      THEN [Idle EXCEPT !.at = "refresh", !.session = page.session]
                      ELSE Idle)
  <2>1. overlap = "disturbed"
    BY <1>2, <1>5 DEF Failed, IInv, TypeOK
  <2>2. PICK call : call = IF thread[t].flag
                           THEN [Idle EXCEPT !.at = "refresh", !.session = page.session]
                           ELSE Idle
    OBVIOUS
  <2>3. /\ call.at \in {"refresh", "idle"} /\ call.reply = "sent"
        /\ call.items = NoItems /\ call \in Call /\ WellFormed(call)
    <3> HIDE DEF List
    <3> QED BY <1>3, <2>2, IdleIsCall DEF Idle, Call, Ats, WellFormed
  <2>4. Moves(t, call)
    BY <1>5, <2>2, <2>3 DEF Moves, Goes
  <2>5. PageTyped'
    <3> HIDE DEF List
    <3> QED BY <1>1, <1>5 DEF PageTyped, IInv, TypeOK
  <2>6. CallsTrue(call)'
    BY <2>3 DEF CallsTrue, OfItsSession, NoItems, Unlisted
  <2> QED BY <1>1, <2>1, <2>3, <2>4, <2>5, <2>6, ItemsStay, BusyKeeps
<1> QED BY <1>4, <1>5 DEF Posted

\* A timeline is that of a session, or of none.
LEMMA TimelineTyped ==
  ASSUME TypeOK, NEW t \in Thread, NEW arrives
  PROVE  Timeline(t, arrives) \in OrNone(Session)
<1>1. thread[t].session \in OrNone(Session) /\ page.timeline \in OrNone(Session)
  BY CallFields DEF TypeOK, CallsTyped, PageTyped
<1> QED BY <1>1 DEF Timeline

LEMMA SubmittedKeeps ==
  ASSUME IInv, NEW t \in Thread, NEW arrives \in BOOLEAN, Submitted(t, arrives)
  PROVE  IInv'
<1>1. /\ At(t, "timeline") /\ Busy(thread[t]) /\ UNCHANGED <<session, run, output, items>>
      /\ overlap' = IF arrives THEN overlap ELSE "disturbed"
      /\ stream' = Opened(thread[t].run)
  BY DEF Submitted, Arrives, At, Busy
<1>2. PICK shown \in OrNone(Session) : shown = Timeline(t, arrives)
  BY TimelineTyped DEF IInv
<1>3. page' = [page EXCEPT !.timeline = shown] /\ Moves(t, Listing)
  BY <1>2, ListingIsCall DEF Submitted, Moves, Goes
<1>4. /\ page'.session = page.session /\ page'.run = page.run
      /\ page'.active = page.active /\ page'.timeline = shown
      /\ stream'.run = thread[t].run /\ stream'.open
  BY <1>1, <1>3 DEF IInv, TypeOK, PageTyped, Opened
<1>5. PageTyped'
  <2>1. thread[t].run \in OrNone(Run)
    BY CallFields DEF IInv, TypeOK, CallsTyped
  <2> HIDE DEF List
  <2> QED BY <1>1, <1>3, <2>1 DEF PageTyped, Opened, IInv, TypeOK
<1>6. CallsTrue(Listing)'
  BY ListingIsCall DEF CallsTrue, OfItsSession, NoItems, Unlisted
<1>7. ASSUME overlap' # "disturbed" PROVE Whole'
  <2>1. page.run = thread[t].run /\ OfItsRun
    BY <1>1, <1>7, BusyFinds DEF Prepared, At
  <2> QED BY <1>1, <1>4, <2>1 DEF Whole, OfItsRun
<1>8. ASSUME overlap' = "none" PROVE Followed'
  <2>1. Informed(thread[t]) /\ arrives
    BY <1>1, <1>8 DEF IInv, Sequential
  <2>2. /\ Latest(page.session, page.run, FALSE) /\ page.active
        /\ thread[t].session = page.session /\ session[page.session] = "there"
    BY <1>1, <2>1 DEF Informed, At
  <2>3. page.session # 0 => shown = page.session
    BY <1>2, <2>1, <2>2 DEF Timeline
  <2> QED BY <1>1, <1>4, <2>2, <2>3 DEF Followed, Latest
<1>9. Informed(Listing)' /\ Renewing(Listing) /\ \A q : ~Unborn(thread[t], q)
  BY <1>1, ListingIsCall DEF Informed, Renewing, Unborn, At
<1> QED BY <1>1, <1>3, <1>5, <1>6, <1>7, <1>8, <1>9, ListingIsCall, ItemsStay, BusyKeeps

LEMMA RestoredKeeps ==
  ASSUME IInv, NEW t \in Thread, NEW arrives \in BOOLEAN, Restored(t, arrives)
  PROVE  IInv'
<1>1. PICK old \in Call : old = thread[t]
  BY DEF IInv, TypeOK, CallsTyped
<1>2. /\ old.at = "restore" /\ Busy(thread[t])
      /\ UNCHANGED <<session, run, output, stream, items>>
      /\ overlap' = IF arrives THEN overlap ELSE "disturbed"
  BY <1>1 DEF Restored, Arrives, At, Busy
<1>3. PICK shown \in OrNone(Session) : shown = Timeline(t, arrives)
  BY TimelineTyped DEF IInv
<1>4. old.session \in Session /\ old.run \in OrNone(Run) /\ old.flag \in BOOLEAN
  BY <1>1, <1>2, CallFields DEF IInv, TypeOK, CallsTyped, WellFormed
<1>5. PICK active \in BOOLEAN : active = (old.run # 0 /\ ~old.flag)
  BY <1>4
<1>6. PICK r \in OrNone(Run) : r = IF old.run = 0 THEN page.run ELSE old.run
  BY <1>4 DEF IInv, TypeOK, PageTyped
<1>7. page' = [page EXCEPT !.timeline = shown, !.run = r, !.active = active]
  BY <1>1, <1>3, <1>5, <1>6 DEF Restored
<1>8. /\ page'.session = page.session /\ page'.run = r
      /\ page'.active = active /\ page'.timeline = shown
  BY <1>7 DEF IInv, TypeOK, PageTyped
<1>9. PageTyped'
  <2> HIDE DEF List
  <2> QED BY <1>2, <1>7 DEF PageTyped, IInv, TypeOK
<1>10. ASSUME overlap' # "disturbed"
       PROVE  ~stream'.open /\ Blank /\ page.session = old.session
  BY <1>1, <1>2, <1>10, BusyFinds DEF Prepared
<1>11. CASE old.run = 0
  <2>1. Moves(t, Idle)
    BY <1>1, <1>11, IdleIsCall DEF Restored, Moves, Goes
  <2>2. CallsTrue(Idle)' /\ Idle.reply = "sent" /\ ~Busy(Idle)
    BY DEF CallsTrue, OfItsSession, NoItems, Unlisted, Idle, Busy
  <2>3. overlap' # "disturbed" => Whole'
    BY <1>5, <1>6, <1>8, <1>10, <1>11 DEF Whole, Blank
  <2>4. overlap' # "none"
    <3> SUFFICES ASSUME overlap' = "none" PROVE FALSE
      OBVIOUS
    <3>1. Informed(thread[t])
      BY <1>2 DEF IInv, Sequential
    <3> QED BY <1>1, <1>2, <1>11, <3>1 DEF Informed, Latest
  <2> QED BY <1>2, <1>9, <2>1, <2>2, <2>3, <2>4, ItemsStay, BusyKeeps
<1>12. CASE old.run # 0
  <2>1. PICK call : call = [Idle EXCEPT !.at = "restored", !.run = old.run]
    OBVIOUS
  <2>2. /\ call.at = "restored" /\ call.run = old.run /\ call.reply = "sent"
        /\ call.items = NoItems /\ call \in Call /\ WellFormed(call)
    <3> HIDE DEF List
    <3> QED BY <1>4, <1>12, <2>1, IdleIsCall DEF Idle, Call, Ats, WellFormed, OrNone
  <2>3. Moves(t, call)
    BY <1>1, <1>12, <2>1, <2>2 DEF Restored, Moves, Goes
  <2>4. CallsTrue(call)'
    BY <2>2 DEF CallsTrue, OfItsSession, NoItems, Unlisted
  <2>5. run[old.run].home = old.session
    BY <1>1, <1>2, <1>12 DEF IInv, ListsTrue, CallsTrue
  <2>6. ASSUME overlap' # "disturbed" PROVE ~stream'.open /\ Prepared(call)'
    <3>1. OfItsRun'
      BY <1>2, <1>4, <1>6, <1>8, <1>10, <1>12, <2>5, <2>6, Numbers DEF OfItsRun, Blank
    <3> QED BY <1>6, <1>8, <1>10, <1>12, <2>2, <2>6, <3>1 DEF Prepared
  <2>7. ASSUME overlap' = "none" PROVE Informed(call)' /\ Current(items)'
    <3>1. Sequential /\ ~Renewing(thread[t]) /\ arrives
      BY <1>1, <1>2, <2>7 DEF IInv, Renewing
    <3>2. Informed(thread[t]) /\ Current(items)
      BY <1>2, <3>1, AloneFinds
    <3>3. Latest(old.session, old.run, old.flag)
      BY <1>1, <1>2, <3>2 DEF Informed
    <3>4. Latest(old.session, r, ~active)'
      BY <1>2, <1>4, <1>5, <1>6, <1>12, <3>3 DEF Latest
    <3>5. session[old.session] = "there" => shown = old.session
      BY <1>1, <1>3, <1>4, <3>1, Numbers DEF Timeline
    <3>6. page'.session = old.session
      BY <1>8, <1>10, <2>7
    <3>7. Informed(call)'
      BY <1>2, <1>8, <2>2, <3>4, <3>5, <3>6 DEF Informed, Latest
    <3> QED BY <1>2, <3>2, <3>7, ItemsStay
  <2>8. Busy(call) /\ \A q : ~Unborn(thread[t], q)
    BY <1>1, <1>2, <2>2 DEF Busy, Unborn
  <2> QED BY <1>2, <1>9, <2>2, <2>3, <2>4, <2>6, <2>7, <2>8, ItemsStay, BusyKeeps
<1> QED BY <1>11, <1>12

\* What is rendered is an answer for the Run of the page, or what was shown.
LEMMA RenderedRun ==
  ASSUME TypeOK, NEW t \in Thread, Rendered(t), thread[t].run \in Run
  PROVE  /\ output' \in [run : OrNone(Run), progress : Nat, cards : OrNone(Run)]
         /\ output'.run = output.run \/ output'.run = page.run
<1>1. thread[t].value \in Nat
  BY CallFields DEF TypeOK, CallsTyped
<1> QED BY <1>1 DEF Rendered, Drawn, TypeOK, PageTyped, OrNone

LEMMA WatchedKeeps ==
  ASSUME IInv, NEW t \in Thread, Watched(t)
  PROVE  IInv'
<1>1. /\ At(t, "restored") /\ Busy(thread[t]) /\ thread[t].reply # "sent"
      /\ UNCHANGED <<session, run, overlap, page, items>>
      /\ Rendered(t) /\ stream' = Opened(page.run)
  BY DEF Watched, At, Busy, Page
<1>2. thread[t].run \in Run
  BY <1>1 DEF IInv, TypeOK, CallsTyped, WellFormed, At
<1>3. Moves(t, Idle)
  BY IdleIsCall DEF Watched, Moves, Goes
<1>4. /\ output' \in [run : OrNone(Run), progress : Nat, cards : OrNone(Run)]
      /\ output'.run = output.run \/ output'.run = page.run
  BY <1>1, <1>2, RenderedRun DEF IInv
<1>5. PageTyped'
  <2> HIDE DEF List
  <2> QED BY <1>1, <1>4 DEF PageTyped, Opened, IInv, TypeOK
<1>6. CallsTrue(Idle)' /\ Idle.reply = "sent" /\ ~Busy(Idle)
  BY DEF CallsTrue, OfItsSession, NoItems, Unlisted, Idle, Busy
<1>7. ASSUME overlap' # "disturbed" PROVE Whole'
  <2>1. page.run = thread[t].run /\ OfItsRun
    BY <1>1, <1>7, BusyFinds DEF Prepared, At
  <2> QED BY <1>1, <1>4, <2>1 DEF Whole, OfItsRun, Opened
<1>8. ASSUME overlap' = "none"
      PROVE  /\ Informed(Idle)' /\ Followed' /\ Current(items)'
             /\ \A q : ~Unborn(thread[t], q)
  <2>1. Sequential /\ ~Renewing(thread[t]) /\ overlap = "none"
    BY <1>1, <1>8 DEF IInv, Renewing, At
  <2>2. Informed(thread[t]) /\ Current(items)
    BY <1>1, <2>1, AloneFinds
  <2>3. thread[t].reply = "answered"
    <3>1. thread[t].reply \in {"sent", "answered", "failed"}
      BY CallFields DEF IInv, TypeOK, CallsTyped
    <3>2. thread[t].reply # "failed"
      BY <1>1, <2>1, BusyFinds
    <3> QED BY <1>1, <3>1, <3>2
  <2>4. Latest(page.session, page.run, ~page.active) /\ page.timeline = page.session
    BY <1>1, <2>2, <2>3 DEF Informed, At
  <2>5. Followed'
    BY <1>1, <2>4 DEF Followed, Latest
  <2>6. Informed(Idle)'
    BY DEF Informed, Idle
  <2>7. \A q : ~Unborn(thread[t], q)
    BY <1>1 DEF Unborn, At
  <2> QED BY <1>1, <2>2, <2>5, <2>6, <2>7, ItemsStay
<1> QED BY <1>1, <1>3, <1>5, <1>6, <1>7, <1>8, ItemsStay, BusyKeeps

\* While no call decides what is shown, the others keep the sequence.
LEMMA CalmSequential ==
  ASSUME CallsTyped, Sequential, \A u \in Thread : ~Busy(thread[u]),
         \A u \in Thread : \/ thread'[u] = thread[u]
                           \/ ~Busy(thread'[u]) /\ Informed(thread[u])',
         UNCHANGED <<session, run>>, page'.session \in {page.session, 0},
         \/ Current(items)'
         \/ /\ items' = items
            /\ \A u \in Thread : Renewing(thread[u]) => Renewing(thread'[u]),
         Followed => Followed'
  PROVE  Sequential'
<1>1. \A u \in Thread : ~Busy(thread'[u])
  OBVIOUS
<1>2. ASSUME NEW u \in Thread PROVE Informed(thread[u])'
  <2>1. CASE thread'[u] = thread[u]
    <3>1. Informed(thread[u]) /\ ~Busy(thread[u])
      BY DEF Sequential
    <3> QED BY <2>1, <3>1 DEF Informed, Busy, Current, Latest
  <2> QED BY <2>1
<1>3. Current(items)' \/ \E u \in Thread : Renewing(thread'[u])
  BY DEF Sequential, Current, Latest
<1>4. ASSUME NEW s \in Session, session'[s] = "there"
      PROVE  \E r \in Run : run'[r].home = s
  <2>1. \A u \in Thread : ~Unborn(thread[u], s)
    BY DEF Unborn, Busy
  <2> QED BY <1>4, <2>1 DEF Sequential
<1>5. OthersEnded' /\ Followed'
  BY DEF Sequential, OthersEnded
<1> QED BY <1>1, <1>2, <1>3, <1>4, <1>5 DEF Sequential, Busy

\* A call that decides nothing keeps the invariant when it goes on.
LEMMA CalmKeeps ==
  ASSUME IInv, NEW t, NEW call, Moves(t, call), ~At(t, "idle"),
         ~Acting(thread[t]), ~Acting(call), call.reply = "sent",
         UNCHANGED <<session, run, stream>>, overlap' \in {overlap, "disturbed"},
         PageTyped', OfItsSession(items)', CallsTrue(call)',
         page' = [page EXCEPT !.timeline = page'.timeline],
         output'.run \in {output.run, page.run},
         overlap' = "none" => Informed(call)',
         overlap' = "none" => \/ Current(items)'
                              \/ items' = items /\ (Renewing(thread[t]) => Renewing(call)),
         overlap' = "none" /\ Followed => Followed'
  PROVE  IInv'
<1>1. /\ t \in Thread /\ thread'[t] = call
      /\ \A u \in Thread \ {t} : thread'[u] = thread[u]
      /\ CallsTyped'
  BY Moved DEF IInv, TypeOK
<1>2. TypeOK'
  BY <1>1 DEF IInv, TypeOK, ServerTyped
<1>3. RunsHoused'
  BY DEF IInv, RunsHoused
<1>4. ListsTrue'
  <2>1. CallsTrue(thread[t])'
    BY <1>1 DEF CallsTrue, OfItsSession
  <2>2. HomesKept
    BY DEF HomesKept
  <2> QED BY <1>1, <2>1, <2>2, ListsStayTrue DEF IInv
<1>5. page'.session = page.session /\ page'.run = page.run /\ page'.active = page.active
  BY DEF IInv, TypeOK, PageTyped
<1>6. ASSUME overlap' # "disturbed" PROVE Coherent' /\ NoneFailed'
  <2>1. \A u \in Thread :
          thread'[u] = thread[u] \/ (~Acting(thread[u]) /\ ~Acting(thread'[u]))
    BY <1>1
  <2>2. OfItsRun => OfItsRun'
    BY <1>5 DEF OfItsRun
  <2>3. \A c \in Call : Prepared(c) => Prepared(c)'
    BY <1>5, <2>2 DEF Prepared, Blank
  <2>4. Whole => Whole'
    BY <1>5, <2>2 DEF Whole
  <2>5. Coherent'
    BY <1>6, <2>1, <2>3, <2>4, OthersCoherent DEF IInv, TypeOK
  <2>6. NoneFailed'
    BY <1>1, <1>6 DEF IInv, NoneFailed
  <2> QED BY <2>5, <2>6
<1>7. ASSUME overlap' = "none" PROVE Sequential'
  <2>1. Sequential
    BY <1>7 DEF IInv
  <2>2. \A u \in Thread : ~Busy(thread[u])
    BY <1>1, <2>1 DEF Sequential, Acting
  <2>3. \A u \in Thread : \/ thread'[u] = thread[u]
                          \/ ~Busy(thread'[u]) /\ Informed(thread[u])'
    BY <1>1, <1>7 DEF Acting, Informed, Current, Latest, AllEnded
  <2>4. \/ Current(items)'
        \/ /\ items' = items
           /\ \A u \in Thread : Renewing(thread[u]) => Renewing(thread'[u])
    BY <1>1, <1>7
  <2> QED BY <1>5, <1>7, <2>1, <2>2, <2>3, <2>4, CalmSequential DEF IInv, TypeOK
<1> QED BY <1>2, <1>3, <1>4, <1>6, <1>7 DEF IInv

LEMMA FetchedKeeps ==
  ASSUME IInv, NEW t \in Thread, Fetched(t)
  PROVE  IInv'
<1>1. /\ At(t, "fetch") /\ thread[t].reply # "sent" /\ Rendered(t)
      /\ UNCHANGED <<session, run, overlap, page, stream, items>>
  BY DEF Fetched, Page
<1>2. page.session \in OrNone(Session) /\ thread[t].run \in Run
  BY <1>1 DEF IInv, TypeOK, PageTyped, CallsTyped, WellFormed, At
<1>3. PICK call \in {[Idle EXCEPT !.at = "refresh", !.session = page.session], Idle} :
        Goes(t, call)
  BY DEF Fetched
<1>4. /\ call.at = "idle" \/ (call.at = "refresh" /\ call.session = page.session)
      /\ call.reply = "sent" /\ call.items = NoItems /\ call \in Call /\ WellFormed(call)
  <2> HIDE DEF List
  <2>1. CASE call = [Idle EXCEPT !.at = "refresh", !.session = page.session]
    BY <1>2, <2>1, IdleIsCall DEF Idle, Call, Ats, WellFormed
  <2>2. CASE call = Idle
    BY <2>2, IdleIsCall DEF Idle
  <2> QED BY <1>3, <2>1, <2>2
<1>5. Moves(t, call)
  BY <1>3, <1>4 DEF Moves, Goes
<1>6. /\ output' \in [run : OrNone(Run), progress : Nat, cards : OrNone(Run)]
      /\ output'.run \in {output.run, page.run}
  BY <1>1, <1>2, RenderedRun DEF IInv
<1>7. PageTyped'
  <2> HIDE DEF List
  <2> QED BY <1>1, <1>6 DEF PageTyped, IInv, TypeOK
<1>8. CallsTrue(call)'
  BY <1>4 DEF CallsTrue, OfItsSession, NoItems, Unlisted
<1>9. page' = [page EXCEPT !.timeline = page'.timeline]
  BY <1>1 DEF IInv, TypeOK, PageTyped
<1>10. Informed(call)'
  BY <1>1, <1>4 DEF Informed
<1>11. Followed => Followed'
  BY <1>1 DEF Followed, Latest
<1>12. /\ ~At(t, "idle") /\ ~Acting(thread[t]) /\ ~Acting(call) /\ ~Renewing(thread[t])
  BY <1>1, <1>4 DEF At, Acting, Busy, Renewing
<1> QED BY <1>1, <1>4, <1>5, <1>6, <1>7, <1>8, <1>9, <1>10, <1>11, <1>12, ItemsStay, CalmKeeps

LEMMA RefreshedKeeps ==
  ASSUME IInv, NEW t \in Thread, NEW arrives \in BOOLEAN, Refreshed(t, arrives)
  PROVE  IInv'
<1>1. /\ At(t, "refresh") /\ UNCHANGED <<session, run, output, stream, items>>
      /\ overlap' = IF arrives THEN overlap ELSE "disturbed"
  BY DEF Refreshed, Arrives
<1>2. PICK shown \in OrNone(Session) : shown = Timeline(t, arrives)
  BY TimelineTyped DEF IInv
<1>3. page' = [page EXCEPT !.timeline = shown] /\ Moves(t, Idle)
  BY <1>2, IdleIsCall DEF Refreshed, Moves, Goes
<1>4. /\ page'.session = page.session /\ page'.run = page.run
      /\ page'.active = page.active /\ page'.timeline = shown
  BY <1>3 DEF IInv, TypeOK, PageTyped
<1>5. PageTyped'
  <2> HIDE DEF List
  <2> QED BY <1>1, <1>3 DEF PageTyped, IInv, TypeOK
<1>6. CallsTrue(Idle)' /\ Idle.reply = "sent" /\ ~Acting(Idle) /\ Informed(Idle)'
  BY DEF CallsTrue, OfItsSession, NoItems, Unlisted, Idle, Acting, Busy, Informed
<1>7. ASSUME overlap' = "none", Followed PROVE Followed'
  <2>1. Informed(thread[t])
    BY <1>1, <1>7 DEF IInv, Sequential
  <2>2. page.session \in {0, thread[t].session}
    BY <1>1, <2>1 DEF Informed, At
  <2>3. page.session # 0 => shown = page.session
    BY <1>2, <1>7, <2>2 DEF Timeline, Followed
  <2> QED BY <1>1, <1>4, <1>7, <2>3 DEF Followed, Latest
<1>8. ~At(t, "idle") /\ ~Acting(thread[t]) /\ ~Renewing(thread[t])
  BY <1>1 DEF At, Acting, Busy, Renewing
<1> QED BY <1>1, <1>3, <1>4, <1>5, <1>6, <1>7, <1>8, ItemsStay, CalmKeeps

LEMMA LoadedKeeps ==
  ASSUME IInv, NEW t \in Thread, Loaded(t)
  PROVE  IInv'
<1>1. At(t, "list") /\ UNCHANGED <<session, run, overlap>>
  BY DEF Loaded, Answered, Failed, At, Page
<1>2. PICK list \in List : list = thread[t].items
  BY CallFields DEF IInv, TypeOK, CallsTyped
<1>3. OfItsSession(list)'
  BY <1>1, <1>2 DEF IInv, ListsTrue, CallsTrue, OfItsSession
<1>4. ASSUME overlap' = "none", thread[t].reply = "answered" PROVE Current(list)'
  <2>1. Informed(thread[t])
    BY <1>1, <1>4 DEF IInv, Sequential
  <2> QED BY <1>1, <1>2, <1>4, <2>1 DEF Informed, Current, Latest, At
<1>5. \A q : ~Unborn(thread[t], q)
  BY <1>1 DEF Unborn, At
<1>6. CallsTrue(Idle)' /\ Idle.reply = "sent" /\ ~Acting(Idle) /\ Informed(Idle)'
  BY DEF CallsTrue, OfItsSession, NoItems, Unlisted, Idle, Acting, Busy, Informed
<1>7. thread[t].flag =>
        /\ Busy(thread[t])
        /\ overlap # "disturbed" =>
             page.session = 0 /\ page.run = 0 /\ ~page.active /\ thread[t].reply # "failed"
  <2>1. thread[t].flag => Busy(thread[t])
    BY <1>1 DEF Busy, At
  <2> QED BY <1>1, <2>1, BusyFinds DEF Prepared, At
<1>8. ~thread[t].flag => ~Acting(thread[t]) /\ ~At(t, "idle")
  BY <1>1 DEF Acting, Busy, At
<1>9. CASE /\ Answered(t, "list") /\ thread[t].flag /\ items' = list
           /\ \E s \in Session : /\ list[s].listed
                                 /\ Reset(s, page.active) /\ Goes(t, Restoring(s, list[s]))
  <2>1. PICK s \in Session : list[s].listed /\ Reset(s, page.active)
                             /\ Goes(t, Restoring(s, list[s]))
    BY <1>9
  <2>2. PICK call : call = Restoring(s, list[s])
    OBVIOUS
  <2>3. /\ call.at = "restore" /\ call.reply = "sent" /\ call.items = NoItems
        /\ call.session = s /\ call.run = list[s].last /\ call.flag = list[s].ended
        /\ call \in Call /\ WellFormed(call)
    BY <2>2, RestoringIsCall
  <2>4. Moves(t, call)
    BY <2>1, <2>2, <2>3 DEF Moves, Goes
  <2>5. /\ page' = [session |-> s, run |-> 0, active |-> page.active, timeline |-> 0]
        /\ output' = [run |-> 0, progress |-> 0, cards |-> 0]
        /\ stream' = [stream EXCEPT !.open = FALSE]
    BY <2>1 DEF Reset, NoOutput
  <2>6. PageTyped'
    <3> HIDE DEF List
    <3> QED BY <1>9, <2>5 DEF PageTyped, IInv, TypeOK, OrNone
  <2>7. CallsTrue(call)'
    BY <1>3, <2>3 DEF CallsTrue, OfItsSession, NoItems, Unlisted
  <2>8. page'.session = s /\ page'.run = 0 /\ output'.run = 0 /\ ~stream'.open
    BY <2>5 DEF IInv, TypeOK, PageTyped
  <2>9. Busy(call) /\ ~stream'.open /\ Prepared(call)'
    BY <2>3, <2>8 DEF Busy, Prepared, Blank
  <2>10. ASSUME overlap' = "none" PROVE Informed(call)' /\ Current(items)'
    <3>1. Current(list)'
      BY <1>4, <1>9, <2>10 DEF Answered
    <3>2. Latest(s, call.run, call.flag)'
      BY <2>1, <2>3, <3>1 DEF Current
    <3> QED BY <1>9, <2>3, <3>1, <3>2 DEF Informed, Current, Latest
  <2>11. OfItsSession(items)'
    BY <1>3, <1>9 DEF OfItsSession
  <2> QED BY <1>1, <1>5, <1>7, <1>9, <2>3, <2>4, <2>6, <2>7, <2>9, <2>10, <2>11, BusyKeeps
<1>10. CASE Answered(t, "list") /\ items' = list /\ Goes(t, Idle)
            /\ UNCHANGED <<page, output, stream>>
  <2>1. Moves(t, Idle)
    BY <1>10, IdleIsCall DEF Moves, Goes
  <2>2. PageTyped' /\ OfItsSession(items)'
    BY <1>3, <1>10 DEF PageTyped, IInv, TypeOK, OfItsSession
  <2>3. overlap' = "none" => Current(items)'
    BY <1>4, <1>10 DEF Answered, Current, Latest
  <2>4. page' = [page EXCEPT !.timeline = page'.timeline]
    BY <1>10 DEF IInv, TypeOK, PageTyped
  <2>5. Followed => Followed'
    BY <1>1, <1>10 DEF Followed, Latest
  <2>6. CASE thread[t].flag
    <3>1. overlap' # "disturbed" => Whole' /\ Followed'
      BY <1>1, <1>7, <1>10, <2>6 DEF Whole, Followed
    <3> QED BY <1>1, <1>5, <1>6, <1>7, <2>1, <2>2, <2>3, <2>6, <3>1, BusyKeeps DEF Acting
  <2>7. CASE ~thread[t].flag
    BY <1>1, <1>6, <1>8, <1>10, <2>1, <2>2, <2>3, <2>4, <2>5, <2>7, CalmKeeps
  <2> QED BY <2>6, <2>7
<1>11. CASE Failed(t, "list") /\ Goes(t, Idle) /\ UNCHANGED <<page, output, stream, items>>
  <2>1. overlap = "disturbed" /\ overlap' = "disturbed"
    BY <1>1, <1>11 DEF Failed, IInv, TypeOK, NoneFailed
  <2>2. Moves(t, Idle)
    BY <1>11, IdleIsCall DEF Moves, Goes
  <2>3. PageTyped' /\ OfItsSession(items)'
    BY <1>1, <1>11, ItemsStay DEF PageTyped, IInv, TypeOK
  <2>4. page' = [page EXCEPT !.timeline = page'.timeline]
    BY <1>11 DEF IInv, TypeOK, PageTyped
  <2>5. CASE thread[t].flag
    BY <1>1, <1>6, <1>7, <2>1, <2>2, <2>3, <2>5, BusyKeeps
  <2>6. CASE ~thread[t].flag
    BY <1>1, <1>6, <1>8, <1>11, <2>1, <2>2, <2>3, <2>4, <2>6, CalmKeeps
  <2> QED BY <2>5, <2>6
<1> QED BY <1>2, <1>9, <1>10, <1>11 DEF Loaded

LEMMA DeletedKeeps ==
  ASSUME IInv, NEW t \in Thread, Deleted(t)
  PROVE  IInv'
<1>1. /\ At(t, "delete") /\ Acting(thread[t])
      /\ UNCHANGED <<session, run, overlap, output, items>>
  BY DEF Deleted, Answered, Failed, At, Page, Acting
<1>2. ASSUME overlap # "disturbed"
      PROVE  Whole /\ thread[t].reply # "failed" /\ \A u \in Thread : ~Busy(thread[u])
  <2>1. \A u \in Thread : ~Busy(thread[u])
    BY <1>1, <1>2 DEF IInv, Coherent, Acting, Busy, At
  <2> QED BY <1>2, <2>1 DEF IInv, Coherent, NoneFailed
<1>3. PICK call \in {Listing, Idle} :
        /\ Goes(t, call)
        /\ (call = Listing) \/ overlap = "disturbed"
        /\ \/ /\ page' = [page EXCEPT !.session = 0, !.run = 0]
              /\ stream' = [stream EXCEPT !.open = FALSE]
           \/ UNCHANGED <<page, stream>>
  <2>1. CASE Answered(t, "delete")
    BY <2>1 DEF Deleted, Answered, Failed
  <2>2. CASE Failed(t, "delete")
    BY <1>2, <2>2 DEF Deleted, Answered, Failed
  <2> QED BY <2>1, <2>2 DEF Deleted

<1>4. /\ call \in Call /\ WellFormed(call) /\ call.reply = "sent" /\ call.items = NoItems
      /\ ~Acting(call) /\ ~Busy(call) /\ call.at \in {"list", "idle"}
  <2>1. /\ Idle.reply = "sent" /\ Idle.items = NoItems
        /\ ~Acting(Idle) /\ ~Busy(Idle) /\ Idle.at = "idle"
    BY DEF Idle, Acting, Busy
  <2> QED BY <1>3, <2>1, IdleIsCall, ListingIsCall
<1>5. Moves(t, call)
  BY <1>3, <1>4 DEF Moves, Goes
<1>6. PageTyped'
  <2> HIDE DEF List
  <2> QED BY <1>1, <1>3 DEF PageTyped, IInv, TypeOK, OrNone
<1>7. CallsTrue(call)'
  BY <1>4 DEF CallsTrue, OfItsSession, NoItems, Unlisted
<1>8. /\ page'.session = 0 /\ page'.run = 0
      \/ UNCHANGED <<page, stream>>
  BY <1>3 DEF IInv, TypeOK, PageTyped
<1>9. ASSUME overlap' # "disturbed" PROVE Whole'
  BY <1>1, <1>2, <1>8, <1>9 DEF Whole, OfItsRun
<1>10. ASSUME overlap' = "none" PROVE Sequential'
  <2>1. Sequential /\ call = Listing /\ \A u \in Thread : ~Busy(thread[u])
    BY <1>1, <1>2, <1>3, <1>10 DEF IInv
  <2>2. /\ t \in Thread /\ thread'[t] = call
        /\ \A u \in Thread \ {t} : thread'[u] = thread[u]
    BY <1>5, Moved DEF IInv, TypeOK
  <2>3. Informed(call)' /\ Renewing(call)
    BY <2>1, ListingIsCall DEF Informed, Renewing
  <2>4. \A u \in Thread : \/ thread'[u] = thread[u]
                          \/ ~Busy(thread'[u]) /\ Informed(thread[u])'
    BY <1>4, <2>2, <2>3 DEF Informed, Current, Latest, AllEnded
  <2>5. \A u \in Thread : Renewing(thread[u]) => Renewing(thread'[u])
    BY <2>2, <2>3
  <2>6. Followed => Followed'
    BY <1>1, <1>8 DEF Followed, Latest
  <2>7. page'.session \in {page.session, 0}
    BY <1>8
  <2> QED BY <1>1, <2>1, <2>4, <2>5, <2>6, <2>7, CalmSequential DEF IInv, TypeOK
<1> QED BY <1>1, <1>4, <1>5, <1>6, <1>7, <1>9, <1>10, ItemsStay, ActingKeeps

-----------------------------------------------------------------------------
(* The event stream *)

\* The calls that an event starts: they fetch the result and read the list.
LEMMA HandleStarts ==
  ASSUME IInv, Handle
  PROVE  /\ \A t \in Thread :
              \/ thread'[t] = thread[t]
              \/ /\ At(t, "idle") /\ thread'[t].at \in {"fetch", "list"}
                 /\ ~Acting(thread'[t]) /\ thread'[t].reply = "sent"
                 /\ thread'[t].items = NoItems
         /\ CallsTyped'
<1> DEFINE ends == stream.seen = 1
           fetch == IF page.run = 0 THEN <<>> ELSE <<Fetching(ends)>>
<1>1. PICK calls : calls = IF ends THEN Append(fetch, Listing) ELSE fetch
  OBVIOUS
<1>2. Starts(calls)
  BY <1>1 DEF Handle
<1>3. ASSUME page.run # 0
      PROVE  /\ Fetching(ends).at = "fetch" /\ ~Acting(Fetching(ends))
             /\ Fetching(ends).reply = "sent" /\ Fetching(ends).items = NoItems
             /\ Fetching(ends) \in Call /\ WellFormed(Fetching(ends))
  <2>1. page.run \in Run
    BY <1>3 DEF IInv, TypeOK, PageTyped, OrNone
  <2> HIDE DEF List
  <2> QED BY <2>1, IdleIsCall DEF Fetching, Idle, Call, Ats, WellFormed, Acting, Busy, OrNone
<1>4. ASSUME NEW i \in DOMAIN calls
      PROVE  calls[i] = Listing \/ (page.run # 0 /\ calls[i] = Fetching(ends))
  <2>1. CASE page.run = 0
    BY <1>1, <1>4, <2>1
  <2>2. CASE page.run # 0
    <3>1. PICK f : f = Fetching(ends)
      OBVIOUS
    <3>2. PICK l : l = Listing
      OBVIOUS
    <3>3. fetch = <<f>>
      BY <2>2, <3>1
    <3>4. calls = IF ends THEN Append(<<f>>, l) ELSE <<f>>
      BY <1>1, <3>2, <3>3
    <3>5. \A j \in DOMAIN Append(<<f>>, l) : Append(<<f>>, l)[j] \in {f, l}
      OBVIOUS
    <3> HIDE DEF ends
    <3> QED BY <1>4, <2>2, <3>1, <3>2, <3>4, <3>5
  <2> QED BY <2>1, <2>2
<1> HIDE DEF ends
<1>5. ASSUME NEW t \in Thread
      PROVE  \/ thread'[t] = thread[t]
             \/ /\ At(t, "idle") /\ thread'[t].at \in {"fetch", "list"}
                /\ ~Acting(thread'[t]) /\ thread'[t].reply = "sent"
                /\ thread'[t].items = NoItems
                /\ thread'[t] \in Call /\ WellFormed(thread'[t])
  <2>1. \/ thread'[t] = thread[t]
        \/ At(t, "idle") /\ \E i \in DOMAIN calls : thread'[t] = calls[i]
    BY <1>2, StartsPlaces
  <2>2. CASE At(t, "idle") /\ \E i \in DOMAIN calls : thread'[t] = calls[i]
    <3>1. thread'[t] = Listing \/ (page.run # 0 /\ thread'[t] = Fetching(ends))
      BY <1>4, <2>2
    <3> QED BY <1>3, <2>2, <3>1, ListingIsCall
  <2> QED BY <2>1, <2>2
<1>6. thread' = [t \in Thread |-> thread'[t]]
  BY <1>2, StartsPlaces
<1>7. \A t \in Thread : thread'[t] \in Call /\ WellFormed(thread'[t])
  BY <1>5 DEF IInv, TypeOK, CallsTyped
<1>8. CallsTyped'
  <2> HIDE DEF Call
  <2> QED BY <1>6, <1>7 DEF CallsTyped
<1> QED BY <1>5, <1>8

LEMMA HandleKeeps ==
  ASSUME IInv, Handle
  PROVE  IInv'
<1> DEFINE ends == stream.seen = 1
<1>1. /\ stream.open /\ stream.run # 0 /\ stream.seen < run[stream.run].progress
      /\ stream' = [stream EXCEPT !.seen = @ + 1, !.open = ~ends]
      /\ page' = [page EXCEPT !.active = @ /\ ~ends]
      /\ UNCHANGED <<session, run, output, items, overlap>>
  BY DEF Handle
<1>2. /\ \A t \in Thread :
           \/ thread'[t] = thread[t]
           \/ /\ At(t, "idle") /\ thread'[t].at \in {"fetch", "list"}
              /\ ~Acting(thread'[t]) /\ thread'[t].reply = "sent"
              /\ thread'[t].items = NoItems
      /\ CallsTyped'
  BY HandleStarts
<1>3. stream.run \in Run /\ run[stream.run].progress \in -1..2 /\ stream.seen \in 0..2
  BY <1>1, RunFields DEF IInv, TypeOK, PageTyped, OrNone
<1>4. /\ page'.session = page.session /\ page'.run = page.run
      /\ page'.active = (page.active /\ ~ends) /\ page'.timeline = page.timeline
      /\ stream'.run = stream.run /\ stream'.open = ~ends
  BY <1>1 DEF IInv, TypeOK, PageTyped
<1>5. TypeOK'
  <2>1. stream.seen + 1 \in 0..2
    BY <1>1, <1>3
  <2>2. stream' \in [run : OrNone(Run), open : BOOLEAN, seen : 0..2]
    BY <1>1, <2>1 DEF IInv, TypeOK, PageTyped
  <2>3. page' \in [session : OrNone(Session), run : OrNone(Run), active : BOOLEAN,
                   timeline : OrNone(Session)]
    BY <1>1 DEF IInv, TypeOK, PageTyped
  <2> QED BY <1>1, <1>2, <2>2, <2>3 DEF IInv, TypeOK, ServerTyped, PageTyped
<1>6. RunsHoused'
  BY <1>1 DEF IInv, RunsHoused
<1>7. ListsTrue'
  <2>1. \A t \in Thread : thread'[t] = thread[t] \/ CallsTrue(thread[t])'
    BY <1>2 DEF CallsTrue, OfItsSession, NoItems, Unlisted
  <2> QED BY <1>1, <2>1, SameLists, ListsStayTrue DEF IInv
<1>8. ASSUME overlap # "disturbed"
      PROVE  \A u \in Thread : ~Busy(thread[u])
  BY <1>1, <1>8 DEF IInv, Coherent
<1>9. ASSUME overlap' # "disturbed" PROVE Coherent' /\ NoneFailed'
  <2>1. \A u \in Thread :
          thread'[u] = thread[u] \/ (~Acting(thread[u]) /\ ~Acting(thread'[u]))
    BY <1>2 DEF At, Acting, Busy
  <2>2. OfItsRun => OfItsRun'
    BY <1>1, <1>4 DEF OfItsRun
  <2>3. \A c \in Call : Prepared(c) => Prepared(c)'
    BY <1>1, <1>4, <2>2 DEF Prepared, Blank
  <2>4. Whole => Whole'
    BY <1>1, <1>4, <2>2 DEF Whole
  <2>5. Coherent'
    BY <1>1, <1>9, <2>1, <2>3, <2>4, OthersCoherent DEF IInv, TypeOK
  <2>6. NoneFailed'
    BY <1>1, <1>2, <1>9 DEF IInv, NoneFailed
  <2> QED BY <2>5, <2>6
<1>10. ASSUME overlap' = "none" PROVE Sequential'
  <2>1. Sequential /\ Coherent /\ \A u \in Thread : ~Busy(thread[u])
    BY <1>1, <1>8, <1>10 DEF IInv
  <2>2. \A u \in Thread : \/ thread'[u] = thread[u]
                          \/ ~Busy(thread'[u]) /\ Informed(thread[u])'
    BY <1>2 DEF Acting, Informed
  <2>3. \A u \in Thread : Renewing(thread[u]) => Renewing(thread'[u])
    BY <1>2 DEF At, Renewing
  <2>4. ASSUME Followed PROVE Followed'
    <3>1. CASE page.session = 0
      BY <1>4, <3>1 DEF Followed
    <3>2. CASE page.session # 0 /\ ~ends
      BY <1>1, <1>4, <2>4, <3>2 DEF Followed, Latest
    <3>3. CASE page.session # 0 /\ ends
      <4>1. Latest(page.session, page.run, ~page.active) /\ page.timeline = page.session
        BY <2>4, <3>3 DEF Followed
      <4>2. stream.run = page.run
        BY <2>1, <4>1 DEF Coherent, Whole, Latest
      <4>3. run[page.run].progress = 2
        BY <1>1, <1>3, <3>3, <4>2
      <4> QED BY <1>1, <1>4, <4>1, <4>3 DEF Followed, Latest
    <3> QED BY <3>1, <3>2, <3>3
  <2> QED BY <1>1, <1>4, <2>1, <2>2, <2>3, <2>4, CalmSequential DEF IInv, TypeOK
<1> QED BY <1>5, <1>6, <1>7, <1>9, <1>10 DEF IInv

-----------------------------------------------------------------------------
(* The theorems *)

LEMMA InitInv == Init => IInv
<1> SUFFICES ASSUME Init PROVE IInv
  OBVIOUS
<1>1. /\ Known \in Nat /\ MaxSessions \in Nat /\ MaxRuns \in Nat
      /\ Known <= MaxSessions /\ Known <= MaxRuns
  <2>1. {MaxSessions, MaxRuns} \in SUBSET Nat /\ {MaxSessions, MaxRuns} # {}
    BY WebAssumption
  <2>2. PICK least \in Nat : /\ least = Min({MaxSessions, MaxRuns})
                             /\ least <= MaxSessions /\ least <= MaxRuns
    BY <2>1, MinNumber
  <2> QED BY <2>2, WebAssumption
<1>2. PICK progress \in [1..Known -> {0, 2}], cards \in [1..Known -> BOOLEAN],
           succeeded \in [1..Known -> BOOLEAN] :
        run = KnownRuns(progress, cards, succeeded)
  BY DEF Init
<1>3. PICK t \in Thread :
        thread = [u \in Thread |->
                    IF u = t THEN [Idle EXCEPT !.at = "list", !.flag = TRUE] ELSE Idle]
  BY DEF Init
<1>4. /\ session = [s \in Session |-> IF s \in 1..Known THEN "there" ELSE "new"]
      /\ page = [session |-> 0, run |-> 0, active |-> FALSE, timeline |-> 0]
      /\ output = [run |-> 0, progress |-> 0, cards |-> 0]
      /\ stream = [run |-> 0, open |-> FALSE, seen |-> 0]
      /\ items = NoItems /\ overlap = "none"
  BY DEF Init, NoOutput
<1>5. 1..Known \subseteq Session /\ 1..Known \subseteq Run
  BY <1>1 DEF Session, Run
<1>6. ASSUME NEW r \in Run
      PROVE  IF r \in 1..Known THEN run[r].home = r /\ run[r].progress \in {0, 2}
                               ELSE run[r].home = 0 /\ run[r].progress = 0
  BY <1>2 DEF NoRun, KnownRuns
<1>7. PICK first : first = [Idle EXCEPT !.at = "list", !.flag = TRUE]
  OBVIOUS
<1>8. /\ first.at = "list" /\ first.flag /\ first.reply = "sent" /\ first.items = NoItems
      /\ first \in Call /\ WellFormed(first)
  <2> HIDE DEF List
  <2> QED BY <1>7, IdleIsCall DEF Idle, Call, Ats, WellFormed
<1>9. /\ thread[t] = first /\ \A u \in Thread \ {t} : thread[u] = Idle
  BY <1>3, <1>7
<1>10. Idle.at = "idle" /\ Idle.reply = "sent" /\ Idle.items = NoItems
  BY DEF Idle
<1>11. TypeOK
  <2>1. ServerTyped
    <3>1. ASSUME NEW r \in Run
          PROVE  (IF r \in 1..Known
                  THEN [home |-> r, progress |-> progress[r],
                        cards |-> cards[r], succeeded |-> succeeded[r]]
                  ELSE NoRun)
                   \in [home : OrNone(Session), progress : -1..2,
                        cards : BOOLEAN, succeeded : BOOLEAN]
      BY <1>5 DEF NoRun, OrNone
    <3>2. run \in [Run -> [home : OrNone(Session), progress : -1..2,
                           cards : BOOLEAN, succeeded : BOOLEAN]]
      BY <1>2, <3>1 DEF KnownRuns
    <3> QED BY <1>4, <3>2 DEF ServerTyped
  <2>2. PageTyped
    <3> HIDE DEF List
    <3> QED BY <1>4, IdleIsCall DEF PageTyped, OrNone
  <2>3. CallsTyped
    <3> HIDE DEF Call
    <3> QED BY <1>3, <1>7, <1>8, IdleIsCall DEF CallsTyped
  <2> QED BY <1>4, <2>1, <2>2, <2>3 DEF TypeOK
<1>12. RunsHoused
  <2>1. ASSUME NEW r \in Run
        PROVE  IF run[r].home = 0 THEN run[r].progress = 0
               ELSE /\ session[run[r].home] # "new"
                    /\ run[r].progress = -1 <=> session[run[r].home] = "deleted"
    <3>1. CASE r \in 1..Known
      <4>1. session[r] = "there" /\ r # 0
        BY <1>4, <1>5, <3>1
      <4> QED BY <1>6, <3>1, <4>1
    <3>2. CASE r \notin 1..Known
      BY <1>6, <3>2
    <3> QED BY <3>1, <3>2
  <2>2. ASSUME NEW q \in Run, NEW r \in Run, q < r, run[r].home # 0
        PROVE  run[q].home # 0
    <3>1. r \in 1..Known
      BY <1>6, <2>2
    <3>2. q \in 1..Known /\ q # 0
      BY <1>1, <2>2, <3>1 DEF Run
    <3> QED BY <1>6, <3>2
  <2> QED BY <2>1, <2>2 DEF RunsHoused
<1>13. ListsTrue
  <2>1. \A s \in Session : NoItems[s].last = 0 /\ ~NoItems[s].listed
    BY DEF NoItems, Unlisted
  <2> QED BY <1>4, <1>8, <1>9, <1>10, <2>1 DEF ListsTrue, CallsTrue, OfItsSession
<1>14. Coherent /\ NoneFailed
  <2>1. \A u \in Thread \ {t} : ~Acting(thread[u]) /\ ~Busy(thread[u])
    BY <1>9, <1>10 DEF Acting, Busy
  <2>2. Busy(thread[t]) /\ Prepared(thread[t]) /\ ~stream.open
    BY <1>4, <1>8, <1>9 DEF Busy, Prepared
  <2> QED BY <1>8, <1>9, <1>10, <2>1, <2>2 DEF Coherent, NoneFailed
<1>15. Sequential
  <2>1. \A u, v \in Thread : Busy(thread[u]) /\ u # v => At(v, "idle")
    BY <1>9, <1>10 DEF Busy, At
  <2>2. \A u \in Thread : Informed(thread[u])
    BY <1>8, <1>9, <1>10 DEF Informed
  <2>3. Current(items)
    BY <1>4 DEF Current, NoItems, Unlisted
  <2>4. \A s \in Session : session[s] = "there" => \E r \in Run : run[r].home = s
    BY <1>4, <1>5, <1>6
  <2>5. OthersEnded
    <3> SUFFICES ASSUME NEW q \in Run, NEW r \in Run, run[q].home # 0,
                        run[q].home = run[r].home, q < r
                 PROVE  FALSE
      BY DEF OthersEnded
    <3>1. run[q].home = q /\ run[r].home = r
      BY <1>6
    <3>2. q = r
      BY <3>1
    <3>3. q \in Nat
      BY Numbers
    <3> QED BY <3>2, <3>3
  <2>6. Busy(thread[t])
    BY <1>8, <1>9 DEF Busy
  <2> QED BY <2>1, <2>2, <2>3, <2>4, <2>5, <2>6 DEF Sequential
<1> QED BY <1>11, <1>12, <1>13, <1>14, <1>15 DEF IInv

LEMMA StutterInv ==
  ASSUME IInv, UNCHANGED vars
  PROVE  IInv'
<1>1. UNCHANGED <<session, run, page, output, stream, items, thread, overlap>>
  BY DEF vars
<1>2. TypeOK' /\ RunsHoused' /\ ListsTrue'
  BY <1>1 DEF IInv, TypeOK, ServerTyped, PageTyped, CallsTyped, RunsHoused, ListsTrue,
              CallsTrue, OfItsSession
<1>3. Coherent /\ NoneFailed => Coherent' /\ NoneFailed'
  BY <1>1 DEF Coherent, NoneFailed, Prepared, Whole, OfItsRun, Blank
<1>4. Sequential => Sequential'
  <2>1. (\A u \in Thread : Informed(thread[u])) => \A u \in Thread : Informed(thread[u])'
    BY <1>1 DEF Informed, Current, Latest, AllEnded
  <2> QED BY <1>1, <2>1 DEF Sequential, At, Current, Latest, OthersEnded, Followed
<1> QED BY <1>1, <1>2, <1>3, <1>4 DEF IInv

LEMMA NextInv == IInv /\ [Next]_vars => IInv'
<1> SUFFICES ASSUME IInv, [Next]_vars PROVE IInv'
  OBVIOUS
<1>1. CASE UNCHANGED vars
  BY <1>1, StutterInv
<1>2. CASE SubmitJourney \/ SubmitFollowUp \/ OpenHistory \/ Handle
  BY <1>2, SubmitJourneyKeeps, SubmitFollowUpKeeps, OpenHistoryKeeps, HandleKeeps
<1>3. CASE \E s \in Session : RestoreSession(s) \/ DeleteSession(s)
  BY <1>3, RestoreSessionKeeps, DeleteSessionKeeps
<1>4. CASE \E r \in Run : Work(r)
  BY <1>4, WorkKeeps
<1>5. CASE \E t \in Thread :
             \/ Serve(t) \/ Created(t) \/ Posted(t) \/ Watched(t) \/ Fetched(t)
             \/ Loaded(t) \/ Deleted(t)
             \/ \E arrives \in BOOLEAN :
                  Submitted(t, arrives) \/ Restored(t, arrives) \/ Refreshed(t, arrives)
  BY <1>5, ServeKeeps, CreatedKeeps, PostedKeeps, WatchedKeeps, FetchedKeeps, LoadedKeeps,
     DeletedKeeps, SubmittedKeeps, RestoredKeeps, RefreshedKeeps
<1> QED BY <1>1, <1>2, <1>3, <1>4, <1>5 DEF Next

-----------------------------------------------------------------------------
(* The cards that are shown *)

\* A version whose Tool has returned tells whether the result has cards.
Told(call) ==
  call.at \in {"fetch", "restored"} /\ call.reply = "answered" /\ call.value > 0 =>
    /\ run[call.run].progress # 0
    /\ run[call.run].cards => call.cards

\* So a version that is shown has its own cards if there are any.
OwnCards ==
  output.run # 0 /\ output.progress > 0 =>
    /\ run[output.run].progress # 0
    /\ run[output.run].cards => output.cards = output.run

\* The cards that are shown come from a Run of the session, not from a later one.
EarlierCards ==
  output.cards # 0 =>
    /\ run[output.cards].home # 0
    /\ page.session # 0 => run[output.cards].home = page.session
    /\ page.run # 0 => output.cards <= page.run

\* What is shown before a Run of another session or a new one is.
Ready(call) ==
  /\ call.at \in {"create", "restore"} => output.cards = 0
  /\ call.at = "post" /\ call.reply = "answered" => output.cards < call.value

CardsInv ==
  /\ \A t \in Thread : Told(thread[t])
  /\ OwnCards
  /\ overlap # "disturbed" => EarlierCards /\ \A t \in Thread : Ready(thread[t])

\* Runs stay at home, and once a Tool has returned the result keeps its cards.
CardsKept ==
  /\ HomesKept
  /\ \A r \in Run : run[r].progress # 0 =>
       run'[r].progress # 0 /\ run'[r].cards = run[r].cards

LEMMA SameRuns ==
  ASSUME UNCHANGED run
  PROVE  CardsKept
BY DEF CardsKept, HomesKept

LEMMA TrackedRuns ==
  ASSUME TypeOK
  PROVE  /\ output.run \in OrNone(Run) /\ output.cards \in OrNone(Run)
         /\ page.run \in OrNone(Run) /\ page.session \in OrNone(Session)
         /\ output.progress \in Nat
BY DEF TypeOK, PageTyped

\* What is true of a call stays true of it.
LEMMA ToldStays ==
  ASSUME NEW call \in Call, WellFormed(call), Told(call), CardsKept
  PROVE  Told(call)'
<1> SUFFICES ASSUME call.at \in {"fetch", "restored"}, call.reply = "answered", call.value > 0
             PROVE  run'[call.run].progress # 0 /\ (run'[call.run].cards => call.cards)
  BY DEF Told
<1>1. call.run \in Run
  BY DEF WellFormed
<1>2. run[call.run].progress # 0 /\ (run[call.run].cards => call.cards)
  BY DEF Told
<1> QED BY <1>1, <1>2 DEF CardsKept

LEMMA OwnCardsStay ==
  ASSUME TypeOK, OwnCards, CardsKept, output' = output \/ output' = NoOutput
  PROVE  OwnCards'
<1>1. CASE output' = output
  <2>1. output.run # 0 => output.run \in Run
    BY TrackedRuns DEF OrNone
  <2> QED BY <1>1, <2>1 DEF OwnCards, CardsKept
<1>2. CASE output' = NoOutput
  BY <1>2 DEF OwnCards, NoOutput
<1> QED BY <1>1, <1>2

LEMMA EarlierCardsStay ==
  ASSUME TypeOK, EarlierCards, CardsKept, output'.cards \in {0, output.cards},
         page'.session \in {0, page.session}, page'.run \in {0, page.run}
  PROVE  EarlierCards'
<1>1. output.cards # 0 => output.cards \in Run
  BY TrackedRuns DEF OrNone
<1> QED BY <1>1 DEF EarlierCards, CardsKept, HomesKept

\* A step keeps the cards in order if it does for what it changes.
LEMMA CardsStay ==
  ASSUME IInv, CardsInv, CardsKept, OwnCards',
         overlap' # "disturbed" => overlap # "disturbed" /\ EarlierCards',
         \A t \in Thread :
           \/ thread'[t] = thread[t]
           \/ Told(thread[t])' /\ (overlap' # "disturbed" => Ready(thread[t])'),
         \/ output'.cards \in {0, output.cards}
         \/ overlap' # "disturbed" =>
              \A t \in Thread : thread'[t] = thread[t] =>
                                  thread[t].at \notin {"create", "restore", "post"}
  PROVE  CardsInv'
<1>1. ASSUME NEW t \in Thread
      PROVE  Told(thread[t])' /\ (overlap' # "disturbed" => Ready(thread[t])')
  <2>1. CASE thread'[t] = thread[t]
    <3>1. PICK call \in Call : call = thread[t]
      BY DEF IInv, TypeOK, CallsTyped
    <3>2. WellFormed(call) /\ Told(call) /\ thread'[t] = call
      BY <2>1, <3>1 DEF IInv, TypeOK, CallsTyped, CardsInv
    <3>3. Told(call)'
      BY <3>2, ToldStays
    <3>4. Told(thread[t])'
      BY <3>2, <3>3 DEF Told
    <3>5. ASSUME overlap' # "disturbed" PROVE Ready(call)'
      <4>1. Ready(call)
        BY <3>1, <3>5 DEF CardsInv
      <4>2. CASE output'.cards = output.cards
        BY <4>1, <4>2 DEF Ready
      <4>3. CASE output'.cards = 0
        <5>1. call.at = "post" /\ call.reply = "answered" => call.value \in Run
          BY <3>2 DEF WellFormed
        <5>2. call.at = "post" /\ call.reply = "answered" => 0 < call.value
          BY <5>1 DEF Run
        <5> QED BY <4>3, <5>2 DEF Ready
      <4>4. CASE thread[t].at \notin {"create", "restore", "post"}
        BY <3>1, <4>4 DEF Ready
      <4> QED BY <2>1, <3>5, <4>2, <4>3, <4>4
    <3> QED BY <3>2, <3>4, <3>5 DEF Ready
  <2>2. CASE thread'[t] # thread[t]
    BY <2>2
  <2> QED BY <2>1, <2>2
<1> QED BY <1>1 DEF CardsInv

\* A call of which nothing is to be said.
Silent(call) ==
  /\ call.reply = "sent" \/ call.at \notin {"fetch", "restored"}
  /\ call.reply = "sent" \/ call.at # "post"
  /\ call.at \notin {"create", "restore"}

\* A step that adds neither cards nor a Run to the page keeps them in order.
LEMMA QuietCards ==
  ASSUME IInv, CardsInv, CardsKept, output' = output \/ output' = NoOutput,
         overlap' # "disturbed" =>
           /\ overlap # "disturbed"
           /\ \/ output'.cards = 0
              \/ page'.session \in {0, page.session} /\ page'.run \in {0, page.run},
         \A t \in Thread : \/ thread'[t] = thread[t]
                           \/ Silent(thread'[t])
                           \/ output' = NoOutput /\ thread'[t].reply = "sent"
  PROVE  CardsInv'
<1>1. OwnCards'
  BY OwnCardsStay DEF IInv, CardsInv
<1>2. output'.cards \in {0, output.cards}
  BY DEF NoOutput
<1>3. ASSUME overlap' # "disturbed" PROVE EarlierCards'
  <2>1. CASE output'.cards = 0
    BY <2>1 DEF EarlierCards
  <2>2. CASE page'.session \in {0, page.session} /\ page'.run \in {0, page.run}
    BY <1>2, <1>3, <2>2, EarlierCardsStay DEF IInv, CardsInv
  <2> QED BY <1>3, <2>1, <2>2
<1>4. ASSUME NEW t \in Thread, thread'[t] # thread[t]
      PROVE  Told(thread[t])' /\ Ready(thread[t])'
  <2>1. CASE Silent(thread'[t])
    BY <2>1 DEF Silent, Told, Ready
  <2>2. CASE output' = NoOutput /\ thread'[t].reply = "sent"
    BY <2>2 DEF NoOutput, Told, Ready
  <2> QED BY <1>4, <2>1, <2>2
<1> QED BY <1>1, <1>2, <1>3, <1>4, CardsStay

\* An action of the user clears what is shown, or leaves its session.
LEMMA StartedCards ==
  ASSUME IInv, CardsInv, Acts, NEW call, Starts(<<call>>), call.reply = "sent",
         \/ output' = NoOutput
         \/ /\ output' = output /\ Silent(call)
            /\ page'.session \in {0, page.session} /\ page'.run \in {0, page.run}
  PROVE  CardsInv'
<1>1. PICK t \in Thread : thread' = [thread EXCEPT ![t] = call]
  BY StartsOne DEF IInv
<1>2. thread'[t] = call /\ \A u \in Thread \ {t} : thread'[u] = thread[u]
  BY <1>1 DEF IInv, TypeOK, CallsTyped
<1>3. CardsKept
  BY SameRuns DEF Acts
<1>4. overlap' # "disturbed" => overlap # "disturbed"
  BY ActsMeans DEF IInv
<1> QED BY <1>2, <1>3, <1>4, QuietCards DEF NoOutput

LEMMA UserCards ==
  ASSUME IInv, CardsInv,
         \/ SubmitJourney \/ SubmitFollowUp \/ OpenHistory
         \/ \E s \in Session : RestoreSession(s) \/ DeleteSession(s)
  PROVE  CardsInv'
<1>1. CASE SubmitJourney
  <2>1. PICK call : call = [Idle EXCEPT !.at = "create"]
    OBVIOUS
  <2>2. Acts /\ Starts(<<call>>) /\ output' = NoOutput
    BY <1>1, <2>1 DEF SubmitJourney, Reset
  <2>3. call.reply = "sent"
    BY <2>1 DEF Idle
  <2> QED BY <2>2, <2>3, StartedCards
<1>2. CASE SubmitFollowUp
  <2>1. PICK call : call = [Idle EXCEPT !.at = "post", !.session = page.session, !.flag = TRUE]
    OBVIOUS
  <2>2. /\ Acts /\ Starts(<<call>>) /\ output' = output
        /\ page' = [page EXCEPT !.run = 0, !.active = TRUE]
    BY <1>2, <2>1 DEF SubmitFollowUp
  <2>3. call.reply = "sent" /\ call.at = "post"
    BY <2>1 DEF Idle
  <2>4. page'.session = page.session /\ page'.run = 0
    BY <2>2 DEF IInv, TypeOK, PageTyped
  <2> QED BY <2>2, <2>3, <2>4, StartedCards DEF Silent
<1>3. CASE OpenHistory
  BY <1>3, ListingIsCall, StartedCards DEF OpenHistory, Silent, Listing, Idle
<1>4. ASSUME NEW s \in Session, RestoreSession(s)
      PROVE  CardsInv'
  <2>1. PICK call : call = Restoring(s, items[s])
    OBVIOUS
  <2>2. Acts /\ Starts(<<call>>) /\ output' = NoOutput
    BY <1>4, <2>1 DEF RestoreSession, Reset
  <2>3. call.reply = "sent"
    BY <2>1 DEF Restoring, Idle
  <2> QED BY <2>2, <2>3, StartedCards
<1>5. ASSUME NEW s \in Session, DeleteSession(s)
      PROVE  CardsInv'
  <2>1. PICK call : call = [Idle EXCEPT !.at = "delete", !.session = s]
    OBVIOUS
  <2>2. Acts /\ Starts(<<call>>) /\ UNCHANGED <<page, output>>
    BY <1>5, <2>1 DEF DeleteSession
  <2>3. call.reply = "sent" /\ call.at = "delete"
    BY <2>1 DEF Idle
  <2> QED BY <2>2, <2>3, StartedCards DEF Silent
<1> QED BY <1>1, <1>2, <1>3, <1>4, <1>5

\* An answer keeps the cards in order if it tells the truth of them.
LEMMA AnsweredCards ==
  ASSUME IInv, CardsInv, CardsKept, NEW t \in Thread, NEW call, Moves(t, call),
         UNCHANGED <<page, output>>, overlap' # "disturbed" => overlap # "disturbed",
         Told(call)', overlap' # "disturbed" => Ready(call)'
  PROVE  CardsInv'
<1>1. thread'[t] = call /\ \A u \in Thread \ {t} : thread'[u] = thread[u]
  BY Moved DEF IInv, TypeOK
<1>2. OwnCards'
  BY OwnCardsStay DEF IInv, CardsInv
<1>3. overlap' # "disturbed" => overlap # "disturbed" /\ EarlierCards'
  BY EarlierCardsStay DEF IInv, CardsInv
<1>4. \A u \in Thread :
        \/ thread'[u] = thread[u]
        \/ Told(thread[u])' /\ (overlap' # "disturbed" => Ready(thread[u])')
  <2>1. Told(thread[t])' /\ (overlap' # "disturbed" => Ready(thread[t])')
    BY <1>1 DEF Told, Ready
  <2> QED BY <1>1, <2>1
<1> QED BY <1>2, <1>3, <1>4, CardsStay

LEMMA PostingCards ==
  ASSUME IInv, CardsInv, NEW t \in Thread, Posting(t),
         overlap' = IF thread'[t].reply = "failed" THEN "disturbed" ELSE overlap,
         UNCHANGED <<page, output, stream, items>>
  PROVE  CardsInv'
<1> DEFINE new == {r \in Run : run[r].home = 0}
<1>1. PICK m : m = Min(new)
  OBVIOUS
<1>2. PICK s : s = thread[t].session
  OBVIOUS
<1>3. m \in Run /\ run[m].home = 0 /\ run[m].progress = 0
  <2>1. new \in SUBSET Nat /\ new # {}
    BY Numbers DEF Posting
  <2>2. Min(new) \in new
    BY <2>1, MinNumber
  <2> QED BY <1>1, <2>2 DEF IInv, RunsHoused
<1>4. /\ At(t, "post") /\ run' = [run EXCEPT ![m] = [@ EXCEPT !.home = s, !.cards = Inherits(s)]]
      /\ Answers(t, m, Inherits(s), NoItems)
  BY <1>1, <1>2 DEF Posting
<1>5. \A r \in Run : r # m => run'[r] = run[r]
  BY <1>4 DEF IInv, TypeOK, ServerTyped
<1>6. CardsKept
  BY <1>3, <1>5 DEF CardsKept, HomesKept
<1>7. PICK call : Moves(t, call) /\ AnsweredAs(thread[t], call, m, Inherits(s), NoItems)
  <2>1. m \in Nat /\ Inherits(s) \in BOOLEAN
    BY <1>3, Numbers DEF Inherits
  <2> QED BY <1>3, <1>4, <2>1, AnswersMoves, IdleIsCall DEF At, IInv, TypeOK
<1>8. call.at = "post" /\ (call.reply = "answered" => call.value = m)
  BY <1>4, <1>7 DEF AnsweredAs, SameCall, At
<1>9. Told(call)'
  BY <1>8 DEF Told
<1>10. ASSUME overlap' # "disturbed" PROVE Ready(call)'
  <2>1. EarlierCards
    BY <1>10 DEF CardsInv
  <2>2. CASE output.cards = 0
    BY <1>3, <1>8, <2>2 DEF Ready, Run
  <2>3. CASE output.cards # 0
    <3>1. output.cards \in Run /\ run[output.cards].home # 0
      BY <2>1, <2>3, TrackedRuns DEF EarlierCards, IInv, OrNone
    <3>2. ~(m < output.cards) /\ m # output.cards
      BY <1>3, <3>1 DEF IInv, RunsHoused
    <3>3. m \in Nat /\ output.cards \in Nat
      BY <1>3, <3>1, Numbers
    <3>4. output.cards < m
      BY <3>2, <3>3
    <3> QED BY <1>8, <3>4 DEF Ready
  <2> QED BY <2>2, <2>3
<1> QED BY <1>6, <1>7, <1>9, <1>10, AnsweredCards

LEMMA ServeCards ==
  ASSUME IInv, CardsInv, NEW t \in Thread, Serve(t)
  PROVE  CardsInv'
<1>1. /\ overlap' = IF thread'[t].reply = "failed" THEN "disturbed" ELSE overlap
      /\ UNCHANGED <<page, output, stream, items>>
  BY ServeCases
<1>2. CASE Creating(t)
  <2>1. PICK s : s = Min({q \in Session : session[q] = "new"})
    OBVIOUS
  <2>2. s \in Session
    <3>1. /\ {q \in Session : session[q] = "new"} \in SUBSET Nat
          /\ {q \in Session : session[q] = "new"} # {}
      BY <1>2, Numbers DEF Creating
    <3>2. s \in {q \in Session : session[q] = "new"}
      BY <2>1, <3>1, MinNumber
    <3> QED BY <3>2
  <2>3. At(t, "create") /\ Answers(t, s, FALSE, NoItems) /\ UNCHANGED run
    BY <1>2, <2>1 DEF Creating
  <2>4. PICK call : Moves(t, call) /\ SameCall(thread[t], call)
    BY <2>2, <2>3, AnswersMoves, IdleIsCall, Numbers DEF At, IInv, TypeOK, AnsweredAs
  <2>5. call.at = "create"
    BY <2>3, <2>4 DEF At, SameCall
  <2>6. Told(call)'
    BY <2>5 DEF Told
  <2>7. ASSUME overlap' # "disturbed" PROVE Ready(call)'
    <3>1. Ready(thread[t])
      BY <1>1, <2>7 DEF CardsInv
    <3> QED BY <1>1, <2>3, <2>5, <3>1 DEF Ready, At
  <2> QED BY <1>1, <2>3, <2>4, <2>6, <2>7, SameRuns, AnsweredCards
<1>3. CASE Posting(t)
  BY <1>1, <1>3, PostingCards
<1>4. CASE Reading(t)
  <2>1. UNCHANGED run
    BY <1>4 DEF Reading
  <2>2. CASE /\ thread[t].at \in {"fetch", "restored"} /\ There(thread[t].run)
             /\ Answers(t, run[thread[t].run].progress, run[thread[t].run].cards, NoItems)
    <3>1. PICK r \in Run : r = thread[t].run
      BY <2>2 DEF IInv, TypeOK, CallsTyped, WellFormed
    <3>2. run[r].progress \in Nat /\ run[r].cards \in BOOLEAN
      BY <2>2, <3>1, RunFields DEF There, IInv, TypeOK
    <3>3. PICK call : /\ Moves(t, call)
                      /\ AnsweredAs(thread[t], call, run[r].progress, run[r].cards, NoItems)
      BY <2>2, <3>1, <3>2, AnswersMoves, IdleIsCall DEF IInv, TypeOK
    <3>4. /\ call.at \in {"fetch", "restored"} /\ call.run = r
          /\ call.reply = "answered" =>
               call.value = run[r].progress /\ call.cards = run[r].cards
      BY <2>2, <3>1, <3>3 DEF AnsweredAs, SameCall
    <3>5. Told(call)'
      BY <2>1, <3>2, <3>4 DEF Told
    <3>6. Ready(call)'
      BY <3>4 DEF Ready
    <3> QED BY <1>1, <2>1, <3>3, <3>5, <3>6, SameRuns, AnsweredCards
  <2>3. CASE At(t, "list") /\ Answers(t, 0, FALSE, Listed)
    <3>1. PICK call : Moves(t, call) /\ SameCall(thread[t], call)
      BY <2>3, AnswersMoves, ListedTyped DEF At, IInv, TypeOK, AnsweredAs
    <3>2. Told(call)' /\ Ready(call)'
      BY <2>3, <3>1 DEF Told, Ready, SameCall, At
    <3> QED BY <1>1, <2>1, <3>1, <3>2, SameRuns, AnsweredCards
  <2> QED BY <1>4, <2>2, <2>3 DEF Reading
<1>5. CASE Deleting(t)
  <2>1. PICK s : s = thread[t].session
    OBVIOUS
  <2>2. /\ At(t, "delete") /\ Answers(t, 0, FALSE, NoItems)
        /\ run' = [r \in Run |-> IF run[r].home = s THEN [run[r] EXCEPT !.progress = -1]
                                 ELSE run[r]]
    BY <1>5, <2>1 DEF Deleting
  <2>3. \A r \in Run : /\ run'[r].home = run[r].home /\ run'[r].cards = run[r].cards
                       /\ run'[r].progress \in {-1, run[r].progress}
    BY <2>2 DEF IInv, TypeOK, ServerTyped
  <2>4. CardsKept
    BY <2>3 DEF CardsKept, HomesKept
  <2>5. PICK call : Moves(t, call) /\ SameCall(thread[t], call)
    BY <2>2, AnswersMoves, IdleIsCall DEF At, IInv, TypeOK, AnsweredAs
  <2>6. Told(call)' /\ Ready(call)'
    BY <2>2, <2>5 DEF Told, Ready, SameCall, At
  <2> QED BY <1>1, <2>4, <2>5, <2>6, AnsweredCards
<1>6. CASE Refuses(t)
  <2>1. PICK call : Moves(t, call) /\ call.reply = "failed"
    BY <1>6, RefusesMoves DEF IInv, TypeOK
  <2>2. thread'[t].reply = "failed"
    BY <2>1, Moved DEF IInv, TypeOK
  <2>3. Told(call)'
    BY <2>1 DEF Told
  <2>4. UNCHANGED run
    BY <1>6 DEF Refuses
  <2> QED BY <1>1, <2>1, <2>2, <2>3, <2>4, SameRuns, AnsweredCards
<1> QED BY <1>2, <1>3, <1>4, <1>5, <1>6, ServeCases

LEMMA WorkCards ==
  ASSUME IInv, CardsInv, NEW r \in Run, Work(r)
  PROVE  CardsInv'
<1>1. /\ run[r].home # 0 /\ run[r].progress \in 0..1
      /\ UNCHANGED <<session, page, output, stream, items, thread, overlap>>
      /\ Works(r)
  BY WorkCases
<1>2. CardsKept
  BY <1>1 DEF CardsKept, HomesKept, Works
<1> QED BY <1>1, <1>2, QuietCards

\* A call that goes on and leaves what is shown.
LEMMA GoingOnCards ==
  ASSUME IInv, CardsInv, UNCHANGED run, NEW t \in Thread, NEW call, Goes(t, call),
         Silent(call), UNCHANGED output,
         overlap' # "disturbed" =>
           /\ overlap # "disturbed"
           /\ \/ output.cards = 0
              \/ page'.session \in {0, page.session} /\ page'.run \in {0, page.run}
  PROVE  CardsInv'
<1>1. thread'[t] = call /\ \A u \in Thread \ {t} : thread'[u] = thread[u]
  BY DEF Goes, IInv, TypeOK, CallsTyped
<1> QED BY <1>1, SameRuns, QuietCards

LEMMA CreatedCards ==
  ASSUME IInv, CardsInv, NEW t \in Thread, Created(t)
  PROVE  CardsInv'
<1>1. At(t, "create") /\ UNCHANGED <<run, overlap, output>>
  BY DEF Created, Answered, Failed, Page
<1>2. overlap # "disturbed" => output.cards = 0
  BY <1>1 DEF CardsInv, Ready, At
<1>3. PICK call \in {[Idle EXCEPT !.at = "post", !.session = thread[t].value], Idle} :
        Goes(t, call)
  BY DEF Created
<1>4. Silent(call)
  <2>1. CASE call = [Idle EXCEPT !.at = "post", !.session = thread[t].value]
    BY <2>1 DEF Silent, Idle
  <2>2. CASE call = Idle
    BY <2>2 DEF Silent, Idle
  <2> QED BY <1>3, <2>1, <2>2
<1> QED BY <1>1, <1>2, <1>3, <1>4, GoingOnCards

LEMMA TimelineCards ==
  ASSUME IInv, CardsInv, NEW t \in Thread, NEW arrives \in BOOLEAN,
         Submitted(t, arrives) \/ Restored(t, arrives) \/ Refreshed(t, arrives)
  PROVE  CardsInv'
<1>1. CASE Submitted(t, arrives)
  <2>1. /\ UNCHANGED <<run, output>> /\ Goes(t, Listing)
        /\ page' = [page EXCEPT !.timeline = Timeline(t, arrives)]
        /\ overlap' # "disturbed" => overlap # "disturbed"
    BY <1>1 DEF Submitted, Arrives
  <2>2. page'.session = page.session /\ page'.run = page.run
    BY <2>1 DEF IInv, TypeOK, PageTyped
  <2>3. Silent(Listing)
    BY ListingIsCall DEF Silent
  <2> QED BY <2>1, <2>2, <2>3, GoingOnCards
<1>2. CASE Restored(t, arrives)
  <2>1. /\ UNCHANGED <<run, output>> /\ At(t, "restore")
        /\ overlap' # "disturbed" => overlap # "disturbed"
    BY <1>2 DEF Restored, Arrives
  <2>2. overlap # "disturbed" => output.cards = 0
    BY <2>1 DEF CardsInv, Ready, At
  <2>3. PICK call \in {[Idle EXCEPT !.at = "restored", !.run = thread[t].run], Idle} :
          Goes(t, call)
    BY <1>2 DEF Restored
  <2>4. Silent(call)
    <3>1. CASE call = [Idle EXCEPT !.at = "restored", !.run = thread[t].run]
      BY <3>1 DEF Silent, Idle
    <3>2. CASE call = Idle
      BY <3>2 DEF Silent, Idle
    <3> QED BY <2>3, <3>1, <3>2
  <2> QED BY <2>1, <2>2, <2>3, <2>4, GoingOnCards
<1>3. CASE Refreshed(t, arrives)
  <2>1. /\ UNCHANGED <<run, output>> /\ Goes(t, Idle)
        /\ page' = [page EXCEPT !.timeline = Timeline(t, arrives)]
        /\ overlap' # "disturbed" => overlap # "disturbed"
    BY <1>3 DEF Refreshed, Arrives
  <2>2. page'.session = page.session /\ page'.run = page.run
    BY <2>1 DEF IInv, TypeOK, PageTyped
  <2>3. Silent(Idle)
    BY DEF Silent, Idle
  <2> QED BY <2>1, <2>2, <2>3, GoingOnCards
<1> QED BY <1>1, <1>2, <1>3

LEMMA DeletedCards ==
  ASSUME IInv, CardsInv, NEW t \in Thread, Deleted(t)
  PROVE  CardsInv'
<1>1. UNCHANGED <<run, overlap, output>>
  BY DEF Deleted, Page
<1>2. PICK call \in {Listing, Idle} : Goes(t, call)
  BY DEF Deleted
<1>3. Silent(call)
  BY <1>2, ListingIsCall DEF Silent, Idle
<1>4. page' = page \/ page' = [page EXCEPT !.session = 0, !.run = 0]
  BY DEF Deleted
<1>5. page'.session \in {0, page.session} /\ page'.run \in {0, page.run}
  BY <1>4 DEF IInv, TypeOK, PageTyped
<1> QED BY <1>1, <1>2, <1>3, <1>5, GoingOnCards

LEMMA LoadedCards ==
  ASSUME IInv, CardsInv, NEW t \in Thread, Loaded(t)
  PROVE  CardsInv'
<1>1. UNCHANGED <<run, overlap>>
  BY DEF Loaded, Page
<1>2. CASE Goes(t, Idle) /\ UNCHANGED <<page, output>>
  <2>1. Silent(Idle)
    BY DEF Silent, Idle
  <2> QED BY <1>1, <1>2, <2>1, GoingOnCards
<1>3. ASSUME NEW s \in Session, Reset(s, page.active),
             Goes(t, Restoring(s, thread[t].items[s]))
      PROVE  CardsInv'
  <2>1. output' = NoOutput
    BY <1>3 DEF Reset
  <2>2. /\ thread'[t].reply = "sent"
        /\ \A u \in Thread \ {t} : thread'[u] = thread[u]
    BY <1>3 DEF Goes, Restoring, Idle, IInv, TypeOK, CallsTyped
  <2>3. output'.cards = 0
    BY <2>1 DEF NoOutput
  <2> QED BY <1>1, <2>1, <2>2, <2>3, SameRuns, QuietCards
<1> QED BY <1>2, <1>3 DEF Loaded

LEMMA HandleCards ==
  ASSUME IInv, CardsInv, Handle
  PROVE  CardsInv'
<1>1. /\ page' = [page EXCEPT !.active = @ /\ ~(stream.seen = 1)]
      /\ UNCHANGED <<run, output, overlap>>
  BY DEF Handle
<1>2. page'.session = page.session /\ page'.run = page.run
  BY <1>1 DEF IInv, TypeOK, PageTyped
<1>3. \A t \in Thread : thread'[t] = thread[t] \/ Silent(thread'[t])
  BY HandleStarts DEF Silent
<1> QED BY <1>1, <1>2, <1>3, SameRuns, QuietCards

\* The Run of the page is one of its session, and no call is about to replace it.
LEMMA PageOfRun ==
  ASSUME IInv, overlap # "disturbed", page.run # 0
  PROVE  /\ OfItsRun
         /\ \A t \in Thread : thread[t].at \notin {"create", "restore", "post"}
<1>1. ASSUME NEW t \in Thread, Busy(thread[t])
      PROVE  OfItsRun /\ thread[t].at \notin {"create", "restore", "post"}
  <2>1. Prepared(thread[t])
    BY <1>1 DEF IInv, Coherent
  <2> QED BY <1>1, <2>1 DEF Prepared, Busy, Blank
<1>2. (\A t \in Thread : ~Busy(thread[t])) => OfItsRun
  BY DEF IInv, Coherent, Whole
<1>3. \A t \in Thread : ~Busy(thread[t]) => thread[t].at \notin {"create", "restore", "post"}
  BY DEF Busy
<1> QED BY <1>1, <1>2, <1>3

LEMMA PostedCards ==
  ASSUME IInv, CardsInv, NEW t \in Thread, Posted(t)
  PROVE  CardsInv'
<1>1. At(t, "post") /\ Busy(thread[t]) /\ UNCHANGED <<run, overlap>>
  BY DEF Posted, Answered, Failed, At, Busy, Page
<1>2. PICK call : /\ Goes(t, call) /\ call.reply = "sent"
                  /\ call.at \in {"timeline", "refresh", "idle"}
  <2>1. PICK call \in {[Idle EXCEPT !.at = "timeline", !.session = page.session,
                                   !.run = thread[t].value],
                      [Idle EXCEPT !.at = "refresh", !.session = page.session], Idle} :
          Goes(t, call)
    BY DEF Posted
  <2>2. CASE call = [Idle EXCEPT !.at = "timeline", !.session = page.session,
                                 !.run = thread[t].value]
    BY <2>1, <2>2 DEF Idle
  <2>3. CASE call = [Idle EXCEPT !.at = "refresh", !.session = page.session]
    BY <2>1, <2>3 DEF Idle
  <2>4. CASE call = Idle
    BY <2>1, <2>4 DEF Idle
  <2> QED BY <2>1, <2>2, <2>3, <2>4
<1>3. /\ thread'[t] = call /\ \A u \in Thread \ {t} : thread'[u] = thread[u]
      /\ Told(thread[t])' /\ Ready(thread[t])'
  <2>1. thread'[t] = call /\ \A u \in Thread \ {t} : thread'[u] = thread[u]
    BY <1>2 DEF Goes, IInv, TypeOK, CallsTyped
  <2> QED BY <1>2, <2>1 DEF Told, Ready
<1>4. overlap # "disturbed" =>
        \A u \in Thread : thread'[u] = thread[u] =>
                            thread[u].at \notin {"create", "restore", "post"}
  <2>1. overlap # "disturbed" =>
          \A u \in Thread \ {t} : thread[u].at \notin {"create", "restore", "post"}
    BY <1>1 DEF IInv, Coherent, Acting, Busy
  <2>2. thread'[t] # thread[t]
    BY <1>1, <1>2, <1>3 DEF At
  <2> QED BY <2>1, <2>2
<1>5. CASE Answered(t, "post")
  <2>1. PICK r \in Run : r = thread[t].value
    BY <1>5 DEF Answered, At, IInv, TypeOK, CallsTyped, WellFormed
  <2>2. /\ page' = [page EXCEPT !.run = r]
        /\ Drawn(r, 0, thread[t].cards) \/ output' = output
    BY <1>5, <2>1 DEF Posted, Answered, Failed
  <2>3. /\ output' = output \/ output'.progress = 0
        /\ output'.cards \in {r, output.cards}
    BY <2>2 DEF Drawn
  <2>4. OwnCards'
    BY <1>1, <2>3, SameRuns, OwnCardsStay DEF IInv, CardsInv, OwnCards
  <2>5. ASSUME overlap' # "disturbed" PROVE EarlierCards'
    <3>1. /\ page.session = thread[t].session /\ run[r].home = thread[t].session
          /\ page.session \in Session
      BY <1>1, <1>5, <2>1, <2>5, BusyFinds DEF Prepared, At, Answered, IInv, ListsTrue,
         CallsTrue, TypeOK, CallsTyped, WellFormed
    <3>2. EarlierCards /\ output.cards < r
      BY <1>1, <1>5, <2>1, <2>5 DEF CardsInv, Ready, Answered, At
    <3>3. page'.session = page.session /\ page'.run = r
      BY <2>2 DEF IInv, TypeOK, PageTyped
    <3>4. CASE output'.cards = r
      BY <1>1, <3>1, <3>3, <3>4, Numbers DEF EarlierCards
    <3>5. CASE output'.cards = output.cards
      <4>1. output.cards <= r
        BY <2>1, <3>2, Numbers, TrackedRuns DEF IInv, OrNone
      <4> QED BY <1>1, <3>2, <3>3, <3>5, <4>1 DEF EarlierCards
    <3> QED BY <2>3, <3>4, <3>5
  <2> QED BY <1>1, <1>3, <1>4, <2>4, <2>5, SameRuns, CardsStay
<1>6. CASE Failed(t, "post")
  <2>1. overlap = "disturbed"
    BY <1>6 DEF Failed, IInv, NoneFailed
  <2>2. output' = output
    BY <1>6 DEF Posted, Answered, Failed
  <2>3. Silent(call)
    BY <1>2 DEF Silent
  <2> QED BY <1>1, <1>2, <2>1, <2>2, <2>3, GoingOnCards
<1> QED BY <1>5, <1>6 DEF Posted

\* What fetchFinalRun draws is of the page's Run, with its cards if it has any.
LEMMA RenderedCards ==
  ASSUME IInv, CardsInv, NEW t \in Thread, thread[t].at \in {"fetch", "restored"}, Rendered(t),
         NEW call, Goes(t, call), Silent(call), UNCHANGED <<run, page, overlap>>
  PROVE  CardsInv'
<1>1. /\ thread'[t] = call /\ \A u \in Thread \ {t} : thread'[u] = thread[u]
      /\ Told(thread[t])' /\ Ready(thread[t])'
  <2>1. thread'[t] = call /\ \A u \in Thread \ {t} : thread'[u] = thread[u]
    BY DEF Goes, IInv, TypeOK, CallsTyped
  <2> QED BY <2>1 DEF Silent, Told, Ready
<1>2. CASE output' = output
  BY <1>2, GoingOnCards
<1>3. CASE /\ thread[t].reply = "answered" /\ page.run = thread[t].run
           /\ Drawn(thread[t].run, thread[t].value, thread[t].cards)
  <2>1. PICK r \in Run : r = thread[t].run
    BY DEF IInv, TypeOK, CallsTyped, WellFormed
  <2>2. /\ output'.run = r /\ output'.progress = thread[t].value
        /\ output'.cards = IF thread[t].cards THEN r ELSE output.cards
    BY <1>3, <2>1 DEF Drawn
  <2>3. OwnCards'
    <3>1. Told(thread[t])
      BY DEF CardsInv
    <3> QED BY <1>3, <2>1, <2>2, <3>1 DEF Told, OwnCards
  <2>4. ASSUME overlap' # "disturbed"
        PROVE  /\ EarlierCards'
               /\ \A u \in Thread : thread[u].at \notin {"create", "restore", "post"}
    <3>1. page.run = r /\ r # 0 /\ r \in Nat
      BY <1>3, <2>1, Numbers
    <3>2. /\ page.session # 0 /\ run[r].home = page.session
          /\ \A u \in Thread : thread[u].at \notin {"create", "restore", "post"}
      BY <2>4, <3>1, PageOfRun DEF OfItsRun
    <3>3. EarlierCards
      BY <2>4 DEF CardsInv
    <3>4. CASE output'.cards = r
      BY <3>1, <3>2, <3>4 DEF EarlierCards
    <3>5. CASE output'.cards = output.cards
      BY <3>2, <3>3, <3>5 DEF EarlierCards
    <3> QED BY <2>2, <3>4, <3>5
  <2> QED BY <1>1, <2>3, <2>4, SameRuns, CardsStay
<1> QED BY <1>2, <1>3 DEF Rendered

LEMMA FetchedCards ==
  ASSUME IInv, CardsInv, NEW t \in Thread, Watched(t) \/ Fetched(t)
  PROVE  CardsInv'
<1>1. CASE Watched(t)
  BY <1>1, RenderedCards DEF Watched, Page, Silent, Idle, At
<1>2. CASE Fetched(t)
  <2>1. PICK call \in {[Idle EXCEPT !.at = "refresh", !.session = page.session], Idle} :
          Goes(t, call)
    BY <1>2 DEF Fetched
  <2>2. Silent(call)
    <3>1. CASE call = [Idle EXCEPT !.at = "refresh", !.session = page.session]
      BY <3>1 DEF Silent, Idle
    <3>2. CASE call = Idle
      BY <3>2 DEF Silent, Idle
    <3> QED BY <2>1, <3>1, <3>2
  <2> QED BY <1>2, <2>1, <2>2, RenderedCards DEF Fetched, Page, At
<1> QED BY <1>1, <1>2

LEMMA InitCards == Init => CardsInv
<1> SUFFICES ASSUME Init PROVE CardsInv
  OBVIOUS
<1>1. output.run = 0 /\ output.cards = 0
  BY DEF Init, NoOutput
<1>2. \A t \in Thread : thread[t].at \in {"list", "idle"}
  <2>1. PICK t \in Thread :
          thread = [u \in Thread |->
                      IF u = t THEN [Idle EXCEPT !.at = "list", !.flag = TRUE] ELSE Idle]
    BY DEF Init
  <2> QED BY <2>1 DEF Idle
<1> QED BY <1>1, <1>2 DEF CardsInv, OwnCards, EarlierCards, Told, Ready

LEMMA NextCards == IInv /\ CardsInv /\ [Next]_vars => CardsInv'
<1> SUFFICES ASSUME IInv, CardsInv, [Next]_vars PROVE CardsInv'
  OBVIOUS
<1>1. CASE UNCHANGED vars
  BY <1>1, SameRuns, QuietCards DEF vars
<1>2. CASE \/ SubmitJourney \/ SubmitFollowUp \/ OpenHistory
           \/ \E s \in Session : RestoreSession(s) \/ DeleteSession(s)
  BY <1>2, UserCards
<1>3. CASE Handle \/ \E r \in Run : Work(r)
  BY <1>3, HandleCards, WorkCards
<1>4. CASE \E t \in Thread :
             \/ Serve(t) \/ Created(t) \/ Posted(t) \/ Watched(t) \/ Fetched(t)
             \/ Loaded(t) \/ Deleted(t)
             \/ \E arrives \in BOOLEAN :
                  Submitted(t, arrives) \/ Restored(t, arrives) \/ Refreshed(t, arrives)
  BY <1>4, ServeCards, CreatedCards, PostedCards, FetchedCards, LoadedCards, DeletedCards,
     TimelineCards
<1> QED BY <1>1, <1>2, <1>3, <1>4 DEF Next

-----------------------------------------------------------------------------
(* The theorems *)

\* The inductive invariant holds in every state: the page of app.js and its calls
\* agree with the server's sessions and Runs as far as actions do not overlap, and
\* the cards shown (renderRunOutput) are those of the version, or older ones of the
\* session.
THEOREM WebClientSafe == Spec => [](IInv /\ CardsInv)
<1>1. Init => IInv /\ CardsInv
  BY InitInv, InitCards
<1>2. IInv /\ CardsInv /\ [Next]_vars => IInv' /\ CardsInv'
  BY NextInv, NextCards
<1> QED BY <1>1, <1>2, PTL DEF Spec

\* Between actions of the user the Run, its stream, its result and its timeline
\* on the page (state of app.js) belong together.
THEOREM PageStaysCoherent == Spec => []PageCoherent
<1>1. IInv /\ CardsInv => PageCoherent
  <2> SUFFICES ASSUME IInv, CardsInv, overlap # "disturbed", Foreground = {}
               PROVE  /\ page.run # 0 => /\ run[page.run].home = page.session
                                         /\ stream.run = page.run
                      /\ page.active /\ page.session # 0 => stream.open
                      /\ page.run # 0 /\ output.run # 0 =>
                           /\ output.run = page.run
                           /\ output.progress > 0 /\ run[page.run].cards =>
                                output.cards = page.run
                      /\ page.run # 0 /\ output.cards # 0 =>
                           /\ output.cards <= page.run
                           /\ run[output.cards].home = page.session
                      /\ overlap = "none" /\ page.session # 0 =>
                           page.timeline = page.session
    BY DEF PageCoherent
  <2>1. \A u \in Thread : ~Busy(thread[u])
    BY DEF Foreground, Free, Background, Busy, At
  <2>2. Whole
    BY <2>1 DEF IInv, Coherent
  <2>3. overlap = "none" => Followed
    BY <2>1 DEF IInv, Sequential
  <2>4. OwnCards /\ EarlierCards
    BY DEF CardsInv
  <2>5. page.run # 0 => page.session # 0
    BY <2>2 DEF Whole, OfItsRun
  <2> QED BY <2>2, <2>3, <2>4, <2>5 DEF Whole, OfItsRun, Followed, OwnCards, EarlierCards
<1> QED BY <1>1, WebClientSafe, PTL

\* A user who waits for the page's calls never has two unfinished Runs in one
\* session: the page is free (state.runActive) only when the last has ended.
THEOREM SessionsRunOneAtATime == Spec => []OneRunAtATime
<1>1. IInv => OneRunAtATime
  <2> SUFFICES ASSUME IInv, overlap = "none", NEW s \in Session
               PROVE  Cardinality({r \in Run : There(r) /\ run[r].home = s
                                               /\ run[r].progress < 2}) <= 1
    BY DEF OneRunAtATime
  <2> DEFINE Open == {r \in Run : There(r) /\ run[r].home = s /\ run[r].progress < 2}
  <2>1. OthersEnded
    BY DEF IInv, Sequential
  <2>2. ASSUME NEW q \in Open, NEW r \in Open PROVE ~(q < r)
    <3>1. run[q].progress \notin {-1, 2}
      BY RunFields DEF There, IInv, TypeOK
    <3> QED BY <2>1, <3>1, Numbers DEF OthersEnded, There
  <2>3. \A q, r \in Open : q = r
    <3>1. \A q \in Open : q \in Nat
      BY Numbers
    <3> HIDE DEF Open
    <3> QED BY <2>2, <3>1
  <2>4. CASE Open = {}
    <3>1. Cardinality(Open) = 0
      BY <2>4, FS_EmptySet
    <3> QED BY <3>1
  <2>5. CASE Open # {}
    <3>1. PICK r : Open = {r}
      BY <2>3, <2>5
    <3>2. Cardinality(Open) = 1
      BY <3>1, FS_Singleton
    <3> QED BY <3>2
  <2> QED BY <2>4, <2>5
<1> QED BY <1>1, WebClientSafe, PTL
=============================================================================
