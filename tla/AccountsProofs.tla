--------------------------- MODULE AccountsProofs ---------------------------
(***************************************************************************)
(* TLAPS proofs about Accounts, for every number of pages, accounts,       *)
(* sessions and requests: a page acts for the account it shows, and is     *)
(* refused for its CSRF token only if it is behind.                        *)
(*                                                                         *)
(* The argument: a token reaches one page only, so the page whose token    *)
(* the cookie holds is the last that took one (TokenInv).  Had another     *)
(* page signed in since, it would have needed that cookie itself; one that *)
(* had sent its form before is what crossed records (PageInv).             *)
(***************************************************************************)
EXTENDS Accounts, TLAPS

-----------------------------------------------------------------------------
(* The inductive invariant *)

Step == {"idle", "csrf", "me", "register", "login", "logout", "act", "admitted"}
SignInStep == {"register", "login"}
GuardedStep == {"logout", "act", "admitted"}

Status == {0, 200, 204, 401, 403, 409}
Call == [step: Step, auth: 0..MaxLogins, matches: BOOLEAN, who: User \cup {NoUser},
         status: Status, token: Nat, behind: BOOLEAN, crossed: BOOLEAN]
Page == [user: User \cup {NoUser}, csrf: Nat, behind: BOOLEAN, crossed: BOOLEAN]
Session == [user: User \cup {NoUser}, live: BOOLEAN]
Jar == [auth: 0..MaxLogins, csrf: Nat]

TypeInv ==
  /\ auth \in [Token -> Session]
  /\ issued \in Nat
  /\ jar \in Jar
  /\ page \in [Tab -> Page]
  /\ call \in [Tab -> [Function -> Call]]

\* A token that was issued and has not reached the browser yet.
InFlight(c) == c.step = "csrf" /\ c.status = 200

\* A request, given the rows of auth_sessions.
CallInv(c, rows) ==
  /\ c.step = "idle" => c = Idle
  /\ c.auth # 0 => rows[c.auth].user # NoUser
  /\ c.step \in GuardedStep /\ c.matches /\ ~c.crossed /\ c.auth # 0 =>
       rows[c.auth].user = c.who
  /\ c.step = "admitted" /\ c.status = 0 => c.matches /\ c.auth # 0
  /\ c.step \in SignInStep => c.who # NoUser
  /\ c.step \in SignInStep /\ c.status = 200 =>
       c.matches /\ c.token \in Token /\ rows[c.token].user = c.who
  /\ c.step \in SignInStep \cup GuardedStep /\ ~c.matches => c.behind
  /\ c.status = 403 => c.behind

CallsInv == \A i \in Tab, f \in Function : CallInv(call[i][f], auth)

\* Every CSRF token is in one place: under way, or with one page at most.
TokenInv ==
  /\ jar.csrf <= issued
  /\ \A i \in Tab : page[i].csrf <= issued
  /\ \A i, j \in Tab : page[i].csrf = page[j].csrf /\ page[i].csrf # 0 => i = j
  /\ \A i \in Tab, f \in Function : InFlight(call[i][f]) =>
       /\ call[i][f].token \in 1..issued
       /\ call[i][f].token # jar.csrf
       /\ \A j \in Tab : page[j].csrf # call[i][f].token
       /\ \A j \in Tab, g \in Function :
            InFlight(call[j][g]) /\ call[j][g].token = call[i][f].token => i = j /\ f = g

\* The page whose token the browser holds, if it took it while nobody signed in.
Current(p, cookies) == p.csrf # 0 /\ p.csrf = cookies.csrf /\ ~p.crossed

\* A page that loads does nothing else.
LoadsAlone(p, calls) ==
  calls["boot"].step # "idle" =>
    p.user = NoUser /\ \A f \in Function \ {"boot"} : calls[f].step = "idle"

\* What the answer of me is going to say, or says.
ToldBy(c, cookies, rows) ==
  c.step = "me" /\ cookies.auth # 0 =>
    IF c.status = 0 THEN c.auth = cookies.auth
    ELSE c.who # NoUser => rows[cookies.auth].user = c.who

Shows(p, calls, cookies, rows) ==
  /\ ~p.behind => p.csrf # 0 /\ p.csrf = cookies.csrf
  /\ LoadsAlone(p, calls)
  /\ Current(p, cookies) =>
       /\ p.user # NoUser /\ cookies.auth # 0 => rows[cookies.auth].user = p.user
       /\ ToldBy(calls["boot"], cookies, rows)

\* Nobody else can sign in while the browser holds the token of a page.
Undisturbed(i) ==
  Current(page[i], jar) =>
    \A j \in Tab \ {i} : SigningIn(j) => ~call[j]["form"].matches

PageInv == \A i \in Tab : Shows(page[i], call[i], jar, auth) /\ Undisturbed(i)

AccountsInv ==
  /\ TypeInv
  /\ jar.auth # 0 => auth[jar.auth].user # NoUser
  /\ CallsInv
  /\ TokenInv
  /\ PageInv

-----------------------------------------------------------------------------
(* What a step leaves alone *)

\* Request f of page i becomes new, the others stay.
Only(i, f, new) ==
  /\ call' \in [Tab -> [Function -> Call]]
  /\ call'[i][f] = new
  /\ \A j \in Tab \ {i} : call'[j] = call[j]
  /\ \A g \in Function \ {f} : call'[i][g] = call[i][g]

LEMMA OneCall ==
  ASSUME TypeInv, NEW i \in Tab, NEW f \in Function, NEW new \in Call,
         call' = [call EXCEPT ![i][f] = new]
  PROVE  Only(i, f, new)
BY DEF TypeInv, Only

\* auth_sessions only grows, apart from live.
Grows ==
  \A t \in Token : auth[t].user # NoUser => auth'[t].user = auth[t].user

LEMMA CallStays ==
  ASSUME TypeInv, Grows, NEW c \in Call, CallInv(c, auth)
  PROVE  CallInv(c, auth')
<1>1. c.auth # 0 => c.auth \in Token
  BY DEF Call, Token
<1> QED
  BY <1>1 DEF CallInv, Grows

LEMMA JarStays ==
  ASSUME TypeInv, Grows, jar.auth # 0 => auth[jar.auth].user # NoUser
  PROVE  jar.auth # 0 => /\ jar.auth \in Token
                         /\ auth'[jar.auth].user = auth[jar.auth].user
                         /\ auth[jar.auth].user # NoUser
BY DEF TypeInv, Jar, Token, Grows

\* What the pages send first
LEMMA Requests ==
  ASSUME TypeInv, NEW cookies \in Jar, NEW p \in Page, NEW who \in User \cup {NoUser}
  PROVE  /\ Idle \in Call
         /\ \A step \in {"csrf", "me"} :
              LET c == Get(step, who, cookies) IN
              /\ c \in Call /\ c.step = step /\ c.who = who /\ c.status = 0
              /\ c.auth = IF step = "csrf" THEN 0 ELSE cookies.auth
         /\ \A step \in {"register", "login", "logout", "act"} :
              LET c == Post(step, who, cookies, p) IN
              /\ c \in Call /\ c.step = step /\ c.who = who /\ c.status = 0
              /\ c.auth = IF step \in {"login", "register"} THEN 0 ELSE cookies.auth
              /\ c.matches = (cookies.csrf # 0 /\ p.csrf # 0 /\ cookies.csrf = p.csrf)
              /\ c.behind = p.behind /\ c.crossed = p.crossed
<1>1. Idle \in Call
  BY AccountsAssumption DEF Idle, Call, Step, Status
<1>2. ASSUME NEW step \in {"csrf", "me"}
      PROVE  LET c == Get(step, who, cookies) IN
             /\ c \in Call /\ c.step = step /\ c.who = who /\ c.status = 0
             /\ c.auth = IF step = "csrf" THEN 0 ELSE cookies.auth
  <2> DEFINE c == Get(step, who, cookies)
             token == IF step = "csrf" THEN 0 ELSE cookies.auth
  <2>1. token \in 0..MaxLogins /\ step \in Step
    BY <1>2, AccountsAssumption DEF Jar, Step
  <2>2. c = [Idle EXCEPT !.step = step, !.who = who, !.auth = token]
    BY DEF Get
  <2> HIDE DEF c, token
  <2>3. c \in Call
    BY <1>1, <2>1, <2>2 DEF Call
  <2>4. c.step = step /\ c.who = who /\ c.status = 0 /\ c.auth = token
    BY <2>2 DEF Idle
  <2> QED
    BY <2>3, <2>4 DEF c, token
<1>3. ASSUME NEW step \in {"register", "login", "logout", "act"}
      PROVE  LET c == Post(step, who, cookies, p) IN
             /\ c \in Call /\ c.step = step /\ c.who = who /\ c.status = 0
             /\ c.auth = IF step \in {"login", "register"} THEN 0 ELSE cookies.auth
             /\ c.matches = (cookies.csrf # 0 /\ p.csrf # 0 /\ cookies.csrf = p.csrf)
             /\ c.behind = p.behind /\ c.crossed = p.crossed
  <2> DEFINE c == Post(step, who, cookies, p)
             token == IF step \in {"login", "register"} THEN 0 ELSE cookies.auth
             matches == TokensMatch(cookies.csrf, p.csrf)
  <2>1. /\ token \in 0..MaxLogins /\ step \in Step /\ matches \in BOOLEAN
        /\ p.behind \in BOOLEAN /\ p.crossed \in BOOLEAN
    BY <1>3, AccountsAssumption DEF Jar, Step, Page, TokensMatch
  <2>2. c = [Idle EXCEPT !.step = step, !.who = who, !.auth = token, !.matches = matches,
                         !.behind = p.behind, !.crossed = p.crossed]
    BY DEF Post
  <2> HIDE DEF c, token, matches
  <2>3. c \in Call
    BY <1>1, <2>1, <2>2 DEF Call
  <2>4. /\ c.step = step /\ c.who = who /\ c.status = 0 /\ c.auth = token
        /\ c.matches = matches /\ c.behind = p.behind /\ c.crossed = p.crossed
    BY <2>2 DEF Idle
  <2> QED
    BY <2>3, <2>4 DEF c, token, matches, TokensMatch
<1> QED
  BY <1>1, <1>2, <1>3

LEMMA OthersStay ==
  ASSUME NEW i, NEW f, NEW new, Only(i, f, new), NEW j \in Tab, NEW g \in Function
  PROVE  call'[j][g] = IF j = i /\ g = f THEN new ELSE call[j][g]
BY DEF Only

-----------------------------------------------------------------------------
(* The server *)

\* The server works on request f of page i and makes new of it.
Served(i, f, new) ==
  /\ Only(i, f, new)
  /\ jar' = jar /\ page' = page
  /\ auth' \in [Token -> Session] /\ Grows
  /\ issued' \in Nat /\ issued <= issued'
  /\ CallInv(new, auth')
  /\ call[i][f].step # "idle" /\ new.step # "idle"
  /\ new.step \in SignInStep => call[i][f].step \in SignInStep
  /\ new.matches = call[i][f].matches
  /\ InFlight(new) => new.token = issued' /\ issued < issued'
  /\ f = "boot" /\ new.step = "me" => (ToldBy(call[i][f], jar, auth) => ToldBy(new, jar, auth'))

LEMMA ServedTokens ==
  ASSUME AccountsInv, NEW i \in Tab, NEW f \in Function, NEW new, Served(i, f, new)
  PROVE  TokenInv'
<1>1. /\ jar.csrf \in Nat /\ issued \in Nat /\ issued' \in Nat /\ issued <= issued'
      /\ \A j \in Tab : page[j].csrf \in Nat
      /\ jar' = jar /\ page' = page /\ TokenInv
  BY DEF AccountsInv, TypeInv, Jar, Page, Served
<1>2. /\ jar'.csrf <= issued'
      /\ \A j \in Tab : page'[j].csrf <= issued'
      /\ \A j, k \in Tab : page'[j].csrf = page'[k].csrf /\ page'[j].csrf # 0 => j = k
  BY <1>1 DEF TokenInv
<1>3. ASSUME NEW j \in Tab, NEW g \in Function, InFlight(call'[j][g])
      PROVE  \/ /\ j = i /\ g = f /\ call'[j][g].token = issued' /\ issued < issued'
             \/ /\ ~(j = i /\ g = f) /\ call'[j][g] = call[j][g]
                /\ call[j][g].token \in 1..issued
  <2>1. CASE j = i /\ g = f
    BY <1>3, <2>1 DEF Served, Only
  <2>2. CASE ~(j = i /\ g = f)
    <3>1. call'[j][g] = call[j][g]
      BY <2>2, OthersStay DEF Served
    <3> QED
      BY <1>1, <1>3, <2>2, <3>1 DEF TokenInv
  <2> QED
    BY <2>1, <2>2
<1>4. ASSUME NEW j \in Tab, NEW g \in Function, InFlight(call'[j][g])
      PROVE  /\ call'[j][g].token \in 1..issued'
             /\ call'[j][g].token # jar'.csrf
             /\ \A k \in Tab : page'[k].csrf # call'[j][g].token
  BY <1>1, <1>3, <1>4 DEF TokenInv
<1>5. ASSUME NEW j \in Tab, NEW g \in Function, InFlight(call'[j][g]),
             NEW k \in Tab, NEW h \in Function, InFlight(call'[k][h]),
             call'[k][h].token = call'[j][g].token
      PROVE  j = k /\ g = h
  BY <1>1, <1>3, <1>5 DEF TokenInv
<1> QED
  BY <1>2, <1>4, <1>5 DEF TokenInv, InFlight

LEMMA ServedKeeps ==
  ASSUME AccountsInv, NEW i \in Tab, NEW f \in Function, NEW new, Served(i, f, new)
  PROVE  AccountsInv'
<1>1. TypeInv /\ TypeInv'
  BY DEF AccountsInv, TypeInv, Served, Only
<1>2. /\ jar' = jar /\ page' = page /\ Grows
      /\ jar.auth # 0 => /\ auth'[jar.auth].user = auth[jar.auth].user
                         /\ auth[jar.auth].user # NoUser
  BY <1>1, JarStays DEF AccountsInv, Served
<1>3. CallsInv'
  <2>1. ASSUME NEW j \in Tab, NEW g \in Function PROVE CallInv(call'[j][g], auth')
    <3>1. call[j][g] \in Call /\ CallInv(call[j][g], auth)
      BY <1>1 DEF AccountsInv, TypeInv, CallsInv
    <3>2. CallInv(call[j][g], auth')
      BY <1>1, <1>2, <3>1, CallStays
    <3> QED
      BY <3>2, OthersStay DEF Served
  <2> QED
    BY <2>1 DEF CallsInv
<1>4. ASSUME NEW j \in Tab
      PROVE  Shows(page[j], call'[j], jar, auth')
  <2>1. Shows(page[j], call[j], jar, auth)
    BY DEF AccountsInv, PageInv
  <2>2. CASE j # i
    <3>1. call'[j] = call[j]
      BY <2>2 DEF Served, Only
    <3> QED
      BY <1>2, <2>1, <3>1 DEF Shows, ToldBy
  <2>3. CASE j = i /\ f = "boot"
    <3>1. /\ \A g \in Function \ {"boot"} : call'[i][g] = call[i][g]
          /\ call'[i]["boot"] = new /\ call[i]["boot"].step # "idle"
          /\ new.step = "me" => (ToldBy(call[i]["boot"], jar, auth) => ToldBy(new, jar, auth'))
      BY <2>3 DEF Served, Only
    <3>2. LoadsAlone(page[j], call'[j])
      BY <2>1, <2>3, <3>1 DEF Shows, LoadsAlone
    <3>3. ToldBy(call[i]["boot"], jar, auth) => ToldBy(call'[i]["boot"], jar, auth')
      BY <3>1 DEF ToldBy
    <3> QED
      BY <1>2, <2>1, <2>3, <3>2, <3>3 DEF Shows
  <2>4. CASE j = i /\ f # "boot"
    <3>1. /\ "boot" \in Function /\ call'[i]["boot"] = call[i]["boot"]
          /\ call[i][f].step # "idle"
      BY <2>4 DEF Served, Only, Function
    <3>2. LoadsAlone(page[j], call'[j])
      BY <2>1, <2>4, <3>1 DEF Shows, LoadsAlone
    <3> QED
      BY <1>2, <2>1, <2>4, <3>1, <3>2 DEF Shows, ToldBy
  <2> QED
    BY <2>2, <2>3, <2>4
<1>5. ASSUME NEW j \in Tab PROVE Undisturbed(j)'
  <2>1. Undisturbed(j)
    BY DEF AccountsInv, PageInv
  <2>2. ASSUME NEW k \in Tab, SigningIn(k)'
        PROVE  SigningIn(k) /\ call'[k]["form"].matches = call[k]["form"].matches
    <3>1. "form" \in Function
      BY DEF Function
    <3>2. CASE k = i /\ f = "form"
      BY <2>2, <3>2 DEF Served, Only, SigningIn, SignInStep
    <3>3. CASE ~(k = i /\ f = "form")
      <4>1. call'[k]["form"] = call[k]["form"]
        BY <3>1, <3>3, OthersStay DEF Served
      <4> QED
        BY <2>2, <4>1 DEF SigningIn
    <3> QED
      BY <3>2, <3>3
  <2> QED
    BY <1>2, <2>1, <2>2 DEF Undisturbed
<1>6. TokenInv'
  BY ServedTokens
<1>7. PageInv'
  BY <1>2, <1>4, <1>5 DEF PageInv
<1> QED
  BY <1>1, <1>2, <1>3, <1>6, <1>7 DEF AccountsInv

\* What an answer makes of a request
LEMMA AnswerEffect ==
  ASSUME TypeInv, NEW i \in Tab, NEW f \in Function, NEW status \in Status,
         NEW token \in Nat, NEW who \in User \cup {NoUser}, Answer(i, f, status, token, who)
  PROVE  LET c == call[i][f]
             new == call'[i][f]
         IN /\ Only(i, f, new)
            /\ new.step = c.step /\ new.matches = c.matches
            /\ new.behind = c.behind /\ new.crossed = c.crossed
            /\ new.status = status /\ new.token = token /\ new.who = who /\ new.auth = 0
<1> DEFINE c == call[i][f]
           new == [c EXCEPT !.status = status, !.token = token, !.who = who, !.auth = 0]
<1>1. c \in Call
  BY DEF TypeInv
<1>2. call' = [call EXCEPT ![i][f] = new]
  BY DEF Answer
<1>3. /\ new.step = c.step /\ new.matches = c.matches
      /\ new.behind = c.behind /\ new.crossed = c.crossed
      /\ new.status = status /\ new.token = token /\ new.who = who /\ new.auth = 0
  BY <1>1 DEF Call
<1>4. 0 \in 0..MaxLogins
  BY AccountsAssumption
<1>5. new \in Call
  BY <1>1, <1>4 DEF Call
<1> HIDE DEF new, c
<1>6. Only(i, f, new)
  BY <1>2, <1>5, OneCall
<1>7. call'[i][f] = new
  BY <1>6 DEF Only
<1> QED
  BY <1>3, <1>6, <1>7 DEF c

\* When an answer is one that Served allows
Answerable(i, f, status, token, who) ==
  /\ status \in Status \ {0} /\ token \in Nat /\ who \in User \cup {NoUser}
  /\ jar' = jar /\ page' = page
  /\ auth' \in [Token -> Session] /\ Grows
  /\ issued' \in Nat /\ issued <= issued'
  /\ call[i][f].step # "idle"
  /\ call[i][f].step # "me" => who = call[i][f].who
  /\ call[i][f].step \in SignInStep /\ status = 200 =>
       call[i][f].matches /\ token \in Token /\ auth'[token].user = who
  /\ status = 403 => call[i][f].behind
  /\ call[i][f].step = "csrf" /\ status = 200 => token = issued' /\ issued < issued'
  /\ call[i][f].step = "me" /\ jar.auth # 0 /\ who # NoUser =>
       (ToldBy(call[i][f], jar, auth) => auth'[jar.auth].user = who)

LEMMA AnswerServes ==
  ASSUME AccountsInv, NEW i \in Tab, NEW f \in Function, NEW status, NEW token, NEW who,
         Answer(i, f, status, token, who), Answerable(i, f, status, token, who)
  PROVE  \E new : Served(i, f, new)
<1> DEFINE c == call[i][f]
           new == call'[i][f]
<1>1. /\ Only(i, f, new)
      /\ new.step = c.step /\ new.matches = c.matches
      /\ new.behind = c.behind /\ new.crossed = c.crossed
      /\ new.status = status /\ new.token = token /\ new.who = who /\ new.auth = 0
  BY AnswerEffect DEF AccountsInv, Answerable
<1>2. CallInv(c, auth)
  BY DEF AccountsInv, CallsInv
<1> HIDE DEF c, new
<1>3. CallInv(new, auth')
  <2>1. c.step \in SignInStep => c.step # "me"
    BY DEF SignInStep
  <2> QED
    BY <1>1, <1>2, <2>1 DEF CallInv, Answerable, c
<1>4. new.step = "me" => (ToldBy(c, jar, auth) => ToldBy(new, jar, auth'))
  BY <1>1 DEF ToldBy, Answerable, c
<1> QED
  BY <1>1, <1>3, <1>4 DEF Served, InFlight, Answerable, c

LEMMA SignInServes ==
  ASSUME AccountsInv, NEW i \in Tab, NEW f \in Function, SignIn(i, f, call[i][f].who),
         call[i][f].step \in SignInStep, call[i][f].matches,
         jar' = jar, page' = page, issued' = issued
  PROVE  \E new : Served(i, f, new)
<1> DEFINE u == call[i][f].who
<1>1. PICK t \in Unissued :
        /\ auth' = [auth EXCEPT ![t] = [user |-> u, live |-> TRUE]]
        /\ Answer(i, f, 200, t, u)
  BY DEF SignIn
<1>2. /\ t \in Token /\ auth[t].user = NoUser /\ t \in Nat
      /\ auth \in [Token -> Session] /\ issued \in Nat
      /\ u \in User \cup {NoUser}
  BY DEF Unissued, Token, AccountsInv, TypeInv, Call
<1>3. auth' \in [Token -> Session] /\ Grows /\ auth'[t].user = u
  BY <1>1, <1>2 DEF Session, Grows
<1>4. /\ call[i][f].step \notin {"idle", "me", "csrf"} /\ 200 \in Status
      /\ 200 # 0 /\ 200 # 403 /\ issued <= issued
  BY <1>2 DEF SignInStep, Status
<1>5. Answerable(i, f, 200, t, u)
  BY <1>2, <1>3, <1>4 DEF Answerable
<1> HIDE DEF u
<1> QED
  BY <1>1, <1>5, AnswerServes

LEMMA RefuseServes ==
  ASSUME AccountsInv, NEW i \in Tab, NEW f \in Function, NEW status \in {401, 403, 409},
         Refuse(i, f, status), call[i][f].step \notin {"idle", "me"},
         jar' = jar, page' = page, status = 403 => call[i][f].behind
  PROVE  \E new : Served(i, f, new)
<1>1. /\ auth' = auth /\ issued' = issued /\ auth \in [Token -> Session] /\ issued \in Nat
      /\ Answer(i, f, status, 0, call[i][f].who) /\ call[i][f].who \in User \cup {NoUser}
  BY DEF Refuse, AccountsInv, TypeInv, Call
<1>2. /\ status \in Status /\ status # 0 /\ status # 200 /\ Grows /\ issued <= issued'
  BY <1>1 DEF Status, Grows
<1>3. Answerable(i, f, status, 0, call[i][f].who)
  BY <1>1, <1>2 DEF Answerable
<1> QED
  BY <1>1, <1>3, AnswerServes

LEMMA ServeShape ==
  ASSUME AccountsInv, NEW i \in Tab, NEW f \in Function, Serve(i, f)
  PROVE  \E new : Served(i, f, new)
<1> DEFINE c == call[i][f]
<1>1. /\ c \in Call /\ CallInv(c, auth) /\ c.status = 0
      /\ jar' = jar /\ page' = page
      /\ auth \in [Token -> Session] /\ issued \in Nat
  BY DEF AccountsInv, TypeInv, CallsInv, Serve
<1>2. /\ c.who \in User \cup {NoUser} /\ c.matches \in BOOLEAN
      /\ c.auth \in 0..MaxLogins
  BY <1>1 DEF Call
<1>3. CASE c.step = "csrf" /\ IssueCsrfToken(i, f)
  <2>1. /\ issued' = issued + 1 /\ auth' = auth /\ Answer(i, f, 200, issued', c.who)
    BY <1>3 DEF IssueCsrfToken
  <2>2. /\ issued' \in Nat /\ issued < issued' /\ issued <= issued' /\ Grows
        /\ 200 \in Status /\ 200 # 0 /\ 200 # 403 /\ "csrf" \notin SignInStep
    BY <1>1, <2>1 DEF Grows, Status, SignInStep
  <2>3. Answerable(i, f, 200, issued', c.who)
    BY <1>1, <1>2, <1>3, <2>1, <2>2 DEF Answerable
  <2> QED
    BY <2>1, <2>3, AnswerServes
<1>4. CASE c.step = "me" /\ Me(i, f)
  <2>1. auth' = auth /\ issued' = issued /\ Grows /\ issued <= issued'
    BY <1>1, <1>4 DEF Me, Grows
  <2>2. 200 \in Status /\ 401 \in Status /\ "me" \notin SignInStep
    BY DEF Status, SignInStep
  <2>3. CASE Live(c.auth)
    <3>1. Answer(i, f, 200, 0, auth[c.auth].user) /\ auth[c.auth].user \in User \cup {NoUser}
      BY <1>1, <1>4, <2>3 DEF Me, Live, Session
    <3>2. jar.auth # 0 => (ToldBy(c, jar, auth) => jar.auth = c.auth)
      BY <1>1, <1>4 DEF ToldBy
    <3>3. Answerable(i, f, 200, 0, auth[c.auth].user)
      BY <1>1, <1>2, <1>4, <2>1, <2>2, <3>1, <3>2 DEF Answerable
    <3> QED
      BY <3>1, <3>3, AnswerServes
  <2>4. CASE ~Live(c.auth)
    <3>1. Answer(i, f, 401, 0, NoUser)
      BY <1>4, <2>4 DEF Me
    <3>2. Answerable(i, f, 401, 0, NoUser)
      BY <1>1, <1>2, <1>4, <2>1, <2>2 DEF Answerable
    <3> QED
      BY <3>1, <3>2, AnswerServes
  <2> QED
    BY <2>3, <2>4
<1>5. CASE c.step = "register" /\ Register(i, f)
  <2>1. c.step \in SignInStep /\ (~c.matches => c.behind)
    BY <1>1, <1>5 DEF SignInStep, CallInv
  <2> QED
    BY <1>1, <1>5, <2>1, SignInServes, RefuseServes DEF Register
<1>6. CASE c.step = "login" /\ Login(i, f)
  <2>1. c.step \in SignInStep /\ (~c.matches => c.behind)
    BY <1>1, <1>6 DEF SignInStep, CallInv
  <2> QED
    BY <1>1, <1>6, <2>1, SignInServes, RefuseServes DEF Login
<1>7. CASE c.step \in {"logout", "act"} /\ Admit(i, f)
  <2>1. c.step \in GuardedStep /\ (~c.matches => c.behind)
    BY <1>1, <1>7 DEF GuardedStep, CallInv
  <2>2. CASE Refuse(i, f, 401) \/ (~c.matches /\ Refuse(i, f, 403))
    BY <1>1, <1>7, <2>1, <2>2, RefuseServes
  <2>3. CASE /\ c.matches /\ Live(c.auth)
             /\ call' = [call EXCEPT ![i][f].step = "admitted"]
             /\ UNCHANGED <<accounts, auth, issued>>
    <3> DEFINE new == [c EXCEPT !.step = "admitted"]
    <3>1. /\ "admitted" \in Step
          /\ c.auth # 0
      BY <2>3 DEF Step, Live, Token
    <3>2. /\ new \in Call /\ new.step = "admitted" /\ new.matches = c.matches
          /\ new.behind = c.behind /\ new.crossed = c.crossed /\ new.auth = c.auth
          /\ new.who = c.who /\ new.status = c.status
      BY <1>1, <3>1 DEF Call
    <3>3. call' = [call EXCEPT ![i][f] = new]
      BY <2>3
    <3> HIDE DEF new, c
    <3>4. Only(i, f, new)
      BY <3>2, <3>3, OneCall DEF AccountsInv
    <3>5. CallInv(new, auth)
      BY <1>1, <2>1, <2>3, <3>1, <3>2 DEF CallInv, SignInStep, GuardedStep
    <3>6. Served(i, f, new)
      BY <1>1, <1>7, <2>3, <3>2, <3>4, <3>5 DEF Served, Grows, SignInStep, InFlight, c
    <3> QED
      BY <3>6
  <2> QED
    BY <1>7, <2>2, <2>3 DEF Admit
<1>8. CASE c.step = "admitted" /\ Perform(i, f)
  <2>1. /\ Answer(i, f, 204, 0, c.who) /\ issued' = issued
        /\ auth' = IF f = "logout" /\ Live(c.auth) THEN [auth EXCEPT ![c.auth].live = FALSE] ELSE auth
    BY <1>8 DEF Perform
  <2>2. auth' \in [Token -> Session] /\ Grows
    BY <1>1, <2>1 DEF Session, Grows, Live
  <2>3. 204 \in Status /\ c.step \notin SignInStep
    BY <1>8 DEF Status, SignInStep
  <2>4. Answerable(i, f, 204, 0, c.who)
    BY <1>1, <1>2, <1>8, <2>1, <2>2, <2>3 DEF Answerable
  <2> QED
    BY <2>1, <2>4, AnswerServes
<1> QED
  BY <1>3, <1>4, <1>5, <1>6, <1>7, <1>8 DEF Serve

-----------------------------------------------------------------------------
(* The pages *)

\* Function f of page i goes on with new, the page becomes p, and the browser
\* keeps the CSRF token it has.
Paged(i, f, p, new) ==
  /\ Only(i, f, new) /\ ~InFlight(new) /\ CallInv(new, auth)
  /\ p \in Page /\ page' = [page EXCEPT ![i] = p]
  /\ auth' = auth /\ issued' = issued
  /\ jar' \in Jar /\ jar'.csrf = jar.csrf
  /\ jar'.auth # 0 => auth[jar'.auth].user # NoUser
  /\ p.csrf = 0 \/ (p.csrf = page[i].csrf /\ p.crossed = page[i].crossed)
  /\ Shows(p, call'[i], jar', auth)
  /\ jar'.auth \in {0, jar.auth} \/ \A j \in Tab \ {i} : ~Current(page[j], jar)
  /\ f = "form" /\ new.step \in SignInStep /\ new.matches =>
       \A j \in Tab \ {i} : ~Current(page[j], jar)

LEMMA PagedKeeps ==
  ASSUME AccountsInv, NEW i \in Tab, NEW f \in Function, NEW p, NEW new, Paged(i, f, p, new)
  PROVE  AccountsInv'
<1>1. TypeInv /\ TypeInv'
  BY DEF AccountsInv, TypeInv, Paged, Only
<1>2. /\ auth' = auth /\ issued' = issued /\ jar'.csrf = jar.csrf
      /\ page'[i] = p /\ \A j \in Tab \ {i} : page'[j] = page[j] /\ call'[j] = call[j]
      /\ p.csrf = 0 \/ (p.csrf = page[i].csrf /\ p.crossed = page[i].crossed)
  BY <1>1 DEF TypeInv, Paged, Only
<1>3. CallsInv'
  <2>1. ASSUME NEW j \in Tab, NEW g \in Function PROVE CallInv(call'[j][g], auth)
    BY OthersStay DEF Paged, AccountsInv, CallsInv
  <2> QED
    BY <1>2, <2>1 DEF CallsInv
<1>4. TokenInv'
  <2>1. /\ TokenInv /\ issued \in Nat /\ jar.csrf \in Nat
        /\ \A j \in Tab : page'[j].csrf = page[j].csrf \/ page'[j].csrf = 0
    BY <1>1, <1>2 DEF AccountsInv, TypeInv, Jar
  <2>2. /\ jar'.csrf <= issued'
        /\ \A j \in Tab : page'[j].csrf <= issued'
        /\ \A j, k \in Tab : page'[j].csrf = page'[k].csrf /\ page'[j].csrf # 0 => j = k
    BY <1>2, <2>1 DEF TokenInv
  <2>3. ASSUME NEW j \in Tab, NEW g \in Function, InFlight(call'[j][g])
        PROVE  call'[j][g] = call[j][g] /\ InFlight(call[j][g])
    BY <2>3, OthersStay DEF Paged
  <2>4. ASSUME NEW j \in Tab, NEW g \in Function, InFlight(call'[j][g])
        PROVE  /\ call'[j][g].token \in 1..issued'
               /\ call'[j][g].token # jar'.csrf
               /\ \A k \in Tab : page'[k].csrf # call'[j][g].token
    BY <1>2, <2>1, <2>3, <2>4 DEF TokenInv
  <2>5. ASSUME NEW j \in Tab, NEW g \in Function, InFlight(call'[j][g]),
               NEW k \in Tab, NEW h \in Function, InFlight(call'[k][h]),
               call'[k][h].token = call'[j][g].token
        PROVE  j = k /\ g = h
    BY <2>1, <2>3, <2>5 DEF TokenInv
  <2> QED
    BY <2>2, <2>4, <2>5 DEF TokenInv, InFlight
<1>5. ASSUME NEW j \in Tab PROVE Shows(page'[j], call'[j], jar', auth)
  <2>1. CASE j = i
    BY <1>2, <2>1 DEF Paged
  <2>2. CASE j # i
    <3>1. /\ Shows(page[j], call[j], jar, auth)
          /\ page'[j] = page[j] /\ call'[j] = call[j]
          /\ Current(page[j], jar) => jar'.auth \in {0, jar.auth}
      BY <1>2, <2>2 DEF Paged, AccountsInv, PageInv
    <3>2. Current(page[j], jar') => Current(page[j], jar)
      BY <1>2 DEF Current
    <3> QED
      BY <1>2, <3>1, <3>2 DEF Shows, ToldBy
  <2> QED
    BY <2>1, <2>2
<1>6. ASSUME NEW j \in Tab PROVE Undisturbed(j)'
  <2>1. SUFFICES ASSUME Current(page'[j], jar'), NEW k \in Tab \ {j}, SigningIn(k)'
                 PROVE  ~call'[k]["form"].matches
    BY DEF Undisturbed
  <2>2. Current(page[j], jar)
    BY <1>1, <1>2, <2>1 DEF Current, TypeInv, Jar
  <2>3. "form" \in Function
    BY DEF Function
  <2>4. CASE k = i /\ f = "form"
    <3>1. call'[k]["form"] = new /\ new.step \in SignInStep /\ j \in Tab \ {i}
      BY <2>1, <2>4 DEF Paged, Only, SigningIn, SignInStep
    <3> QED
      BY <2>2, <2>4, <3>1 DEF Paged
  <2>5. CASE ~(k = i /\ f = "form")
    <3>1. call'[k]["form"] = call[k]["form"]
      BY <2>3, <2>5, OthersStay DEF Paged
    <3> QED
      BY <2>1, <2>2, <3>1 DEF AccountsInv, PageInv, Undisturbed, SigningIn
  <2> QED
    BY <2>4, <2>5
<1>7. PageInv'
  BY <1>2, <1>5, <1>6 DEF PageInv
<1>8. jar'.auth # 0 => auth'[jar'.auth].user # NoUser
  BY DEF Paged
<1> QED
  BY <1>1, <1>3, <1>4, <1>7, <1>8 DEF AccountsInv

\* The CSRF token of request f reaches the browser: every other page is behind.
Rekeyed(i, f, p, new) ==
  LET token == call[i][f].token IN
  /\ InFlight(call[i][f])
  /\ Only(i, f, new) /\ ~InFlight(new) /\ CallInv(new, auth)
  /\ jar' = [jar EXCEPT !.csrf = token]
  /\ p \in Page
  /\ page' = [j \in Tab |-> IF j = i THEN p ELSE [page[j] EXCEPT !.behind = TRUE]]
  /\ auth' = auth /\ issued' = issued
  /\ p.csrf \in {token, page[i].csrf, 0}
  /\ p.csrf = token => p.crossed \/ \A j \in Tab \ {i} : ~SigningIn(j)
  /\ Shows(p, call'[i], jar', auth)

LEMMA RekeyedKeeps ==
  ASSUME AccountsInv, NEW i \in Tab, NEW f \in Function, NEW p, NEW new, Rekeyed(i, f, p, new)
  PROVE  AccountsInv'
<1> DEFINE token == call[i][f].token
<1>1. /\ TypeInv /\ TokenInv /\ InFlight(call[i][f])
      /\ token \in Nat /\ token \in 1..issued /\ token # jar.csrf
      /\ \A j \in Tab : page[j].csrf # token
  BY DEF AccountsInv, TypeInv, Call, TokenInv, Rekeyed
<1>2. /\ auth' = auth /\ issued' = issued /\ jar' \in Jar
      /\ jar'.csrf = token /\ jar'.auth = jar.auth
  BY <1>1 DEF TypeInv, Jar, Rekeyed
<1>3. /\ page'[i] = p /\ p \in Page /\ p.csrf \in {token, page[i].csrf, 0}
      /\ p.csrf = token => p.crossed \/ \A j \in Tab \ {i} : ~SigningIn(j)
  BY DEF Rekeyed
<1>4. ASSUME NEW j \in Tab \ {i}
      PROVE  /\ call'[j] = call[j] /\ page'[j] \in Page
             /\ page'[j].behind /\ page'[j].csrf = page[j].csrf
             /\ page'[j].user = page[j].user
  <2>1. page[j] \in Page /\ page'[j] = [page[j] EXCEPT !.behind = TRUE]
    BY <1>1 DEF TypeInv, Rekeyed
  <2>2. call'[j] = call[j]
    BY DEF Rekeyed, Only
  <2> QED
    BY <2>1, <2>2 DEF Page
<1> HIDE DEF token
<1>5. TypeInv'
  <2>1. page' \in [Tab -> Page]
    BY <1>3, <1>4 DEF Rekeyed
  <2>2. call' \in [Tab -> [Function -> Call]]
    BY DEF Rekeyed, Only
  <2> QED
    BY <1>1, <1>2, <2>1, <2>2 DEF TypeInv
<1>6. CallsInv'
  <2>1. ASSUME NEW j \in Tab, NEW g \in Function PROVE CallInv(call'[j][g], auth)
    BY OthersStay DEF Rekeyed, AccountsInv, CallsInv
  <2> QED
    BY <1>2, <2>1 DEF CallsInv
<1>7. TokenInv'
  <2>1. \A j \in Tab : /\ page'[j].csrf \in {token, page[j].csrf, 0}
                       /\ page'[j].csrf = token => j = i
    BY <1>1, <1>3, <1>4
  <2>2. issued \in Nat
    BY <1>1 DEF TypeInv
  <2>3. /\ jar'.csrf <= issued'
        /\ \A j \in Tab : page'[j].csrf <= issued'
        /\ \A j, k \in Tab : page'[j].csrf = page'[k].csrf /\ page'[j].csrf # 0 => j = k
    BY <1>1, <1>2, <2>1, <2>2 DEF TokenInv
  <2>4. ASSUME NEW j \in Tab, NEW g \in Function, InFlight(call'[j][g])
        PROVE  /\ call'[j][g] = call[j][g] /\ InFlight(call[j][g])
               /\ call[j][g].token # token
    <3>1. /\ call'[j][g] = call[j][g] /\ InFlight(call[j][g]) /\ ~(j = i /\ g = f)
      BY <2>4, OthersStay DEF Rekeyed
    <3> QED
      BY <1>1, <3>1 DEF TokenInv, token
  <2>5. ASSUME NEW j \in Tab, NEW g \in Function, InFlight(call'[j][g])
        PROVE  /\ call'[j][g].token \in 1..issued'
               /\ call'[j][g].token # jar'.csrf
               /\ \A k \in Tab : page'[k].csrf # call'[j][g].token
    BY <1>1, <1>2, <2>1, <2>2, <2>4, <2>5 DEF TokenInv
  <2>6. ASSUME NEW j \in Tab, NEW g \in Function, InFlight(call'[j][g]),
               NEW k \in Tab, NEW h \in Function, InFlight(call'[k][h]),
               call'[k][h].token = call'[j][g].token
        PROVE  j = k /\ g = h
    BY <1>1, <2>4, <2>6 DEF TokenInv
  <2> QED
    BY <2>3, <2>5, <2>6 DEF TokenInv, InFlight
<1>8. ASSUME NEW j \in Tab PROVE Shows(page'[j], call'[j], jar', auth)
  <2>1. CASE j = i
    BY <1>3, <2>1 DEF Rekeyed
  <2>2. CASE j # i
    <3>1. LoadsAlone(page[j], call[j])
      BY DEF AccountsInv, PageInv, Shows
    <3>2. ~Current(page'[j], jar')
      BY <1>1, <1>2, <1>4, <2>2 DEF Current
    <3> QED
      BY <1>4, <2>2, <3>1, <3>2 DEF Shows, LoadsAlone
  <2> QED
    BY <2>1, <2>2
<1>9. ASSUME NEW j \in Tab PROVE Undisturbed(j)'
  <2>1. SUFFICES ASSUME Current(page'[j], jar'), NEW k \in Tab \ {j}, SigningIn(k)'
                 PROVE  ~call'[k]["form"].matches
    BY DEF Undisturbed
  <2>2. page'[j].csrf = token /\ ~page'[j].crossed
    BY <1>2, <2>1 DEF Current
  <2>3. j = i
    BY <1>1, <1>4, <2>2
  <2>4. call'[k] = call[k]
    BY <1>4, <2>3
  <2>5. ~SigningIn(k)
    BY <1>3, <2>2, <2>3
  <2> QED
    BY <2>1, <2>4, <2>5 DEF SigningIn
<1>10. PageInv'
  BY <1>2, <1>8, <1>9 DEF PageInv
<1>11. jar'.auth # 0 => auth'[jar'.auth].user # NoUser
  BY <1>2 DEF AccountsInv
<1> QED
  BY <1>5, <1>6, <1>7, <1>10, <1>11 DEF AccountsInv

\* The requests a page starts with, and being done
LEMMA Harmless ==
  ASSUME AccountsInv, NEW cookies \in Jar
  PROVE  LET get == Get("csrf", NoUser, cookies) IN
         /\ Idle \in Call /\ Idle.step = "idle" /\ Idle.status = 0
         /\ ~InFlight(Idle) /\ CallInv(Idle, auth)
         /\ get \in Call /\ get.step = "csrf" /\ ~InFlight(get) /\ CallInv(get, auth)
<1> DEFINE get == Get("csrf", NoUser, cookies)
<1>1. PICK p : p \in Page
  <2>1. NoPage \in Page
    BY DEF NoPage, Page
  <2> QED
    BY <2>1
<1>2. TypeInv /\ NoUser \in User \cup {NoUser}
  BY DEF AccountsInv
<1>3. /\ Idle \in Call
      /\ get \in Call /\ get.step = "csrf" /\ get.status = 0 /\ get.auth = 0
  BY <1>1, <1>2, Requests
<1>4. /\ Idle.step = "idle" /\ Idle.status = 0 /\ Idle.auth = 0
  BY DEF Idle
<1> HIDE DEF get
<1>5. ~InFlight(Idle) /\ CallInv(Idle, auth)
  BY <1>4 DEF InFlight, CallInv, GuardedStep, SignInStep
<1>6. ~InFlight(get) /\ CallInv(get, auth)
  BY <1>3 DEF InFlight, CallInv, GuardedStep, SignInStep
<1> QED
  BY <1>3, <1>4, <1>5, <1>6 DEF get

\* Whoever does something else than to load has loaded.
LEMMA Loaded ==
  ASSUME AccountsInv, NEW i \in Tab, NEW f \in Function \ {"boot"}, NEW new, Only(i, f, new),
         \/ call[i][f].step # "idle"
         \/ page[i].user # NoUser
         \/ call[i]["boot"].step = "idle"
  PROVE  call'[i]["boot"].step = "idle"
<1>1. "boot" \in Function /\ LoadsAlone(page[i], call[i])
  BY DEF Function, AccountsInv, PageInv, Shows
<1>2. call[i]["boot"].step = "idle"
  BY <1>1 DEF LoadsAlone
<1> QED
  BY <1>1, <1>2 DEF Only

\* What has to be shown of a page that has loaded
LEMMA ShowsLoaded ==
  ASSUME NEW p, NEW calls, NEW cookies, NEW rows, calls["boot"].step = "idle",
         ~p.behind => p.csrf # 0 /\ p.csrf = cookies.csrf,
         Current(p, cookies) /\ p.user # NoUser /\ cookies.auth # 0 =>
           rows[cookies.auth].user = p.user
  PROVE  Shows(p, calls, cookies, rows)
BY DEF Shows, LoadsAlone, ToldBy

\* The facts about page i and its request f that its actions start from
LEMMA PageFacts ==
  ASSUME AccountsInv, NEW i \in Tab, NEW f \in Function
  PROVE  /\ TypeInv /\ jar \in Jar /\ page[i] \in Page /\ call[i][f] \in Call
         /\ jar.auth # 0 => auth[jar.auth].user # NoUser
         /\ CallInv(call[i][f], auth) /\ Shows(page[i], call[i], jar, auth)
         /\ call[i][f].status # 0 => call[i][f].step # "idle"
<1>1. /\ TypeInv /\ jar \in Jar /\ page[i] \in Page /\ call[i][f] \in Call
      /\ jar.auth # 0 => auth[jar.auth].user # NoUser
      /\ CallInv(call[i][f], auth) /\ Shows(page[i], call[i], jar, auth)
  BY DEF AccountsInv, TypeInv, CallsInv, PageInv
<1>2. call[i][f].step = "idle" => call[i][f].status = 0
  BY <1>1 DEF CallInv, Idle
<1> QED
  BY <1>1, <1>2

LEMMA SubmitAuthShape ==
  ASSUME AccountsInv, NEW i \in Tab, NEW u \in User, NEW mode \in {"login", "register"},
         SubmitAuth(i, u, mode)
  PROVE  \E new : Paged(i, "form", page[i], new)
<1> DEFINE get == Get("csrf", NoUser, jar)
           post == Post(mode, u, jar, page[i])
           new == IF page[i].csrf = 0 THEN get ELSE post
<1>1. "form" \in Function \ {"boot"} /\ "boot" \in Function
  BY DEF Function
<1>2. /\ TypeInv /\ jar \in Jar /\ page[i] \in Page
      /\ jar.auth # 0 => auth[jar.auth].user # NoUser
      /\ Shows(page[i], call[i], jar, auth)
  BY <1>1, PageFacts
<1>3. get \in Call /\ get.step = "csrf" /\ ~InFlight(get) /\ CallInv(get, auth)
  BY <1>2, Harmless
<1>4. /\ post \in Call /\ post.step = mode /\ post.who = u /\ post.status = 0 /\ post.auth = 0
      /\ post.matches = (jar.csrf # 0 /\ page[i].csrf # 0 /\ jar.csrf = page[i].csrf)
      /\ post.behind = page[i].behind
  BY <1>2, Requests
<1>5. /\ page' = [page EXCEPT ![i] = page[i]] /\ call' = [call EXCEPT ![i]["form"] = new]
      /\ auth' = auth /\ issued' = issued /\ jar' = jar /\ call[i]["boot"] = Idle
  BY DEF SubmitAuth, Onward
<1> HIDE DEF get, post
<1>6. CallInv(post, auth) /\ ~InFlight(post)
  <2>1. ~post.matches => post.behind
    BY <1>2, <1>4 DEF Shows
  <2>2. post.who # NoUser /\ mode \in SignInStep /\ mode \notin GuardedStep
    BY <1>4, AccountsAssumption DEF SignInStep, GuardedStep
  <2> QED
    BY <1>4, <2>1, <2>2 DEF CallInv, InFlight, SignInStep
<1>7. new \in Call /\ ~InFlight(new) /\ CallInv(new, auth)
  BY <1>3, <1>4, <1>6
<1>8. ASSUME new.step \in SignInStep, new.matches, NEW j \in Tab \ {i}
      PROVE  ~Current(page[j], jar)
  <2>1. jar.csrf # 0 /\ jar.csrf = page[i].csrf
    BY <1>3, <1>4, <1>8 DEF SignInStep
  <2> QED
    BY <2>1 DEF AccountsInv, TokenInv, Current
<1> HIDE DEF new
<1>9. Only(i, "form", new)
  BY <1>1, <1>2, <1>5, <1>7, OneCall
<1>10. call'[i]["boot"].step = "idle"
  <2>1. call[i]["boot"].step = "idle"
    BY <1>5 DEF Idle
  <2> QED
    BY <1>1, <1>9, <2>1, Loaded
<1>11. Shows(page[i], call'[i], jar, auth)
  BY <1>2, <1>10, ShowsLoaded DEF Shows
<1> QED
  BY <1>2, <1>5, <1>7, <1>8, <1>9, <1>11 DEF Paged

LEMMA ClickShape ==
  ASSUME AccountsInv, NEW i \in Tab, NEW f \in {"logout", "act"}, Click(i, f)
  PROVE  \E new : Paged(i, f, page[i], new)
<1> DEFINE new == Post(f, page[i].user, jar, page[i])
<1>1. f \in Function \ {"boot"}
  BY DEF Function
<1>2. /\ TypeInv /\ jar \in Jar /\ page[i] \in Page
      /\ jar.auth # 0 => auth[jar.auth].user # NoUser
      /\ Shows(page[i], call[i], jar, auth) /\ page[i].user \in User \cup {NoUser}
  BY <1>1, PageFacts DEF Page
<1>3. /\ new \in Call /\ new.step = f /\ new.who = page[i].user /\ new.status = 0
      /\ new.auth = jar.auth
      /\ new.matches = (jar.csrf # 0 /\ page[i].csrf # 0 /\ jar.csrf = page[i].csrf)
      /\ new.behind = page[i].behind /\ new.crossed = page[i].crossed
  BY <1>2, Requests
<1>4. /\ page' = [page EXCEPT ![i] = page[i]] /\ call' = [call EXCEPT ![i][f] = new]
      /\ auth' = auth /\ issued' = issued /\ jar' = jar /\ page[i].user # NoUser
  BY DEF Click, Onward
<1> HIDE DEF new
<1>5. CallInv(new, auth) /\ ~InFlight(new)
  <2>1. ~new.matches => new.behind
    BY <1>2, <1>3 DEF Shows
  <2>2. new.matches /\ ~new.crossed /\ new.auth # 0 => auth[new.auth].user = new.who
    BY <1>2, <1>3, <1>4 DEF Shows, Current
  <2> QED
    BY <1>2, <1>3, <2>1, <2>2 DEF CallInv, InFlight, SignInStep
<1>6. Only(i, f, new)
  BY <1>1, <1>2, <1>3, <1>4, OneCall
<1>7. call'[i]["boot"].step = "idle"
  BY <1>1, <1>4, <1>6, Loaded
<1>8. Shows(page[i], call'[i], jar, auth)
  BY <1>2, <1>7, ShowsLoaded DEF Shows
<1>9. f # "form"
  OBVIOUS
<1> QED
  BY <1>2, <1>3, <1>4, <1>5, <1>6, <1>8, <1>9 DEF Paged

LEMMA BootstrappedShape ==
  ASSUME AccountsInv, NEW i \in Tab, Bootstrapped(i)
  PROVE  \E p, new : Paged(i, "boot", p, new)
<1> DEFINE c == call[i]["boot"]
           p == [page[i] EXCEPT !.user = c.who]
<1>1. "boot" \in Function
  BY DEF Function
<1>2. /\ TypeInv /\ jar \in Jar /\ page[i] \in Page /\ c \in Call
      /\ jar.auth # 0 => auth[jar.auth].user # NoUser
      /\ Shows(page[i], call[i], jar, auth)
  BY <1>1, PageFacts
<1>3. Idle \in Call /\ Idle.step = "idle" /\ ~InFlight(Idle) /\ CallInv(Idle, auth)
  BY <1>2, Harmless
<1>4. /\ c.step = "me" /\ c.status # 0
      /\ page' = [page EXCEPT ![i] = p] /\ call' = [call EXCEPT ![i]["boot"] = Idle]
      /\ auth' = auth /\ issued' = issued /\ jar' = jar
  BY DEF Bootstrapped, Onward
<1>5. /\ p \in Page /\ p.csrf = page[i].csrf /\ p.behind = page[i].behind
      /\ p.crossed = page[i].crossed /\ p.user = c.who
  BY <1>2 DEF Page, Call
<1> HIDE DEF p, c
<1>6. Only(i, "boot", Idle)
  BY <1>1, <1>2, <1>3, <1>4, OneCall
<1>7. call'[i]["boot"].step = "idle"
  BY <1>3, <1>6 DEF Only
<1>8. Current(p, jar) /\ p.user # NoUser /\ jar.auth # 0 => auth[jar.auth].user = p.user
  BY <1>2, <1>4, <1>5 DEF Shows, Current, ToldBy, c
<1>9. Shows(p, call'[i], jar, auth)
  <2>1. ~p.behind => p.csrf # 0 /\ p.csrf = jar.csrf
    BY <1>2, <1>5 DEF Shows
  <2> QED
    BY <1>7, <1>8, <2>1, ShowsLoaded
<1> QED
  BY <1>2, <1>3, <1>4, <1>5, <1>6, <1>9 DEF Paged

LEMMA SignedInShape ==
  ASSUME AccountsInv, NEW i \in Tab, SignedIn(i)
  PROVE  \E p, new : Paged(i, "form", p, new)
<1> DEFINE c == call[i]["form"]
           p == IF c.status = 200 THEN [page[i] EXCEPT !.user = c.who] ELSE page[i]
           cookies == IF c.status = 200 THEN [jar EXCEPT !.auth = c.token] ELSE jar
<1>1. "form" \in Function \ {"boot"}
  BY DEF Function
<1>2. /\ TypeInv /\ jar \in Jar /\ page[i] \in Page /\ c \in Call
      /\ jar.auth # 0 => auth[jar.auth].user # NoUser
      /\ Shows(page[i], call[i], jar, auth) /\ CallInv(c, auth)
  BY <1>1, PageFacts
<1>3. Idle \in Call /\ Idle.step = "idle" /\ ~InFlight(Idle) /\ CallInv(Idle, auth)
  BY <1>2, Harmless
<1>4. /\ SigningIn(i) /\ c.step \in SignInStep
      /\ page' = [page EXCEPT ![i] = p] /\ call' = [call EXCEPT ![i]["form"] = Idle]
      /\ auth' = auth /\ issued' = issued /\ jar' = cookies
  BY DEF SignedIn, Onward, SigningIn, SignInStep
<1>5. /\ p \in Page /\ p.csrf = page[i].csrf /\ p.behind = page[i].behind
      /\ p.crossed = page[i].crossed
      /\ p.user = IF c.status = 200 THEN c.who ELSE page[i].user
  BY <1>2 DEF Page, Call
<1>6. /\ c.status = 200 =>
           /\ c.matches /\ c.token \in Token /\ auth[c.token].user = c.who /\ c.who # NoUser
           /\ \A j \in Tab \ {i} : ~Current(page[j], jar)
  <2>1. c.status = 200 =>
          c.matches /\ c.token \in Token /\ auth[c.token].user = c.who /\ c.who # NoUser
    BY <1>2, <1>4 DEF CallInv
  <2>2. ASSUME c.matches, NEW j \in Tab \ {i} PROVE ~Current(page[j], jar)
    BY <1>4, <2>2 DEF AccountsInv, PageInv, Undisturbed
  <2> QED
    BY <2>1, <2>2
<1>7. /\ cookies \in Jar /\ cookies.csrf = jar.csrf
      /\ cookies.auth = IF c.status = 200 THEN c.token ELSE jar.auth
  BY <1>2, <1>6, AccountsAssumption DEF Jar, Token
<1> HIDE DEF p, cookies
<1>8. Only(i, "form", Idle)
  BY <1>1, <1>2, <1>3, <1>4, OneCall
<1>9. call'[i]["boot"].step = "idle"
  <2>1. c.step # "idle"
    BY <1>4 DEF SignInStep
  <2> QED
    BY <1>1, <1>8, <2>1, Loaded
<1>10. Shows(p, call'[i], cookies, auth)
  <2>1. ~p.behind => p.csrf # 0 /\ p.csrf = cookies.csrf
    BY <1>2, <1>5, <1>7 DEF Shows
  <2>2. Current(p, cookies) /\ p.user # NoUser /\ cookies.auth # 0 =>
          auth[cookies.auth].user = p.user
    BY <1>2, <1>5, <1>6, <1>7 DEF Shows, Current
  <2> QED
    BY <1>9, <2>1, <2>2, ShowsLoaded
<1>11. cookies.auth # 0 => auth[cookies.auth].user # NoUser
  BY <1>2, <1>6, <1>7
<1>12. cookies.auth \in {0, jar.auth} \/ \A j \in Tab \ {i} : ~Current(page[j], jar)
  BY <1>6, <1>7
<1>13. Idle.step \notin SignInStep
  BY <1>3 DEF SignInStep
<1> HIDE DEF c
<1> QED
  BY <1>3, <1>4, <1>5, <1>7, <1>8, <1>10, <1>11, <1>12, <1>13 DEF Paged

LEMMA SignedOutShape ==
  ASSUME AccountsInv, NEW i \in Tab, SignedOut(i)
  PROVE  \E p, new : Paged(i, "logout", p, new)
<1> DEFINE c == call[i]["logout"]
           p == [page[i] EXCEPT !.user = NoUser]
           cookies == IF c.status = 204 THEN [jar EXCEPT !.auth = 0] ELSE jar
           new == Get("csrf", NoUser, cookies)
<1>1. "logout" \in Function \ {"boot"}
  BY DEF Function
<1>2. /\ TypeInv /\ jar \in Jar /\ page[i] \in Page
      /\ jar.auth # 0 => auth[jar.auth].user # NoUser
      /\ Shows(page[i], call[i], jar, auth)
  BY <1>1, PageFacts
<1>3. /\ cookies \in Jar /\ cookies.csrf = jar.csrf /\ cookies.auth \in {0, jar.auth}
  BY <1>2, AccountsAssumption DEF Jar
<1>4. /\ page' = [page EXCEPT ![i] = p] /\ call' = [call EXCEPT ![i]["logout"] = new]
      /\ auth' = auth /\ issued' = issued /\ jar' = cookies /\ c.step # "idle"
  BY DEF SignedOut, Onward
<1>5. /\ p \in Page /\ p.csrf = page[i].csrf /\ p.behind = page[i].behind
      /\ p.crossed = page[i].crossed /\ p.user = NoUser
  BY <1>2 DEF Page
<1> HIDE DEF cookies, p
<1>6. new \in Call /\ ~InFlight(new) /\ CallInv(new, auth)
  BY <1>3, Harmless
<1> HIDE DEF new
<1>7. Only(i, "logout", new)
  BY <1>1, <1>2, <1>4, <1>6, OneCall
<1>8. call'[i]["boot"].step = "idle"
  BY <1>1, <1>4, <1>7, Loaded
<1>9. Shows(p, call'[i], cookies, auth)
  <2>1. ~p.behind => p.csrf # 0 /\ p.csrf = cookies.csrf
    BY <1>2, <1>3, <1>5 DEF Shows
  <2> QED
    BY <1>5, <1>8, <2>1, ShowsLoaded
<1>10. cookies.auth # 0 => auth[cookies.auth].user # NoUser
  BY <1>2, <1>3
<1> QED
  BY <1>3, <1>4, <1>5, <1>6, <1>7, <1>9, <1>10 DEF Paged

LEMMA ActedShape ==
  ASSUME AccountsInv, NEW i \in Tab, Acted(i)
  PROVE  \E p, new : Paged(i, "act", p, new)
<1>1. "act" \in Function \ {"boot"}
  BY DEF Function
<1>2. /\ TypeInv /\ jar \in Jar /\ page[i] \in Page
      /\ jar.auth # 0 => auth[jar.auth].user # NoUser
      /\ Shows(page[i], call[i], jar, auth) /\ call[i]["act"].step # "idle"
  BY <1>1, PageFacts DEF Acted
<1>3. Idle \in Call /\ ~InFlight(Idle) /\ CallInv(Idle, auth)
  BY <1>2, Harmless
<1>4. /\ page' = [page EXCEPT ![i] = page[i]] /\ call' = [call EXCEPT ![i]["act"] = Idle]
      /\ auth' = auth /\ issued' = issued /\ jar' = jar
  BY DEF Acted, Onward
<1>5. Only(i, "act", Idle)
  BY <1>1, <1>2, <1>3, <1>4, OneCall
<1>6. call'[i]["boot"].step = "idle"
  BY <1>1, <1>2, <1>5, Loaded
<1>7. Shows(page[i], call'[i], jar, auth)
  BY <1>2, <1>6, ShowsLoaded DEF Shows
<1> QED
  BY <1>2, <1>3, <1>4, <1>5, <1>7 DEF Paged

LEMMA TakeCsrfTokenShape ==
  ASSUME AccountsInv, NEW i \in Tab, NEW f \in Function, TakeCsrfToken(i, f)
  PROVE  \E p, new : Rekeyed(i, f, p, new)
<1> DEFINE c == call[i][f]
           cookies == [jar EXCEPT !.csrf = c.token]
           crossed == page[i].user # NoUser \/ \E j \in Tab \ {i} : SigningIn(j)
           p == [Refreshed(page[i], c.token) EXCEPT !.crossed = crossed]
           get == Get("me", NoUser, cookies)
           new == IF f = "boot" THEN get ELSE Idle
<1>1. /\ TypeInv /\ jar \in Jar /\ page[i] \in Page /\ c \in Call
      /\ jar.auth # 0 => auth[jar.auth].user # NoUser
      /\ Shows(page[i], call[i], jar, auth)
  BY PageFacts
<1>2. /\ InFlight(c) /\ c.step # "idle" /\ jar' = cookies
      /\ page' = [j \in Tab |-> IF j = i THEN p ELSE [page[j] EXCEPT !.behind = TRUE]]
      /\ call' = [call EXCEPT ![i][f] = new]
      /\ auth' = auth /\ issued' = issued
  BY DEF TakeCsrfToken, InFlight
<1>3. c.token \in Nat /\ c.token \in 1..issued /\ c.token # 0
  BY <1>1, <1>2 DEF Call, AccountsInv, TokenInv
<1>4. cookies \in Jar /\ cookies.csrf = c.token /\ cookies.auth = jar.auth
  BY <1>1, <1>3 DEF Jar
<1>5. crossed \in BOOLEAN
  OBVIOUS
<1>6. ~crossed => page[i].user = NoUser /\ \A j \in Tab \ {i} : ~SigningIn(j)
  OBVIOUS
<1> HIDE DEF crossed, cookies
<1>7. /\ p \in Page /\ p.csrf = c.token /\ ~p.behind /\ p.crossed = crossed
      /\ p.user = page[i].user
  BY <1>1, <1>3, <1>5 DEF Refreshed, Page
<1>8. /\ Idle \in Call /\ Idle.step = "idle" /\ ~InFlight(Idle) /\ CallInv(Idle, auth)
  BY <1>4, Harmless
<1>9. /\ get \in Call /\ get.step = "me" /\ get.status = 0 /\ get.auth = cookies.auth
  <2>1. NoUser \in User \cup {NoUser} /\ "me" \in {"csrf", "me"} /\ "me" # "csrf"
    OBVIOUS
  <2> QED
    BY <1>1, <1>4, <2>1, Requests
<1> HIDE DEF p, get
<1>10. ~InFlight(get) /\ CallInv(get, auth)
  BY <1>1, <1>4, <1>9 DEF InFlight, CallInv, SignInStep, GuardedStep
<1>11. new \in Call /\ ~InFlight(new) /\ CallInv(new, auth)
  BY <1>8, <1>9, <1>10
<1>12. f = "boot" => new.step = "me" /\ new.status = 0 /\ new.auth = cookies.auth
  BY <1>9
<1> HIDE DEF new, c
<1>13. Only(i, f, new)
  BY <1>1, <1>2, <1>11, OneCall DEF c
<1>14. Current(p, cookies) => p.user = NoUser
  BY <1>6, <1>7 DEF Current
<1>15. Shows(p, call'[i], cookies, auth)
  <2>1. ~p.behind => p.csrf # 0 /\ p.csrf = cookies.csrf
    BY <1>3, <1>4, <1>7
  <2>2. CASE f # "boot"
    <3>1. call'[i]["boot"].step = "idle"
      BY <1>2, <1>13, <2>2, Loaded DEF c
    <3> QED
      BY <1>14, <2>1, <3>1, ShowsLoaded
  <2>3. CASE f = "boot"
    <3>1. /\ call'[i]["boot"] = new
          /\ \A g \in Function \ {"boot"} : call'[i][g] = call[i][g]
      BY <1>13, <2>3 DEF Only
    <3>2. LoadsAlone(p, call'[i])
      BY <1>1, <1>2, <1>7, <2>3, <3>1 DEF Shows, LoadsAlone, c
    <3>3. ToldBy(call'[i]["boot"], cookies, auth)
      BY <1>12, <2>3, <3>1 DEF ToldBy
    <3> QED
      BY <1>14, <2>1, <3>2, <3>3 DEF Shows
  <2> QED
    BY <2>2, <2>3
<1>16. p.csrf = c.token => p.crossed \/ \A j \in Tab \ {i} : ~SigningIn(j)
  BY <1>5, <1>6, <1>7
<1> QED
  BY <1>2, <1>7, <1>11, <1>13, <1>15, <1>16 DEF Rekeyed, c, cookies

\* A lost answer whose headers have arrived, and anything else that is lost
LEMMA LostShape ==
  ASSUME AccountsInv, NEW i \in Tab, NEW f \in Function, Lost(i, f)
  PROVE  \E p, new : Paged(i, f, p, new) \/ Rekeyed(i, f, p, new)
<1> DEFINE c == call[i][f]
           kept == CASE f = "boot" -> [page[i] EXCEPT !.user = NoUser]
                     [] f = "logout" /\ c.step # "csrf" -> [page[i] EXCEPT !.user = NoUser]
                     [] f = "logout" /\ c.step = "csrf" -> [page[i] EXCEPT !.csrf = 0, !.behind = TRUE]
                     [] OTHER -> page[i]
<1>1. /\ TypeInv /\ jar \in Jar /\ page[i] \in Page /\ c \in Call /\ CallInv(c, auth)
      /\ jar.auth # 0 => auth[jar.auth].user # NoUser
      /\ Shows(page[i], call[i], jar, auth)
  BY PageFacts
<1>2. PICK now \in {jar} \cup (IF c.step = "csrf" /\ c.status = 200
                               THEN {[jar EXCEPT !.csrf = c.token]} ELSE {}) :
        /\ jar' = now
        /\ page' = [j \in Tab |->
             IF now = jar THEN IF j = i THEN kept ELSE page[j]
             ELSE [(IF j = i THEN kept ELSE page[j]) EXCEPT !.behind = TRUE]]
        /\ call' = [call EXCEPT ![i][f] =
             IF f = "logout" /\ c.step # "csrf" THEN Get("csrf", NoUser, now) ELSE Idle]
  BY DEF Lost
<1>3. /\ auth' = auth /\ issued' = issued /\ c.step # "idle"
  BY <1>1 DEF Lost, CallInv
<1> DEFINE get == Get("csrf", NoUser, now)
           new == IF f = "logout" /\ c.step # "csrf" THEN get ELSE Idle
<1>4. /\ kept \in Page /\ kept.user \in {page[i].user, NoUser}
      /\ \/ /\ kept.csrf = page[i].csrf /\ kept.crossed = page[i].crossed
            /\ kept.behind = page[i].behind
         \/ kept.csrf = 0 /\ kept.behind
  <2> DEFINE out == [page[i] EXCEPT !.user = NoUser]
             reset == [page[i] EXCEPT !.csrf = 0, !.behind = TRUE]
  <2>1. kept = out \/ kept = reset \/ kept = page[i]
    OBVIOUS
  <2>2. /\ out \in Page /\ out.user = NoUser /\ out.csrf = page[i].csrf
        /\ out.crossed = page[i].crossed /\ out.behind = page[i].behind
    BY <1>1 DEF Page
  <2>3. /\ reset \in Page /\ reset.user = page[i].user /\ reset.csrf = 0 /\ reset.behind
    BY <1>1 DEF Page
  <2> HIDE DEF kept, out, reset
  <2> QED
    BY <1>1, <2>1, <2>2, <2>3
<1> HIDE DEF kept
<1>5. now \in Jar
  BY <1>1 DEF Jar, Call
<1>6. new \in Call /\ ~InFlight(new) /\ CallInv(new, auth) /\ (f = "boot" => new.step = "idle")
      /\ new.step \notin SignInStep
  BY <1>5, Harmless DEF SignInStep
<1>7. call' = [call EXCEPT ![i][f] = new] /\ new \in Call /\ TypeInv
  BY <1>1, <1>2, <1>6
<1> HIDE DEF new, get, c
<1>8. Only(i, f, new)
  BY <1>7, OneCall
<1>9. call'[i]["boot"].step = "idle"
  <2>1. CASE f = "boot"
    BY <1>6, <1>8, <2>1 DEF Only
  <2>2. CASE f # "boot"
    BY <1>3, <1>8, <2>2, Loaded DEF c
  <2> QED
    BY <2>1, <2>2
<1>10. CASE now = jar
  <2>1. page' = [page EXCEPT ![i] = kept] /\ jar' = jar
    <3>1. page' = [j \in Tab |-> IF j = i THEN kept ELSE page[j]] /\ jar' = jar
      BY <1>2, <1>10
    <3>2. page = [j \in Tab |-> page[j]]
      BY <1>1 DEF TypeInv
    <3> QED
      BY <3>1, <3>2
  <2>2. ~kept.behind => kept.csrf # 0 /\ kept.csrf = jar.csrf
    BY <1>1, <1>4 DEF Shows
  <2>3. Current(kept, jar) /\ kept.user # NoUser /\ jar.auth # 0 =>
          auth[jar.auth].user = kept.user
    BY <1>1, <1>4 DEF Shows, Current
  <2>4. Shows(kept, call'[i], jar, auth)
    BY <1>9, <2>2, <2>3, ShowsLoaded
  <2>5. kept.csrf = 0 \/ (kept.csrf = page[i].csrf /\ kept.crossed = page[i].crossed)
    BY <1>4
  <2>6. Paged(i, f, kept, new)
    BY <1>1, <1>3, <1>4, <1>6, <1>8, <2>1, <2>4, <2>5 DEF Paged
  <2> QED
    BY <2>6
<1>11. CASE now # jar
  <2> DEFINE p == [kept EXCEPT !.behind = TRUE]
  <2>1. InFlight(c) /\ now = [jar EXCEPT !.csrf = c.token]
    BY <1>2, <1>11 DEF InFlight
  <2>2. /\ p \in Page /\ p.behind /\ p.csrf = kept.csrf /\ p.user = kept.user
    BY <1>4 DEF Page
  <2>3. page' = [j \in Tab |-> IF j = i THEN p ELSE [page[j] EXCEPT !.behind = TRUE]]
    BY <1>2, <1>11
  <2> HIDE DEF p
  <2>4. c.token # 0 /\ page[i].csrf # c.token /\ now.csrf = c.token
    BY <1>1, <2>1 DEF AccountsInv, TokenInv, c, Jar
  <2>5. p.csrf # c.token /\ p.csrf \in {page[i].csrf, 0}
    BY <1>4, <2>2, <2>4
  <2>6. Shows(p, call'[i], now, auth)
    BY <1>9, <2>2, <2>4, <2>5, ShowsLoaded DEF Current
  <2>7. Rekeyed(i, f, p, new)
    BY <1>2, <1>3, <1>6, <1>8, <2>1, <2>2, <2>3, <2>5, <2>6 DEF Rekeyed, c
  <2> QED
    BY <2>7
<1> QED
  BY <1>10, <1>11

\* A page as it loads
LEMMA Fresh ==
  ASSUME NEW cookies, NEW rows, NEW p, NEW calls, p = NoPage, calls = Loading
  PROVE  /\ Shows(p, calls, cookies, rows) /\ ~Current(p, cookies)
         /\ NoPage \in Page /\ Loading \in [Function -> Call]
         /\ \A f \in Function : /\ CallInv(Loading[f], rows)
                                /\ ~InFlight(Loading[f])
                                /\ Loading[f].step \in {"idle", "csrf"}
<1> DEFINE boot == [Idle EXCEPT !.step = "csrf"]
<1>1. /\ Idle \in Call /\ Idle.step = "idle" /\ Idle.status = 0 /\ Idle.auth = 0
  BY AccountsAssumption DEF Idle, Call, Step, Status
<1>2. boot \in Call /\ boot.step = "csrf" /\ boot.status = 0 /\ boot.auth = 0
  <2>1. "csrf" \in Step
    BY DEF Step
  <2> QED
    BY <1>1, <2>1 DEF Call
<1>3. /\ NoPage \in Page /\ NoPage.user = NoUser /\ NoPage.csrf = 0 /\ NoPage.behind
  BY DEF NoPage, Page
<1> HIDE DEF boot
<1>4. /\ "boot" \in Function
      /\ Loading = [f \in Function |-> IF f = "boot" THEN boot ELSE Idle]
  BY DEF Loading, Function, boot
<1>5. Loading["boot"] = boot /\ \A f \in Function \ {"boot"} : Loading[f] = Idle
  BY <1>4
<1>6. Loading \in [Function -> Call]
  BY <1>1, <1>2, <1>4
<1>7. CallInv(Idle, rows) /\ CallInv(boot, rows)
  BY <1>1, <1>2 DEF CallInv, SignInStep, GuardedStep
<1>8. ~Current(NoPage, cookies)
  BY <1>3 DEF Current
<1>9. Shows(NoPage, Loading, cookies, rows)
  BY <1>1, <1>2, <1>3, <1>5, <1>8 DEF Shows, LoadsAlone
<1>10. ASSUME NEW f \in Function
       PROVE  /\ CallInv(Loading[f], rows) /\ ~InFlight(Loading[f])
              /\ Loading[f].step \in {"idle", "csrf"}
  <2>1. Loading[f] \in {Idle, boot}
    BY <1>5
  <2> QED
    BY <1>1, <1>2, <1>7, <2>1 DEF InFlight
<1> QED
  BY <1>3, <1>6, <1>8, <1>9, <1>10

LEMMA LoadKeeps ==
  ASSUME AccountsInv, NEW i \in Tab, Load(i)
  PROVE  AccountsInv'
<1>1. /\ TypeInv /\ TokenInv /\ PageInv /\ CallsInv
      /\ jar.auth # 0 => auth[jar.auth].user # NoUser
  BY DEF AccountsInv
<1>2. /\ page'[i] = NoPage /\ call'[i] = Loading
      /\ \A j \in Tab \ {i} : page'[j] = page[j] /\ call'[j] = call[j]
      /\ auth' = auth /\ issued' = issued /\ jar' = jar
  BY <1>1 DEF Load, TypeInv
<1>3. /\ Shows(page'[i], call'[i], jar, auth) /\ ~Current(page'[i], jar)
      /\ NoPage \in Page /\ Loading \in [Function -> Call]
      /\ \A f \in Function : /\ CallInv(Loading[f], auth)
                             /\ ~InFlight(Loading[f])
                             /\ Loading[f].step \in {"idle", "csrf"}
  BY <1>2, Fresh
<1>4. TypeInv'
  <2>1. page' \in [Tab -> Page]
    BY <1>1, <1>3 DEF Load, TypeInv
  <2>2. call' \in [Tab -> [Function -> Call]]
    BY <1>1, <1>3 DEF Load, TypeInv
  <2> QED
    BY <1>1, <1>2, <2>1, <2>2 DEF TypeInv
<1>5. CallsInv'
  <2>1. ASSUME NEW j \in Tab, NEW g \in Function PROVE CallInv(call'[j][g], auth)
    BY <1>1, <1>2, <1>3 DEF CallsInv
  <2> QED
    BY <1>2, <2>1 DEF CallsInv
<1>6. TokenInv'
  <2>1. NoPage.csrf = 0 /\ issued \in Nat
    BY <1>1 DEF NoPage, TypeInv
  <2>2. ASSUME NEW j \in Tab, NEW g \in Function, InFlight(call'[j][g])
        PROVE  j # i /\ call'[j][g] = call[j][g]
    BY <1>2, <1>3, <2>2
  <2>3. \A j \in Tab : page'[j].csrf = page[j].csrf \/ page'[j].csrf = 0
    BY <1>2, <2>1
  <2>4. /\ jar'.csrf <= issued'
        /\ \A j \in Tab : page'[j].csrf <= issued'
        /\ \A j, k \in Tab : page'[j].csrf = page'[k].csrf /\ page'[j].csrf # 0 => j = k
    BY <1>1, <1>2, <2>1, <2>3 DEF TokenInv
  <2>5. ASSUME NEW j \in Tab, NEW g \in Function, InFlight(call'[j][g])
        PROVE  /\ call'[j][g].token \in 1..issued'
               /\ call'[j][g].token # jar'.csrf
               /\ \A k \in Tab : page'[k].csrf # call'[j][g].token
    <3>1. call[j][g].token \in 1..issued /\ call[j][g].token # jar.csrf
          /\ \A k \in Tab : page[k].csrf # call[j][g].token
      BY <1>1, <2>2, <2>5 DEF TokenInv
    <3> QED
      BY <1>2, <2>1, <2>2, <2>3, <2>5, <3>1
  <2>6. ASSUME NEW j \in Tab, NEW g \in Function, InFlight(call'[j][g]),
               NEW k \in Tab, NEW h \in Function, InFlight(call'[k][h]),
               call'[k][h].token = call'[j][g].token
        PROVE  j = k /\ g = h
    BY <1>1, <2>2, <2>6 DEF TokenInv
  <2> QED
    BY <2>4, <2>5, <2>6 DEF TokenInv, InFlight
<1>7. ASSUME NEW j \in Tab PROVE Shows(page'[j], call'[j], jar, auth) /\ Undisturbed(j)'
  <2>1. Shows(page'[j], call'[j], jar, auth)
    BY <1>1, <1>2, <1>3 DEF PageInv
  <2>2. SUFFICES ASSUME Current(page'[j], jar), NEW k \in Tab \ {j}, SigningIn(k)'
                 PROVE  ~call'[k]["form"].matches
    BY <1>2, <2>1 DEF Undisturbed
  <2>3. "form" \in Function
    BY DEF Function
  <2>4. j # i /\ k # i
    BY <1>2, <1>3, <2>2, <2>3 DEF SigningIn
  <2> QED
    BY <1>1, <1>2, <2>2, <2>4 DEF PageInv, Undisturbed, SigningIn
<1>8. PageInv'
  BY <1>2, <1>7 DEF PageInv
<1> QED
  BY <1>1, <1>2, <1>4, <1>5, <1>6, <1>8 DEF AccountsInv

\* A step that changes nothing but what is live, if anything
LEMMA ExpireKeeps ==
  ASSUME AccountsInv, Grows, auth' \in [Token -> Session],
         UNCHANGED <<issued, jar, page, call>>
  PROVE  AccountsInv'
<1>1. TypeInv /\ TypeInv' /\ TokenInv' /\ jar' = jar /\ page' = page /\ call' = call
  BY DEF AccountsInv, TypeInv, TokenInv
<1>2. jar.auth # 0 => /\ auth'[jar.auth].user = auth[jar.auth].user
                      /\ auth[jar.auth].user # NoUser
  BY <1>1, JarStays DEF AccountsInv
<1>3. CallsInv'
  <2>1. ASSUME NEW j \in Tab, NEW g \in Function PROVE CallInv(call[j][g], auth')
    <3>1. call[j][g] \in Call /\ CallInv(call[j][g], auth)
      BY <1>1 DEF AccountsInv, TypeInv, CallsInv
    <3> QED
      BY <1>1, <3>1, CallStays
  <2> QED
    BY <1>1, <2>1 DEF CallsInv
<1>4. ASSUME NEW j \in Tab PROVE Shows(page[j], call[j], jar, auth') /\ Undisturbed(j)'
  <2>1. Shows(page[j], call[j], jar, auth) /\ Undisturbed(j)
    BY DEF AccountsInv, PageInv
  <2>2. Shows(page[j], call[j], jar, auth')
    BY <1>2, <2>1 DEF Shows, ToldBy
  <2>3. Undisturbed(j)'
    BY <1>1, <2>1 DEF Undisturbed, SigningIn
  <2> QED
    BY <2>2, <2>3
<1>5. PageInv'
  BY <1>1, <1>4 DEF PageInv
<1> QED
  BY <1>1, <1>2, <1>3, <1>5 DEF AccountsInv

-----------------------------------------------------------------------------
(* The theorems *)

LEMMA AccountsInit == ASSUME Init PROVE AccountsInv
<1>1. /\ page = [i \in Tab |-> NoPage] /\ call = [i \in Tab |-> Loading]
      /\ issued = 0 /\ jar = [auth |-> 0, csrf |-> 0]
      /\ auth = [t \in Token |-> [user |-> NoUser, live |-> FALSE]]
  BY DEF Init
<1>2. /\ NoPage \in Page /\ Loading \in [Function -> Call]
      /\ \A f \in Function : CallInv(Loading[f], auth) /\ ~InFlight(Loading[f])
      /\ Shows(NoPage, Loading, jar, auth) /\ ~Current(NoPage, jar)
  BY Fresh
<1>3. TypeInv
  BY <1>1, <1>2, AccountsAssumption DEF TypeInv, Session, Jar
<1>4. CallsInv
  BY <1>1, <1>2 DEF CallsInv
<1>5. TokenInv
  <2>1. NoPage.csrf = 0
    BY DEF NoPage
  <2> QED
    BY <1>1, <1>2, <2>1 DEF TokenInv
<1>6. PageInv
  BY <1>1, <1>2 DEF PageInv, Undisturbed
<1>7. jar.auth = 0
  BY <1>1
<1> QED
  BY <1>3, <1>4, <1>5, <1>6, <1>7 DEF AccountsInv

LEMMA AccountsStep == ASSUME AccountsInv, [Next]_vars PROVE AccountsInv'
<1>1. ASSUME NEW i \in Tab, NEW f \in Function, Serve(i, f) PROVE AccountsInv'
  BY <1>1, ServeShape, ServedKeeps
<1>2. ASSUME NEW i \in Tab, NEW f \in Function, TakeCsrfToken(i, f) PROVE AccountsInv'
  BY <1>2, TakeCsrfTokenShape, RekeyedKeeps
<1>3. ASSUME NEW i \in Tab, NEW f \in Function, Lost(i, f) PROVE AccountsInv'
  BY <1>3, LostShape, PagedKeeps, RekeyedKeeps
<1>4. ASSUME NEW i \in Tab, NEW u \in User, NEW mode \in {"login", "register"},
             SubmitAuth(i, u, mode)
      PROVE  AccountsInv'
  <2>1. "form" \in Function
    BY DEF Function
  <2> QED
    BY <1>4, <2>1, SubmitAuthShape, PagedKeeps
<1>5. ASSUME NEW i \in Tab, NEW f \in {"logout", "act"}, Click(i, f) PROVE AccountsInv'
  <2>1. f \in Function
    BY DEF Function
  <2> QED
    BY <1>5, <2>1, ClickShape, PagedKeeps
<1>6. ASSUME NEW i \in Tab, Load(i) PROVE AccountsInv'
  BY <1>6, LoadKeeps
<1>7. ASSUME NEW i \in Tab, Bootstrapped(i) \/ SignedIn(i) \/ SignedOut(i) \/ Acted(i)
      PROVE  AccountsInv'
  <2>1. {"boot", "form", "logout", "act"} \subseteq Function
    BY DEF Function
  <2>2. CASE Bootstrapped(i)
    BY <2>1, <2>2, BootstrappedShape, PagedKeeps
  <2>3. CASE SignedIn(i)
    BY <2>1, <2>3, SignedInShape, PagedKeeps
  <2>4. CASE SignedOut(i)
    BY <2>1, <2>4, SignedOutShape, PagedKeeps
  <2>5. CASE Acted(i)
    BY <2>1, <2>5, ActedShape, PagedKeeps
  <2> QED
    BY <1>7, <2>2, <2>3, <2>4, <2>5
<1>8. ASSUME NEW t \in Token, Expire(t) PROVE AccountsInv'
  <2>1. auth' \in [Token -> Session] /\ Grows
    BY <1>8 DEF Expire, AccountsInv, TypeInv, Session, Grows
  <2>2. UNCHANGED <<issued, jar, page, call>>
    BY <1>8 DEF Expire
  <2> QED
    BY <2>1, <2>2, ExpireKeeps
<1>9. ASSUME UNCHANGED vars PROVE AccountsInv'
  BY <1>9, ExpireKeeps DEF vars, AccountsInv, TypeInv, Grows
<1> QED
  BY <1>1, <1>2, <1>3, <1>4, <1>5, <1>6, <1>7, <1>8, <1>9 DEF Next

\* The inductive invariant: sessions, cookies, requests and pages fit together,
\* whatever overtakes what.
THEOREM AccountsInvariant == Spec => []AccountsInv
<1> QED
  BY AccountsInit, AccountsStep, PTL DEF Spec

\* A guarded operation that the server admits is done for the account the page
\* shows (current_user in app/main.py, logout and the operations of app.js),
\* however many pages sign in and out beside it.
THEOREM ActsAsShownCorrect == Spec => []ActsAsShown
<1>1. ASSUME AccountsInv PROVE ActsAsShown
  <2>1. ASSUME NEW i \in Tab, NEW f \in {"logout", "act"},
               call[i][f].step = "admitted", call[i][f].status = 0
        PROVE  auth[call[i][f].auth].user = call[i][f].who \/ call[i][f].crossed
    <3>1. f \in Function
      BY DEF Function
    <3>2. CallInv(call[i][f], auth)
      BY <1>1, <3>1 DEF AccountsInv, CallsInv
    <3> QED
      BY <2>1, <3>2 DEF CallInv, GuardedStep
  <2> QED
    BY <2>1 DEF ActsAsShown
<1> QED
  BY <1>1, AccountsInvariant, PTL

\* A page is refused for its CSRF token (tokens_match in app/auth.py) only if
\* somebody took a newer token or its own refresh failed.
THEOREM RefusalCorrect == Spec => []RefusedOnlyIfBehind
<1>1. ASSUME AccountsInv PROVE RefusedOnlyIfBehind
  BY <1>1 DEF AccountsInv, CallsInv, CallInv, RefusedOnlyIfBehind
<1> QED
  BY <1>1, AccountsInvariant, PTL
=============================================================================
