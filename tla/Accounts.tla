------------------------------ MODULE Accounts ------------------------------
(***************************************************************************)
(* Signing in and out: app/auth.py with its endpoints in app/main.py, and  *)
(* the account handling of app/web/app.js, for one browser whose pages     *)
(* (tabs) share a cookie jar.                                              *)
(*                                                                         *)
(* A request carries the cookies and the X-CSRF-Token of the moment it is  *)
(* sent, the server answers it some time later, and the answer sets its    *)
(* cookies when it arrives; answers of different requests overtake one     *)
(* another.  A page runs its functions side by side: bootstrapAuth         *)
(* ("boot"), submitAuth ("form"), logout ("logout") and a guarded          *)
(* operation such as saving a memory ("act"), each with at most one        *)
(* request under way (bound).  Passwords are always right, Origin is       *)
(* always the own one, and nobody deactivates an account (no code does).   *)
(***************************************************************************)
EXTENDS Naturals, FiniteSets

CONSTANTS
  Tab, User,
  MaxLogins,  \* bound: auth_sessions ever created
  MaxCsrf,    \* bound: CSRF tokens ever issued
  MaxCalls,   \* bound: requests under way at once
  NoUser

ASSUME AccountsAssumption ==
  /\ MaxLogins \in Nat /\ MaxCsrf \in Nat /\ MaxCalls \in Nat
  /\ NoUser \notin User

VARIABLES
  accounts,  \* the registered users
  auth,      \* auth[t]: the auth_sessions row of token t
  issued,    \* how many CSRF tokens the server has issued
  jar,       \* the cookies of the browser; 0 is no cookie
  page,      \* page[i]: state.user and state.csrfToken of the page in tab i
  call       \* call[i][f]: what function f of the page waits for

vars == <<accounts, auth, issued, jar, page, call>>

Token == 1..MaxLogins
Function == {"boot", "form", "logout", "act"}

-----------------------------------------------------------------------------
(* The server *)

\* Tokens are numbered in the order they are issued.
Unissued == {t \in Token : auth[t].user = NoUser}
Live(t) == t \in Token /\ auth[t].live

Answer(i, f, status, token, who) ==
  call' = [call EXCEPT ![i][f] =
    [@ EXCEPT !.status = status, !.token = token, !.who = who, !.auth = 0]]
Refuse(i, f, status) ==
  Answer(i, f, status, 0, call[i][f].who) /\ UNCHANGED <<accounts, auth, issued>>

\* _create_session: the token reaches the browser with the answer.
SignIn(i, f, u) ==
  \E t \in Unissued :
    /\ \A other \in Unissued : t <= other
    /\ auth' = [auth EXCEPT ![t] = [user |-> u, live |-> TRUE]]
    /\ Answer(i, f, 200, t, u)

\* issue_csrf_token: always a new token.
IssueCsrfToken(i, f) ==
  /\ issued < MaxCsrf
  /\ issued' = issued + 1
  /\ Answer(i, f, 200, issued', call[i][f].who)
  /\ UNCHANGED <<accounts, auth>>

\* me
Me(i, f) ==
  LET t == call[i][f].auth IN
  /\ IF Live(t) THEN Answer(i, f, 200, 0, auth[t].user) ELSE Answer(i, f, 401, 0, NoUser)
  /\ UNCHANGED <<accounts, auth, issued>>

\* register: the account and its first session are one transaction, and the
\* unique e-mail address decides between two.
Register(i, f) ==
  LET c == call[i][f] IN
  \/ ~c.matches /\ Refuse(i, f, 403)
  \/ c.matches /\ c.who \in accounts /\ Refuse(i, f, 409)
  \/ /\ c.matches /\ c.who \notin accounts
     /\ accounts' = accounts \cup {c.who}
     /\ SignIn(i, f, c.who)
     /\ UNCHANGED issued

\* login: a session the browser already has stays as it is.
Login(i, f) ==
  LET c == call[i][f] IN
  \/ ~c.matches /\ Refuse(i, f, 403)
  \/ c.matches /\ c.who \notin accounts /\ Refuse(i, f, 401)
  \/ /\ c.matches /\ c.who \in accounts
     /\ SignIn(i, f, c.who)
     /\ UNCHANGED <<accounts, issued>>

\* The dependencies of a guarded operation, current_user in a transaction of
\* its own, in the order the endpoint names them: logout asks for the CSRF
\* token first.
Admit(i, f) ==
  LET c == call[i][f] IN
  \/ ~c.matches /\ (f = "logout" \/ Live(c.auth)) /\ Refuse(i, f, 403)
  \/ ~Live(c.auth) /\ (f = "act" \/ c.matches) /\ Refuse(i, f, 401)
  \/ /\ c.matches /\ Live(c.auth)
     /\ call' = [call EXCEPT ![i][f].step = "admitted"]
     /\ UNCHANGED <<accounts, auth, issued>>

\* The operation itself, whatever has become of the session meanwhile: revoke
\* for logout, rows of the user current_user returned for the others.
Perform(i, f) ==
  LET t == call[i][f].auth IN
  /\ auth' = IF f = "logout" /\ Live(t) THEN [auth EXCEPT ![t].live = FALSE] ELSE auth
  /\ Answer(i, f, 204, 0, call[i][f].who)
  /\ UNCHANGED <<accounts, issued>>

Serve(i, f) ==
  /\ call[i][f].status = 0
  /\ \/ call[i][f].step = "csrf" /\ IssueCsrfToken(i, f)
     \/ call[i][f].step = "me" /\ Me(i, f)
     \/ call[i][f].step = "register" /\ Register(i, f)
     \/ call[i][f].step = "login" /\ Login(i, f)
     \/ call[i][f].step \in {"logout", "act"} /\ Admit(i, f)
     \/ call[i][f].step = "admitted" /\ Perform(i, f)
  /\ UNCHANGED <<jar, page>>

\* expires_at passes, or somebody signs out of the session elsewhere.
Expire(t) ==
  /\ Live(t)
  /\ auth' = [auth EXCEPT ![t].live = FALSE]
  /\ UNCHANGED <<accounts, issued, jar, page, call>>

-----------------------------------------------------------------------------
(* The pages *)

\* csrf is state.csrfToken, 0 for null.  What the page does not know: behind,
\* somebody else took a newer CSRF token or its own refresh failed; crossed,
\* it took its token while another page was signing in, or after it had signed
\* in itself (logout shows the form again before its refresh is answered).
NoPage == [user |-> NoUser, csrf |-> 0, behind |-> TRUE, crossed |-> FALSE]

Idle == [step |-> "idle", auth |-> 0, matches |-> FALSE, who |-> NoUser,
         status |-> 0, token |-> 0, behind |-> FALSE, crossed |-> FALSE]

\* MUTANT of TokensMatch: only a missing header is refused.
TokensMatchIfAny(cookie, header) == header # 0

\* What tokens_match will find for a request sent now.
TokensMatch(cookie, header) == cookie # 0 /\ header # 0 /\ cookie = header

\* MUTANT of Refreshed: a page that has a token keeps it.
RefreshedOnce(p, token) ==
  [p EXCEPT !.csrf = IF @ = 0 THEN token ELSE @, !.behind = FALSE]
Refreshed(p, token) == [p EXCEPT !.csrf = token, !.behind = FALSE]

\* A GET, and a POST, with the cookies of the browser and the token of page p.
Get(step, who, cookies) ==
  [Idle EXCEPT !.step = step, !.who = who, !.auth = IF step = "csrf" THEN 0 ELSE cookies.auth]
Post(step, who, cookies, p) ==
  [Idle EXCEPT !.step = step, !.who = who,
               !.auth = IF step \in {"login", "register"} THEN 0 ELSE cookies.auth,
               !.matches = TokensMatch(cookies.csrf, p.csrf),
               !.behind = p.behind, !.crossed = p.crossed]

UnderWay(tabs) == {k \in tabs \X Function : call[k[1]][k[2]] # Idle}
Starts(i, f) == call[i][f] = Idle /\ Cardinality(UnderWay(Tab)) < MaxCalls
SigningIn(i) == call[i]["form"].step \in {"login", "register"}

\* Function f of page i goes on with the next request, or is done (Idle).
Onward(i, f, p, next) ==
  /\ page' = [page EXCEPT ![i] = p]
  /\ call' = [call EXCEPT ![i][f] = next]

Loading == [f \in Function |-> IF f = "boot" THEN [Idle EXCEPT !.step = "csrf"] ELSE Idle]

\* bootstrapAuth of a page that is opened or reloaded; nobody hears what the
\* old page waited for.
Load(i) ==
  /\ Cardinality(UnderWay(Tab \ {i})) < MaxCalls
  /\ page' = [page EXCEPT ![i] = NoPage]
  /\ call' = [call EXCEPT ![i] = Loading]
  /\ UNCHANGED <<accounts, auth, issued, jar>>

\* submitAuth, which fetches a CSRF token only if the page has none, and gets no
\* further then: after the await the event has no currentTarget to read the form
\* from (bound: nobody submits the form before the page has loaded).
SubmitAuth(i, u, mode) ==
  /\ page[i].user = NoUser
  /\ call[i]["boot"] = Idle
  /\ Starts(i, "form")
  /\ Onward(i, "form", page[i], IF page[i].csrf = 0 THEN Get("csrf", NoUser, jar)
                                ELSE Post(mode, u, jar, page[i]))
  /\ UNCHANGED <<accounts, auth, issued, jar>>

\* logout and the guarded operations of a page that shows an account
Click(i, f) ==
  /\ page[i].user # NoUser
  /\ Starts(i, f)
  /\ Onward(i, f, page[i], Post(f, page[i].user, jar, page[i]))
  /\ UNCHANGED <<accounts, auth, issued, jar>>

\* The CSRF token arrives, in the cookie and in the body: every other page is
\* behind from now on.  Boot goes on with its second request.
TakeCsrfToken(i, f) ==
  LET c == call[i][f]
      cookies == [jar EXCEPT !.csrf = c.token]
      p == [Refreshed(page[i], c.token)
              EXCEPT !.crossed = page[i].user # NoUser \/ \E j \in Tab \ {i} : SigningIn(j)]
  IN
  /\ c.step = "csrf" /\ c.status = 200
  /\ jar' = cookies
  /\ page' = [j \in Tab |-> IF j = i THEN p ELSE [page[j] EXCEPT !.behind = TRUE]]
  /\ call' = [call EXCEPT ![i][f] = IF f = "boot" THEN Get("me", NoUser, cookies) ELSE Idle]
  /\ UNCHANGED <<accounts, auth, issued>>

\* The page takes the answer of me; any other failure shows the dialog too.
Bootstrapped(i) ==
  LET c == call[i]["boot"] IN
  /\ c.step = "me" /\ c.status # 0
  /\ Onward(i, "boot", [page[i] EXCEPT !.user = c.who], Idle)
  /\ UNCHANGED <<accounts, auth, issued, jar>>

\* The page shows the account it signed in to, or why it could not.
SignedIn(i) ==
  LET c == call[i]["form"] IN
  /\ SigningIn(i) /\ c.status # 0
  /\ IF c.status = 200
     THEN /\ jar' = [jar EXCEPT !.auth = c.token]
          /\ Onward(i, "form", [page[i] EXCEPT !.user = c.who], Idle)
     ELSE Onward(i, "form", page[i], Idle) /\ UNCHANGED jar
  /\ UNCHANGED <<accounts, auth, issued>>

\* The finally of logout: whatever the answer, the page shows no account any
\* more and fetches a new CSRF token.
SignedOut(i) ==
  LET c == call[i]["logout"]
      cookies == IF c.status = 204 THEN [jar EXCEPT !.auth = 0] ELSE jar
  IN
  /\ c.step \in {"logout", "admitted"} /\ c.status # 0
  /\ jar' = cookies
  /\ Onward(i, "logout", [page[i] EXCEPT !.user = NoUser],
            Get("csrf", NoUser, cookies))
  /\ UNCHANGED <<accounts, auth, issued>>

Acted(i) ==
  /\ call[i]["act"].status # 0
  /\ Onward(i, "act", page[i], Idle)
  /\ UNCHANGED <<accounts, auth, issued, jar>>

\* The request or its answer is lost.  Of a lost answer the headers may have
\* arrived: a CSRF cookie without its body leaves the page behind.
Lost(i, f) ==
  LET c == call[i][f]
      cookies == {jar} \cup (IF c.step = "csrf" /\ c.status = 200
                             THEN {[jar EXCEPT !.csrf = c.token]} ELSE {})
      p == CASE f = "boot" -> [page[i] EXCEPT !.user = NoUser]
             [] f = "logout" /\ c.step # "csrf" -> [page[i] EXCEPT !.user = NoUser]
             [] f = "logout" /\ c.step = "csrf" -> [page[i] EXCEPT !.csrf = 0, !.behind = TRUE]
             [] OTHER -> page[i]
  IN
  /\ c # Idle
  /\ \E now \in cookies :
       /\ jar' = now
       /\ page' = [j \in Tab |->
            IF now = jar THEN IF j = i THEN p ELSE page[j]
            ELSE [(IF j = i THEN p ELSE page[j]) EXCEPT !.behind = TRUE]]
       /\ call' = [call EXCEPT ![i][f] =
            IF f = "logout" /\ c.step # "csrf" THEN Get("csrf", NoUser, now) ELSE Idle]
  /\ UNCHANGED <<accounts, auth, issued>>

-----------------------------------------------------------------------------

Init ==
  /\ accounts = {}
  /\ auth = [t \in Token |-> [user |-> NoUser, live |-> FALSE]]
  /\ issued = 0
  /\ jar = [auth |-> 0, csrf |-> 0]
  /\ page = [i \in Tab |-> NoPage]
  /\ call = [i \in Tab |-> Loading]

Next ==
  \/ \E i \in Tab, f \in Function : Serve(i, f) \/ TakeCsrfToken(i, f) \/ Lost(i, f)
  \/ \E i \in Tab, u \in User, mode \in {"login", "register"} : SubmitAuth(i, u, mode)
  \/ \E i \in Tab, f \in {"logout", "act"} : Click(i, f)
  \/ \E i \in Tab : Load(i) \/ Bootstrapped(i) \/ SignedIn(i) \/ SignedOut(i) \/ Acted(i)
  \/ \E t \in Token : Expire(t)

Spec == Init /\ [][Next]_vars

-----------------------------------------------------------------------------
(* Properties *)

\* A page acts for the account it shows: what the server admits is done for
\* that account, although another page may have signed in to a different one
\* since.  The exception is a page that took its CSRF token while another page
\* was signing in, or when it showed an account already.
ActsAsShown ==
  \A i \in Tab, f \in {"logout", "act"} :
    LET c == call[i][f] IN
    c.step = "admitted" /\ c.status = 0 => auth[c.auth].user = c.who \/ c.crossed

\* A page is told that its CSRF token does not match only if it is behind:
\* reloading it, as the message says, cures that.
RefusedOnlyIfBehind ==
  \A i \in Tab, f \in Function : call[i][f].status = 403 => call[i][f].behind
=============================================================================
