---------------------------- MODULE BrowserSession ----------------------------
(***************************************************************************)
(* Signing in and out of the console from several tabs of one browser      *)
(* (web/src/app/login/page.tsx, components/admin-shell.tsx, request() and  *)
(* api.auth of lib/api-client.ts).  The tabs share the cookies of the      *)
(* session; each keeps the CSRF token it was given until its document is   *)
(* loaded anew.  The API accepts a mutation when the token sent, the       *)
(* token's cookie and the session agree.                                   *)
(***************************************************************************)
EXTENDS ConsoleCalls

CONSTANTS Tabs,             \* 1 .. n
          Accounts,
          Guarded,          \* accounts with a second factor
          MaxSessions       \* sessions the API makes in one run

NoSession == 0
NoTab == 0
NoChallenge == "none"

\* A tab whose document has just loaded, on the sign-in page or in the console.
Document(at, mfa) ==
    [at |-> at, csrf |-> NoSession, signed |-> NoSession, user |-> NoSession,
     challenge |-> NoChallenge, mfa |-> mfa, error |-> FALSE, busy |-> FALSE]

\* A call carries the cookies the browser holds as it leaves, and the tab's token.
CallOf(u, t, op, who) ==
    Call(op, [tab |-> t, cookie |-> u.cookie, csrf |-> u.tab[t].csrf, who |-> who], Effect)

\* db: the sessions made, which are alive, and the accounts with an open challenge.  The
\* first tab opens the sign-in page, perhaps back from an external provider that
\* left a challenge in a cookie; the others are in the console already.
Init ==
    /\ \E mfa \in SUBSET Guarded :
           /\ Cardinality(mfa) <= 1
           /\ db = [made |-> 1, live |-> {1}, open |-> mfa]
           /\ ui = [cookie |-> IF mfa = {} THEN 1 ELSE NoSession, mfa |-> mfa,
                    tab |-> [t \in Tabs |-> Document(IF t = 1 THEN "checking" ELSE "console",
                                                     t = 1 /\ mfa # {})]]
    /\ calls = [t \in Tabs |-> CallOf(ui, t, "me", "")]
    /\ clicks = 0

-----------------------------------------------------------------------------
(* The API.                                                                *)
LiveCookie(c) == c.arg.cookie \in db.live

\* middleware.go:71-95.  The browser sends both cookies of one session.
Csrf(c) == c.arg.csrf = c.arg.cookie

NewSession == db.made + 1

Grant(i, open) ==
    /\ db.made < MaxSessions
    /\ calls' = Served(i, Ok([session |-> NewSession]))
    /\ db' = [made |-> NewSession, live |-> db.live \cup {NewSession}, open |-> open]

Refuse(i, code, open) == calls' = Served(i, Refused(code)) /\ db' = [db EXCEPT !.open = open]

ServeLogin(i) ==
    /\ calls[i].op = "login"
    /\ LET a == calls[i].arg.who
       IN  \/ a \notin Guarded /\ Grant(i, db.open)
           \/ /\ a \in Guarded
              /\ calls' = Served(i, Ok([challenge |-> a])) /\ db' = [db EXCEPT !.open = @ \cup {a}]
           \/ Refuse(i, "invalid", db.open)

\* The challenge of the form, or that of the cookie; a wrong code may be the last.
ServeVerify(i) ==
    /\ calls[i].op = "verify"
    /\ LET a == calls[i].arg.who
       IN  \/ a \in db.open /\ Grant(i, db.open \ {a})
           \/ \E open \in {db.open, db.open \ {a}} : Refuse(i, "invalid", open)

ServeRead(i) ==
    /\ calls[i].op \in {"me", "csrf"}
    /\ calls' = Served(i, IF calls[i].op = "csrf"
                          THEN IF calls[i].arg.cookie = NoSession THEN Refused("unavailable")
                               ELSE Ok([session |-> calls[i].arg.cookie])
                          ELSE IF LiveCookie(calls[i]) THEN Ok([session |-> calls[i].arg.cookie])
                          ELSE Refused("401"))
    /\ UNCHANGED db

Allowed(c) == LiveCookie(c) /\ Csrf(c)

ServeMutation(i) ==
    /\ calls[i].op \in {"logout", "mutate"}
    /\ IF Allowed(calls[i])
       THEN /\ calls' = Served(i, Ok([session |-> calls[i].arg.cookie]))
            /\ db' = IF calls[i].op = "logout" THEN [db EXCEPT !.live = @ \ {calls[i].arg.cookie}] ELSE db
       ELSE calls' = Served(i, Refused(IF LiveCookie(calls[i]) THEN "csrf_invalid" ELSE "401")) /\ UNCHANGED db

Serve(i) ==
    /\ calls[i].st = "sent"
    /\ ServeLogin(i) \/ ServeVerify(i) \/ ServeRead(i) \/ ServeMutation(i)
    /\ UNCHANGED ui

\* The session ends on the server: it expires, or its account is disabled.
Expire(s) == db' = [db EXCEPT !.live = @ \ {s}] /\ UNCHANGED <<ui, calls>>

-----------------------------------------------------------------------------
(* request(), and the pages that await it.                                 *)
PutTab(u, t, s) == [u EXCEPT !.tab[t] = s]

\* The calls when tab t forgets what it waits for: the API may still get to them.
Forgotten(cs, t) ==
    [k \in DOMAIN cs |-> IF cs[k].arg.tab = t THEN [cs[k] EXCEPT !.arg.tab = NoTab] ELSE cs[k]]
Else(i, t) == Forgotten(Rest(i), t)

\* window.location.replace("/login"): a new document, and the old calls with the old.
Bounce(i, t) ==
    LET u == PutTab(ui, t, Document("checking", FALSE))
    IN  [u |-> u, cs |-> Append(Else(i, t), CallOf(u, t, "me", ""))]

\* router.replace("/home"): the shell mounts in the same document and asks who it is.
Home(u, i, t) ==
    LET v == PutTab(u, t, [u.tab[t] EXCEPT !.at = "console", !.user = NoSession, !.busy = FALSE,
                                           !.challenge = NoChallenge, !.mfa = FALSE, !.error = FALSE])
    IN  [u |-> v, cs |-> Append(Else(i, t), CallOf(v, t, "me", ""))]

\* router.replace("/login"): the sign-in page asks whether there is a session.
ToLogin(u, i, t) ==
    LET v == PutTab(u, t, [u.tab[t] EXCEPT !.at = "checking", !.busy = FALSE])
    IN  [u |-> v, cs |-> Append(Else(i, t), CallOf(v, t, "me", ""))]

\* A 401 of any but the pre-session calls, away from the sign-in page.
Expired(a, t) == ~a.ok /\ a.code = "401" /\ ui.tab[t].at = "console"

\* The sign-in page: a live session goes home, anything else shows a form.
DeliverCheck(i, t, a) ==
    /\ calls[i].op = "me" /\ ui.tab[t].at = "checking"
    /\ Show(IF a.ok THEN Home(ui, i, t)
            ELSE [u |-> PutTab(ui, t, [ui.tab[t] EXCEPT !.at = "login"]), cs |-> Rest(i)])

\* The shell: whose console this is, or nobody's.
DeliverMe(i, t, a) ==
    /\ calls[i].op = "me" /\ ui.tab[t].at # "checking"
    /\ Show(IF Expired(a, t) THEN Bounce(i, t)
            ELSE [u |-> PutTab(ui, t, [ui.tab[t] EXCEPT !.user = IF a.ok THEN a.data.session ELSE NoSession]),
                  cs |-> Rest(i)])

\* Set-Cookie of a granted session, and the token for the tab that asked.
SignedIn(t, s) ==
    [ui EXCEPT !.cookie = s, !.mfa = {}, !.tab[t].csrf = s, !.tab[t].signed = s]

DeliverSignIn(i, t, a) ==
    /\ calls[i].op \in {"login", "verify"}
    /\ Show(IF ~a.ok
            THEN [u |-> PutTab(ui, t, [ui.tab[t] EXCEPT !.error = TRUE, !.busy = FALSE]), cs |-> Rest(i)]
            ELSE IF "session" \in DOMAIN a.data THEN Home(SignedIn(t, a.data.session), i, t)
            ELSE [u |-> PutTab(ui, t, [ui.tab[t] EXCEPT !.challenge = a.data.challenge, !.busy = FALSE,
                                                        !.csrf = NoSession, !.signed = NoSession]),
                  cs |-> Rest(i)])

\* The token is in: the mutation that asked for it leaves, with it or without.
DeliverCsrf(i, t, a) ==
    /\ calls[i].op = "csrf"
    /\ LET u == IF a.ok THEN [ui EXCEPT !.tab[t].csrf = a.data.session] ELSE ui
       IN  Show([u |-> u, cs |-> Then(i, CallOf(u, t, calls[i].arg.who, ""))])

DeliverMutation(i, t, a) ==
    /\ calls[i].op = "mutate"
    /\ Show(IF Expired(a, t) THEN Bounce(i, t)
            ELSE [u |-> PutTab(ui, t, [ui.tab[t] EXCEPT !.error = ~a.ok, !.busy = FALSE]), cs |-> Rest(i)])

\* Signed out or not, the shell goes to the sign-in page; the answer clears the cookies.
DeliverLogout(i, t, a) ==
    /\ calls[i].op = "logout"
    /\ Show(IF Expired(a, t) THEN Bounce(i, t)
            ELSE ToLogin(IF a.ok THEN [ui EXCEPT !.cookie = NoSession, !.mfa = {}] ELSE ui, i, t))

DeliverToNobody(i) == Show([u |-> ui, cs |-> Rest(i)])

Deliver(i) ==
    /\ LET t == calls[i].arg.tab
       IN  IF t = NoTab THEN DeliverToNobody(i)
           ELSE \E a \in Answers(i) :
              \/ DeliverCheck(i, t, a) \/ DeliverMe(i, t, a) \/ DeliverSignIn(i, t, a)
              \/ DeliverCsrf(i, t, a) \/ DeliverMutation(i, t, a) \/ DeliverLogout(i, t, a)
    /\ UNCHANGED db

-----------------------------------------------------------------------------
(* The user.                                                               *)

\* A mutation fetches a token first when the tab has none.
\* Mutant of NeedsToken: the token is always fetched, with whatever cookie there is.
NeedsTokenAlways(s) == TRUE
NeedsToken(s) == s.csrf = NoSession
Mutate(t, op) ==
    /\ ui.tab[t].at = "console" /\ ~ui.tab[t].busy
    /\ LET u == PutTab(ui, t, [ui.tab[t] EXCEPT !.busy = TRUE, !.error = FALSE])
       IN  Send(u, IF NeedsToken(ui.tab[t]) THEN CallOf(u, t, "csrf", op) ELSE CallOf(u, t, op, ""))

Verifying(s) == s.challenge # NoChallenge \/ s.mfa

Submit(t, a) ==
    /\ ui.tab[t].at = "login" /\ ~ui.tab[t].busy /\ ~Verifying(ui.tab[t])
    /\ LET u == PutTab(ui, t, [ui.tab[t] EXCEPT !.busy = TRUE, !.error = FALSE])
       IN  Send(u, CallOf(u, t, "login", a))

\* The account the challenge is of: the form's, or the one in the cookie.
Challenged(s) == IF s.challenge # NoChallenge THEN {s.challenge} ELSE ui.mfa

Verify(t) ==
    /\ ui.tab[t].at = "login" /\ ~ui.tab[t].busy /\ Verifying(ui.tab[t])
    /\ LET u   == PutTab(ui, t, [ui.tab[t] EXCEPT !.busy = TRUE, !.error = FALSE])
           who == Challenged(ui.tab[t])
       IN  Send(u, CallOf(u, t, "verify", IF who = {} THEN "" ELSE CHOOSE a \in who : TRUE))

Restart(t) ==
    /\ ui.tab[t].at = "login" /\ Verifying(ui.tab[t])
    /\ Set(PutTab(ui, t, [ui.tab[t] EXCEPT !.challenge = NoChallenge, !.mfa = FALSE, !.error = FALSE]))

\* The user loads the document again: what it was waiting for is forgotten.
Reload(t) ==
    LET at == IF ui.tab[t].at = "console" THEN "console" ELSE "checking"
        u  == PutTab(ui, t, Document(at, FALSE))
    IN  ui' = u /\ calls' = Append(Forgotten(calls, t), CallOf(u, t, "me", ""))

Click ==
    /\ \E t \in Tabs :
           \/ Mutate(t, "mutate") \/ Mutate(t, "logout") \/ Verify(t) \/ Restart(t) \/ Reload(t)
           \/ \E a \in Accounts : Submit(t, a)
    /\ UNCHANGED db

Waiting == \E t \in Tabs : ui.tab[t].at = "checking" \/ ui.tab[t].busy

Next ==
    \/ UserActs /\ (Click \/ \E s \in db.live : Expire(s))
    \/ (\E i \in DOMAIN calls : Serve(i) \/ Deliver(i)) /\ UNCHANGED clicks
-----------------------------------------------------------------------------
TypeOK ==
    /\ db.live \subseteq 1 .. db.made /\ db.open \subseteq Guarded
    /\ ui.cookie \in NoSession .. db.made
    /\ \A t \in Tabs :
           /\ ui.tab[t].at \in {"checking", "login", "console"}
           /\ {ui.tab[t].csrf, ui.tab[t].signed, ui.tab[t].user} \subseteq NoSession .. db.made
           /\ ui.tab[t].challenge \in Guarded \cup {NoChallenge}
           /\ {ui.tab[t].mfa, ui.tab[t].error, ui.tab[t].busy} \subseteq BOOLEAN

-----------------------------------------------------------------------------
(* A tab that signed in never changes anything under a session another tab *)
(* signed in to afterwards, although the cookies are that session's by     *)
(* then (api-client.ts:513-522, middleware.go:71-95).                      *)
ActsAsSignedIn ==
    \A i \in DOMAIN calls :
        LET c == calls[i]
        IN  (c.op \in {"mutate", "logout"} /\ c.st = "served" /\ c.res.ok
                /\ c.arg.tab # NoTab /\ ui.tab[c.arg.tab].signed # NoSession)
                => c.res.data.session = ui.tab[c.arg.tab].signed
=============================================================================
