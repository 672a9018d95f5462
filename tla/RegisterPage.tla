----------------------------- MODULE RegisterPage ------------------------------
(***************************************************************************)
(* Registration and the challenge in front of it                           *)
(* (web/src/app/register/page.tsx, components/turnstile-widget.tsx).  A    *)
(* solved challenge is a token the page holds and the API takes to the     *)
(* provider, who accepts it once.  The widget outlives a change of         *)
(* language; the settings it depends on are asked for again.               *)
(***************************************************************************)
EXTENDS ConsoleCalls

CONSTANT SiteKeys

NoToken == 0
NoWidget == "none"
Unknown == [enabled |-> FALSE, open |-> TRUE, key |-> NoWidget]

Mounted == [captcha |-> Unknown, captchaError |-> FALSE, captchaLoading |-> TRUE, script |-> FALSE,
            widget |-> NoWidget, token |-> NoToken, named |-> FALSE, error |-> FALSE,
            loading |-> FALSE, left |-> FALSE]

\* CaptchaService.Public: what the page is told of a deployment.
Offers ==
    {[enabled |-> FALSE, open |-> o, key |-> NoWidget] : o \in BOOLEAN}
        \cup [enabled : {TRUE}, open : BOOLEAN, key : SiteKeys]

\* db: the settings, the tokens the provider handed out and those it has taken,
\* and whether the name is an account's.
Init ==
    /\ db \in [settings : Offers, made : {0}, used : {{}}, taken : BOOLEAN]
    /\ ui = Mounted
    /\ calls = <<Get("settings", Effect)>>
    /\ clicks = 0

-----------------------------------------------------------------------------
\* AuthService.Register: the challenge is verified, and thereby taken, before the
\* name is looked at.
ServeRegister(i) ==
    /\ calls[i].op = "register"
    /\ LET token  == calls[i].arg.token
           solved == ~db.settings.enabled \/ (token # NoToken /\ token \notin db.used)
           used   == IF db.settings.enabled THEN db.used \cup ({token} \ {NoToken}) ELSE db.used
       IN  IF ~db.settings.open
           THEN calls' = Served(i, Refused("registration_disabled")) /\ UNCHANGED db
           ELSE /\ calls' = Served(i, IF ~solved THEN Refused("captcha_invalid")
                                      ELSE IF db.taken THEN Refused("username_taken") ELSE Ok([n |-> 0]))
                /\ db' = [db EXCEPT !.used = used, !.taken = @ \/ solved]

ServeSettings(i) ==
    /\ calls[i].op = "settings"
    /\ calls' = Served(i, Ok(db.settings))
    /\ UNCHANGED db

Serve(i) ==
    /\ calls[i].st = "sent"
    /\ ServeRegister(i) \/ ServeSettings(i)
    /\ UNCHANGED ui

\* An administrator edits the deployment meanwhile.
SettingsChange == \E s \in Offers \ {db.settings} : db' = [db EXCEPT !.settings = s] /\ UNCHANGED <<ui, calls>>

-----------------------------------------------------------------------------
\* The widget is on the page while the settings say so and its script is there.
\* Its effect depends on the script and the site key alone: when either changes
\* the old widget is removed, and what it had solved with it.
Wanted(u) ==
    IF u.script /\ u.captcha.open /\ u.captcha.enabled THEN u.captcha.key ELSE NoWidget

Settle(u) ==
    IF Wanted(u) = u.widget THEN u ELSE [u EXCEPT !.widget = Wanted(u), !.token = NoToken]

DeliverSettings(i) ==
    /\ calls[i].op = "settings"
    /\ \E a \in Answers(i) :
           Show([u |-> Settle(IF a.ok
                              THEN [ui EXCEPT !.captcha = a.data, !.captchaError = FALSE,
                                              !.captchaLoading = FALSE]
                              ELSE [ui EXCEPT !.captchaError = TRUE, !.captchaLoading = FALSE]),
                 cs |-> Rest(i)])

\* A failed registration gives up the token it sent, and the widget starts over.
\* Mutant of GiveUp: the challenge is kept for another try.
GiveUpNothing(u) == [u EXCEPT !.error = TRUE, !.loading = FALSE]
GiveUp(u) == [u EXCEPT !.token = NoToken, !.error = TRUE, !.loading = FALSE]

DeliverRegister(i) ==
    /\ calls[i].op = "register"
    /\ \E a \in Answers(i) :
           Show(IF a.ok THEN [u |-> [Mounted EXCEPT !.captchaLoading = FALSE, !.left = TRUE], cs |-> <<>>]
                ELSE [u |-> GiveUp(ui), cs |-> Rest(i)])

Deliver(i) ==
    /\ DeliverSettings(i) \/ DeliverRegister(i)
    /\ UNCHANGED db

-----------------------------------------------------------------------------
\* Callbacks of the provider's script.
ScriptLoads == ~ui.left /\ ~ui.script /\ Set(Settle([ui EXCEPT !.script = TRUE])) /\ UNCHANGED db

Solve ==
    /\ ui.widget # NoWidget /\ ui.token = NoToken
    /\ db' = [db EXCEPT !.made = @ + 1]
    /\ Set([ui EXCEPT !.token = db.made + 1])

TokenExpires == ui.token # NoToken /\ Set([ui EXCEPT !.token = NoToken]) /\ UNCHANGED db

WidgetFails ==
    /\ ui.widget # NoWidget
    /\ Set([ui EXCEPT !.token = NoToken, !.captchaError = TRUE]) /\ UNCHANGED db

-----------------------------------------------------------------------------
TypeFields == ~ui.left /\ ui.captcha.open /\ Set([ui EXCEPT !.named = ~@])

\* The effect that asks for the settings depends on the translator.
Language == ~ui.left /\ Send(ui, Get("settings", Effect))

CanSubmit(u) ==
    /\ ~u.left /\ u.captcha.open /\ u.named
    /\ ~u.loading /\ ~u.captchaLoading /\ ~u.captchaError
    /\ u.captcha.enabled => u.token # NoToken

Submit ==
    /\ CanSubmit(ui)
    /\ Send([ui EXCEPT !.loading = TRUE, !.error = FALSE], Call("register", [token |-> ui.token], Effect))

Click ==
    \/ (TypeFields \/ Language \/ Submit) /\ UNCHANGED db
    \/ ScriptLoads \/ Solve \/ TokenExpires \/ WidgetFails

Waiting == ui.loading \/ ui.captchaLoading

Next ==
    \/ UserActs /\ (Click \/ SettingsChange)
    \/ (\E i \in DOMAIN calls : Serve(i) \/ Deliver(i)) /\ UNCHANGED clicks
-----------------------------------------------------------------------------
TypeOK ==
    /\ ui.captcha \in Offers \cup {Unknown} /\ ui.widget \in SiteKeys \cup {NoWidget}
    /\ {ui.token} \cup db.used \subseteq 0 .. db.made
    /\ {ui.captchaError, ui.captchaLoading, ui.script, ui.named, ui.error, ui.loading, ui.left} \subseteq BOOLEAN

(* The page never offers for submission a token the provider has taken     *)
(* already: one it sent is given up when the answer is anything but a new  *)
(* account, a lost answer included (register/page.tsx:51-59).              *)
FreshToken == CanSubmit(ui) => ui.token \notin db.used
=============================================================================
