------------------------------ MODULE SettingsHome ------------------------------
(***************************************************************************)
(* The first page of the settings (web/src/app/home/settings/page.tsx):    *)
(* who is asking, then everything that account may read at once.  Each     *)
(* load has a flag of its own, which a retry takes down: an answer of an   *)
(* earlier load changes nothing.                                           *)
(***************************************************************************)
EXTENDS ConsoleCalls, Navigation

CONSTANT Granted        \* the sets of scopes an account may hold

Sources == {"runtime", "captcha", "oidc", "analytics"}
ScopeOf(s) ==
    CASE s = "runtime" -> "settings:manage" [] s = "captcha" -> "captcha:manage"
      [] s = "oidc" -> "oidc:manage" [] s = "analytics" -> "analytics:manage"

Scopes == {"settings:manage", "captcha:manage", "oidc:manage", "analytics:manage", "users:manage",
           "roles:manage", "audit:read"}

\* "pending" while its call is in flight, then what came of it; an account that
\* may not read a source is not asking for it.
NotAsked == [s \in Sources |-> "skipped"]
Results == {"pending", "skipped", "failed", "on", "off"}

Mounted == [known |-> FALSE, scopes |-> {}, loadError |-> FALSE, loading |-> TRUE,
            summary |-> NotAsked, got |-> NotAsked, query |-> FALSE, refresh |-> 0]

Load(refresh) == Get("me", <<"load", refresh>>)

\* db: the scopes of the account, and whether what each source turns on is on.
Init ==
    /\ db \in [scopes : Granted, on : {[s \in Sources |-> "on"]}]
    /\ ui = Mounted
    /\ calls = <<Load(0)>>
    /\ clicks = 0

-----------------------------------------------------------------------------
Serve(i) ==
    /\ calls[i].st = "sent"
    /\ calls' = Served(i, IF calls[i].op = "me" THEN Ok([scopes |-> db.scopes])
                          ELSE IF ScopeOf(calls[i].op) \in db.scopes THEN Ok([value |-> db.on[calls[i].op]])
                          ELSE Refused("forbidden"))
    /\ UNCHANGED <<ui, db>>

RoleChanges == \E g \in Granted \ {db.scopes} : db' = [db EXCEPT !.scopes = g] /\ UNCHANGED <<ui, calls>>
SettingChanges ==
    \E s \in Sources :
        db' = [db EXCEPT !.on[s] = IF @ = "on" THEN "off" ELSE "on"] /\ UNCHANGED <<ui, calls>>

-----------------------------------------------------------------------------
Active(i) == calls[i].then[2] = ui.refresh

\* Promise.allSettled: the summary is set when the last answer is in.
Settled(u) ==
    IF \E s \in Sources : u.got[s] = "pending" THEN u
    ELSE [u EXCEPT !.loading = FALSE, !.summary = u.got]

Asked(scopes) == {s \in Sources : ScopeOf(s) \in scopes}

\* The reads of everything the account may read, in the order of the page.
Reading(asked, then) ==
    (IF "runtime" \in asked THEN <<Get("runtime", then)>> ELSE <<>>)
        \o (IF "captcha" \in asked THEN <<Get("captcha", then)>> ELSE <<>>)
        \o (IF "oidc" \in asked THEN <<Get("oidc", then)>> ELSE <<>>)
        \o (IF "analytics" \in asked THEN <<Get("analytics", then)>> ELSE <<>>)

DeliverMe(i) ==
    /\ calls[i].op = "me" /\ Active(i)
    /\ \E a \in Answers(i) :
           Show(IF a.ok
                THEN [u |-> Settled([ui EXCEPT !.known = TRUE, !.scopes = a.data.scopes,
                                     !.got = [s \in Sources |-> IF s \in Asked(a.data.scopes)
                                                                THEN "pending" ELSE "skipped"]]),
                      cs |-> Rest(i) \o Reading(Asked(a.data.scopes), calls[i].then)]
                ELSE [u |-> [ui EXCEPT !.known = TRUE, !.scopes = {}, !.loadError = TRUE,
                                       !.loading = FALSE, !.summary = NotAsked],
                      cs |-> Rest(i)])

DeliverSource(i) ==
    /\ calls[i].op \in Sources /\ Active(i)
    /\ \E a \in Answers(i) :
           Show([u |-> Settled([ui EXCEPT !.got[calls[i].op] = IF a.ok THEN a.data.value ELSE "failed"]),
                 cs |-> Rest(i)])

DeliverLate(i) == ~Active(i) /\ Show([u |-> ui, cs |-> Rest(i)])

Deliver(i) ==
    /\ DeliverMe(i) \/ DeliverSource(i) \/ DeliverLate(i)
    /\ UNCHANGED db

-----------------------------------------------------------------------------
Failed(u) == {s \in Sources : u.summary[s] = "failed"}

Retry ==
    /\ ui.loadError \/ (ui.known /\ Failed(ui) # {})
    /\ Send([Mounted EXCEPT !.query = ui.query, !.refresh = ui.refresh + 1], Load(ui.refresh + 1))

Search == ui.known /\ ~ui.loadError /\ ui.scopes # {} /\ Set([ui EXCEPT !.query = ~@])

Click == (Retry \/ Search) /\ UNCHANGED db

Waiting == ~ui.known \/ ui.loading

Next ==
    \/ UserActs /\ (Click \/ RoleChanges \/ SettingChanges)
    \/ (\E i \in DOMAIN calls : Serve(i) \/ Deliver(i)) /\ UNCHANGED clicks

-----------------------------------------------------------------------------
(* What is on the screen.                                                  *)

\* categoryStatus: what a category is made of, as far as it could be read.
Relevant(path) ==
    CASE path = Settings(<<"links">>) -> {"runtime"}
      [] path = Settings(<<"registration">>) -> {"runtime", "captcha", "oidc"}
      [] path = Settings(<<"traffic">>) -> {"runtime"}
      [] path = Settings(<<"analytics">>) -> {"runtime", "analytics"}
      [] OTHER -> {}

CategoryStatus(u, path) ==
    IF u.loading /\ path \notin {Users, Settings(<<"roles">>)} THEN {<<"loading", "">>}
    ELSE {<<s, u.summary[s]>> : s \in {r \in Relevant(path) : u.summary[r] \in {"on", "off"}}}
             \cup {<<"unavailable", "">> : s \in Failed(u) \cap Relevant(path)}

Screen(u) ==
    [categories |-> IF u.loadError \/ ~u.known \/ u.query THEN {}
                    ELSE {<<c.path, CategoryStatus(u, c.path)>> : c \in Visible(Categories, u.scopes)},
     results |-> IF u.query /\ u.known THEN VisibleSearchEntries(u.scopes) ELSE {},
     retry |-> u.loadError \/ Failed(u) # {}]
-----------------------------------------------------------------------------
TypeOK ==
    /\ db.scopes \in Granted /\ ui.scopes \in Granted \cup {{}}
    /\ ui.summary \in [Sources -> Results] /\ ui.got \in [Sources -> Results]
    /\ {ui.known, ui.loadError, ui.loading, ui.query} \subseteq BOOLEAN
    /\ ui.refresh \in 0 .. MaxClicks

(* The settings search discloses no editor its account cannot use: what it *)
(* finds is under a category and a tab the same account is shown           *)
(* (admin-navigation.ts:143).                                              *)
SearchIsReachable == \A e \in Screen(ui).results : Reachable(e.path, ui.scopes)

(* A summary is of one load: what it says of a source was asked for by the *)
(* scopes shown, and by nothing before a retry (settings/page.tsx:33-66).  *)
SummaryIsOfThisLoad ==
    ~ui.loading /\ ~ui.loadError =>
        \A s \in Sources : (ui.summary[s] # "skipped") <=> (s \in Asked(ui.scopes))
=============================================================================
