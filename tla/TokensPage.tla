------------------------------ MODULE TokensPage -----------------------------
(***************************************************************************)
(* API tokens (web/src/app/home/account/tokens/page.tsx).  The secret of a *)
(* new token is in one answer and nowhere else: the page keeps it on the   *)
(* screen until its owner says it is saved, and creates no other till then.*)
(***************************************************************************)
EXTENDS ConsoleCalls

CONSTANT Tokens         \* the tokens that may ever be made, 1 .. n

NoSecret == 0

Mounted == [allowed |-> "unknown", tokens |-> {}, named |-> FALSE, secret |-> NoSecret,
            error |-> FALSE, loadError |-> FALSE, loading |-> TRUE, creating |-> FALSE,
            revoking |-> {}, failed |-> {}]

\* db: the tokens made and not revoked, how many were made, and whether the
\* account may manage tokens.
Init ==
    /\ db \in [live : {{}}, made : {0}, allowed : BOOLEAN]
    /\ ui = Mounted
    /\ calls = <<Get("me", Effect)>>
    /\ clicks = 0

-----------------------------------------------------------------------------
ServeCreate(i) ==
    /\ calls[i].op = "create"
    /\ IF db.allowed /\ db.made < Cardinality(Tokens)
       THEN /\ calls' = Served(i, Ok([secret |-> db.made + 1]))
            /\ db' = [db EXCEPT !.made = @ + 1, !.live = @ \cup {db.made + 1}]
       ELSE calls' = Served(i, Refused("forbidden")) /\ UNCHANGED db

ServeRevoke(i) ==
    /\ calls[i].op = "revoke"
    /\ IF db.allowed /\ calls[i].arg.id \in db.live
       THEN /\ calls' = Served(i, Ok([n |-> 0]))
            /\ db' = [db EXCEPT !.live = @ \ {calls[i].arg.id}]
       ELSE calls' = Served(i, Refused("not_found")) /\ UNCHANGED db

ServeRead(i) ==
    /\ calls[i].op \in {"me", "list"}
    /\ calls' = Served(i, IF calls[i].op = "me" THEN Ok([allowed |-> db.allowed])
                          ELSE IF db.allowed THEN Ok([tokens |-> db.live]) ELSE Refused("forbidden"))
    /\ UNCHANGED db

Serve(i) ==
    /\ calls[i].st = "sent"
    /\ ServeCreate(i) \/ ServeRevoke(i) \/ ServeRead(i)
    /\ UNCHANGED ui

\* The role of the account loses, or gains, tokens:manage.
RoleChanges == db' = [db EXCEPT !.allowed = ~@] /\ UNCHANGED <<ui, calls>>

-----------------------------------------------------------------------------
\* load() waits for me(), then for the list if the account may have one.
Reload(u, then, i) ==
    [u |-> [u EXCEPT !.loading = TRUE, !.loadError = FALSE], cs |-> Then(i, Get("me", then))]

\* Mutant of Over: the secret goes with the form that made it.
OverAnew(u, then) == [u EXCEPT !.loading = FALSE, !.creating = FALSE, !.secret = NoSecret]

\* The load is over; create(), if it awaited it, is over too.
Over(u, then) ==
    [u EXCEPT !.loading = FALSE, !.creating = IF then = Effect THEN @ ELSE FALSE]

DeliverMe(i) ==
    /\ calls[i].op = "me"
    /\ \E a \in Answers(i) :
           Show(IF ~a.ok
                THEN [u |-> Over([ui EXCEPT !.loadError = TRUE], calls[i].then), cs |-> Rest(i)]
                ELSE IF a.data.allowed
                THEN [u |-> [ui EXCEPT !.allowed = "yes"], cs |-> Then(i, Get("list", calls[i].then))]
                ELSE [u |-> Over([ui EXCEPT !.allowed = "no", !.tokens = {}, !.secret = NoSecret],
                                 calls[i].then),
                      cs |-> Rest(i)])

DeliverList(i) ==
    /\ calls[i].op = "list"
    /\ \E a \in Answers(i) :
           Show([u |-> Over(IF a.ok THEN [ui EXCEPT !.tokens = a.data.tokens]
                            ELSE [ui EXCEPT !.loadError = TRUE], calls[i].then),
                 cs |-> Rest(i)])

DeliverCreate(i) ==
    /\ calls[i].op = "create"
    /\ \E a \in Answers(i) :
           Show(IF a.ok
                THEN Reload([ui EXCEPT !.secret = a.data.secret, !.named = FALSE], <<"create", 0>>, i)
                ELSE [u |-> [ui EXCEPT !.error = TRUE, !.creating = FALSE], cs |-> Rest(i)])

DeliverRevoke(i) ==
    /\ calls[i].op = "revoke"
    /\ LET id == calls[i].arg.id
       IN  \E a \in Answers(i) :
              Show([u |-> IF a.ok THEN [ui EXCEPT !.tokens = @ \ {id}, !.revoking = @ \ {id}]
                          ELSE [ui EXCEPT !.error = TRUE, !.revoking = @ \ {id}, !.failed = @ \cup {id}],
                    cs |-> Rest(i)])

Deliver(i) ==
    /\ DeliverMe(i) \/ DeliverList(i) \/ DeliverCreate(i) \/ DeliverRevoke(i)
    /\ UNCHANGED db

-----------------------------------------------------------------------------
Open == ui.allowed = "yes"

TypeName == Open /\ ~ui.creating /\ ui.secret = NoSecret /\ Set([ui EXCEPT !.named = ~@])

Create ==
    /\ Open /\ ~ui.creating /\ ui.named /\ ui.secret = NoSecret
    /\ Send([ui EXCEPT !.creating = TRUE, !.error = FALSE], Get("create", Effect))

SecretSaved == ui.secret # NoSecret /\ Set([ui EXCEPT !.secret = NoSecret])

Revoke(id) ==
    /\ Open /\ id \in ui.tokens \ ui.revoking
    /\ Send([ui EXCEPT !.error = FALSE, !.revoking = @ \cup {id}, !.failed = @ \ {id}],
            Call("revoke", [id |-> id], Effect))

Retry ==
    /\ ui.loadError /\ ~ui.loading
    /\ Send([ui EXCEPT !.loading = TRUE, !.loadError = FALSE], Get("me", Effect))

Click ==
    /\ TypeName \/ Create \/ SecretSaved \/ Retry \/ \E id \in Tokens : Revoke(id)
    /\ UNCHANGED db

Waiting == ui.loading \/ ui.creating \/ ui.revoking # {}

Next ==
    \/ UserActs /\ (Click \/ RoleChanges)
    \/ (\E i \in DOMAIN calls : Serve(i) \/ Deliver(i)) /\ UNCHANGED clicks
-----------------------------------------------------------------------------
TypeOK ==
    /\ ui.allowed \in {"unknown", "yes", "no"} /\ ui.secret \in Tokens \cup {NoSecret}
    /\ ui.tokens \cup ui.revoking \cup ui.failed \subseteq Tokens
    /\ db.live \subseteq 1 .. db.made /\ db.made \in 0 .. Cardinality(Tokens)

(* The secret of a new token leaves the screen when its owner says it is   *)
(* saved, or with the permission to have tokens: no answer takes it away   *)
(* (tokens/page.tsx:36-38, 62-66).                                         *)
SecretStays == (ui.secret # NoSecret /\ ui'.secret # ui.secret) => clicks' # clicks \/ ui'.allowed = "no"
=============================================================================
