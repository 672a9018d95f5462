------------------------------- MODULE OidcPage -------------------------------
(***************************************************************************)
(* The sign-in providers (web/src/app/home/settings/oidc/page.tsx): a      *)
(* draft per provider, saved or deleted each on its own, and a form for a  *)
(* new one.  Every save, deletion and creation loads the list again, which *)
(* puts the server's copy in place of every draft.                         *)
(***************************************************************************)
EXTENDS ConsoleCalls

CONSTANTS Providers,    \* providers that exist or may be created, 1 .. n
          Configs       \* what the fields other than the secret may hold

None == 0
New == 99               \* busy with the form for a new provider
Unloaded == [p \in {} |-> 0]
Blank == [complete |-> FALSE, secret |-> FALSE]

Mounted == [list |-> Unloaded, drafts |-> Unloaded, creating |-> Blank, confirming |-> None,
            error |-> FALSE, notice |-> "", busy |-> None, loading |-> TRUE, base |-> FALSE]

\* db: the providers there are, their fields, and whether a secret is stored.
Init ==
    /\ db \in {[live |-> {1}, config |-> [p \in Providers |-> v], secret |-> [p \in Providers |-> p = 1]] :
                  v \in Configs}
    /\ ui = Mounted
    /\ calls = <<Get("list", Effect)>>
    /\ clicks = 0

-----------------------------------------------------------------------------
\* A blank secret keeps the one that is stored.
SecretAfter(p, given) == db.secret[p] \/ given

ServeUpdate(c) ==
    /\ c.op = "update" /\ c.arg.id \in db.live
    /\ db' = [db EXCEPT !.config[c.arg.id] = c.arg.config,
                        !.secret[c.arg.id] = SecretAfter(c.arg.id, c.arg.secret)]

ServeRemove(c) ==
    /\ c.op = "remove" /\ c.arg.id \in db.live
    /\ db' = [db EXCEPT !.live = @ \ {c.arg.id}, !.secret[c.arg.id] = FALSE]

ServeCreate(c) ==
    /\ c.op = "create"
    /\ \E p \in Providers \ db.live :
           /\ \A q \in Providers \ db.live : p <= q
           /\ db' = [db EXCEPT !.live = @ \cup {p}, !.secret[p] = c.arg.secret]

\* A change the API refuses: a provider that is gone, a slug that is taken, an
\* issuer it does not accept.
Serve(i) ==
    /\ calls[i].st = "sent" /\ calls[i].op # "list"
    /\ \/ /\ ServeUpdate(calls[i]) \/ ServeRemove(calls[i]) \/ ServeCreate(calls[i])
          /\ calls' = Served(i, Ok([n |-> 0]))
       \/ calls' = Served(i, Refused("refused")) /\ UNCHANGED db
    /\ UNCHANGED ui

Stored == [p \in db.live |-> [config |-> db.config[p], secret |-> db.secret[p]]]

-----------------------------------------------------------------------------
\* toDraft(): the secret is write-only, so a draft starts without one.
ToDraft(provider) == [config |-> provider.config, secret |-> FALSE]

\* load(): every draft is made anew from the list.
Loaded(u, a) ==
    IF a.ok THEN [u EXCEPT !.list = a.data, !.drafts = [p \in DOMAIN a.data |-> ToDraft(a.data[p])],
                           !.base = TRUE, !.error = FALSE, !.loading = FALSE]
    ELSE [u EXCEPT !.error = TRUE, !.loading = FALSE]

DeliverList(i) ==
    /\ calls[i].op = "list"
    /\ \E a \in Reads(Stored) :
           Show([u |-> IF calls[i].then = Effect THEN Loaded(ui, a)
                       ELSE [Loaded(ui, a) EXCEPT !.notice = calls[i].then[1], !.busy = None],
                 cs |-> Rest(i)])

\* A deletion that went through closes the confirmation, a creation empties the form.
Done(u, op) ==
    CASE op = "remove" -> [u EXCEPT !.confirming = None]
      [] op = "create" -> [u EXCEPT !.creating = Blank]
      [] OTHER -> u

DeliverChange(i) ==
    /\ calls[i].op # "list"
    /\ \E a \in Answers(i) :
           Show(IF a.ok
                THEN [u |-> [Done(ui, calls[i].op) EXCEPT !.loading = TRUE],
                      cs |-> Then(i, Get("list", <<calls[i].op, 0>>))]
                ELSE [u |-> [ui EXCEPT !.error = TRUE, !.busy = None], cs |-> Rest(i)])

Deliver(i) == (DeliverList(i) \/ DeliverChange(i)) /\ UNCHANGED db

-----------------------------------------------------------------------------
Dirty(p) == ui.drafts[p] # ToDraft(ui.list[p])

\* A handler starts: the old error and notice go.
Begin(who, call) ==
    Send([ui EXCEPT !.busy = who, !.error = FALSE, !.notice = ""], call)

EditDraft(p, draft) ==
    /\ p \in DOMAIN ui.drafts /\ draft # ui.drafts[p]
    /\ Set([ui EXCEPT !.notice = "", !.drafts[p] = draft])

Edit(p) ==
    \/ \E v \in Configs : EditDraft(p, [ui.drafts[p] EXCEPT !.config = v])
    \/ EditDraft(p, [ui.drafts[p] EXCEPT !.secret = ~@])

Save(p) ==
    /\ Dirty(p) /\ ui.busy # p
    /\ Begin(p, Call("update", [id |-> p, config |-> ui.drafts[p].config,
                                secret |-> ui.drafts[p].secret], Effect))

AskDelete(p) == ui.confirming # p /\ ui.busy # p /\ Set([ui EXCEPT !.confirming = p])
CancelDelete(p) == ui.confirming = p /\ ui.busy # p /\ Set([ui EXCEPT !.confirming = None])
RemoveProvider(p) ==
    /\ ui.confirming = p /\ ui.busy # p
    /\ Begin(p, Call("remove", [id |-> p], Effect))

\* The form for a new provider: canCreate asks for slug, name, issuer and client.
TypeNew ==
    \/ Set([ui EXCEPT !.creating.complete = ~@])
    \/ Set([ui EXCEPT !.creating.secret = ~@])
Create ==
    /\ ui.creating.complete /\ ui.busy # New
    /\ Begin(New, Call("create", [secret |-> ui.creating.secret], Effect))

Click ==
    /\ \/ \E p \in DOMAIN ui.list :
              Edit(p) \/ Save(p) \/ AskDelete(p) \/ CancelDelete(p) \/ RemoveProvider(p)
       \/ TypeNew \/ Create
    /\ UNCHANGED db

Waiting == ui.loading \/ ui.busy # None

Next ==
    \/ UserActs /\ Click
    \/ (\E i \in DOMAIN calls : Serve(i) \/ Deliver(i)) /\ UNCHANGED clicks
-----------------------------------------------------------------------------
TypeOK ==
    /\ db.live \subseteq Providers /\ db.config \in [Providers -> Configs]
    /\ db.secret \in [Providers -> BOOLEAN]
    /\ DOMAIN ui.list \subseteq Providers /\ DOMAIN ui.drafts = DOMAIN ui.list
    /\ ui.busy \in Providers \cup {None, New} /\ ui.confirming \in Providers \cup {None}
    /\ ui.notice \in {"", "update", "remove", "create"}
    /\ {ui.error, ui.loading, ui.base, ui.creating.complete, ui.creating.secret} \subseteq BOOLEAN
=============================================================================
