------------------------------ MODULE RolesPage ------------------------------
(***************************************************************************)
(* The roles (web/src/app/home/settings/roles/page.tsx): a draft of scopes *)
(* per role, saved as a whole.  A load, also the one that follows a save,  *)
(* puts the server's copy in place of every draft.                         *)
(***************************************************************************)
EXTENDS ConsoleCalls

CONSTANTS Roles,
          Grants        \* what a role may grant: sets of scopes and "unrestricted"

NoRole == "none"
Unloaded == [r \in {} |-> 0]

Mounted == [roles |-> Unloaded, drafts |-> Unloaded, error |-> FALSE, notice |-> NoRole,
            busy |-> NoRole, loading |-> TRUE]

\* db: what each role grants.
Init ==
    /\ db \in {d \in [Roles -> Grants] : \A r, s \in Roles : d[r] = d[s]}
    /\ ui = Mounted
    /\ calls = <<Get("load", Effect)>>
    /\ clicks = 0

\* The whole document is replaced, or refused: a protected or unknown role.
Serve(i) ==
    /\ calls[i].st = "sent" /\ calls[i].op = "save"
    /\ \/ /\ calls' = Served(i, Ok([n |-> 0]))
          /\ db' = [db EXCEPT ![calls[i].arg.role] = calls[i].arg.draft]
       \/ calls' = Served(i, Refused("forbidden")) /\ UNCHANGED db
    /\ UNCHANGED ui

OtherAdmin(r, g) == g # db[r] /\ db' = [db EXCEPT ![r] = g] /\ UNCHANGED <<ui, calls>>

-----------------------------------------------------------------------------
Loaded(u, a) ==
    IF a.ok THEN [u EXCEPT !.roles = a.data, !.drafts = a.data, !.error = FALSE, !.loading = FALSE]
    ELSE [u EXCEPT !.error = TRUE, !.loading = FALSE]

DeliverLoad(i) ==
    /\ calls[i].op = "load"
    /\ \E a \in Reads(db) :
           Show([u |-> IF calls[i].then = Effect THEN Loaded(ui, a)
                       ELSE [Loaded(ui, a) EXCEPT !.notice = calls[i].then[1], !.busy = NoRole],
                 cs |-> Rest(i)])

DeliverSave(i) ==
    /\ calls[i].op = "save"
    /\ \E a \in Answers(i) :
           Show(IF a.ok
                THEN [u |-> [ui EXCEPT !.loading = TRUE],
                      cs |-> Then(i, Get("load", <<calls[i].arg.role, 0>>))]
                ELSE [u |-> [ui EXCEPT !.error = TRUE, !.busy = NoRole], cs |-> Rest(i)])

Deliver(i) == (DeliverLoad(i) \/ DeliverSave(i)) /\ UNCHANGED db

Dirty(r) == ui.drafts[r] # ui.roles[r]

Edit(r, g) ==
    /\ r \in DOMAIN ui.drafts /\ g # ui.drafts[r]
    /\ Set([ui EXCEPT !.notice = NoRole, !.drafts[r] = g])

Save(r) ==
    /\ r \in DOMAIN ui.drafts /\ Dirty(r) /\ ui.busy # r
    /\ Send([ui EXCEPT !.busy = r, !.error = FALSE, !.notice = NoRole],
            Call("save", [role |-> r, draft |-> ui.drafts[r]], Effect))

Click == (\E r \in Roles : Save(r) \/ \E g \in Grants : Edit(r, g)) /\ UNCHANGED db

Waiting == ui.loading \/ ui.busy # NoRole

Next ==
    \/ UserActs /\ (Click \/ \E r \in Roles, g \in Grants : OtherAdmin(r, g))
    \/ (\E i \in DOMAIN calls : Serve(i) \/ Deliver(i)) /\ UNCHANGED clicks
-----------------------------------------------------------------------------
TypeOK ==
    /\ db \in [Roles -> Grants]
    /\ DOMAIN ui.roles \in {{}, Roles} /\ DOMAIN ui.drafts = DOMAIN ui.roles
    /\ {ui.busy, ui.notice} \subseteq Roles \cup {NoRole}
    /\ {ui.error, ui.loading} \subseteq BOOLEAN
=============================================================================
