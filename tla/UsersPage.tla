------------------------------ MODULE UsersPage ------------------------------
(***************************************************************************)
(* The directory of accounts (web/src/app/home/users/page.tsx): a role or  *)
(* the disabled flag of a row is sent as soon as it is chosen, a second    *)
(* factor is reset behind a dialog that names the account.                 *)
(***************************************************************************)
EXTENDS ConsoleCalls

CONSTANTS Users,        \* accounts, the administrator among them
          Self,         \* the administrator who uses the page
          Roles

NoUser == "no one"
Unloaded == [u \in {} |-> 0]

Mounted == [accounts |-> Unloaded, knowsSelf |-> FALSE, error |-> FALSE, loading |-> TRUE,
            busy |-> NoUser, target |-> NoUser, mfaError |-> FALSE]

\* db: role, disabled flag and second factor of each account.
Init ==
    /\ db \in {d \in [Users -> [role : Roles, disabled : {FALSE}, mfa : BOOLEAN]] :
                  \A u, v \in Users : d[u].role = d[v].role}
    /\ ui = Mounted
    /\ calls = <<Get("load", Effect)>>
    /\ clicks = 0

-----------------------------------------------------------------------------
\* An account with the fields of a patch.
Patched(account, patch) ==
    [k \in DOMAIN account |-> IF k \in DOMAIN patch THEN patch[k] ELSE account[k]]

\* The API refuses what an administrator does to their own account.
Serve(i) ==
    /\ calls[i].st = "sent" /\ calls[i].op \in {"update", "reset"}
    /\ LET id == calls[i].arg.id
       IN  IF calls[i].op = "update" /\ id = Self
           THEN calls' = Served(i, Refused("self")) /\ UNCHANGED db
           ELSE /\ calls' = Served(i, Ok([n |-> 0]))
                /\ db' = [db EXCEPT ![id] = IF calls[i].op = "reset" THEN [@ EXCEPT !.mfa = FALSE]
                                            ELSE Patched(@, calls[i].arg.patch)]
    /\ UNCHANGED ui

-----------------------------------------------------------------------------
\* load(): the accounts, who is asking, and the roles when they may be read; a
\* failed me() or roles.list() is not an error.
Load(u, cs, then) == [u |-> [u EXCEPT !.loading = TRUE], cs |-> Append(cs, Get("load", then))]

\* Mutant of Loaded: the spinner ends with the list, not with the load.
LoadedOrStuck(u, knows, a) ==
    IF a.ok THEN [u EXCEPT !.accounts = a.data, !.knowsSelf = knows, !.error = FALSE, !.loading = FALSE]
    ELSE [u EXCEPT !.error = TRUE]

Loaded(u, knows, a) ==
    IF a.ok THEN [u EXCEPT !.accounts = a.data, !.knowsSelf = knows, !.error = FALSE, !.loading = FALSE]
    ELSE [u EXCEPT !.error = TRUE, !.loading = FALSE]

\* finally { setBusy("") } of the handler that awaited the load.
Free(u, then) == IF then = Effect THEN u ELSE [u EXCEPT !.busy = NoUser]

DeliverLoad(i) ==
    /\ calls[i].op = "load"
    /\ \E a \in Reads(db), knows \in BOOLEAN :
           Show([u |-> Free(Loaded(ui, knows, a), calls[i].then), cs |-> Rest(i)])

DeliverUpdate(i) ==
    /\ calls[i].op = "update"
    /\ \E a \in Answers(i) :
           IF a.ok THEN Show(Load(ui, Rest(i), <<"update", 0>>))
           ELSE Show([u |-> [ui EXCEPT !.error = TRUE, !.busy = NoUser], cs |-> Rest(i)])

\* The dialog closes with the reset and stays open, with the reason, without it.
DeliverReset(i) ==
    /\ calls[i].op = "reset"
    /\ \E a \in Answers(i) :
           IF a.ok THEN Show(Load([ui EXCEPT !.target = NoUser], Rest(i), <<"reset", 0>>))
           ELSE Show([u |-> [ui EXCEPT !.mfaError = TRUE, !.busy = NoUser], cs |-> Rest(i)])

Deliver(i) ==
    /\ DeliverLoad(i) \/ DeliverUpdate(i) \/ DeliverReset(i)
    /\ UNCHANGED db

-----------------------------------------------------------------------------
Listed == DOMAIN ui.accounts
IsSelf(id) == ui.knowsSelf /\ id = Self

Update(id, patch) ==
    /\ id \in Listed /\ ~IsSelf(id) /\ ui.busy # id
    /\ Send([ui EXCEPT !.busy = id, !.error = FALSE],
            Call("update", [id |-> id, patch |-> patch], Effect))

ChooseRole(id, r) == id \in Listed /\ r # ui.accounts[id].role /\ Update(id, [role |-> r])

Toggle(id) == id \in Listed /\ Update(id, [disabled |-> ~ui.accounts[id].disabled])

OpenReset(id) ==
    /\ id \in Listed /\ ui.accounts[id].mfa /\ ui.busy # id
    /\ Set([ui EXCEPT !.target = id, !.mfaError = FALSE])

\* Escape and the backdrop close the dialog whatever is under way.
CloseReset == ui.target # NoUser /\ Set([ui EXCEPT !.target = NoUser])

ConfirmReset ==
    /\ ui.target # NoUser /\ ui.busy = NoUser
    /\ Send([ui EXCEPT !.busy = ui.target, !.mfaError = FALSE],
            Call("reset", [id |-> ui.target], Effect))

Retry == ui.error /\ Show(Load(ui, calls, Effect))

Click ==
    /\ \/ \E id \in Users : Toggle(id) \/ OpenReset(id) \/ \E r \in Roles : ChooseRole(id, r)
       \/ CloseReset \/ ConfirmReset \/ Retry
    /\ UNCHANGED db

Waiting == ui.loading \/ ui.busy # NoUser

Next ==
    \/ UserActs /\ Click
    \/ (\E i \in DOMAIN calls : Serve(i) \/ Deliver(i)) /\ UNCHANGED clicks
-----------------------------------------------------------------------------
TypeOK ==
    /\ db \in [Users -> [role : Roles, disabled : BOOLEAN, mfa : BOOLEAN]]
    /\ Listed \in {{}, Users} /\ {ui.busy, ui.target} \subseteq Users \cup {NoUser}
    /\ {ui.knowsSelf, ui.error, ui.loading, ui.mfaError} \subseteq BOOLEAN
=============================================================================
