-------------------------------- MODULE Authz --------------------------------
(***************************************************************************)
(* Administration of accounts and roles by concurrent API requests.        *)
(*                                                                         *)
(* A request is authorised from a join of the session, the account and its *)
(* role (middleware Require, RequireScope), then runs one transaction:     *)
(* advisory lock, UPDATE, one counting query per capability, COMMIT        *)
(* (Store.UpdateUser, Store.UpdateRoleScopes).  The transaction is READ    *)
(* COMMITTED, so a query sees the committed tables plus the transaction's  *)
(* own UPDATE, which is kept here as the pending edit.  Sign-ups and boots *)
(* insert accounts without taking the lock.                                *)
(***************************************************************************)
EXTENDS AuthzTables

CONSTANTS
    Proc,   \* request goroutines
    None    \* no holder, no account, no edit

ASSUME ProcAssumption == None \notin Proc \cup Users \cup Edits

VARIABLES
    pc,     \* how far each request has got
    actor,  \* the account each request was authorised as
    edit,   \* the edit each request asked for
    lock    \* holder of the advisory lock authzLockKey

vars == <<users, role, status, scopes, pc, actor, edit, lock>>

Stages == {"idle", "authorised", "locked", "written", "users_held", "held"}

\* Stages in which a transaction is open and holds the lock.
InTx == {"locked", "written", "users_held", "held"}

\* The scope the route of an edit requires.
Needed(e) == IF e.kind = "user" THEN UsersManage ELSE RolesManage

TypeOK ==
    /\ users \subseteq Users
    /\ role \in [Users -> Roles]
    /\ status \in [Users -> Statuses]
    /\ scopes \in [Roles -> SUBSET Scopes]
    /\ pc \in [Proc -> Stages]
    /\ actor \in [Proc -> Users \cup {None}]
    /\ edit \in [Proc -> Edits \cup {None}]
    /\ lock \in Proc \cup {None}

Init ==
    /\ InitTables
    /\ pc = [p \in Proc |-> "idle"]
    /\ actor = [p \in Proc |-> None]
    /\ edit = [p \in Proc |-> None]
    /\ lock = None

-----------------------------------------------------------------------------
(* One request                                                             *)

\* Require + RequireScope + the checks of UserService.Update: the account is
\* enabled and its role holds the scope NOW; nothing rereads this later.
Authorise(p, u, e) ==
    /\ pc[p] = "idle"
    /\ u \in users /\ status[u] = "enabled"
    /\ Needed(e) \in scopes[role[u]]
    /\ e.kind = "user" => e.target # u
    /\ pc'    = [pc EXCEPT ![p] = "authorised"]
    /\ actor' = [actor EXCEPT ![p] = u]
    /\ edit'  = [edit EXCEPT ![p] = e]
    /\ UNCHANGED <<users, role, status, scopes, lock>>

\* Mutant of LockAuthz: the transaction does not wait for the lock.
LockAuthzNoWait(p) ==
    /\ pc[p] = "authorised"
    /\ lock' = p
    /\ pc'   = [pc EXCEPT ![p] = "locked"]
    /\ UNCHANGED <<users, role, status, scopes, actor, edit>>

\* pg_advisory_xact_lock: blocks until the holder's transaction has ended.
LockAuthz(p) ==
    /\ pc[p] = "authorised"
    /\ lock = None
    /\ lock' = p
    /\ pc'   = [pc EXCEPT ![p] = "locked"]
    /\ UNCHANGED <<users, role, status, scopes, actor, edit>>

\* Mutant of Finish: a session-level lock, which the end of the transaction keeps.
FinishKeepingLock(p) ==
    /\ pc'    = [pc EXCEPT ![p] = "idle"]
    /\ actor' = [actor EXCEPT ![p] = None]
    /\ edit'  = [edit EXCEPT ![p] = None]
    /\ lock'  = lock

\* The request is answered and its transaction, if one is open, has ended:
\* the advisory lock is transaction-scoped, so it goes with it.
Finish(p) ==
    /\ pc'    = [pc EXCEPT ![p] = "idle"]
    /\ actor' = [actor EXCEPT ![p] = None]
    /\ edit'  = [edit EXCEPT ![p] = None]
    /\ lock'  = IF lock = p THEN None ELSE lock

\* The deferred tx.Rollback: the UPDATE is undone.
Rollback(p) == Finish(p) /\ UNCHANGED tables

\* UPDATE admin_users / UPDATE roles; no matching row is ErrNotFound.
Write(p) ==
    /\ pc[p] = "locked"
    /\ IF edit[p].kind = "user" => edit[p].target \in users
       THEN /\ pc' = [pc EXCEPT ![p] = "written"]
            /\ UNCHANGED <<users, role, status, scopes, actor, edit, lock>>
       ELSE Rollback(p)

\* One counting query of requireCapabilityHolders; zero holders is
\* ErrLastCapabilityHolder.
RequireHolder(p, from, cap, to) ==
    /\ pc[p] = from
    /\ IF HeldAfter(cap, edit[p])
       THEN /\ pc' = [pc EXCEPT ![p] = to]
            /\ UNCHANGED <<users, role, status, scopes, actor, edit, lock>>
       ELSE Rollback(p)

RequireUsersHolder(p) == RequireHolder(p, "written", UsersManage, "users_held")
RequireRolesHolder(p) == RequireHolder(p, "users_held", RolesManage, "held")

Commit(p) ==
    /\ pc[p] = "held"
    /\ role'   = RoleAfter(edit[p])
    /\ status' = StatusAfter(edit[p])
    /\ scopes' = ScopesAfter(edit[p])
    /\ UNCHANGED users
    /\ Finish(p)

\* The request's context is cancelled (30 s timeout, client gone), the
\* connection drops or the process dies: the database rolls back.
Abort(p) == pc[p] # "idle" /\ Rollback(p)

-----------------------------------------------------------------------------
(* Writers that insert accounts and take no lock                           *)

\* Store.CreateUser (registration) and ProvisionOIDCUser: always the plain role.
SignUp(u) == Insert(u, UserRole) /\ UNCHANGED <<pc, actor, edit, lock>>

\* AuthService.Bootstrap at a boot of the API with this BOOTSTRAP_USERNAME.
Bootstrap(u) == Insert(u, AdminRole) /\ UNCHANGED <<pc, actor, edit, lock>>

-----------------------------------------------------------------------------
Step(p) ==
    \/ Write(p) \/ RequireUsersHolder(p) \/ RequireRolesHolder(p) \/ Commit(p)

Next ==
    \/ \E p \in Proc :
          \/ \E u \in Users, e \in Edits : Authorise(p, u, e)
          \/ LockAuthz(p) \/ Write(p) \/ RequireUsersHolder(p)
          \/ RequireRolesHolder(p) \/ Commit(p) \/ Abort(p)
    \/ \E u \in Users : SignUp(u)
    \/ \E u \in BootUsers : Bootstrap(u)

\* PostgreSQL keeps executing an open transaction's statements, and the queue
\* of an advisory lock is served in order, so a waiter is not passed over
\* for ever.  Nothing obliges clients to send requests or connections to drop.
Fairness == \A p \in Proc : WF_vars(Step(p)) /\ SF_vars(LockAuthz(p))

Spec == Init /\ [][Next]_vars
FairSpec == Spec /\ Fairness

-----------------------------------------------------------------------------
(* Properties                                                              *)

\* The console can always be administered: whatever two administrators do to
\* each other at once, some enabled account still manages users and some
\* enabled account still manages roles (requireCapabilityHolders, authzLockKey).
CapabilityHeld == \A cap \in Capabilities : Held(cap, users, role, status, scopes)

\* The lock belongs to the one request whose transaction is open.
LockOwned == \A p \in Proc : (pc[p] \in InTx) <=> (lock = p)

\* A count that has passed stays true until the transaction ends: nobody
\* else may remove a holder between the count and the commit.
CountsStand == \A p \in Proc :
    /\ pc[p] \in {"users_held", "held"} => HeldAfter(UsersManage, edit[p])
    /\ pc[p] = "held" => HeldAfter(RolesManage, edit[p])

\* A request in progress has an account and an edit.
RequestKnown == \A p \in Proc :
    pc[p] # "idle" => actor[p] \in Users /\ edit[p] \in Edits

\* The UPDATE matched a row, and rows of admin_users are never deleted.
TargetStands == \A p \in Proc :
    pc[p] \in {"written", "users_held", "held"} /\ edit[p].kind = "user"
        => edit[p].target \in users

\* The inductive invariant.
IInv ==
    TypeOK /\ CapabilityHeld /\ LockOwned /\ RequestKnown /\ CountsStand /\ TargetStands

\* Concurrent transactions behave as one-step edits that check and apply at
\* once: the detailed model implements AuthzPolicy.
Policy == INSTANCE AuthzPolicy WITH
    users <- users, role <- role, status <- status, scopes <- scopes
ImplementsPolicy == Policy!Spec

\* A request that was authorised is answered: the lock is never leaked by a
\* refused or aborted edit, so nobody waits on it for ever.
EveryEditEnds == \A p \in Proc : pc[p] = "authorised" ~> pc[p] = "idle"

\* users.go:21-22, "an account cannot change itself, so whoever makes a change
\* is still there to undo it": the account whose edit commits is enabled.
ActorStillThere == [][\A p \in Proc :
    Commit(p) => status[actor[p]] = "enabled"]_vars
=============================================================================
