----------------------------- MODULE AuthzTables -----------------------------
(***************************************************************************)
(* The account and role tables of purels (admin_users, roles), the edits   *)
(* the console can ask of them, and the tables as each edit leaves them.   *)
(* Shared by AuthzPolicy (what is promised) and Authz (how it is done).    *)
(***************************************************************************)
CONSTANTS
    Users,        \* account names that may ever exist
    Roles,        \* the rows of the roles table, a fixed vocabulary
    Scopes,       \* the scope vocabulary (domain.AllScopes)
    UsersManage,  \* domain.ScopeUsersManage
    RolesManage,  \* domain.ScopeRolesManage
    AdminRole,    \* domain.RoleAdmin
    UserRole,     \* domain.RoleUser
    SeedScopes,   \* the scopes migration 000009 gives every role
    ScopeSets,    \* the scope sets a role edit may submit
    BootUsers,    \* the values BOOTSTRAP_USERNAME takes over the deployment's life
    Unset         \* a nil pointer of a request: the field is left alone

Capabilities == {UsersManage, RolesManage}
Statuses     == {"enabled", "disabled"}

ASSUME PolicyAssumption ==
    /\ AdminRole \in Roles /\ UserRole \in Roles /\ AdminRole # UserRole
    /\ Unset \notin Roles \cup Statuses
    /\ Capabilities \subseteq Scopes
    /\ SeedScopes \in [Roles -> SUBSET Scopes]
    /\ Capabilities \subseteq SeedScopes[AdminRole]
    /\ ScopeSets \subseteq SUBSET Scopes
    /\ BootUsers \subseteq Users /\ BootUsers # {}

VARIABLES
    users,   \* the accounts that exist (rows of admin_users)
    role,    \* admin_users.role of every account
    status,  \* admin_users.disabled of every account
    scopes   \* roles.scopes of every role

tables == <<users, role, status, scopes>>

UserEdit == [kind: {"user"}, target: Users, role: Roles \cup {Unset},
             status: Statuses \cup {Unset}]
RoleEdit == [kind: {"role"}, name: Roles, scopes: ScopeSets]

\* UserService.Update refuses a body that changes nothing.
Edits == {e \in UserEdit : e.role # Unset \/ e.status # Unset} \cup RoleEdit

\* Mutant of StatusAfter: no COALESCE, so an omitted field is written too.
StatusAfterNoCoalesce(e) == IF e.kind = "user"
                            THEN [status EXCEPT ![e.target] = e.status] ELSE status

\* The tables as the UPDATE statement of edit e leaves them.
RoleAfter(e)   == IF e.kind = "user" /\ e.role # Unset
                  THEN [role EXCEPT ![e.target] = e.role] ELSE role
StatusAfter(e) == IF e.kind = "user" /\ e.status # Unset
                  THEN [status EXCEPT ![e.target] = e.status] ELSE status
ScopesAfter(e) == IF e.kind = "role"
                  THEN [scopes EXCEPT ![e.name] = e.scopes] ELSE scopes

\* Some enabled account holds cap, given who exists and what they hold.
Held(cap, who, ro, st, sc) ==
    \E u \in who : st[u] = "enabled" /\ cap \in sc[ro[u]]

HeldAfter(cap, e) == Held(cap, users, RoleAfter(e), StatusAfter(e), ScopesAfter(e))

InitTables ==
    /\ \E u \in BootUsers :
          /\ users = {u}
          /\ role = [v \in Users |-> IF v = u THEN AdminRole ELSE UserRole]
    /\ status = [u \in Users |-> "enabled"]
    /\ scopes = SeedScopes

\* INSERT INTO admin_users ... ON CONFLICT DO NOTHING / unique violation.
Insert(u, r) ==
    /\ u \notin users
    /\ users'  = users \cup {u}
    /\ role'   = [role EXCEPT ![u] = r]
    /\ status' = [status EXCEPT ![u] = "enabled"]
    /\ UNCHANGED scopes
=============================================================================
