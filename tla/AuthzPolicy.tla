----------------------------- MODULE AuthzPolicy -----------------------------
(***************************************************************************)
(* What the account and role tables of purels promise, with every          *)
(* administrative edit as ONE step: an edit is applied only when the state *)
(* it leads to still has an enabled holder of every capability the console *)
(* cannot be administered without.  Authz shows how transactions, an       *)
(* advisory lock and two counting queries implement this.                  *)
(***************************************************************************)
EXTENDS AuthzTables

Apply(e) ==
    /\ e.kind = "user" => e.target \in users
    /\ \A cap \in Capabilities : HeldAfter(cap, e)
    /\ role'   = RoleAfter(e)
    /\ status' = StatusAfter(e)
    /\ scopes' = ScopesAfter(e)
    /\ UNCHANGED users

Next ==
    \/ \E u \in Users : Insert(u, UserRole)
    \/ \E u \in BootUsers : Insert(u, AdminRole)
    \/ \E e \in Edits : Apply(e)

Spec == InitTables /\ [][Next]_tables
=============================================================================
