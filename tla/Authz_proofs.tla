---------------------------- MODULE Authz_proofs ----------------------------
(***************************************************************************)
(* Proofs about Authz, for every set of accounts, roles, scopes and        *)
(* requests.  The argument: while a request is between its UPDATE and the  *)
(* end of its transaction it owns the advisory lock (LockOwned), so the    *)
(* only writers that can interleave are the inserts, which never take a    *)
(* capability away; a count that passed therefore still holds at COMMIT    *)
(* (CountsStand), and COMMIT installs exactly the tables that were counted.*)
(***************************************************************************)
EXTENDS Authz, TLAPS

(* An UPDATE keeps the tables well-typed. *)
LEMMA AfterTyped ==
    ASSUME TypeOK, NEW e \in Edits
    PROVE  /\ RoleAfter(e) \in [Users -> Roles]
           /\ StatusAfter(e) \in [Users -> Statuses]
           /\ ScopesAfter(e) \in [Roles -> SUBSET Scopes]
<1>1. CASE e.kind = "user"
  <2>1. e \in UserEdit
    BY <1>1 DEF Edits, RoleEdit
  <2>2. /\ e.target \in Users
        /\ e.role \in Roles \cup {Unset}
        /\ e.status \in Statuses \cup {Unset}
    BY <2>1 DEF UserEdit
  <2>3. ScopesAfter(e) = scopes
    BY <1>1 DEF ScopesAfter
  <2> QED
    BY <2>2, <2>3 DEF TypeOK, RoleAfter, StatusAfter
<1>2. CASE e.kind # "user"
  <2>1. e \in RoleEdit
    BY <1>2 DEF Edits, UserEdit
  <2>2. e.name \in Roles /\ e.scopes \in SUBSET Scopes
    BY <2>1, PolicyAssumption DEF RoleEdit
  <2> QED
    BY <1>2, <2>2 DEF TypeOK, RoleAfter, StatusAfter, ScopesAfter
<1> QED
  BY <1>1, <1>2

(* The inserts of CreateUser and CreateAdminIfMissing take nothing away:   *)
(* a capability that is held, or would be after a pending edit of an       *)
(* existing account, is still held.                                        *)
LEMMA InsertKeepsHeld ==
    ASSUME TypeOK, NEW u \in Users, NEW r \in Roles, Insert(u, r),
           NEW cap, NEW e \in Edits,
           e.kind = "user" => e.target \in users
    PROVE  /\ Held(cap, users, role, status, scopes)
                => Held(cap, users', role', status', scopes')
           /\ HeldAfter(cap, e) => HeldAfter(cap, e)'
<1>1. /\ users' = users \cup {u}
      /\ scopes' = scopes
      /\ \A v \in users : role'[v] = role[v] /\ status'[v] = status[v]
  BY DEF Insert, TypeOK
<1>2. Held(cap, users, role, status, scopes)
        => Held(cap, users', role', status', scopes')
  BY <1>1 DEF Held
<1>3. \A v \in users : /\ RoleAfter(e)'[v] = RoleAfter(e)[v]
                       /\ StatusAfter(e)'[v] = StatusAfter(e)[v]
  <2>1. e.kind = "user" => e.target # u
    BY DEF Insert
  <2> QED
    BY <1>1, <2>1 DEF RoleAfter, StatusAfter, Insert, TypeOK
<1>4. ScopesAfter(e)' = ScopesAfter(e)
  BY <1>1 DEF ScopesAfter
<1>5. HeldAfter(cap, e) => HeldAfter(cap, e)'
  BY <1>1, <1>3, <1>4 DEF HeldAfter, Held
<1> QED
  BY <1>2, <1>5

(* A freshly migrated and booted deployment satisfies the invariant.       *)
LEMMA InitIInv == Init => IInv
<1> SUFFICES ASSUME Init PROVE IInv
  OBVIOUS
<1>1. PICK u \in BootUsers :
          /\ users = {u}
          /\ role = [v \in Users |-> IF v = u THEN AdminRole ELSE UserRole]
  BY DEF Init, InitTables
<1>2. u \in Users
  BY <1>1, PolicyAssumption
<1>3. TypeOK
  BY <1>1, <1>2, PolicyAssumption
     DEF Init, InitTables, TypeOK, Statuses, Stages
<1>4. CapabilityHeld
  BY <1>1, <1>2, PolicyAssumption
     DEF Init, InitTables, CapabilityHeld, Held, Capabilities
<1>5. LockOwned /\ RequestKnown /\ CountsStand /\ TargetStands
  BY ProcAssumption
     DEF Init, LockOwned, InTx, RequestKnown, CountsStand, TargetStands
<1> QED
  BY <1>3, <1>4, <1>5 DEF IInv

(* A request that ends without effect frees only what it held. *)
LEMMA RollbackKeepsIInv ==
    ASSUME IInv, NEW p \in Proc, Rollback(p)
    PROVE  IInv'
<1> USE DEF Rollback, Finish, tables
<1>1. TypeOK'
  BY DEF IInv, TypeOK, Stages
<1>2. CapabilityHeld'
  BY DEF IInv, CapabilityHeld, Held
<1>3. /\ pc'[p] = "idle"
      /\ \A q \in Proc \ {p} : /\ pc'[q] = pc[q] /\ edit'[q] = edit[q]
                              /\ actor'[q] = actor[q]
  BY DEF IInv, TypeOK
<1>4. LockOwned'
  BY <1>3, ProcAssumption DEF IInv, TypeOK, LockOwned, InTx
<1>5. RequestKnown' /\ TargetStands'
  BY <1>3 DEF IInv, RequestKnown, TargetStands
<1>6. CountsStand'
  BY <1>3
     DEF IInv, CountsStand, HeldAfter, Held, RoleAfter, StatusAfter, ScopesAfter
<1> QED
  BY <1>1, <1>2, <1>4, <1>5, <1>6 DEF IInv

(* A step of the transaction that touches only the request's stage. *)
LEMMA StageKeepsIInv ==
    ASSUME IInv, NEW p \in Proc, NEW to \in InTx,
           pc[p] \in InTx,
           pc' = [pc EXCEPT ![p] = to],
           UNCHANGED <<users, role, status, scopes, actor, edit, lock>>,
           to \in {"users_held", "held"} => HeldAfter(UsersManage, edit[p]),
           to = "held" => HeldAfter(RolesManage, edit[p]),
           to # "locked" /\ edit[p].kind = "user" => edit[p].target \in users
    PROVE  IInv'
<1>1. TypeOK'
  BY DEF IInv, TypeOK, Stages, InTx
<1>2. CapabilityHeld'
  BY DEF IInv, CapabilityHeld, Held
<1>3. pc'[p] = to /\ \A q \in Proc \ {p} : pc'[q] = pc[q]
  BY DEF IInv, TypeOK
<1>4. LockOwned'
  BY <1>3 DEF IInv, LockOwned
<1>5. RequestKnown'
  BY <1>3 DEF IInv, RequestKnown, InTx
<1>6. TargetStands'
  BY <1>3 DEF IInv, TargetStands, InTx
<1>7. \A cap, e : HeldAfter(cap, e)' <=> HeldAfter(cap, e)
  BY DEF HeldAfter, Held, RoleAfter, StatusAfter, ScopesAfter
<1>8. CountsStand'
  BY <1>3, <1>7 DEF IInv, CountsStand
<1> QED
  BY <1>1, <1>2, <1>4, <1>5, <1>6, <1>8 DEF IInv

(* COMMIT installs the tables that were counted, and nobody else was       *)
(* between a count and a commit at the time.                               *)
LEMMA CommitKeepsIInv ==
    ASSUME IInv, NEW p \in Proc, Commit(p)
    PROVE  IInv'
<1>1. /\ pc[p] = "held" /\ lock = p
      /\ edit[p] \in Edits
      /\ HeldAfter(UsersManage, edit[p]) /\ HeldAfter(RolesManage, edit[p])
  BY DEF Commit, IInv, LockOwned, InTx, CountsStand, RequestKnown
<1>2. /\ users' = users
      /\ role' = RoleAfter(edit[p])
      /\ status' = StatusAfter(edit[p])
      /\ scopes' = ScopesAfter(edit[p])
  BY DEF Commit
<1>3. /\ pc'[p] = "idle" /\ lock' = None
      /\ \A q \in Proc \ {p} : /\ pc'[q] = pc[q] /\ edit'[q] = edit[q]
                              /\ actor'[q] = actor[q]
  BY <1>1 DEF Commit, Finish, IInv, TypeOK
<1>4. \A q \in Proc : pc'[q] \notin InTx
  BY <1>1, <1>3 DEF IInv, LockOwned, InTx
<1>5. TypeOK'
  <2>1. /\ role' \in [Users -> Roles]
        /\ status' \in [Users -> Statuses]
        /\ scopes' \in [Roles -> SUBSET Scopes]
    BY <1>1, <1>2, AfterTyped DEF IInv
  <2> QED
    BY <1>2, <2>1 DEF Commit, Finish, IInv, TypeOK, Stages
<1>6. CapabilityHeld'
  BY <1>1, <1>2 DEF CapabilityHeld, HeldAfter, Capabilities
<1>7. LockOwned'
  BY <1>3, <1>4, ProcAssumption DEF LockOwned
<1>8. RequestKnown'
  BY <1>3 DEF IInv, RequestKnown
<1>9. CountsStand' /\ TargetStands'
  BY <1>4 DEF CountsStand, TargetStands, InTx
<1> QED
  BY <1>5, <1>6, <1>7, <1>8, <1>9 DEF IInv

(* Registrations, first OIDC sign-ins and boots interleave with anything.  *)
LEMMA InsertKeepsIInv ==
    ASSUME IInv, NEW u \in Users, NEW r \in Roles, Insert(u, r),
           UNCHANGED <<pc, actor, edit, lock>>
    PROVE  IInv'
<1>1. TypeOK'
  BY DEF IInv, TypeOK, Insert, Statuses
<1>2. CapabilityHeld'
  <2>1. ASSUME NEW cap \in Capabilities
        PROVE  Held(cap, users', role', status', scopes')
    BY DEF IInv, CapabilityHeld, Held, Insert, TypeOK
  <2> QED
    BY <2>1 DEF CapabilityHeld, Capabilities
<1>3. LockOwned' /\ RequestKnown'
  BY DEF IInv, LockOwned, RequestKnown
<1>4. TargetStands'
  BY DEF IInv, TargetStands, Insert
<1>5. CountsStand'
  <2> SUFFICES ASSUME NEW q \in Proc,
                      pc[q] \in {"users_held", "held"}
               PROVE  /\ HeldAfter(UsersManage, edit[q])'
                      /\ pc[q] = "held" => HeldAfter(RolesManage, edit[q])'
    BY DEF CountsStand
  <2>1. /\ edit[q] \in Edits
        /\ edit[q].kind = "user" => edit[q].target \in users
    BY DEF IInv, RequestKnown, TargetStands
  <2>2. PICK e \in Edits : e = edit[q]
    BY <2>1
  <2>3. /\ HeldAfter(UsersManage, e)
        /\ pc[q] = "held" => HeldAfter(RolesManage, e)
    BY <2>2 DEF IInv, CountsStand
  <2>4. /\ HeldAfter(UsersManage, e)'
        /\ pc[q] = "held" => HeldAfter(RolesManage, e)'
    BY <2>1, <2>2, <2>3, InsertKeepsHeld DEF IInv
  <2>5. edit'[q] = e
    BY <2>2
  <2> QED
    BY <2>4, <2>5 DEF HeldAfter, RoleAfter, StatusAfter, ScopesAfter
<1> QED
  BY <1>1, <1>2, <1>3, <1>4, <1>5 DEF IInv

(* Every action of the model keeps the invariant. *)
LEMMA NextIInv == IInv /\ [Next]_vars => IInv'
<1> SUFFICES ASSUME IInv, [Next]_vars PROVE IInv'
  OBVIOUS
<1>1. ASSUME NEW p \in Proc, NEW u \in Users, NEW e \in Edits, Authorise(p, u, e)
      PROVE  IInv'
  <2>1. /\ pc'[p] = "authorised" /\ actor'[p] = u /\ edit'[p] = e
        /\ \A q \in Proc \ {p} : /\ pc'[q] = pc[q] /\ edit'[q] = edit[q]
                                /\ actor'[q] = actor[q]
    BY <1>1 DEF Authorise, IInv, TypeOK
  <2>2. TypeOK' /\ CapabilityHeld'
    BY <1>1 DEF Authorise, IInv, TypeOK, Stages, CapabilityHeld, Held
  <2>3. LockOwned'
    BY <1>1, <2>1 DEF Authorise, IInv, LockOwned, InTx
  <2>4. RequestKnown' /\ TargetStands'
    BY <1>1, <2>1 DEF Authorise, IInv, RequestKnown, TargetStands
  <2>5. CountsStand'
    BY <1>1, <2>1 DEF Authorise, IInv, CountsStand, HeldAfter, Held,
                      RoleAfter, StatusAfter, ScopesAfter
  <2> QED
    BY <2>2, <2>3, <2>4, <2>5 DEF IInv
<1>2. ASSUME NEW p \in Proc, LockAuthz(p)
      PROVE  IInv'
  <2>1. /\ pc'[p] = "locked" /\ lock' = p
        /\ \A q \in Proc \ {p} : pc'[q] = pc[q] /\ pc[q] \notin InTx
    BY <1>2, ProcAssumption DEF LockAuthz, IInv, TypeOK, LockOwned
  <2>2. TypeOK' /\ CapabilityHeld'
    BY <1>2 DEF LockAuthz, IInv, TypeOK, Stages, CapabilityHeld, Held
  <2>3. LockOwned'
    BY <2>1 DEF LockOwned, InTx
  <2>4. RequestKnown' /\ TargetStands' /\ CountsStand'
    BY <1>2, <2>1 DEF LockAuthz, IInv, RequestKnown, TargetStands, CountsStand, InTx
  <2> QED
    BY <2>2, <2>3, <2>4 DEF IInv
<1>3. ASSUME NEW p \in Proc, Write(p)
      PROVE  IInv'
  <2>1. CASE edit[p].kind = "user" => edit[p].target \in users
    BY <1>3, <2>1, StageKeepsIInv DEF Write, InTx
  <2>2. CASE ~(edit[p].kind = "user" => edit[p].target \in users)
    BY <1>3, <2>2, RollbackKeepsIInv DEF Write
  <2> QED
    BY <2>1, <2>2
<1>4. ASSUME NEW p \in Proc, RequireUsersHolder(p)
      PROVE  IInv'
  <2>1. CASE HeldAfter(UsersManage, edit[p])
    BY <1>4, <2>1, StageKeepsIInv
       DEF RequireUsersHolder, RequireHolder, InTx, IInv, TargetStands
  <2>2. CASE ~HeldAfter(UsersManage, edit[p])
    BY <1>4, <2>2, RollbackKeepsIInv DEF RequireUsersHolder, RequireHolder
  <2> QED
    BY <2>1, <2>2
<1>5. ASSUME NEW p \in Proc, RequireRolesHolder(p)
      PROVE  IInv'
  <2>1. CASE HeldAfter(RolesManage, edit[p])
    BY <1>5, <2>1, StageKeepsIInv
       DEF RequireRolesHolder, RequireHolder, InTx, IInv, TargetStands, CountsStand
  <2>2. CASE ~HeldAfter(RolesManage, edit[p])
    BY <1>5, <2>2, RollbackKeepsIInv DEF RequireRolesHolder, RequireHolder
  <2> QED
    BY <2>1, <2>2
<1>6. ASSUME NEW p \in Proc, Commit(p)
      PROVE  IInv'
  BY <1>6, CommitKeepsIInv
<1>7. ASSUME NEW p \in Proc, Abort(p)
      PROVE  IInv'
  BY <1>7, RollbackKeepsIInv DEF Abort
<1>8. ASSUME NEW u \in Users, SignUp(u)
      PROVE  IInv'
  BY <1>8, InsertKeepsIInv, PolicyAssumption DEF SignUp
<1>9. ASSUME NEW u \in BootUsers, Bootstrap(u)
      PROVE  IInv'
  BY <1>9, InsertKeepsIInv, PolicyAssumption DEF Bootstrap
<1>10. CASE UNCHANGED vars
  BY <1>10 DEF vars, IInv, TypeOK, CapabilityHeld, Held, LockOwned, RequestKnown,
               CountsStand, TargetStands, HeldAfter, RoleAfter, StatusAfter, ScopesAfter
<1> QED
  BY <1>1, <1>2, <1>3, <1>4, <1>5, <1>6, <1>7, <1>8, <1>9, <1>10 DEF Next

(* The strengthened invariant holds in every reachable state. *)
LEMMA Invariance == Spec => []IInv
<1>1. Init => IInv
  BY InitIInv
<1>2. IInv /\ [Next]_vars => IInv'
  BY NextIInv
<1> QED
  BY <1>1, <1>2, PTL DEF Spec

(* Types of the tables, the stages and the lock. *)
THEOREM TypeCorrect == Spec => []TypeOK
<1>1. IInv => TypeOK
  BY DEF IInv
<1> QED
  BY <1>1, Invariance, PTL

(* However many requests run at once, and whoever signs up, boots, times   *)
(* out or crashes in between, an enabled account that manages users and one*)
(* that manages roles remain.                                              *)
THEOREM AlwaysAdministrable == Spec => []CapabilityHeld
<1>1. IInv => CapabilityHeld
  BY DEF IInv
<1> QED
  BY <1>1, Invariance, PTL

-----------------------------------------------------------------------------
(* Refinement: the first state maps to an initial state of AuthzPolicy, a  *)
(* commit maps to an Apply, an insert to an Insert, all else to a stutter. *)

LEMMA StepsImplementPolicy == IInv /\ [Next]_vars => [Policy!Next]_Policy!tables
<1> SUFFICES ASSUME IInv, [Next]_vars PROVE [Policy!Next]_Policy!tables
  OBVIOUS
<1> USE DEF Policy!tables
<1>1. ASSUME NEW p \in Proc, Commit(p)
      PROVE  Policy!Next
  <2>1. edit[p] \in Edits
    BY <1>1 DEF Commit, IInv, RequestKnown
  <2>2. \A cap \in Capabilities : HeldAfter(cap, edit[p])
    BY <1>1 DEF Commit, IInv, CountsStand, Capabilities
  <2>3. edit[p].kind = "user" => edit[p].target \in users
    BY <1>1 DEF Commit, IInv, TargetStands
  <2>4. Policy!Apply(edit[p])
    BY <1>1, <2>2, <2>3
       DEF Commit, Policy!Apply, Policy!HeldAfter, Policy!Held, Policy!Capabilities,
           HeldAfter, Held, Capabilities, RoleAfter, StatusAfter, ScopesAfter,
           Policy!RoleAfter, Policy!StatusAfter, Policy!ScopesAfter
  <2> QED
    BY <2>1, <2>4 DEF Policy!Next, Policy!Edits, Policy!UserEdit, Policy!RoleEdit,
                      Edits, UserEdit, RoleEdit, Policy!Statuses, Statuses
<1>2. ASSUME NEW u \in Users, SignUp(u)
      PROVE  Policy!Next
  BY <1>2 DEF SignUp, Insert, Policy!Insert, Policy!Next
<1>3. ASSUME NEW u \in BootUsers, Bootstrap(u)
      PROVE  Policy!Next
  BY <1>3 DEF Bootstrap, Insert, Policy!Insert, Policy!Next
<1>4. ASSUME NEW p \in Proc,
             \/ \E u \in Users, e \in Edits : Authorise(p, u, e)
             \/ LockAuthz(p) \/ Write(p) \/ RequireUsersHolder(p)
             \/ RequireRolesHolder(p) \/ Abort(p)
      PROVE  UNCHANGED Policy!tables
  BY <1>4 DEF Authorise, LockAuthz, Write, RequireUsersHolder, RequireRolesHolder,
              RequireHolder, Abort, Rollback, tables
<1>5. CASE UNCHANGED vars
  BY <1>5 DEF vars
<1> QED
  BY <1>1, <1>2, <1>3, <1>4, <1>5 DEF Next

(* Transactions behave as edits that check and apply in one step. *)
THEOREM EditsAreAtomic == Spec => ImplementsPolicy
<1>1. Init => Policy!InitTables
  BY DEF Init, InitTables, Policy!InitTables
<1>2. IInv /\ [Next]_vars => [Policy!Next]_Policy!tables
  BY StepsImplementPolicy
<1> QED
  BY <1>1, <1>2, Invariance, PTL DEF Spec, ImplementsPolicy, Policy!Spec
=============================================================================
