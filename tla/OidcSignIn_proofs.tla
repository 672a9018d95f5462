--------------------------- MODULE OidcSignIn_proofs ---------------------------
(***************************************************************************)
(* Proofs about OidcSignIn: type correctness, one account for each         *)
(* identity, bindings that outlive nothing they refer to, one exchange for *)
(* each authorization request, and another name at each attempt.           *)
(***************************************************************************)
EXTENDS OidcSignIn, FiniteSetTheorems, TLAPS

\* The fields of a callback.
Fields == <<pc, callback, naming>>

FieldType ==
    /\ pc \in [Procs -> Stages]
    /\ provider \in [Procs -> Providers \cup {None}] /\ provisions \in [Procs -> BOOLEAN]
    /\ state \in [Procs -> States \cup {None}] /\ subject \in [Procs -> Subjects \cup {None}]
    /\ user \in [Procs -> Accounts \cup {None}] /\ wanted \in [Procs -> Names \cup {None}]
    /\ tries \in [Procs -> 0..(Attempts - 1)] /\ lost \in [Procs -> SUBSET Names]

RowType ==
    /\ enabled \subseteq Providers /\ auto \subseteq Providers /\ deleted \subseteq Providers
    /\ name \in [Accounts -> Names \cup {None}]
    /\ identity \in [Identities -> Accounts \cup {None}]

RequestType ==
    /\ started \in [States -> Providers \cup {None}]
    /\ request \in [States -> {"new", "open", "consumed", "gone"}]

GhostType == bound \subseteq Identities \X Accounts /\ exchanged \in [States -> Nat]

LEMMA TypeParts == TypeOK <=> FieldType /\ RowType /\ RequestType /\ GhostType
BY DEF TypeOK, FieldType, RowType, RequestType, GhostType

LEMMA TypePartsNext == FieldType' /\ RowType' /\ RequestType' /\ GhostType' => TypeOK'
BY DEF TypeOK, FieldType, RowType, RequestType, GhostType

LEMMA EndType == ASSUME FieldType, NEW p \in Procs, End(p) PROVE FieldType'
BY OidcAssumption DEF FieldType, End, Stages

\* What a callback is at work on.
LEMMA AtWork ==
    ASSUME TypeOK, Held, NEW p \in Procs
    PROVE  /\ pc[p] # "idle" => provider[p] \in Providers
           /\ pc[p] \notin {"idle", "start"} => state[p] \in States
           /\ pc[p] \notin {"idle", "start", "claim", "exchange"} =>
                  subject[p] \in Subjects /\ Identity(p) \in Identities
           /\ pc[p] \in {"search", "insert", "bind", "commit"} => wanted[p] \in Names
           /\ PendingUser(p) => user[p] \in Accounts
BY DEF TypeOK, Held, Identity, Identities

-----------------------------------------------------------------------------
LEMMA InitIInv == Init => IInv
<1> SUFFICES ASSUME Init PROVE IInv
    OBVIOUS
<1>1. TypeOK
    BY OidcAssumption DEF Init, TypeOK, Stages
<1>2. Held /\ Apart
    BY DEF Init, Held, Apart, PendingUser, PendingIdentity
<1>3. Bindings
    BY DEF Init, Bindings, OneAccountEach, NothingDangles
<1>4. Redeemed
    BY DEF Init, Redeemed, RedeemedOnce
<1>5. Losing
    BY FS_EmptySet DEF Init, Losing, AnotherNameEachTry
<1> QED BY <1>1, <1>2, <1>3, <1>4, <1>5 DEF IInv

-----------------------------------------------------------------------------
LEMMA StepType == IInv /\ [Next]_vars => TypeOK'
<1> SUFFICES ASSUME IInv, [Next]_vars PROVE TypeOK'
    OBVIOUS
<1>1. TypeOK /\ Held /\ FieldType /\ RowType /\ RequestType /\ GhostType
    BY TypeParts DEF IInv
<1>2. ASSUME FieldType', UNCHANGED <<rows, requests, ghosts>> PROVE TypeOK'
    BY <1>1, <1>2, TypePartsNext DEF RowType, RequestType, GhostType, rows, requests, ghosts
<1>3. ASSUME NEW p \in Procs, Fail(p) \/ Welcome(p) PROVE TypeOK'
    BY <1>1, <1>2, <1>3, EndType DEF Fail, Welcome
<1>4. ASSUME NEW p \in Procs, NEW k \in Providers, Start(p, k) PROVE TypeOK'
    <2>1. FieldType'
        BY <1>1, <1>4 DEF Start, ReadProvider, Goto, FieldType, Stages, naming
    <2> QED BY <1>2, <1>4, <2>1 DEF Start
<1>4a. ASSUME NEW p \in Procs, NEW k \in Providers, NEW s \in States, Callback(p, k, s)
       PROVE  TypeOK'
    <2>1. FieldType'
        BY <1>1, <1>4a DEF Callback, ReadProvider, Goto, FieldType, Stages, naming
    <2> QED BY <1>2, <1>4a, <2>1 DEF Callback
<1>5. ASSUME NEW p \in Procs, NEW s \in States, CreateOIDCRequest(p, s) PROVE TypeOK'
    <2>1. FieldType'
        BY <1>1, <1>5, EndType DEF CreateOIDCRequest
    <2>2. RequestType'
        BY <1>1, <1>5 DEF CreateOIDCRequest, RequestType, FieldType
    <2> QED BY <1>1, <1>5, <2>1, <2>2, TypePartsNext DEF CreateOIDCRequest, RowType, GhostType, rows, ghosts
<1>6. ASSUME NEW s \in States, Expire(s) PROVE TypeOK'
    <2>1. RequestType'
        BY <1>1, <1>6 DEF Expire, RequestType
    <2> QED BY <1>1, <1>6, <2>1, TypePartsNext
            DEF Expire, FieldType, RowType, GhostType, rows, ghosts, callback, naming
<1>7. ASSUME NEW p \in Procs, Claim(p) \/ ClaimMismatch(p) PROVE TypeOK'
    <2>1. FieldType'
        BY <1>1, <1>7, EndType DEF Claim, ClaimMismatch, Goto, FieldType, Stages, callback, naming
    <2>2. RequestType'
        BY <1>1, <1>7 DEF Claim, ClaimMismatch, RequestType
    <2> QED BY <1>1, <1>7, <2>1, <2>2, TypePartsNext
            DEF Claim, ClaimMismatch, RowType, GhostType, rows, ghosts
<1>8. ASSUME NEW p \in Procs, NEW sub \in Subjects, Exchange(p, sub) PROVE TypeOK'
    <2>1. FieldType'
        BY <1>1, <1>8 DEF Exchange, Goto, FieldType, Stages, naming
    <2>2. GhostType'
        BY <1>1, <1>8, AtWork DEF Exchange, Goto, GhostType
    <2> QED BY <1>1, <1>8, <2>1, <2>2, TypePartsNext
            DEF Exchange, RowType, RequestType, rows, requests
<1>9. ASSUME NEW p \in Procs, Find(p) PROVE TypeOK'
    <2>1. FieldType'
        BY <1>1, <1>9, AtWork DEF Find, FieldType, RowType, Stages, callback
    <2> QED BY <1>2, <1>9, <2>1 DEF Find
<1>10. ASSUME NEW p \in Procs, NEW b \in Bases, FindNone(p, b) PROVE TypeOK'
    <2>1. <<b, 1>> \in Names
        BY OidcAssumption DEF Names
    <2>2. FieldType'
        BY <1>1, <1>10, <2>1 DEF FindNone, Goto, FieldType, Stages, callback
    <2> QED BY <1>2, <1>10, <2>2 DEF FindNone
<1>11. ASSUME NEW p \in Procs, SearchTaken(p) \/ SearchFree(p) PROVE TypeOK'
    <2>1. wanted[p] \in Names
        BY <1>1, <1>11, AtWork DEF SearchTaken, SearchFree, Goto
    <2>2. wanted[p][2] < Suffixes => <<wanted[p][1], wanted[p][2] + 1>> \in Names
        BY <2>1, OidcAssumption DEF Names
    <2>3. FieldType'
        BY <1>1, <1>11, <2>2 DEF SearchTaken, SearchFree, Goto, FieldType, Stages, callback, naming
    <2> QED BY <1>2, <1>11, <2>3 DEF SearchTaken, SearchFree
<1>12. ASSUME NEW p \in Procs, NEW a \in Accounts, InsertUser(p, a) PROVE TypeOK'
    <2>1. FieldType'
        BY <1>1, <1>12 DEF InsertUser, Goto, FieldType, Stages, callback
    <2> QED BY <1>2, <1>12, <2>1 DEF InsertUser
<1>13. ASSUME NEW p \in Procs, NameConflict(p) PROVE TypeOK'
    <2>1. wanted[p] \in Names
        BY <1>1, <1>13, AtWork DEF NameConflict, Goto
    <2>2. <<wanted[p][1], 1>> \in Names
        BY <2>1, OidcAssumption DEF Names
    <2>3. tries[p] + 1 \in 0..(Attempts - 1)
        BY <1>1, <1>13, OidcAssumption DEF NameConflict, LoseName, FieldType
    <2>4. FieldType'
        BY <1>1, <1>13, <2>1, <2>2, <2>3
           DEF NameConflict, LoseName, Goto, FieldType, Stages, callback
    <2> QED BY <1>2, <1>13, <2>4 DEF NameConflict, LoseName
<1>14. ASSUME NEW p \in Procs, InsertIdentity(p) \/ IdentityConflict(p) PROVE TypeOK'
    <2>1. FieldType'
        BY <1>1, <1>14 DEF InsertIdentity, IdentityConflict, Goto, FieldType, Stages, callback, naming
    <2> QED BY <1>2, <1>14, <2>1 DEF InsertIdentity, IdentityConflict
<1>15. ASSUME NEW p \in Procs, Commit(p) PROVE TypeOK'
    <2>1. user[p] \in Accounts /\ wanted[p] \in Names /\ Identity(p) \in Identities
        BY <1>1, <1>15, AtWork DEF Commit, Goto, PendingUser
    <2>2. FieldType'
        BY <1>1, <1>15 DEF Commit, Goto, FieldType, Stages, callback, naming
    <2>3. RowType' /\ GhostType'
        BY <1>1, <1>15, <2>1 DEF Commit, RowType, GhostType
    <2> QED BY <1>1, <1>15, <2>2, <2>3, TypePartsNext DEF Commit, RequestType, requests
<1>16. ASSUME NEW k \in Providers, UpdateProvider(k) \/ DeleteProvider(k) PROVE TypeOK'
    <2>1. RowType'
        BY <1>1, <1>16 DEF UpdateProvider, DeleteProvider, RowType
    <2>2. RequestType'
        BY <1>1, <1>16 DEF UpdateProvider, DeleteProvider, RequestType, Others, requests
    <2> QED BY <1>1, <1>16, <2>1, <2>2, TypePartsNext
            DEF UpdateProvider, DeleteProvider, FieldType, GhostType, Others, callback, naming, ghosts
<1>17. ASSUME NEW a \in Accounts, NEW n \in Names, CreateUser(a, n) PROVE TypeOK'
    <2>1. RowType'
        BY <1>1, <1>17 DEF CreateUser, RowType
    <2> QED BY <1>1, <1>17, <2>1, TypePartsNext
            DEF CreateUser, FieldType, RequestType, GhostType, Others, requests, callback, naming, ghosts
<1>18. CASE UNCHANGED vars
    BY <1>1, <1>18, TypePartsNext
       DEF vars, FieldType, RowType, RequestType, GhostType, rows, requests, callback, naming, ghosts
<1> QED BY <1>3, <1>4, <1>5, <1>6, <1>7, <1>8, <1>9, <1>10, <1>11, <1>12, <1>13, <1>14,
           <1>15, <1>16, <1>17, <1>18, <1>4a DEF Next, Step

-----------------------------------------------------------------------------
(* Steps of one callback leave the others alone                            *)

Same(q) ==
    /\ pc'[q] = pc[q] /\ provider'[q] = provider[q] /\ state'[q] = state[q]
    /\ subject'[q] = subject[q] /\ user'[q] = user[q] /\ wanted'[q] = wanted[q]
    /\ tries'[q] = tries[q] /\ lost'[q] = lost[q]

Moves(p) == \A q \in Procs \ {p} : Same(q)

LEMMA EndMoves == ASSUME TypeOK, NEW p \in Procs, End(p) PROVE Moves(p)
BY DEF TypeOK, End, Moves, Same

LEMMA BeginMoves ==
    ASSUME TypeOK, NEW p \in Procs, NEW k \in Providers,
           Start(p, k) \/ \E s \in States : Callback(p, k, s)
    PROVE  Moves(p)
<1>1. CASE Start(p, k)
    BY <1>1 DEF TypeOK, Start, ReadProvider, Goto, Moves, Same, naming
<1>2. ASSUME NEW s \in States, Callback(p, k, s) PROVE Moves(p)
    BY <1>2 DEF TypeOK, Callback, ReadProvider, Goto, Moves, Same, naming
<1> QED BY <1>1, <1>2

LEMMA StepMoves == ASSUME TypeOK, NEW p \in Procs, Step(p) PROVE Moves(p)
<1>1. ASSUME NEW s \in States, CreateOIDCRequest(p, s) PROVE Moves(p)
    BY <1>1, EndMoves DEF CreateOIDCRequest
<1>2. CASE Claim(p)
    BY <1>2 DEF TypeOK, Claim, Goto, Moves, Same, callback, naming
<1>3. CASE ClaimMismatch(p) \/ Welcome(p)
    BY <1>3, EndMoves DEF ClaimMismatch, Welcome
<1>4. ASSUME NEW sub \in Subjects, Exchange(p, sub) PROVE Moves(p)
    BY <1>4 DEF TypeOK, Exchange, Goto, Moves, Same, naming
<1>5. CASE Find(p)
    BY <1>5 DEF TypeOK, Find, Moves, Same, callback
<1>6. ASSUME NEW b \in Bases, FindNone(p, b) PROVE Moves(p)
    BY <1>6 DEF TypeOK, FindNone, Goto, Moves, Same, callback
<1>7. CASE SearchTaken(p) \/ SearchFree(p)
    BY <1>7 DEF TypeOK, SearchTaken, SearchFree, Goto, Moves, Same, callback, naming
<1>8. ASSUME NEW a \in Accounts, InsertUser(p, a) PROVE Moves(p)
    BY <1>8 DEF TypeOK, InsertUser, Goto, Moves, Same, callback
<1>9. CASE NameConflict(p)
    BY <1>9 DEF TypeOK, NameConflict, LoseName, Goto, Moves, Same, callback
<1>10. CASE InsertIdentity(p) \/ IdentityConflict(p) \/ Commit(p)
    BY <1>10 DEF TypeOK, InsertIdentity, IdentityConflict, Commit, Goto, Moves, Same, callback, naming
<1> QED BY <1>1, <1>2, <1>3, <1>4, <1>5, <1>6, <1>7, <1>8, <1>9, <1>10 DEF Step

-----------------------------------------------------------------------------
(* Held                                                                    *)

HeldAt(p) ==
    /\ pc[p] # "idle" => provider[p] # None
    /\ pc[p] \notin {"idle", "start"} => state[p] # None
    /\ pc[p] \notin {"idle", "start", "claim", "exchange"} => subject[p] # None
    /\ pc[p] \in {"search", "insert", "bind", "commit"} => wanted[p] # None
    /\ PendingUser(p) => user[p] # None /\ name[user[p]] = None
    /\ PendingIdentity(p) => identity[Identity(p)] = None /\ provider[p] \notin deleted
    /\ pc[p] = "welcome" => <<Identity(p), user[p]>> \in bound

LEMMA HeldEach == Held <=> \A p \in Procs : HeldAt(p)
BY DEF Held, HeldAt

LEMMA HeldNext == (\A p \in Procs : HeldAt(p)') => Held'
BY DEF Held, HeldAt

LEMMA HeldSame ==
    ASSUME NEW q \in Procs, HeldAt(q), Same(q), bound \subseteq bound',
           PendingUser(q) => name'[user[q]] = None,
           PendingIdentity(q) => identity'[Identity(q)] = None /\ provider[q] \notin deleted'
    PROVE  HeldAt(q)'
BY DEF HeldAt, Same, PendingUser, PendingIdentity, Identity

\* A step of p that touches no row in their way leaves the others as they were.
LEMMA HeldMoves ==
    ASSUME Held, NEW p \in Procs, Moves(p), UNCHANGED <<name, identity, deleted, bound>>, HeldAt(p)'
    PROVE  Held'
<1> SUFFICES ASSUME NEW q \in Procs, q # p PROVE HeldAt(q)'
    BY HeldNext
<1>1. HeldAt(q) /\ Same(q)
    BY HeldEach DEF Moves
<1> QED BY <1>1, HeldSame DEF HeldAt

LEMMA HeldEnd == ASSUME TypeOK, NEW p \in Procs, End(p) PROVE HeldAt(p)'
BY DEF TypeOK, End, HeldAt, PendingUser, PendingIdentity

LEMMA StepHeld == IInv /\ [Next]_vars => Held'
<1> SUFFICES ASSUME IInv, [Next]_vars PROVE Held'
    OBVIOUS
<1>1. TypeOK /\ Held /\ Apart /\ Bindings
    BY DEF IInv
<1>2. ASSUME NEW p \in Procs, End(p), UNCHANGED <<name, identity, deleted, bound>> PROVE Held'
    BY <1>1, <1>2, EndMoves, HeldEnd, HeldMoves
<1>3. ASSUME NEW p \in Procs, \/ Fail(p) \/ Welcome(p) \/ ClaimMismatch(p)
                              \/ \E s \in States : CreateOIDCRequest(p, s)
      PROVE  Held'
    BY <1>2, <1>3 DEF Fail, Welcome, ClaimMismatch, CreateOIDCRequest, rows, ghosts
<1>4. ASSUME NEW p \in Procs, NEW k \in Providers, Start(p, k) PROVE Held'
    <2>1. HeldAt(p)'
        BY <1>1, <1>4, OidcAssumption
           DEF Start, ReadProvider, Goto, TypeOK, HeldAt, PendingUser, PendingIdentity
    <2> QED BY <1>1, <1>4, <2>1, BeginMoves, HeldMoves DEF Start, rows, ghosts
<1>5. ASSUME NEW p \in Procs, NEW k \in Providers, NEW s \in States, Callback(p, k, s) PROVE Held'
    <2>1. HeldAt(p)'
        BY <1>1, <1>5, OidcAssumption
           DEF Callback, ReadProvider, Goto, TypeOK, HeldAt, PendingUser, PendingIdentity
    <2> QED BY <1>1, <1>5, <2>1, BeginMoves, HeldMoves DEF Callback, rows, ghosts
<1>6. ASSUME NEW p \in Procs, Step(p), HeldAt(p)', UNCHANGED <<name, identity, deleted, bound>>
      PROVE  Held'
    BY <1>1, <1>6, StepMoves, HeldMoves
<1>7. ASSUME NEW p \in Procs, Claim(p) PROVE Held'
    <2>1. HeldAt(p)'
        BY <1>1, <1>7 DEF Claim, Goto, callback, TypeOK, Held, HeldAt, PendingUser, PendingIdentity
    <2> QED BY <1>6, <1>7, <2>1 DEF Claim, Step, rows, ghosts
<1>8. ASSUME NEW p \in Procs, NEW sub \in Subjects, Exchange(p, sub) PROVE Held'
    <2>1. HeldAt(p)'
        BY <1>1, <1>8, OidcAssumption
           DEF Exchange, Goto, TypeOK, Held, HeldAt, PendingUser, PendingIdentity
    <2> QED BY <1>6, <1>8, <2>1 DEF Exchange, Step, rows
<1>9. ASSUME NEW p \in Procs, Find(p) PROVE Held'
    <2>1. Identity(p) \in Identities
        BY <1>1, <1>9, AtWork DEF Find
    <2>2. <<Identity(p), identity[Identity(p)]>> \in bound
        BY <1>1, <1>9, <2>1 DEF Find, Bindings
    <2>3. HeldAt(p)'
        BY <1>1, <1>9, <2>2
           DEF Find, callback, rows, ghosts, TypeOK, Held, HeldAt, PendingUser, PendingIdentity, Identity
    <2> QED BY <1>6, <1>9, <2>3 DEF Find, Step, rows, ghosts
<1>10. ASSUME NEW p \in Procs, NEW b \in Bases, FindNone(p, b) PROVE Held'
    <2>1. <<b, 1>> # None
        BY OidcAssumption DEF Names
    <2>2. HeldAt(p)'
        BY <1>1, <1>10, <2>1
           DEF FindNone, Goto, callback, TypeOK, Held, HeldAt, PendingUser, PendingIdentity
    <2> QED BY <1>6, <1>10, <2>2 DEF FindNone, Step, rows, ghosts
<1>11. ASSUME NEW p \in Procs, SearchTaken(p) \/ SearchFree(p) PROVE Held'
    <2>1. wanted[p] \in Names
        BY <1>1, <1>11, AtWork DEF SearchTaken, SearchFree, Goto
    <2>2. wanted[p][2] < Suffixes => <<wanted[p][1], wanted[p][2] + 1>> # None
        BY <2>1, OidcAssumption DEF Names
    <2>3. HeldAt(p)'
        BY <1>1, <1>11, <2>2
           DEF SearchTaken, SearchFree, Goto, callback, naming, TypeOK, Held, HeldAt,
               PendingUser, PendingIdentity
    <2> QED BY <1>6, <1>11, <2>3 DEF SearchTaken, SearchFree, Step, rows, ghosts
<1>12. ASSUME NEW p \in Procs, NEW a \in Accounts, InsertUser(p, a) PROVE Held'
    <2>1. HeldAt(p)'
        BY <1>1, <1>12, OidcAssumption
           DEF InsertUser, Goto, Fresh, callback, rows, TypeOK, Held, HeldAt, PendingUser, PendingIdentity
    <2> QED BY <1>6, <1>12, <2>1 DEF InsertUser, Step, rows, ghosts
<1>13. ASSUME NEW p \in Procs, NameConflict(p) PROVE Held'
    <2>1. wanted[p] \in Names
        BY <1>1, <1>13, AtWork DEF NameConflict, Goto
    <2>2. <<wanted[p][1], 1>> # None
        BY <2>1, OidcAssumption DEF Names
    <2>3. HeldAt(p)'
        BY <1>1, <1>13, <2>2
           DEF NameConflict, LoseName, Goto, callback, TypeOK, Held, HeldAt, PendingUser, PendingIdentity
    <2> QED BY <1>6, <1>13, <2>3 DEF NameConflict, LoseName, Step, rows, ghosts
<1>14. ASSUME NEW p \in Procs, InsertIdentity(p) \/ IdentityConflict(p) PROVE Held'
    <2>1. HeldAt(p)'
        BY <1>1, <1>14
           DEF InsertIdentity, IdentityConflict, Goto, callback, naming, rows, TypeOK, Held, HeldAt,
               PendingUser, PendingIdentity, Identity
    <2> QED BY <1>6, <1>14, <2>1 DEF InsertIdentity, IdentityConflict, Step, rows, ghosts
<1>15. ASSUME NEW p \in Procs, Commit(p) PROVE Held'
    <2>1. HeldAt(p)'
        BY <1>1, <1>15
           DEF Commit, Goto, callback, naming, TypeOK, Held, HeldAt, PendingUser, PendingIdentity, Identity
    <2>2. ASSUME NEW q \in Procs, q # p PROVE HeldAt(q)'
        <3>0. Moves(p)
            BY <1>1, <1>15, StepMoves DEF Step
        <3>1. HeldAt(q) /\ Same(q)
            BY <1>1, <2>2, <3>0, HeldEach DEF Moves
        <3>2. PendingUser(p) /\ PendingIdentity(p) /\ bound \subseteq bound' /\ deleted' = deleted
            BY <1>15 DEF Commit, Goto, PendingUser, PendingIdentity
        <3>3. PendingUser(q) => name'[user[q]] = None
            BY <1>1, <1>15, <2>2, <3>1, <3>2 DEF Commit, Apart, HeldAt, TypeOK
        <3>4. PendingIdentity(q) => identity'[Identity(q)] = None
            BY <1>1, <1>15, <2>2, <3>1, <3>2 DEF Commit, Apart, HeldAt, TypeOK
        <3> QED BY <3>1, <3>2, <3>3, <3>4, HeldSame DEF HeldAt
    <2> QED BY <2>1, <2>2, HeldNext
<1>16. ASSUME \A q \in Procs :
                  /\ PendingUser(q) => name'[user[q]] = None
                  /\ PendingIdentity(q) => identity'[Identity(q)] = None /\ provider[q] \notin deleted',
              UNCHANGED <<pc, callback, naming, bound>>
       PROVE  Held'
    <2> SUFFICES ASSUME NEW q \in Procs PROVE HeldAt(q)'
        BY HeldNext
    <2>1. HeldAt(q) /\ Same(q)
        BY <1>1, <1>16, HeldEach DEF Same, callback, naming
    <2> QED BY <1>16, <2>1, HeldSame
<1>17. ASSUME UNCHANGED <<name, identity, deleted, pc, callback, naming, bound>> PROVE Held'
    BY <1>1, <1>16, <1>17 DEF Held
<1>18. ASSUME NEW k \in Providers, UpdateProvider(k) PROVE Held'
    BY <1>17, <1>18 DEF UpdateProvider, Others, ghosts
<1>19. ASSUME NEW k \in Providers, DeleteProvider(k) PROVE Held'
    <2>1. ASSUME NEW q \in Procs, PendingIdentity(q)
          PROVE  identity'[Identity(q)] = None /\ provider[q] \notin deleted'
        <3>1. Identity(q) \in Identities
            BY <1>1, <2>1, AtWork DEF PendingIdentity
        <3> QED BY <1>1, <1>19, <2>1, <3>1 DEF DeleteProvider, Held
    <2> QED BY <1>1, <1>16, <1>19, <2>1 DEF DeleteProvider, Held, ghosts
<1>20. ASSUME NEW a \in Accounts, NEW n \in Names, CreateUser(a, n) PROVE Held'
    <2>1. \A q \in Procs : PendingUser(q) => name'[user[q]] = None
        BY <1>1, <1>20 DEF CreateUser, Fresh, Held, TypeOK
    <2> QED BY <1>1, <1>16, <1>20, <2>1 DEF CreateUser, Held, Others, ghosts
<1>21. ASSUME NEW s \in States, Expire(s) PROVE Held'
    BY <1>17, <1>21 DEF Expire, rows, ghosts
<1>22. CASE UNCHANGED vars
    BY <1>17, <1>22 DEF vars, rows, ghosts
<1> QED BY <1>3, <1>4, <1>5, <1>7, <1>8, <1>9, <1>10, <1>11, <1>12, <1>13, <1>14, <1>15,
           <1>18, <1>19, <1>20, <1>21, <1>22 DEF Next, Step

-----------------------------------------------------------------------------
(* Apart                                                                   *)

\* Nobody else holds what p comes to hold.
LEMMA ApartAgainst ==
    ASSUME Apart, NEW p \in Procs, Moves(p),
           \A q \in Procs \ {p} :
               /\ PendingUser(p)' /\ PendingUser(q) => user'[p] # user[q]
               /\ PendingIdentity(p)' /\ PendingIdentity(q) => Identity(p)' # Identity(q)
               /\ pc'[p] = "exchange" /\ pc[q] = "exchange" => state'[p] # state[q]
    PROVE  Apart'
BY DEF Apart, Moves, Same, PendingUser, PendingIdentity, Identity

LEMMA ApartQuiet ==
    ASSUME Apart, NEW p \in Procs, Moves(p), pc'[p] \notin {"exchange", "bind", "commit"}
    PROVE  Apart'
BY ApartAgainst DEF PendingUser, PendingIdentity

LEMMA ApartSame == ASSUME Apart, UNCHANGED <<pc, callback, naming>> PROVE Apart'
BY DEF Apart, PendingUser, PendingIdentity, Identity, callback, naming

LEMMA StepApart == IInv /\ [Next]_vars => Apart'
<1> SUFFICES ASSUME IInv, [Next]_vars PROVE Apart'
    OBVIOUS
<1>1. TypeOK /\ Held /\ Apart /\ Redeemed
    BY DEF IInv
<1>2. ASSUME NEW p \in Procs, End(p) PROVE Apart'
    <2>1. pc'[p] = "idle"
        BY <1>1, <1>2 DEF End, TypeOK
    <2> QED BY <1>1, <1>2, <2>1, EndMoves, ApartQuiet
<1>3. ASSUME NEW p \in Procs, \/ Fail(p) \/ Welcome(p) \/ ClaimMismatch(p)
                              \/ \E s \in States : CreateOIDCRequest(p, s)
      PROVE  Apart'
    BY <1>2, <1>3 DEF Fail, Welcome, ClaimMismatch, CreateOIDCRequest
<1>4. ASSUME NEW p \in Procs, NEW k \in Providers,
             Start(p, k) \/ \E s \in States : Callback(p, k, s)
      PROVE  Apart'
    <2>1. pc'[p] \in {"start", "claim"}
        BY <1>1, <1>4 DEF Start, Callback, Goto, TypeOK
    <2> QED BY <1>1, <1>4, <2>1, BeginMoves, ApartQuiet
<1>5. ASSUME NEW p \in Procs, Step(p) PROVE Moves(p)
    BY <1>1, <1>5, StepMoves
<1>6. ASSUME NEW p \in Procs, Claim(p) PROVE Apart'
    <2>1. pc'[p] = "exchange" /\ state' = state /\ request[state[p]] = "open"
        BY <1>1, <1>6 DEF Claim, Goto, TypeOK, callback
    <2>2. \A q \in Procs \ {p} : pc[q] = "exchange" => state'[p] # state[q]
        BY <1>1, <2>1 DEF Redeemed
    <2> QED BY <1>1, <1>5, <1>6, <2>1, <2>2, ApartAgainst DEF Step, PendingUser, PendingIdentity
<1>7. ASSUME NEW p \in Procs, \/ \E sub \in Subjects : Exchange(p, sub)
                              \/ Find(p) \/ \E b \in Bases : FindNone(p, b)
                              \/ SearchTaken(p) \/ SearchFree(p)
                              \/ NameConflict(p) \/ IdentityConflict(p) \/ Commit(p)
      PROVE  Apart'
    <2>1. pc'[p] \in {"find", "welcome", "search", "insert", "winner"}
        BY <1>1, <1>7 DEF Exchange, Find, FindNone, SearchTaken, SearchFree, NameConflict,
                          IdentityConflict, Commit, Goto, TypeOK
    <2> QED BY <1>1, <1>5, <1>7, <2>1, ApartQuiet DEF Step
<1>8. ASSUME NEW p \in Procs, NEW a \in Accounts, InsertUser(p, a) PROVE Apart'
    <2>1. pc'[p] = "bind" /\ user'[p] = a
        BY <1>1, <1>8 DEF InsertUser, Goto, TypeOK
    <2>2. \A q \in Procs : PendingUser(q) => user[q] # a
        BY <1>8 DEF InsertUser, Fresh
    <2> QED BY <1>1, <1>5, <1>8, <2>1, <2>2, ApartAgainst DEF Step, PendingIdentity
<1>9. ASSUME NEW p \in Procs, InsertIdentity(p) PROVE Apart'
    <2>1. pc'[p] = "commit" /\ PendingUser(p) /\ user' = user /\ Identity(p)' = Identity(p)
        BY <1>1, <1>9 DEF InsertIdentity, Goto, TypeOK, PendingUser, Identity, callback, naming
    <2>2. \A q \in Procs : PendingIdentity(q) => Identity(q) # Identity(p)
        BY <1>9 DEF InsertIdentity, IdentityLocked
    <2>3. \A q \in Procs \ {p} : PendingUser(q) => user[p] # user[q]
        BY <1>1, <2>1 DEF Apart
    <2> QED BY <1>1, <1>5, <1>9, <2>1, <2>2, <2>3, ApartAgainst DEF Step
<1>10. ASSUME UNCHANGED <<pc, callback, naming>> PROVE Apart'
    BY <1>1, <1>10, ApartSame
<1>11. ASSUME NEW k \in Providers, UpdateProvider(k) \/ DeleteProvider(k) PROVE Apart'
    BY <1>10, <1>11 DEF UpdateProvider, DeleteProvider, Others
<1>12. ASSUME NEW a \in Accounts, NEW n \in Names, CreateUser(a, n) PROVE Apart'
    BY <1>10, <1>12 DEF CreateUser, Others
<1>13. ASSUME NEW s \in States, Expire(s) PROVE Apart'
    BY <1>10, <1>13 DEF Expire
<1>14. CASE UNCHANGED vars
    BY <1>10, <1>14 DEF vars
<1> QED BY <1>3, <1>4, <1>6, <1>7, <1>8, <1>9, <1>11, <1>12, <1>13, <1>14 DEF Next, Step

-----------------------------------------------------------------------------
(* Bindings                                                                *)

\* Bindings without the callbacks.
BindingRows ==
    /\ \A x, y \in bound : x[1] = y[1] <=> x[2] = y[2]
    /\ NothingDangles
    /\ \A x \in bound : name[x[2]] # None
    /\ \A i \in Identities : identity[i] # None => <<i, identity[i]>> \in bound

LEMMA StepBindings == IInv /\ [Next]_vars => Bindings'
<1> SUFFICES ASSUME IInv, [Next]_vars PROVE BindingRows'
    BY StepHeld DEF Held, Bindings, BindingRows, OneAccountEach
<1>1. TypeOK /\ Held /\ BindingRows
    BY DEF IInv, Bindings, BindingRows, OneAccountEach
<1>2. ASSUME UNCHANGED <<name, identity, deleted, bound>> PROVE BindingRows'
    BY <1>1, <1>2 DEF BindingRows, NothingDangles
<1>3. ASSUME NEW p \in Procs, Commit(p) PROVE BindingRows'
    <2> DEFINE i == Identity(p)  a == user[p]
    <2>1. /\ i \in Identities /\ a \in Accounts /\ wanted[p] \in Names /\ wanted[p] # None
          /\ name[a] = None /\ identity[i] = None /\ i[1] \notin deleted
        BY <1>1, <1>3, AtWork, OidcAssumption
           DEF Commit, Goto, Held, PendingUser, PendingIdentity, Identity
    <2>2. \A x \in bound : x[1] \in Identities /\ x[2] \in Accounts /\ x[2] # None
        BY <1>1, OidcAssumption DEF TypeOK
    <2>3. \A x \in bound : x[1] # i /\ x[2] # a
        BY <1>1, <2>1, <2>2 DEF BindingRows, NothingDangles
    <2>4. /\ name' = [name EXCEPT ![a] = wanted[p]] /\ identity' = [identity EXCEPT ![i] = a]
          /\ bound' = bound \cup {<<i, a>>} /\ deleted' = deleted
        BY <1>3 DEF Commit
    <2>4a. a # None
        BY <2>1, OidcAssumption
    <2> HIDE DEF i, a
    <2>5. \A x, y \in bound' : x[1] = y[1] <=> x[2] = y[2]
        BY <1>1, <2>3, <2>4 DEF BindingRows
    <2>6. /\ \A x \in bound' : x[1][1] \notin deleted => identity'[x[1]] = x[2]
          /\ \A x \in bound' : name'[x[2]] # None
        BY <1>1, <2>1, <2>2, <2>3, <2>4 DEF BindingRows, NothingDangles, TypeOK
    <2>7. \A j \in Identities : identity'[j] # None =>
              /\ name'[identity'[j]] # None /\ j[1] \notin deleted
              /\ <<j, identity'[j]>> \in bound'
        BY <1>1, <2>1, <2>4 DEF BindingRows, NothingDangles, TypeOK
    <2> QED BY <2>4, <2>5, <2>6, <2>7 DEF BindingRows, NothingDangles
<1>4. ASSUME NEW p \in Procs, Step(p), ~Commit(p) PROVE BindingRows'
    BY <1>2, <1>4 DEF Step, CreateOIDCRequest, Claim, ClaimMismatch, Exchange, Find, FindNone,
           SearchTaken, SearchFree, InsertUser, NameConflict, LoseName, InsertIdentity,
           IdentityConflict, Welcome, rows, ghosts
<1>5. ASSUME NEW p \in Procs,
             \/ \E k \in Providers : Start(p, k) \/ \E s \in States : Callback(p, k, s)
             \/ Fail(p)
      PROVE  BindingRows'
    BY <1>2, <1>5 DEF Start, Callback, Fail, rows, ghosts
<1>6. ASSUME NEW k \in Providers, UpdateProvider(k) PROVE BindingRows'
    BY <1>2, <1>6 DEF UpdateProvider, Others, ghosts
<1>7. ASSUME NEW k \in Providers, DeleteProvider(k) PROVE BindingRows'
    <2>1. /\ bound' = bound /\ name' = name /\ deleted' = deleted \cup {k}
          /\ identity' = [i \in Identities |-> IF i[1] = k THEN None ELSE identity[i]]
        BY <1>7 DEF DeleteProvider, ghosts
    <2>2. \A x \in bound : x[1] \in Identities
        BY <1>1 DEF TypeOK
    <2>3. NothingDangles'
        BY <1>1, <2>1, <2>2 DEF BindingRows, NothingDangles
    <2> QED BY <1>1, <2>1, <2>3 DEF BindingRows
<1>8. ASSUME NEW a \in Accounts, NEW n \in Names, CreateUser(a, n) PROVE BindingRows'
    <2>1. \A b \in Accounts : name[b] # None => name'[b] # None
        BY <1>1, <1>8 DEF CreateUser, Fresh, TypeOK
    <2>2. \A x \in bound : x[2] \in Accounts
        BY <1>1 DEF TypeOK
    <2>3. \A i \in Identities : identity[i] # None => identity[i] \in Accounts
        BY <1>1 DEF TypeOK
    <2> QED BY <1>1, <1>8, <2>1, <2>2, <2>3
            DEF CreateUser, BindingRows, NothingDangles, Others, ghosts
<1>9. ASSUME NEW s \in States, Expire(s) PROVE BindingRows'
    BY <1>2, <1>9 DEF Expire, rows, ghosts
<1>10. CASE UNCHANGED vars
    BY <1>2, <1>10 DEF vars, rows, ghosts
<1> QED BY <1>3, <1>4, <1>5, <1>6, <1>7, <1>8, <1>9, <1>10 DEF Next

-----------------------------------------------------------------------------
(* Redeemed                                                                *)

RedeemedAt(s) ==
    /\ exchanged[s] <= 1
    /\ request[s] = "new" <=> started[s] = None
    /\ request[s] \in {"new", "open"} => exchanged[s] = 0

RedeemedBy(p) == pc[p] = "exchange" =>
    request[state[p]] \notin {"new", "open"} /\ exchanged[state[p]] = 0

LEMMA RedeemedParts ==
    Redeemed <=> (\A s \in States : RedeemedAt(s)) /\ \A p \in Procs : RedeemedBy(p)
BY DEF Redeemed, RedeemedOnce, RedeemedAt, RedeemedBy

LEMMA RedeemedNext ==
    (\A s \in States : RedeemedAt(s)') /\ (\A p \in Procs : RedeemedBy(p)') => Redeemed'
BY DEF Redeemed, RedeemedOnce, RedeemedAt, RedeemedBy

\* A step of p that touches no request and leaves p no code to exchange.
LEMMA RedeemedQuiet ==
    ASSUME Redeemed, NEW p \in Procs, Moves(p), pc'[p] # "exchange",
           UNCHANGED <<requests, exchanged>>
    PROVE  Redeemed'
<1>1. \A s \in States : RedeemedAt(s)'
    BY RedeemedParts DEF RedeemedAt, requests
<1>2. \A q \in Procs : RedeemedBy(q)'
    BY RedeemedParts DEF RedeemedBy, Moves, Same, requests
<1> QED BY <1>1, <1>2, RedeemedNext

\* Requests only move away from "new" and "open".
LEMMA RedeemedLater ==
    ASSUME Redeemed, NEW p \in Procs, Moves(p), pc'[p] # "exchange", exchanged' = exchanged,
           \A s \in States : RedeemedAt(s)',
           \A q \in Procs : pc[q] = "exchange" => state[q] \in States,
           \A s \in States : request[s] \notin {"new", "open"} => request'[s] \notin {"new", "open"}
    PROVE  Redeemed'
<1>1. \A q \in Procs : RedeemedBy(q)'
    BY RedeemedParts DEF RedeemedBy, Moves, Same
<1> QED BY <1>1, RedeemedNext

LEMMA StepRedeemed == IInv /\ [Next]_vars => Redeemed'
<1> SUFFICES ASSUME IInv, [Next]_vars PROVE Redeemed'
    OBVIOUS
<1>1. TypeOK /\ Held /\ Apart /\ Redeemed
    BY DEF IInv
<1>2. /\ \A s \in States : RedeemedAt(s)
      /\ \A q \in Procs : RedeemedBy(q)
      /\ \A q \in Procs : pc[q] = "exchange" => state[q] \in States
    BY <1>1, RedeemedParts, AtWork
<1>3. ASSUME NEW p \in Procs, End(p) PROVE Moves(p) /\ pc'[p] # "exchange"
    BY <1>1, <1>3, EndMoves DEF End, TypeOK
<1>4. ASSUME NEW p \in Procs, Fail(p) \/ Welcome(p) PROVE Redeemed'
    BY <1>1, <1>3, <1>4, RedeemedQuiet DEF Fail, Welcome, ghosts
<1>5. ASSUME NEW p \in Procs, NEW k \in Providers,
             Start(p, k) \/ \E s \in States : Callback(p, k, s)
      PROVE  Redeemed'
    <2>1. pc'[p] # "exchange"
        BY <1>1, <1>5 DEF Start, Callback, Goto, TypeOK
    <2> QED BY <1>1, <1>5, <2>1, BeginMoves, RedeemedQuiet DEF Start, Callback, ghosts
<1>6. ASSUME NEW p \in Procs, Step(p) PROVE Moves(p)
    BY <1>1, <1>6, StepMoves
<1>7. ASSUME NEW p \in Procs, NEW s \in States, CreateOIDCRequest(p, s) PROVE Redeemed'
    <2>1. provider[p] # None
        BY <1>1, <1>7 DEF CreateOIDCRequest, Held
    <2>2. \A r \in States : RedeemedAt(r)'
        BY <1>1, <1>2, <1>7, <2>1 DEF CreateOIDCRequest, RedeemedAt, TypeOK, ghosts
    <2>3. \A r \in States : request[r] \notin {"new", "open"} => request'[r] \notin {"new", "open"}
        BY <1>1, <1>7 DEF CreateOIDCRequest, TypeOK
    <2> QED BY <1>1, <1>2, <1>3, <1>7, <2>2, <2>3, RedeemedLater DEF CreateOIDCRequest, ghosts
<1>8. ASSUME NEW p \in Procs, Claim(p) \/ ClaimMismatch(p)
      PROVE  /\ \A r \in States : RedeemedAt(r)'
             /\ \A r \in States : request[r] \notin {"new", "open"} => request'[r] \notin {"new", "open"}
             /\ exchanged' = exchanged
    <2>1. request' = [request EXCEPT ![state[p]] = "consumed"] /\ request[state[p]] = "open"
          /\ UNCHANGED <<started, exchanged>>
        BY <1>8 DEF Claim, ClaimMismatch, ghosts
    <2> QED BY <1>1, <1>2, <2>1 DEF RedeemedAt, TypeOK
<1>9. ASSUME NEW p \in Procs, Claim(p) PROVE Redeemed'
    <2>1. state[p] \in States
        BY <1>1, <1>9, AtWork DEF Claim, Goto
    <2>2. /\ request'[state[p]] = "consumed" /\ exchanged'[state[p]] = 0
          /\ state' = state
        BY <1>1, <1>2, <1>9, <2>1 DEF Claim, RedeemedAt, TypeOK, ghosts, callback
    <2>3. \A q \in Procs \ {p} : RedeemedBy(q)'
        BY <1>2, <1>6, <1>8, <1>9 DEF RedeemedBy, Moves, Same, Step
    <2> QED BY <1>8, <1>9, <2>2, <2>3, RedeemedNext DEF RedeemedBy
<1>10. ASSUME NEW p \in Procs, ClaimMismatch(p) PROVE Redeemed'
    BY <1>1, <1>2, <1>3, <1>8, <1>10, RedeemedLater DEF ClaimMismatch
<1>11. ASSUME NEW p \in Procs, NEW sub \in Subjects, Exchange(p, sub) PROVE Redeemed'
    <2>1. /\ state[p] \in States /\ pc[p] = "exchange" /\ pc'[p] = "find"
          /\ UNCHANGED <<request, started>>
          /\ exchanged' = [exchanged EXCEPT ![state[p]] = @ + 1]
        BY <1>1, <1>11, AtWork DEF Exchange, Goto, TypeOK, requests
    <2>2. exchanged[state[p]] = 0 /\ request[state[p]] \notin {"new", "open"}
        BY <1>2, <2>1 DEF RedeemedBy
    <2>3. \A r \in States : RedeemedAt(r)'
        BY <1>1, <1>2, <2>1, <2>2 DEF RedeemedAt, TypeOK
    <2>4. ASSUME NEW q \in Procs \ {p} PROVE RedeemedBy(q)'
        <3>1. Same(q)
            BY <1>6, <1>11 DEF Moves, Step
        <3>2. pc[q] = "exchange" => state[q] # state[p] /\ state[q] \in States
            BY <1>1, <1>2, <2>1 DEF Apart
        <3> QED BY <1>1, <1>2, <2>1, <3>1, <3>2 DEF RedeemedBy, Same, TypeOK
    <2> QED BY <2>1, <2>3, <2>4, RedeemedNext DEF RedeemedBy
<1>12. ASSUME NEW p \in Procs, \/ Find(p) \/ \E b \in Bases : FindNone(p, b)
                               \/ SearchTaken(p) \/ SearchFree(p)
                               \/ \E a \in Accounts : InsertUser(p, a)
                               \/ NameConflict(p) \/ InsertIdentity(p) \/ IdentityConflict(p)
                               \/ Commit(p)
       PROVE  Redeemed'
    <2>1. pc'[p] # "exchange"
        BY <1>1, <1>12 DEF Find, FindNone, SearchTaken, SearchFree, InsertUser, NameConflict,
                          InsertIdentity, IdentityConflict, Commit, Goto, TypeOK
    <2>2. UNCHANGED <<requests, exchanged>>
        BY <1>12 DEF Find, FindNone, SearchTaken, SearchFree, InsertUser, NameConflict, LoseName,
                     InsertIdentity, IdentityConflict, Commit, ghosts
    <2> QED BY <1>1, <1>6, <1>12, <2>1, <2>2, RedeemedQuiet DEF Step
<1>13. ASSUME UNCHANGED <<pc, callback, exchanged>>, \A s \in States : RedeemedAt(s)',
              \A s \in States : request[s] \notin {"new", "open"} => request'[s] \notin {"new", "open"}
       PROVE  Redeemed'
    BY <1>2, <1>13, RedeemedNext DEF RedeemedBy, callback
<1>14. ASSUME UNCHANGED <<pc, callback, exchanged, requests>> PROVE Redeemed'
    BY <1>2, <1>13, <1>14 DEF RedeemedAt, requests
<1>15. ASSUME NEW k \in Providers, UpdateProvider(k) PROVE Redeemed'
    BY <1>14, <1>15 DEF UpdateProvider, Others, ghosts
<1>16. ASSUME NEW k \in Providers, DeleteProvider(k) PROVE Redeemed'
    <2>1. request' = [s \in States |-> IF started[s] = k THEN "gone" ELSE request[s]]
          /\ UNCHANGED <<started, exchanged, pc, callback>>
        BY <1>16 DEF DeleteProvider, ghosts
    <2>2. k # None
        BY OidcAssumption
    <2>3. \A s \in States : RedeemedAt(s)'
        BY <1>2, <2>1, <2>2 DEF RedeemedAt
    <2> QED BY <1>13, <2>1, <2>3
<1>17. ASSUME NEW a \in Accounts, NEW n \in Names, CreateUser(a, n) PROVE Redeemed'
    BY <1>14, <1>17 DEF CreateUser, Others, ghosts
<1>18. ASSUME NEW s \in States, Expire(s) PROVE Redeemed'
    <2>1. /\ request[s] = "open" /\ request' = [request EXCEPT ![s] = "gone"]
          /\ UNCHANGED <<started, exchanged, pc, callback>>
        BY <1>18 DEF Expire, ghosts
    <2>2. \A r \in States : RedeemedAt(r)'
        BY <1>1, <1>2, <2>1 DEF RedeemedAt, TypeOK
    <2> QED BY <1>1, <1>13, <2>1, <2>2 DEF TypeOK
<1>19. CASE UNCHANGED vars
    BY <1>14, <1>19 DEF vars, ghosts
<1> QED BY <1>4, <1>5, <1>7, <1>9, <1>10, <1>11, <1>12, <1>15, <1>16, <1>17, <1>18, <1>19
        DEF Next, Step

-----------------------------------------------------------------------------
(* Losing                                                                  *)

LosingAt(p) ==
    /\ (\A n \in lost[p] : n[2] < Suffixes) => tries[p] = Cardinality(lost[p])
    /\ IsFiniteSet(lost[p]) /\ \A n \in lost[p] : NameTaken(n)
    /\ pc[p] = "insert" => wanted[p] \notin lost[p] \/ wanted[p][2] = Suffixes

LEMMA LosingEach == Losing <=> \A p \in Procs : LosingAt(p)
BY DEF Losing, AnotherNameEachTry, LosingAt

LEMMA LosingNext == (\A p \in Procs : LosingAt(p)') => Losing'
BY DEF Losing, AnotherNameEachTry, LosingAt, NameTaken

\* No account gives up its name.
NamesStay == \A n \in Names : NameTaken(n) => NameTaken(n)'

LEMMA StepNamesStay == IInv /\ [Next]_vars => NamesStay
<1> SUFFICES ASSUME IInv, [Next]_vars PROVE NamesStay
    OBVIOUS
<1>1. TypeOK /\ Held
    BY DEF IInv
<1>2. ASSUME \A a \in Accounts : name[a] # None => name'[a] = name[a] PROVE NamesStay
    BY <1>2, OidcAssumption DEF NamesStay, NameTaken
<1>3. ASSUME name' = name PROVE NamesStay
    BY <1>2, <1>3
<1>4. ASSUME NEW p \in Procs, Commit(p) PROVE NamesStay
    BY <1>1, <1>2, <1>4, AtWork DEF Commit, Goto, Held, PendingUser, TypeOK
<1>5. ASSUME NEW p \in Procs, Step(p), ~Commit(p) PROVE NamesStay
    BY <1>3, <1>5 DEF Step, CreateOIDCRequest, Claim, ClaimMismatch, Exchange, Find, FindNone,
           SearchTaken, SearchFree, InsertUser, NameConflict, LoseName, InsertIdentity,
           IdentityConflict, Welcome, rows
<1>6. ASSUME NEW a \in Accounts, NEW n \in Names, CreateUser(a, n) PROVE NamesStay
    BY <1>1, <1>2, <1>6 DEF CreateUser, Fresh, TypeOK
<1>7. CASE \/ \E p \in Procs :
               \/ \E k \in Providers : Start(p, k) \/ \E s \in States : Callback(p, k, s)
               \/ Fail(p)
           \/ \E k \in Providers : UpdateProvider(k) \/ DeleteProvider(k)
           \/ \E s \in States : Expire(s)
           \/ UNCHANGED vars
    BY <1>3, <1>7 DEF Start, Callback, Fail, UpdateProvider, DeleteProvider, Expire, vars, rows
<1> QED BY <1>4, <1>5, <1>6, <1>7 DEF Next

LEMMA LosingSame ==
    ASSUME TypeOK, NEW q \in Procs, LosingAt(q), NamesStay, tries'[q] = tries[q], lost'[q] = lost[q],
           pc'[q] = "insert" =>
               \/ pc[q] = "insert" /\ wanted'[q] = wanted[q]
               \/ wanted'[q] \notin lost[q]
               \/ wanted'[q][2] = Suffixes
    PROVE  LosingAt(q)'
<1>1. \A n \in lost[q] : NameTaken(n)'
    BY DEF LosingAt, NamesStay, TypeOK
<1>2. pc'[q] = "insert" => wanted'[q] \notin lost[q] \/ wanted'[q][2] = Suffixes
    BY DEF LosingAt
<1>3. (\A n \in lost'[q] : n[2] < Suffixes) => tries'[q] = Cardinality(lost'[q])
    BY DEF LosingAt
<1>4. IsFiniteSet(lost'[q])
    BY DEF LosingAt
<1> QED BY <1>1, <1>2, <1>3, <1>4 DEF LosingAt, NameTaken

LEMMA LosingMoves ==
    ASSUME TypeOK, Losing, NamesStay, NEW p \in Procs, Moves(p), LosingAt(p)' PROVE Losing'
<1> SUFFICES ASSUME NEW q \in Procs, q # p PROVE LosingAt(q)'
    BY LosingNext
<1>1. LosingAt(q) /\ Same(q)
    BY LosingEach DEF Moves
<1> QED BY <1>1, LosingSame DEF Same

LEMMA StepLosing == IInv /\ [Next]_vars => Losing'
<1> SUFFICES ASSUME IInv, [Next]_vars PROVE Losing'
    OBVIOUS
<1>1. TypeOK /\ Held /\ Losing /\ NamesStay /\ \A p \in Procs : LosingAt(p)
    BY StepNamesStay, LosingEach DEF IInv
<1>2. ASSUME NEW p \in Procs, End(p) PROVE Losing'
    <2>1. pc'[p] = "idle" /\ tries'[p] = 0 /\ lost'[p] = {}
        BY <1>1, <1>2 DEF End, TypeOK
    <2>2. LosingAt(p)'
        BY <2>1, FS_EmptySet DEF LosingAt
    <2> QED BY <1>1, <1>2, <2>2, EndMoves, LosingMoves
<1>3. ASSUME NEW p \in Procs, \/ Fail(p) \/ Welcome(p) \/ ClaimMismatch(p)
                              \/ \E s \in States : CreateOIDCRequest(p, s)
      PROVE  Losing'
    BY <1>2, <1>3 DEF Fail, Welcome, ClaimMismatch, CreateOIDCRequest
<1>4. ASSUME NEW p \in Procs, NEW k \in Providers,
             Start(p, k) \/ \E s \in States : Callback(p, k, s)
      PROVE  Losing'
    <2>1. pc'[p] # "insert" /\ tries' = tries /\ lost' = lost
        BY <1>1, <1>4 DEF Start, Callback, Goto, TypeOK, naming
    <2> QED BY <1>1, <1>4, <2>1, BeginMoves, LosingSame, LosingMoves
<1>5. ASSUME NEW p \in Procs, Step(p), tries' = tries, lost' = lost,
             pc'[p] = "insert" => wanted'[p] \notin lost[p] \/ wanted'[p][2] = Suffixes
      PROVE  Losing'
    BY <1>1, <1>5, StepMoves, LosingSame, LosingMoves
<1>6. ASSUME NEW p \in Procs, \/ Claim(p) \/ \E sub \in Subjects : Exchange(p, sub)
                              \/ Find(p) \/ \E b \in Bases : FindNone(p, b)
                              \/ \E a \in Accounts : InsertUser(p, a)
                              \/ InsertIdentity(p) \/ IdentityConflict(p) \/ Commit(p)
      PROVE  Losing'
    <2>1. pc'[p] # "insert"
        BY <1>1, <1>6 DEF Claim, Exchange, Find, FindNone, InsertUser, InsertIdentity,
                          IdentityConflict, Commit, Goto, TypeOK
    <2>2. tries' = tries /\ lost' = lost
        BY <1>6 DEF Claim, Exchange, Find, FindNone, InsertUser, InsertIdentity,
                    IdentityConflict, Commit, naming
    <2> QED BY <1>5, <1>6, <2>1, <2>2 DEF Step
\* A name that is free was not lost; one that is taken is the last of its base.
<1>7. ASSUME NEW p \in Procs, SearchFree(p) PROVE Losing'
    <2>1. wanted' = wanted /\ tries' = tries /\ lost' = lost
        BY <1>7 DEF SearchFree, naming
    <2>2. wanted[p] \notin lost[p]
        BY <1>1, <1>7 DEF SearchFree, LosingAt
    <2> QED BY <1>5, <1>7, <2>1, <2>2 DEF Step
<1>8. ASSUME NEW p \in Procs, SearchTaken(p) PROVE Losing'
    <2>1. tries' = tries /\ lost' = lost
        BY <1>8 DEF SearchTaken
    <2>2. wanted[p][2] \in 1..Suffixes
        BY <1>1, <1>8, AtWork DEF SearchTaken, Names
    <2>3. pc'[p] = "insert" => wanted'[p][2] = Suffixes
        BY <1>1, <1>8, <2>2, OidcAssumption DEF SearchTaken, TypeOK
    <2> QED BY <1>5, <1>8, <2>1, <2>3 DEF Step
<1>9. ASSUME NEW p \in Procs, NameConflict(p) PROVE Losing'
    <2> DEFINE w == wanted[p]
    <2>1. /\ pc[p] = "insert" /\ pc'[p] = "search" /\ NameTaken(w)
          /\ tries'[p] = tries[p] + 1 /\ lost'[p] = lost[p] \cup {w} /\ name' = name
        BY <1>1, <1>9 DEF NameConflict, LoseName, Goto, TypeOK, rows
    <2>2. IsFiniteSet(lost[p]) /\ (w \notin lost[p] \/ w[2] = Suffixes)
        BY <1>1, <2>1 DEF LosingAt
    <2>3. /\ IsFiniteSet(lost'[p])
          /\ w \notin lost[p] => Cardinality(lost'[p]) = Cardinality(lost[p]) + 1
        BY <2>1, <2>2, FS_AddElement
    <2>4. \A n \in lost'[p] : NameTaken(n)'
        BY <1>1, <2>1 DEF LosingAt, NameTaken
    <2>5. ASSUME \A n \in lost'[p] : n[2] < Suffixes PROVE tries'[p] = Cardinality(lost'[p])
        <3>1. w[2] < Suffixes /\ \A n \in lost[p] : n[2] < Suffixes
            BY <2>1, <2>5
        <3>2. w \notin lost[p]
            BY <2>2, <3>1, OidcAssumption
        <3> QED BY <1>1, <2>1, <2>3, <3>1, <3>2 DEF LosingAt
    <2>6. LosingAt(p)'
        BY <2>1, <2>3, <2>4, <2>5 DEF LosingAt
    <2> QED BY <1>1, <1>9, <2>6, StepMoves, LosingMoves DEF Step
<1>10. ASSUME UNCHANGED <<pc, naming>> PROVE Losing'
    BY <1>1, <1>10, LosingSame, LosingNext DEF naming
<1>11. CASE \/ \E k \in Providers : UpdateProvider(k) \/ DeleteProvider(k)
            \/ \E a \in Accounts, n \in Names : CreateUser(a, n)
            \/ \E s \in States : Expire(s)
            \/ UNCHANGED vars
    BY <1>10, <1>11 DEF UpdateProvider, DeleteProvider, CreateUser, Expire, Others, vars
<1> QED BY <1>3, <1>4, <1>6, <1>7, <1>8, <1>9, <1>11 DEF Next, Step

-----------------------------------------------------------------------------
(* Theorems                                                                *)

\* IInv holds initially and every step of OidcSignIn keeps it.
THEOREM Inductive == Spec => []IInv
<1>1. IInv /\ [Next]_vars => IInv'
    BY StepType, StepHeld, StepApart, StepBindings, StepRedeemed, StepLosing DEF IInv
<1> QED BY InitIInv, <1>1, PTL DEF Spec

\* Every variable has its type; tries stays below Attempts, so that the loop of
\* provisionUser ends.
THEOREM TypeCorrect == Spec => []TypeOK
<1>1. IInv => TypeOK
    BY DEF IInv
<1> QED BY Inductive, <1>1, PTL

\* However callbacks, administrators and failures interleave, an identity leads to
\* one account and an account to one identity, and a callback is let in as the
\* account its identity was bound to.
THEOREM OneAccountForEach == Spec => []OneAccountEach
<1>1. IInv => OneAccountEach
    BY DEF IInv, Bindings
<1> QED BY Inductive, <1>1, PTL

\* A binding in the table refers to an account and a provider that exist, and
\* stays there for as long as the provider does.
THEOREM BindingsHold == Spec => []NothingDangles
<1>1. IInv => NothingDangles
    BY DEF IInv, Bindings
<1> QED BY Inductive, <1>1, PTL

\* At most one callback exchanges a code for an authorization request.
THEOREM RequestsRedeemedOnce == Spec => []RedeemedOnce
<1>1. IInv => RedeemedOnce
    BY DEF IInv, Redeemed
<1> QED BY Inductive, <1>1, PTL

\* provisionUser tries a name it has not lost before, until names run out.
THEOREM NamesMoveOn == Spec => []AnotherNameEachTry
<1>1. IInv => AnotherNameEachTry
    BY DEF IInv, Losing
<1> QED BY Inductive, <1>1, PTL
=============================================================================
