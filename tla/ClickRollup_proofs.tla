-------------------------- MODULE ClickRollup_proofs --------------------------
(***************************************************************************)
(* Proofs about ClickRollup: type correctness, the tally of the daily      *)
(* rows, and that transactions implement the one-step ledger.              *)
(***************************************************************************)
EXTENDS ClickRollup, FiniteSetTheorems, TLAPS

\* Every set of visits that is counted is finite.
LEMMA FiniteOf == ASSUME NEW S \in SUBSET Events PROVE IsFiniteSet(S)
BY FS_Subset, ClickAssumption

\* The cardinality of a disjoint union.
LEMMA DisjointCardinality ==
    ASSUME NEW A, NEW B, IsFiniteSet(A), IsFiniteSet(B), A \cap B = {}
    PROVE  Cardinality(A \cup B) = Cardinality(A) + Cardinality(B)
<1>1. Cardinality(A \cup B) = Cardinality(A) + Cardinality(B) - Cardinality(A \cap B)
    BY FS_Union
<1>2. Cardinality(A \cap B) = 0
    BY FS_EmptySet
<1>3. Cardinality(A) \in Nat /\ Cardinality(B) \in Nat
    BY FS_CardinalityType
<1> QED BY <1>1, <1>2, <1>3

\* Inserting an unprocessed visit leaves the tally alone (RecordClick).
LEMMA InsertKeepsTally ==
    ASSUME TypeOK, Tally, NEW e \in Events, Insert(e)
    PROVE  Tally'
<1> SUFFICES ASSUME NEW k \in Keys
             PROVE  LET counted == {f \in Events : state[f] = "done" /\ KeyOf(f) = k}'
                    IN  /\ clicks'[k] = Cardinality(counted)
                        /\ bots'[k] = Cardinality(counted \cap Bots)
    BY DEF Tally, KeyOf
<1>1. {f \in Events : state[f] = "done" /\ KeyOf(f) = k}'
        = {f \in Events : state[f] = "done" /\ KeyOf(f) = k}
    BY DEF Insert, TypeOK, KeyOf
<1> QED BY <1>1 DEF Tally, Insert

\* Counting pending visits and marking them together keeps the tally: the
\* visits marked are exactly those added (AggregateClicks).
LEMMA RollUpKeepsTally ==
    ASSUME TypeOK, Tally, NEW S \in SUBSET Pending, RollUp(S)
    PROVE  Tally'
<1> DEFINE Done(k) == {e \in Events : state[e] = "done" /\ KeyOf(e) = k}
<1> SUFFICES ASSUME NEW k \in Keys
             PROVE  /\ clicks'[k] = Cardinality(Done(k)')
                    /\ bots'[k] = Cardinality(Done(k)' \cap Bots)
    BY DEF Tally, KeyOf
<1>1. Done(k)' = Done(k) \cup Of(S, k)
    BY DEF RollUp, Of, Pending, TypeOK, KeyOf
<1>2. Done(k) \cap Of(S, k) = {}
    BY DEF Of, Pending
<1>3. Of(S, k) \cap Bots = Of(S \cap Bots, k)
    BY DEF Of
<1>4. IsFiniteSet(Done(k)) /\ IsFiniteSet(Of(S, k))
    BY FiniteOf DEF Of, Pending
<1>5. Cardinality(Done(k)') = Cardinality(Done(k)) + Cardinality(Of(S, k))
    BY <1>1, <1>2, <1>4, DisjointCardinality
<1>6. Cardinality(Done(k)' \cap Bots)
        = Cardinality(Done(k) \cap Bots) + Cardinality(Of(S \cap Bots, k))
    <2>1. IsFiniteSet(Done(k) \cap Bots) /\ IsFiniteSet(Of(S \cap Bots, k))
        BY <1>4, <1>3, FS_Intersection, FS_Subset
    <2>2. Done(k)' \cap Bots = (Done(k) \cap Bots) \cup Of(S \cap Bots, k)
        BY <1>1, <1>3
    <2>3. (Done(k) \cap Bots) \cap Of(S \cap Bots, k) = {}
        BY <1>2, <1>3
    <2> QED BY <2>1, <2>2, <2>3, DisjointCardinality
<1>7. /\ clicks'[k] = clicks[k] + Cardinality(Of(S, k))
      /\ bots'[k] = bots[k] + Cardinality(Of(S \cap Bots, k))
    BY DEF RollUp
<1>8. clicks[k] = Cardinality(Done(k)) /\ bots[k] = Cardinality(Done(k) \cap Bots)
    BY DEF Tally
<1> QED BY <1>5, <1>6, <1>7, <1>8

\* Removing links with their visits and daily rows keeps the tally
\* (PruneExpiredLinks and its cascades).
LEMMA RemoveKeepsTally ==
    ASSUME TypeOK, Tally, NEW D \in SUBSET Links, Remove(D)
    PROVE  Tally'
<1> DEFINE Done(k) == {e \in Events : state[e] = "done" /\ KeyOf(e) = k}
<1> SUFFICES ASSUME NEW k \in Keys
             PROVE  /\ clicks'[k] = Cardinality(Done(k)')
                    /\ bots'[k] = Cardinality(Done(k)' \cap Bots)
    BY DEF Tally, KeyOf
<1>1. CASE k[1] \in D
    <2>1. Done(k)' = {}
        BY <1>1 DEF Remove, KeyOf, TypeOK
    <2>2. clicks'[k] = 0 /\ bots'[k] = 0
        BY <1>1 DEF Remove
    <2> QED BY <2>1, <2>2, FS_EmptySet
<1>2. CASE k[1] \notin D
    <2>1. Done(k)' = Done(k)
        BY <1>2 DEF Remove, KeyOf, TypeOK
    <2>2. clicks'[k] = clicks[k] /\ bots'[k] = bots[k]
        BY <1>2 DEF Remove
    <2> QED BY <2>1, <2>2 DEF Tally
<1> QED BY <1>1, <1>2

\* A step that leaves the tables alone leaves the tally alone.
LEMMA UnchangedKeepsTally == ASSUME Tally, UNCHANGED tables PROVE Tally'
BY DEF Tally, tables, KeyOf

-----------------------------------------------------------------------------
(* The invariant                                                           *)

\* What cardinalities add to the daily rows are natural numbers.
LEMMA RollUpType ==
    ASSUME TypeOK, NEW S \in SUBSET Events, RollUp(S)
    PROVE  clicks' \in [Keys -> Nat] /\ bots' \in [Keys -> Nat]
<1>1. \A k \in Keys : Cardinality(Of(S, k)) \in Nat /\ Cardinality(Of(S \cap Bots, k)) \in Nat
    BY FiniteOf, FS_CardinalityType DEF Of
<1>2. \A k \in Keys : clicks[k] \in Nat /\ bots[k] \in Nat
    BY DEF TypeOK
<1>3. \A k \in Keys : /\ clicks[k] + Cardinality(Of(S, k)) \in Nat
                      /\ bots[k] + Cardinality(Of(S \cap Bots, k)) \in Nat
    BY <1>1, <1>2
<1> QED BY <1>3 DEF RollUp

\* All of it holds in the empty tables.
LEMMA InitIInv == ASSUME Init PROVE IInv
<1>1. TypeOK
    BY RollupAssumption DEF Init, InitTables, TypeOK, Stages
<1>2. Tally
    <2>1. \A k \in Keys : {e \in Events : state[e] = "done" /\ KeyOf(e) = k} = {}
        BY DEF Init, InitTables
    <2> QED BY <2>1, FS_EmptySet DEF Init, InitTables, Tally
<1>3. BatchesDisjoint /\ BatchStands /\ RowsStand
    BY DEF Init, InitTables, BatchesDisjoint, BatchStands, RowsStand, Pending
<1> QED BY <1>1, <1>2, <1>3 DEF IInv

\* A visit that is inserted is in nobody's batch (RecordClick).
LEMMA RecordClickKeepsIInv ==
    ASSUME IInv, NEW e \in Events, RecordClick(e)
    PROVE  IInv'
<1> USE DEF IInv
<1>1. TypeOK'
    BY DEF TypeOK, RecordClick, Insert, rollup, prune
<1>2. Tally'
    BY InsertKeepsTally DEF RecordClick
<1>3. BatchesDisjoint' /\ BatchStands'
    BY DEF TypeOK, RecordClick, Insert, rollup, prune, BatchesDisjoint, BatchStands
<1>4. RowsStand'
    BY DEF TypeOK, RecordClick, Insert, rollup, prune, RowsStand, Pending
<1> QED BY <1>1, <1>2, <1>3, <1>4

\* A rollup locks only visits that nobody has locked (SKIP LOCKED).
LEMMA SelectKeepsIInv ==
    ASSUME IInv, NEW w \in Workers, SelectPending(w)
    PROVE  IInv'
<1> USE DEF IInv
<1>1. batch'[w] \subseteq {e \in Pending : ~Locked(e)}
    BY DEF SelectPending, Oldest, TypeOK
<1>2. \A v \in Workers \ {w} : batch'[v] = batch[v]
    BY DEF SelectPending, TypeOK
<1>3. batch' \in [Workers -> SUBSET Events] /\ pc' \in [Workers -> Stages]
    BY <1>1 DEF SelectPending, Oldest, TypeOK, Pending, Stages
<1>4. TypeOK'
    BY <1>3 DEF TypeOK, SelectPending, tables, prune
<1>5. Tally'
    BY UnchangedKeepsTally DEF SelectPending
<1>6. BatchesDisjoint'
    BY <1>1, <1>2 DEF BatchesDisjoint, Locked
<1>7. BatchStands'
    BY <1>1, <1>2 DEF BatchStands, Locked, SelectPending, tables, prune, Pending, RowsStand
<1>8. RowsStand'
    BY DEF RowsStand, SelectPending, tables, prune, Pending
<1> QED BY <1>4, <1>5, <1>6, <1>7, <1>8

\* Upserting and marking change only what the transaction holds.
LEMMA StatementKeepsIInv ==
    ASSUME IInv, NEW w \in Workers,
           (\E k \in Keys : NextKey(w, k)) \/ Upsert(w) \/ MarkProcessed(w)
    PROVE  IInv'
<1> USE DEF IInv
<1>1. UNCHANGED <<tables, batch, prune>>
    BY DEF NextKey, Upsert, MarkProcessed
<1>2. TypeOK'
    <2>1. CASE \E k \in Keys : NextKey(w, k)
        BY <2>1 DEF NextKey, TypeOK, tables, prune
    <2>2. CASE Upsert(w)
        BY <2>2 DEF Upsert, Leave, TypeOK, tables, prune
    <2>3. CASE MarkProcessed(w)
        BY <2>3 DEF MarkProcessed, TypeOK, Stages, tables, prune
    <2> QED BY <2>1, <2>2, <2>3
<1>3. Tally'
    BY <1>1, UnchangedKeepsTally
<1>4. BatchesDisjoint' /\ BatchStands' /\ RowsStand'
    BY <1>1 DEF BatchesDisjoint, BatchStands, RowsStand, tables, prune, Pending
<1> QED BY <1>2, <1>3, <1>4

\* The end of a rollup gives its visits back and leaves every other batch.
LEMMA EndRollupType ==
    ASSUME TypeOK, NEW w \in Workers, EndRollup(w)
    PROVE  /\ pc' \in [Workers -> Stages]
           /\ batch' = [batch EXCEPT ![w] = {}]
           /\ batch' \in [Workers -> SUBSET Events]
           /\ added' \in [Workers -> SUBSET Keys]
           /\ want' \in [Workers -> Keys \cup {None}]
           /\ ahead' \in [Workers -> SUBSET Workers]
           /\ UNCHANGED prune
BY DEF TypeOK, EndRollup, Leave, Stages

\* A commit counts pending visits that no other rollup has (AggregateClicks).
LEMMA CommitKeepsIInv ==
    ASSUME IInv, NEW w \in Workers, Commit(w)
    PROVE  IInv'
<1> USE DEF IInv
<1>1. batch[w] \in SUBSET Pending /\ RollUp(batch[w]) /\ EndRollup(w)
    BY DEF Commit, BatchStands, Pending, TypeOK
<1>2. state' = [e \in Events |-> IF e \in batch[w] THEN "done" ELSE state[e]] /\ exists' = exists
    BY <1>1 DEF RollUp
<1>3. TypeOK'
    BY <1>1, <1>2, RollUpType, EndRollupType DEF TypeOK, Commit, prune, Pending
<1>4. Tally'
    BY <1>1, RollUpKeepsTally
<1>5. BatchesDisjoint'
    BY <1>1, EndRollupType DEF BatchesDisjoint, TypeOK
<1>6. BatchStands'
    BY <1>1, <1>2, EndRollupType DEF BatchStands, BatchesDisjoint, TypeOK, prune
<1>7. RowsStand'
    BY <1>1, <1>2, EndRollupType DEF RowsStand, Pending, TypeOK, prune
<1> QED BY <1>3, <1>4, <1>5, <1>6, <1>7

\* A rollback changes no table.
LEMMA RollbackKeepsIInv ==
    ASSUME IInv, NEW w \in Workers, Rollback(w), faults' \in 0..MaxFaults
    PROVE  IInv'
<1> USE DEF IInv
<1>1. EndRollup(w) /\ UNCHANGED tables
    BY DEF Rollback
<1>2. TypeOK'
    BY <1>1, EndRollupType DEF TypeOK, tables, prune
<1>3. Tally'
    BY <1>1, UnchangedKeepsTally
<1>4. BatchesDisjoint' /\ BatchStands' /\ RowsStand'
    BY <1>1, EndRollupType
       DEF BatchesDisjoint, BatchStands, RowsStand, TypeOK, Pending, tables, prune
<1> QED BY <1>2, <1>3, <1>4

\* A prune in progress waits for the visits rollups have locked.
LEMMA PruneStepKeepsIInv ==
    ASSUME IInv,
           \/ \E D \in SUBSET exists : PruneStart(D)
           \/ \E x \in Links \cup Events : PruneAim(x)
           \/ PruneClaim \/ PruneSweep
    PROVE  IInv'
<1> USE DEF IInv
<1>1. UNCHANGED <<tables, rollup, faults>>
    BY DEF PruneStart, PruneAim, PruneClaim, PruneSweep
<1>2. doomed' \subseteq exists
    BY DEF PruneStart, PruneAim, PruneClaim, PruneSweep, RowsStand
<1>3. TypeOK'
    <2>1. CASE \E D \in SUBSET exists : PruneStart(D)
        BY <2>1, RollupAssumption DEF PruneStart, TypeOK, tables, rollup
    <2>2. CASE \E x \in Links \cup Events : PruneAim(x)
        BY <2>2, RollupAssumption DEF PruneAim, Unswept, Pending, TypeOK, tables, rollup
    <2>3. CASE PruneClaim
        BY <2>3, RollupAssumption DEF PruneClaim, TypeOK, tables, rollup
    <2>4. CASE PruneSweep
        BY <2>4 DEF PruneSweep, TypeOK, tables, rollup
    <2> QED BY <2>1, <2>2, <2>3, <2>4
<1>4. Tally'
    BY <1>1, UnchangedKeepsTally
<1>5. BatchStands'
    <2>1. CASE PruneSweep
        <3>1. \A w \in Workers : aim \notin batch[w]
            BY <2>1, RollupAssumption DEF PruneSweep, PruneBlockers
        <3> QED BY <2>1, <3>1, <1>1 DEF PruneSweep, BatchStands, tables, rollup
    <2>2. CASE swept' = swept
        BY <2>2, <1>1 DEF BatchStands, tables, rollup
    <2> QED BY <2>1, <2>2 DEF PruneStart, PruneAim, PruneClaim
<1>6. BatchesDisjoint' /\ RowsStand'
    BY <1>1, <1>2 DEF BatchesDisjoint, RowsStand, tables, rollup, Pending
<1> QED BY <1>3, <1>4, <1>5, <1>6

\* When a prune commits, every visit it removes has been swept, so no rollup
\* has it (ON DELETE CASCADE under row locks).
LEMMA PruneCommitKeepsIInv ==
    ASSUME IInv, PruneCommit
    PROVE  IInv'
<1> USE DEF IInv
<1>1. Remove(doomed) /\ EndPrune /\ doomed \in SUBSET Links
    BY DEF PruneCommit, TypeOK
<1>2. \A w \in Workers : \A e \in batch[w] : LinkOf[e] \notin doomed
    BY DEF PruneCommit, Unswept, BatchStands, Pending, TypeOK
<1>3. TypeOK'
    BY <1>1 DEF PruneCommit, Remove, EndPrune, TypeOK, rollup
<1>4. Tally'
    BY <1>1, RemoveKeepsTally
<1>5. BatchesDisjoint'
    BY <1>1 DEF EndPrune, rollup, BatchesDisjoint
<1>6. BatchStands'
    BY <1>1, <1>2, ClickAssumption DEF Remove, EndPrune, rollup, BatchStands, TypeOK
<1>7. RowsStand'
    BY <1>1, ClickAssumption DEF Remove, EndPrune, RowsStand, Pending, TypeOK
<1> QED BY <1>3, <1>4, <1>5, <1>6, <1>7

\* An aborted prune changes no table.
LEMMA PruneRollbackKeepsIInv ==
    ASSUME IInv, PruneRollback, faults' \in 0..MaxFaults
    PROVE  IInv'
<1> USE DEF IInv
<1>1. EndPrune /\ UNCHANGED tables
    BY DEF PruneRollback
<1>2. Tally'
    BY <1>1, UnchangedKeepsTally
<1> QED BY <1>1, <1>2 DEF EndPrune, TypeOK, BatchesDisjoint, BatchStands, RowsStand,
        Pending, tables, rollup

\* Every step preserves the invariant.
LEMMA NextIInv == ASSUME IInv, [Next]_vars PROVE IInv'
<1>1. CASE \E e \in Events : RecordClick(e)
    BY <1>1, RecordClickKeepsIInv
<1>2. CASE \E w \in Workers : Advance(w) \/ Upsert(w)
    BY <1>2, SelectKeepsIInv, StatementKeepsIInv, CommitKeepsIInv DEF Advance
<1>3. CASE \/ \E D \in SUBSET exists : PruneStart(D)
           \/ PruneAdvance \/ PruneClaim \/ PruneSweep
    BY <1>3, PruneStepKeepsIInv, PruneCommitKeepsIInv DEF PruneAdvance
<1>4. CASE AbortVictim \/ Fault
    <2>1. faults' \in 0..MaxFaults
        BY <1>4, RollupAssumption DEF AbortVictim, Fault, IInv, TypeOK
    <2> QED BY <1>4, <2>1, RollbackKeepsIInv, PruneRollbackKeepsIInv DEF AbortVictim, Fault
<1>5. CASE UNCHANGED vars
    BY <1>5, UnchangedKeepsTally
       DEF IInv, vars, tables, TypeOK, BatchesDisjoint, BatchStands, RowsStand, Pending
<1> QED BY <1>1, <1>2, <1>3, <1>4, <1>5 DEF Next

\* The invariant holds throughout.
LEMMA Invariance == Spec => []IInv
BY InitIInv, NextIInv, PTL DEF Spec

-----------------------------------------------------------------------------
(* Theorems                                                                *)

\* The variables keep their types, whatever is recorded, rolled up or pruned.
THEOREM TypeCorrect == Spec => []TypeOK
<1>1. IInv => TypeOK
    BY DEF IInv
<1> QED BY <1>1, Invariance, PTL

\* A daily row always equals the number of its processed visits, and its bot
\* count the number made by bots: nothing is counted twice or lost, whatever
\* rollups, prunes, deadlocks and crashes do to each other.
THEOREM TallyCorrect == Spec => []Tally
<1>1. IInv => Tally
    BY DEF IInv
<1> QED BY <1>1, Invariance, PTL

\* A step of the transactions is a step of the ledger or none.
LEMMA StepsImplementLedger ==
    ASSUME IInv, [Next]_vars PROVE [Ledger!Next]_(Ledger!tables)
<1>1. CASE \E e \in Events : RecordClick(e)
    <2>1. \E e \in Events : Ledger!Insert(e)
        BY <1>1 DEF RecordClick, Insert, Ledger!Insert
    <2> QED BY <2>1 DEF Ledger!Next
<1>2. CASE \E w \in Workers : Commit(w)
    <2>1. PICK w \in Workers : Commit(w)
        BY <1>2
    <2>2. batch[w] \in SUBSET Ledger!Pending
        BY DEF IInv, BatchStands, TypeOK, Ledger!Pending
    <2>3. Ledger!RollUp(batch[w])
        <3>1. \A S, k : Of(S, k) = Ledger!Of(S, k)
            BY DEF Of, Ledger!Of, KeyOf, Ledger!KeyOf
        <3>2. Keys = Ledger!Keys
            BY DEF Keys, Ledger!Keys
        <3>3. \A S : Cardinality(S) = Ledger!Cardinality(S)
            BY DEF Cardinality, Ledger!Cardinality, IsFiniteSet, Ledger!IsFiniteSet
        <3> QED BY <2>1, <3>1, <3>2, <3>3 DEF Commit, RollUp, Ledger!RollUp
    <2> QED BY <2>2, <2>3 DEF Ledger!Next
<1>3. CASE PruneCommit
    <2>1. doomed \in SUBSET exists /\ Ledger!Remove(doomed)
        BY <1>3 DEF PruneCommit, IInv, RowsStand, Remove, Ledger!Remove, Keys, Ledger!Keys
    <2> QED BY <2>1 DEF Ledger!Next
<1>4. CASE UNCHANGED tables
    BY <1>4 DEF tables, Ledger!tables
<1>5. \/ \E e \in Events : RecordClick(e)
      \/ \E w \in Workers : Commit(w)
      \/ PruneCommit
      \/ UNCHANGED tables
    BY DEF Next, Advance, SelectPending, NextKey, Upsert, MarkProcessed, PruneStart,
       PruneAdvance, PruneAim, PruneClaim, PruneSweep, AbortVictim, Fault, Rollback,
       PruneRollback, vars, tables
<1> QED BY <1>1, <1>2, <1>3, <1>4, <1>5

\* Concurrent rollups and prunes do what counting a batch and removing links
\* in one step each would do.
THEOREM RollupImplementsLedger == Spec => ImplementsLedger
<1>1. Init => Ledger!InitTables
    BY DEF Init, InitTables, Ledger!InitTables, Keys, Ledger!Keys
<1> QED BY <1>1, Invariance, StepsImplementLedger, PTL
    DEF Spec, ImplementsLedger, Ledger!Spec
=============================================================================
