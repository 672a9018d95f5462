----------------------- MODULE RuntimeSettings_proofs -----------------------
(***************************************************************************)
(* Proofs about RuntimeSettings: type correctness, one document for each   *)
(* revision wherever it is held, snapshots that never go back, saves that  *)
(* are in force when they are answered, and patches that keep the fields   *)
(* they do not name.                                                       *)
(***************************************************************************)
EXTENDS RuntimeSettings, TLAPS

LEMMA HomeOf == \A t \in Tasks : In(t) \in Procs
BY RuntimeAssumption DEF Tasks, In

LEMMA SameSnapshot ==
    ASSUME NEW s \in Snapshot, NEW t \in Snapshot, s.rev = t.rev, s.doc = t.doc
    PROVE  s = t
BY DEF Snapshot

\* A row without NULL reads as it is.
LEMMA ScanFaithful ==
    ASSUME row \in Row, \A f \in Fields : row.doc[f] # Null
    PROVE  Scan \in Snapshot /\ Scan.rev = row.rev /\ Scan.doc = row.doc
<1>1. row.doc \in [Fields -> Values \cup {Null}] /\ row.rev \in 1..MaxRevision
    BY DEF Row
<1>2. [f \in Fields |-> IF row.doc[f] = Null THEN Off ELSE row.doc[f]] = row.doc
    BY <1>1
<1>3. row.doc \in Doc
    BY <1>1 DEF Doc
<1> QED BY <1>1, <1>2, <1>3 DEF Scan, Snapshot

LEMMA ApplyType ==
    ASSUME NEW c \in Changed, NEW d \in Doc
    PROVE  Apply(c, d) \in Doc
<1>1. PICK D \in SUBSET Fields : c \in [D -> Values]
    BY RuntimeAssumption DEF Changes
<1> QED BY <1>1 DEF Apply, Doc

\* Where a process is up, the row exists and has no NULL.
LEMMA RowWhole ==
    ASSUME TypeOK, Booted, Stored, NEW p \in Procs, boot[p] \in {"adopted", "up"}
    PROVE  /\ row # None /\ row \in Row
           /\ Scan \in Snapshot /\ Scan.rev = row.rev /\ Scan.doc = row.doc
<1>1. row # None /\ row \in Row
    BY DEF TypeOK, Booted
<1>2. \A f \in Fields : row.doc[f] # Null
    BY <1>1 DEF Booted, Stored
<1> QED BY <1>1, <1>2, ScanFaithful

LEMMA CopiesType == ASSUME TypeOK PROVE Copies \subseteq Snapshot \cup {None}
BY DEF TypeOK, Copies

-----------------------------------------------------------------------------
\* Whatever a goroutine is doing, its process is up and it holds settings.
LEMMA AtWork ==
    ASSUME TypeOK, Booted, Stored, Working, NEW t \in Tasks, pc[t] # "idle"
    PROVE  /\ In(t) \in Procs /\ boot[In(t)] = "up"
           /\ got[t] \in Snapshot /\ snap[In(t)] \in Snapshot
           /\ row # None /\ row \in Row
           /\ Scan \in Snapshot /\ Scan.rev = row.rev /\ Scan.doc = row.doc
<1>1. In(t) \in Procs /\ boot[In(t)] = "up"
    BY HomeOf DEF Working
<1>2. got[t] \in Snapshot /\ snap[In(t)] \in Snapshot
    BY <1>1 DEF TypeOK, Booted, Working
<1> QED BY <1>1, <1>2, RowWhole

\* A save makes a row with its settings, one revision on.
LEMMA SavedRow ==
    ASSUME row \in Row, NEW doc \in Doc, Save(doc)
    PROVE  /\ row' \in Row /\ row' \in Snapshot
           /\ row'.doc = doc /\ row'.rev = row.rev + 1
           /\ [doc |-> doc, rev |-> row.rev + 1] = row'
           /\ \A f \in Fields : row'.doc[f] # Null
<1>1. row.rev \in 1..MaxRevision /\ row.rev + 1 \in 1..MaxRevision
    BY RuntimeAssumption DEF Row, Save
<1>2. row' = [doc |-> doc, rev |-> row.rev + 1]
    BY DEF Save
<1>3. doc \in [Fields -> Values] /\ doc \in [Fields -> Values \cup {Null}]
    BY DEF Doc
<1>4. row' \in Row /\ row' \in Snapshot
    BY <1>1, <1>2, <1>3 DEF Row, Snapshot, Doc
<1> QED BY <1>2, <1>3, <1>4, RuntimeAssumption

\* The document a patch writes.
LEMMA PatchedDoc ==
    ASSUME TypeOK, NEW t \in Tasks, got[t] # None, patch[t] # None
    PROVE  Apply(patch[t].changes, got[t].doc) \in Doc
<1>1. got[t].doc \in Doc /\ patch[t].changes \in Changed
    BY DEF TypeOK, Snapshot, Patches
<1> QED BY <1>1, ApplyType

-----------------------------------------------------------------------------
\* Publish and Refuse are well-typed.
LEMMA PublishType ==
    ASSUME TypeOK, NEW t \in Tasks, NEW s \in Snapshot, NEW rest \in Patches \cup {None},
           Publish(t, s, rest)
    PROVE  /\ pc' \in [Tasks -> {"idle", "load", "swap", "check", "reread", "answered"}]
           /\ got' \in [Tasks -> Snapshot \cup {None}]
           /\ seen' \in [Tasks -> Snapshot \cup {None}]
           /\ patch' \in [Tasks -> Patches \cup {None}]
BY DEF TypeOK, Publish, Goto

LEMMA RefuseType ==
    ASSUME TypeOK, NEW t \in Tasks, Refuse(t)
    PROVE  /\ pc' \in [Tasks -> {"idle", "load", "swap", "check", "reread", "answered"}]
           /\ got' \in [Tasks -> Snapshot \cup {None}]
           /\ seen' \in [Tasks -> Snapshot \cup {None}]
           /\ patch' \in [Tasks -> Patches \cup {None}]
BY DEF TypeOK, Refuse, Goto

LEMMA InitIInv == Init => IInv
<1> SUFFICES ASSUME Init PROVE IInv
    OBVIOUS
<1>1. \A d \in Doc : /\ [doc |-> [d EXCEPT ![Totp] = Null], rev |-> 1] \in Row
                     /\ \A f \in Fields \ {Totp} : [d EXCEPT ![Totp] = Null][f] # Null
    BY RuntimeAssumption DEF Row, Doc
<1>2. TypeOK
    BY <1>1 DEF Init, TypeOK
<1>3. Stored
    <2>1. CASE row = None
        BY <2>1 DEF Stored
    <2>2. ASSUME NEW d \in Doc, row = [doc |-> [d EXCEPT ![Totp] = Null], rev |-> 1]
          PROVE  Stored
        <3>1. row.doc = [d EXCEPT ![Totp] = Null]
            BY <2>2
        <3> QED BY <1>1, <3>1 DEF Stored
    <2> QED BY <2>1, <2>2 DEF Init
<1>4. Booted /\ Working
    BY HomeOf DEF Init, Booted, Working
<1>5. Copies \subseteq {None}
    BY DEF Init, Copies
<1>6. OneDocumentPerRevision
    BY <1>5 DEF OneDocumentPerRevision
<1> QED BY <1>2, <1>3, <1>4, <1>6 DEF IInv

\* Type correctness is preserved.
LEMMA StepType == IInv /\ [Next]_vars => TypeOK'
<1> SUFFICES ASSUME IInv, [Next]_vars PROVE TypeOK'
    OBVIOUS
<1> USE DEF IInv
<1>1. ASSUME NEW p \in Procs, Ensure(p) PROVE TypeOK'
    <2>1. [doc |-> Env[p], rev |-> 1] \in Row
        BY RuntimeAssumption DEF Row, Doc
    <2> QED BY <1>1, <2>1 DEF Ensure, local, TypeOK
<1>2. ASSUME NEW p \in Procs, Adopt(p) PROVE TypeOK'
    <2>1. row \in Row
        BY <1>2 DEF Adopt, Booted, TypeOK
    <2>2. [doc |-> [row.doc EXCEPT ![Totp] = Env[p][Totp]], rev |-> row.rev] \in Row
        BY <2>1, RuntimeAssumption DEF Row, Doc
    <2>3. row' \in Row
        BY <1>2, <2>1, <2>2 DEF Adopt
    <2> QED BY <1>2, <2>3 DEF Adopt, local, TypeOK
<1>3. ASSUME NEW p \in Procs, FirstRefresh(p) PROVE TypeOK'
    <2>1. Scan \in Snapshot
        BY <1>3, RowWhole DEF FirstRefresh
    <2> QED BY <1>3, <2>1 DEF FirstRefresh, local, TypeOK
<1>4. ASSUME NEW p \in Procs, Crash(p) PROVE TypeOK'
    BY <1>4 DEF Crash, TypeOK
<1>5. ASSUME NEW p \in Procs, Refresh(p) PROVE TypeOK'
    <2>1. p \in Tasks /\ Scan \in Snapshot
        BY <1>5, RowWhole, HomeOf DEF Refresh, Idle, Tasks
    <2> QED BY <1>5, <2>1, PublishType DEF Refresh, TypeOK
<1>6. ASSUME NEW t \in Tasks, Load(t) PROVE TypeOK'
    BY <1>6, HomeOf DEF Load, Published, Goto, TypeOK
<1>7. ASSUME NEW t \in Tasks, Swap(t) PROVE TypeOK'
    BY <1>7, HomeOf DEF Swap, Published, Goto, TypeOK
<1>8. ASSUME NEW t \in Tasks, NEW doc \in Doc, Put(t, doc) PROVE TypeOK'
    <2>1. row \in Row
        BY <1>8, RowWhole, HomeOf DEF Put, Idle
    <2>2. row' \in Row /\ [doc |-> doc, rev |-> row.rev + 1] \in Snapshot
        BY <1>8, <2>1, SavedRow DEF Put
    <2>3. CASE Publish(t, [doc |-> doc, rev |-> row.rev + 1], None)
        BY <1>8, <2>2, <2>3, PublishType DEF Put, TypeOK
    <2>4. CASE UNCHANGED local
        BY <1>8, <2>2, <2>4 DEF Put, TypeOK, local
    <2> QED BY <1>8, <2>3, <2>4 DEF Put
<1>9. ASSUME NEW t \in Tasks, NEW r \in Patches, PatchRead(t, r) PROVE TypeOK'
    <2>1. Scan \in Snapshot
        BY <1>9, RowWhole, HomeOf DEF PatchRead, Idle
    <2> QED BY <1>9, <2>1, PublishType DEF PatchRead, TypeOK
<1>10. ASSUME NEW t \in Tasks, PatchStale(t) \/ PatchError(t) \/ Done(t) PROVE TypeOK'
    BY <1>10, RefuseType DEF PatchStale, PatchError, Done, TypeOK
<1>11. ASSUME NEW t \in Tasks, PatchWrite(t) PROVE TypeOK'
    <2> DEFINE doc == Apply(patch[t].changes, got[t].doc)
    <2>1. doc \in Doc /\ row \in Row
        BY <1>11, PatchedDoc, AtWork DEF PatchWrite, Working
    <2>2. row' \in Row /\ [doc |-> doc, rev |-> row.rev + 1] \in Snapshot
        BY <1>11, <2>1, SavedRow DEF PatchWrite
    <2>3. UNCHANGED <<boot, snap>>
        BY <1>11 DEF PatchWrite
    <2>4. CASE Publish(t, [doc |-> doc, rev |-> row.rev + 1], None)
        BY <2>2, <2>3, <2>4, PublishType DEF TypeOK
    <2>5. CASE Refuse(t)
        BY <2>2, <2>3, <2>5, RefuseType DEF TypeOK
    <2> QED BY <1>11, <2>4, <2>5 DEF PatchWrite
<1>12. ASSUME NEW t \in Tasks, PatchConflict(t) PROVE TypeOK'
    BY <1>12 DEF PatchConflict, Goto, TypeOK
<1>13. ASSUME NEW t \in Tasks, PatchReread(t) PROVE TypeOK'
    <2>1. Scan \in Snapshot
        BY <1>13, AtWork DEF PatchReread
    <2> QED BY <1>13, <2>1, PublishType DEF PatchReread, TypeOK
<1>14. CASE UNCHANGED vars
    BY <1>14 DEF vars, TypeOK
<1> QED BY <1>1, <1>2, <1>3, <1>4, <1>5, <1>6, <1>7, <1>8, <1>9, <1>10, <1>11, <1>12, <1>13,
           <1>14, RuntimeAssumption DEF Next, Advance, Tasks

\* Booted and Stored are preserved.
LEMMA StepBooted == IInv /\ [Next]_vars => Booted' /\ Stored'
<1> SUFFICES ASSUME IInv, [Next]_vars PROVE Booted' /\ Stored'
    OBVIOUS
<1> USE DEF IInv
<1>1. ASSUME NEW p \in Procs, Ensure(p) PROVE Booted' /\ Stored'
    <2>1. row = None => \A f \in Fields : row'.doc[f] # Null
        BY <1>1, RuntimeAssumption DEF Ensure, Doc
    <2>2. row' # None /\ (row # None => row' = row)
        <3>1. [doc |-> Env[p], rev |-> 1] \in Row
            BY RuntimeAssumption DEF Row, Doc
        <3> QED BY <1>1, <3>1, RuntimeAssumption DEF Ensure
    <2>3. Stored'
        BY <2>1, <2>2 DEF Stored
    <2>4. Booted'
        BY <1>1, <2>2 DEF Ensure, Booted, TypeOK
    <2> QED BY <2>3, <2>4
<1>2. ASSUME NEW p \in Procs, Adopt(p) PROVE Booted' /\ Stored'
    <2>1. row # None /\ row \in Row
        BY <1>2 DEF Adopt, Booted, TypeOK
    <2>2. row.doc[Totp] = Null =>
              row' = [doc |-> [row.doc EXCEPT ![Totp] = Env[p][Totp]], rev |-> row.rev]
        BY <1>2 DEF Adopt
    <2>3. Env[p][Totp] # Null
        BY RuntimeAssumption DEF Doc
    <2>4. \A f \in Fields : row'.doc[f] # Null
        <3>1. CASE row.doc[Totp] = Null
            <4>1. row'.doc = [row.doc EXCEPT ![Totp] = Env[p][Totp]]
                BY <2>2, <3>1
            <4> QED BY <2>1, <2>3, <4>1 DEF Row, Stored
        <3>2. CASE row.doc[Totp] # Null
            BY <1>2, <2>1, <3>2 DEF Adopt, Stored
        <3> QED BY <3>1, <3>2
    <2>5. row' # None
        BY StepType, RuntimeAssumption, <1>2, <2>1, <2>2 DEF Adopt, TypeOK, Row, Doc
    <2>6. Booted'
        BY <1>2, <2>4, <2>5, RuntimeAssumption DEF Adopt, Booted, TypeOK
    <2> QED BY <2>4, <2>6 DEF Stored
<1>3. ASSUME NEW p \in Procs, FirstRefresh(p) PROVE Booted' /\ Stored'
    <2>1. Scan # None
        BY <1>3, RowWhole, RuntimeAssumption DEF FirstRefresh
    <2> QED BY <1>3, <2>1 DEF FirstRefresh, Booted, Stored, TypeOK
<1>4. ASSUME NEW p \in Procs, Crash(p) PROVE Booted' /\ Stored'
    BY <1>4 DEF Crash, Booted, Stored, TypeOK
<1>5. ASSUME NEW t \in Tasks, Swap(t) PROVE Booted' /\ Stored'
    <2>1. In(t) \in Procs /\ boot[In(t)] = "up" /\ got[t] # None
        BY <1>5, AtWork, RuntimeAssumption DEF Swap
    <2> QED BY <1>5, <2>1 DEF Swap, Booted, Stored, TypeOK
<1>6. ASSUME NEW t \in Tasks, NEW doc \in Doc, row \in Row, Save(doc), UNCHANGED <<boot, snap>>
      PROVE  Booted' /\ Stored'
    <2>1. row' # None /\ \A f \in Fields : row'.doc[f] # Null
        BY <1>6, SavedRow, RuntimeAssumption
    <2> QED BY <1>6, <2>1, RuntimeAssumption DEF Booted, Stored
<1>7. ASSUME NEW t \in Tasks, NEW doc \in Doc, Put(t, doc) PROVE Booted' /\ Stored'
    BY <1>6, <1>7, RowWhole, HomeOf DEF Put, Idle
<1>8. ASSUME NEW t \in Tasks, PatchWrite(t) PROVE Booted' /\ Stored'
    <2> DEFINE doc == Apply(patch[t].changes, got[t].doc)
    <2>1. doc \in Doc /\ row \in Row
        BY <1>8, PatchedDoc, AtWork DEF PatchWrite, Working
    <2>2. Save(doc) /\ UNCHANGED <<boot, snap>>
        BY <1>8 DEF PatchWrite
    <2> HIDE DEF doc
    <2> QED BY <1>6, <2>1, <2>2
<1>9. CASE UNCHANGED <<row, boot, snap>>
    BY <1>9 DEF Booted, Stored
<1> QED BY <1>1, <1>2, <1>3, <1>4, <1>5, <1>7, <1>8, <1>9, RuntimeAssumption
        DEF Next, Advance, vars, Refresh, Load, PatchRead, PatchStale, PatchConflict,
            PatchReread, PatchError, Done, Tasks

\* Working is preserved by a goroutine that begins to publish, or gives up.
LEMMA PublishWorks ==
    ASSUME TypeOK, Working, NEW t \in Tasks, NEW s \in Snapshot,
           NEW rest \in Patches \cup {None},
           boot[In(t)] = "up", pc[t] # "swap", Publish(t, s, rest), UNCHANGED <<boot, snap>>
    PROVE  Working'
<1>1. pc' = [pc EXCEPT ![t] = "load"] /\ got' = [got EXCEPT ![t] = s] /\ seen' = seen
      /\ patch' = [patch EXCEPT ![t] = rest]
    BY DEF Publish, Goto
<1>2. s # None
    BY RuntimeAssumption
<1>3. seen[t] = None
    BY DEF Working
<1> QED BY <1>1, <1>2, <1>3 DEF Working, TypeOK, In

LEMMA RefuseWorks ==
    ASSUME TypeOK, Working, NEW t \in Tasks, pc[t] # "swap", Refuse(t), UNCHANGED <<boot, snap>>
    PROVE  Working'
<1>1. pc' = [pc EXCEPT ![t] = "idle"] /\ got' = [got EXCEPT ![t] = None] /\ seen' = seen
      /\ patch' = [patch EXCEPT ![t] = None]
    BY DEF Refuse, Goto
<1>2. seen[t] = None
    BY DEF Working
<1> QED BY <1>1, <1>2 DEF Working, TypeOK, In

\* Working is preserved.
LEMMA StepWorking == IInv /\ [Next]_vars => Working'
<1> SUFFICES ASSUME IInv, [Next]_vars PROVE Working'
    OBVIOUS
<1> USE DEF IInv
<1>1. ASSUME NEW p \in Procs, Ensure(p) \/ Adopt(p) PROVE Working'
    <2>1. UNCHANGED <<snap, pc, got, seen, patch>>
        BY <1>1 DEF Ensure, Adopt, local
    <2>2. \A q \in Procs : boot[q] = "up" => boot'[q] = "up"
        BY <1>1 DEF Ensure, Adopt, TypeOK
    <2> QED BY <2>1, <2>2, HomeOf DEF Working, In
<1>2. ASSUME NEW p \in Procs, FirstRefresh(p) PROVE Working'
    BY <1>2 DEF FirstRefresh, local, Working, TypeOK, In
<1>3. ASSUME NEW p \in Procs, Crash(p) PROVE Working'
    <2> SUFFICES ASSUME NEW t \in Tasks
                 PROVE  /\ pc'[t] = "idle" <=> got'[t] = None
                        /\ pc'[t] # "idle" => boot'[In(t)] = "up"
                        /\ pc'[t] = "swap" <=> seen'[t] # None
                        /\ pc'[t] = "swap" => seen'[t].rev < got'[t].rev
                        /\ pc'[t] \in {"check", "reread", "answered"} => snap'[In(t)].rev >= got'[t].rev
                        /\ pc'[t] \in {"check", "reread"} => patch'[t] # None
        BY DEF Working, In
    <2>1. CASE In(t) = p
        BY <1>3, <2>1 DEF Crash
    <2>2. CASE In(t) # p
        <3>1. pc'[t] = pc[t] /\ got'[t] = got[t] /\ seen'[t] = seen[t] /\ patch'[t] = patch[t]
            BY <1>3, <2>2 DEF Crash
        <3>2. snap'[In(t)] = snap[In(t)] /\ boot'[In(t)] = boot[In(t)]
            BY <1>3, <2>2, HomeOf DEF Crash, TypeOK
        <3> QED BY <3>1, <3>2 DEF Working
    <2> QED BY <2>1, <2>2
<1>4. ASSUME NEW p \in Procs, Refresh(p) PROVE Working'
    <2>1. p \in Tasks /\ In(p) = p /\ Scan \in Snapshot
        BY <1>4, RowWhole DEF Refresh, Idle, Tasks, In
    <2> QED BY <1>4, <2>1, PublishWorks DEF Refresh, Idle
<1>5. ASSUME NEW t \in Tasks, Load(t) PROVE Working'
    <2>1. /\ got[t] \in Snapshot /\ snap[In(t)] \in Snapshot
          /\ got[t].rev \in Int /\ snap[In(t)].rev \in Int
        BY <1>5, AtWork DEF Load, Snapshot
    <2>2. boot[In(t)] = "up" /\ seen[t] = None
        BY <1>5, AtWork DEF Load, Working
    <2>4. CASE snap[In(t)].rev >= got[t].rev
        BY <1>5, <2>1, <2>2, <2>4 DEF Load, Published, Goto, Working, TypeOK, In
    <2>5. CASE ~(snap[In(t)].rev >= got[t].rev)
        <3>1. snap[In(t)].rev < got[t].rev /\ snap[In(t)] # None
            BY <2>1, <2>5, RuntimeAssumption
        <3> QED BY <1>5, <2>1, <2>2, <2>5, <3>1 DEF Load, Goto, Working, TypeOK, In
    <2> QED BY <2>4, <2>5
<1>6. ASSUME NEW t \in Tasks, Swap(t) PROVE Working'
    <2>1. /\ In(t) \in Procs /\ boot[In(t)] = "up"
          /\ got[t] \in Snapshot /\ got[t].rev \in Int /\ got[t] # None
        BY <1>6, AtWork, RuntimeAssumption DEF Swap, Snapshot
    <2>2. CASE snap[In(t)] = seen[t]
        <3>1. snap' = [snap EXCEPT ![In(t)] = got[t]] /\ seen' = [seen EXCEPT ![t] = None]
              /\ Published(t) /\ UNCHANGED <<row, boot, patch>>
            BY <1>6, <2>2 DEF Swap
        <3>2. snap[In(t)].rev < got[t].rev /\ snap[In(t)] \in Snapshot
            BY <1>6, <2>2, AtWork DEF Swap, Working
        <3>3. \A u \in Tasks \ {t} : pc'[u] = pc[u] /\ got'[u] = got[u] /\ seen'[u] = seen[u]
            BY <3>1 DEF Published, Goto, TypeOK
        <3>4. \A u \in Tasks \ {t} : pc[u] # "idle" =>
                  snap'[In(u)].rev >= snap[In(u)].rev /\ got[u].rev \in Int /\ snap[In(u)].rev \in Int
            <4>1. ASSUME NEW u \in Tasks \ {t}, pc[u] # "idle"
                  PROVE  /\ snap'[In(u)].rev >= snap[In(u)].rev
                         /\ got[u].rev \in Int /\ snap[In(u)].rev \in Int
                <5>1. /\ In(u) \in Procs /\ got[u].rev \in Int /\ snap[In(u)].rev \in Int
                    BY <4>1, AtWork DEF Snapshot
                <5>2. snap'[In(u)] = IF In(u) = In(t) THEN got[t] ELSE snap[In(u)]
                    BY <3>1, <5>1 DEF TypeOK
                <5> QED BY <2>1, <3>2, <5>1, <5>2 DEF Snapshot
            <4> QED BY <4>1
        <3>5. snap'[In(t)] = got[t] /\ snap'[In(t)].rev >= got[t].rev
            BY <2>1, <3>1 DEF TypeOK
        <3>6. \A u \in Tasks \ {t} : snap'[In(u)].rev >= got[u].rev
                  \/ pc[u] \notin {"check", "reread", "answered"}
            <4>1. ASSUME NEW u \in Tasks \ {t}, pc[u] \in {"check", "reread", "answered"}
                  PROVE  snap'[In(u)].rev >= got[u].rev
                <5>1. snap[In(u)].rev >= got[u].rev
                    BY <4>1 DEF Working
                <5>2. snap'[In(u)].rev \in Int
                    <6>1. In(u) \in Procs /\ snap[In(u)] \in Snapshot
                        BY <4>1, AtWork
                    <6>2. snap'[In(u)] \in Snapshot
                        BY <2>1, <3>1, <6>1 DEF TypeOK
                    <6> QED BY <6>2 DEF Snapshot
                <5> QED BY <3>4, <4>1, <5>1, <5>2
            <4> QED BY <4>1
        <3>7. \A u \in Tasks \ {t} :
                  /\ pc'[u] = "idle" <=> got'[u] = None
                  /\ pc'[u] # "idle" => boot'[In(u)] = "up"
                  /\ pc'[u] = "swap" <=> seen'[u] # None
                  /\ pc'[u] = "swap" => seen'[u].rev < got'[u].rev
                  /\ pc'[u] \in {"check", "reread", "answered"} => snap'[In(u)].rev >= got'[u].rev
                  /\ pc'[u] \in {"check", "reread"} => patch'[u] # None
            BY <3>1, <3>3, <3>6 DEF Working
        <3>8. /\ pc'[t] = "idle" <=> got'[t] = None
              /\ pc'[t] # "idle" => boot'[In(t)] = "up"
              /\ pc'[t] = "swap" <=> seen'[t] # None
              /\ pc'[t] # "swap"
              /\ pc'[t] \in {"check", "reread", "answered"} => snap'[In(t)].rev >= got'[t].rev
              /\ pc'[t] \in {"check", "reread"} => patch'[t] # None
            BY <2>1, <3>1, <3>5 DEF Published, Goto, TypeOK
        <3> QED BY <3>7, <3>8 DEF Working, In
    <2>3. CASE snap[In(t)] # seen[t]
        BY <1>6, <2>1, <2>3 DEF Swap, Goto, Working, TypeOK, In
    <2> QED BY <2>2, <2>3
<1>7. ASSUME NEW t \in Tasks, NEW doc \in Doc, Put(t, doc) PROVE Working'
    <2>1. row \in Row
        BY <1>7, RowWhole, HomeOf DEF Put, Idle
    <2>2. [doc |-> doc, rev |-> row.rev + 1] \in Snapshot
        BY <1>7, <2>1, SavedRow DEF Put
    <2>3. CASE Publish(t, [doc |-> doc, rev |-> row.rev + 1], None)
        BY <1>7, <2>2, <2>3, PublishWorks DEF Put, Idle
    <2>4. CASE UNCHANGED local
        BY <1>7, <2>4 DEF Put, local, Working, In
    <2> QED BY <1>7, <2>3, <2>4 DEF Put
<1>8. ASSUME NEW t \in Tasks, NEW r \in Patches, PatchRead(t, r) PROVE Working'
    <2>1. Scan \in Snapshot
        BY <1>8, RowWhole, HomeOf DEF PatchRead, Idle
    <2> QED BY <1>8, <2>1, PublishWorks DEF PatchRead, Idle
<1>9. ASSUME NEW t \in Tasks, PatchStale(t) \/ PatchError(t) \/ Done(t) PROVE Working'
    BY <1>9, RefuseWorks DEF PatchStale, PatchError, Done
<1>10. ASSUME NEW t \in Tasks, PatchWrite(t) PROVE Working'
    <2> DEFINE doc == Apply(patch[t].changes, got[t].doc)
    <2>1. doc \in Doc /\ row \in Row /\ boot[In(t)] = "up"
        BY <1>10, PatchedDoc, AtWork DEF PatchWrite, Working
    <2>2. [doc |-> doc, rev |-> row.rev + 1] \in Snapshot
        BY <1>10, <2>1, SavedRow DEF PatchWrite
    <2>3. pc[t] # "swap" /\ UNCHANGED <<boot, snap>>
        BY <1>10 DEF PatchWrite
    <2>4. CASE Publish(t, [doc |-> doc, rev |-> row.rev + 1], None)
        BY <2>1, <2>2, <2>3, <2>4, PublishWorks
    <2>5. CASE Refuse(t)
        BY <2>3, <2>5, RefuseWorks
    <2> QED BY <1>10, <2>4, <2>5 DEF PatchWrite
<1>11. ASSUME NEW t \in Tasks, PatchConflict(t) PROVE Working'
    BY <1>11 DEF PatchConflict, Goto, Working, TypeOK, In
<1>12. ASSUME NEW t \in Tasks, PatchReread(t) PROVE Working'
    <2>1. Scan \in Snapshot /\ boot[In(t)] = "up"
        BY <1>12, AtWork DEF PatchReread
    <2> QED BY <1>12, <2>1, PublishWorks DEF PatchReread
<1>13. CASE UNCHANGED vars
    BY <1>13 DEF vars, Working, In
<1> QED BY <1>1, <1>2, <1>3, <1>4, <1>5, <1>6, <1>7, <1>8, <1>9, <1>10, <1>11, <1>12, <1>13,
           RuntimeAssumption DEF Next, Advance, Tasks

-----------------------------------------------------------------------------
\* Copies keep naming one document for each revision when the row stays and
\* the only new ones are the row as it is ...
LEMMA CopiesFollow ==
    ASSUME TypeOK, TypeOK', OneDocumentPerRevision, row' = row,
           NEW n \in Snapshot, row # None, n.rev = row.rev, n.doc = row.doc,
           Copies' \subseteq Copies \cup {None, n}
    PROVE  OneDocumentPerRevision'
<1>1. \A s \in Copies \ {None} :
          s \in Snapshot /\ s.rev <= row.rev /\ (s.rev = row.rev => s.doc = row.doc)
    BY CopiesType DEF OneDocumentPerRevision
<1>2. \A s \in Copies \ {None} : s.rev = n.rev => s = n
    BY <1>1, SameSnapshot
<1>3. \A s \in Copies' \ {None} : s \in Copies \ {None} \/ s = n
    OBVIOUS
<1>4. \A s \in Copies' \ {None} : s.rev <= row.rev /\ (s.rev = row.rev => s.doc = row.doc)
    BY <1>1, <1>3 DEF Snapshot
<1>5. \A s, t \in Copies' \ {None} : s.rev = t.rev => s = t
    BY <1>2, <1>3 DEF OneDocumentPerRevision
<1> QED BY <1>4, <1>5 DEF OneDocumentPerRevision

\* ... or when the row is saved and the only new copy is what was saved.
LEMMA CopiesSaved ==
    ASSUME TypeOK, OneDocumentPerRevision, row \in Row,
           row' \in Snapshot, row' # None, row'.rev = row.rev + 1,
           Copies' \subseteq Copies \cup {None, row'}
    PROVE  OneDocumentPerRevision'
<1>1. row.rev \in Int
    BY DEF Row
<1>2. \A s \in Copies \ {None} : s \in Snapshot /\ s.rev \in Int /\ s.rev <= row.rev
    BY CopiesType DEF OneDocumentPerRevision, Snapshot
<1>3. \A s \in Copies \ {None} : s.rev < row'.rev
    BY <1>1, <1>2
<1>4. \A s \in Copies' \ {None} : s \in Copies \ {None} \/ s = row'
    OBVIOUS
<1>5. row'.rev \in Int
    BY <1>1
<1>6. \A s \in Copies' \ {None} : s.rev <= row'.rev /\ (s.rev = row'.rev => s.doc = row'.doc)
    BY <1>2, <1>3, <1>4, <1>5
<1>7. \A s, t \in Copies' \ {None} : s.rev = t.rev => s = t
    <2>1. \A s, t \in Copies \ {None} : s.rev = t.rev => s = t
        BY DEF OneDocumentPerRevision
    <2> QED BY <1>2, <1>3, <1>4, <1>5, <2>1
<1> QED BY <1>6, <1>7 DEF OneDocumentPerRevision

\* The copies after Publish and Refuse.
LEMMA PublishCopies ==
    ASSUME TypeOK, NEW t \in Tasks, NEW s, NEW rest, Publish(t, s, rest), snap' = snap
    PROVE  Copies' \subseteq Copies \cup {None, s}
BY DEF TypeOK, Publish, Goto, Copies

LEMMA RefuseCopies ==
    ASSUME TypeOK, NEW t \in Tasks, Refuse(t), snap' = snap
    PROVE  Copies' \subseteq Copies \cup {None}
BY DEF TypeOK, Refuse, Goto, Copies

\* Fewer copies of the same row are no worse.
LEMMA CopiesKept ==
    ASSUME OneDocumentPerRevision, row' = row, Copies' \subseteq Copies \cup {None}
    PROVE  OneDocumentPerRevision'
<1>1. Copies' \ {None} \subseteq Copies \ {None}
    OBVIOUS
<1> QED BY <1>1 DEF OneDocumentPerRevision

\* Until a process has adopted there are no copies.
LEMMA NoCopies ==
    ASSUME TypeOK, Booted, Working, \A p \in Procs : boot[p] # "up"
    PROVE  Copies \subseteq {None}
<1>1. \A p \in Procs : snap[p] = None
    BY DEF Booted
<1>2. \A t \in Tasks : pc[t] = "idle" /\ got[t] = None /\ seen[t] = None
    BY HomeOf DEF Working
<1> QED BY <1>1, <1>2 DEF Copies

LEMMA StepCopies == IInv /\ [Next]_vars => OneDocumentPerRevision'
<1> SUFFICES ASSUME IInv, [Next]_vars PROVE OneDocumentPerRevision'
    OBVIOUS
<1> USE DEF IInv
<1>1. ASSUME NEW p \in Procs, Ensure(p) PROVE OneDocumentPerRevision'
    <2>1. Copies' = Copies
        BY <1>1 DEF Ensure, local, Copies
    <2>2. CASE row = None
        <3>1. Copies \subseteq {None}
            BY <2>2 DEF OneDocumentPerRevision
        <3> QED BY <2>1, <3>1 DEF OneDocumentPerRevision
    <2>3. CASE row # None
        BY <1>1, <2>1, <2>3, CopiesKept DEF Ensure
    <2> QED BY <2>2, <2>3
<1>2. ASSUME NEW p \in Procs, Adopt(p) PROVE OneDocumentPerRevision'
    <2>1. Copies' = Copies
        BY <1>2 DEF Adopt, local, Copies
    <2>2. CASE row.doc[Totp] = Null
        <3>1. Copies \subseteq {None}
            BY <2>2, NoCopies DEF Booted
        <3> QED BY <2>1, <3>1 DEF OneDocumentPerRevision
    <2>3. CASE row.doc[Totp] # Null
        BY <1>2, <2>1, <2>3, CopiesKept DEF Adopt
    <2> QED BY <2>2, <2>3
<1>3. ASSUME NEW p \in Procs, FirstRefresh(p) PROVE OneDocumentPerRevision'
    <2>1. row # None /\ Scan \in Snapshot /\ Scan.rev = row.rev /\ Scan.doc = row.doc
        BY <1>3, RowWhole DEF FirstRefresh
    <2>2. Copies' \subseteq Copies \cup {None, Scan}
        BY <1>3 DEF FirstRefresh, local, Copies, TypeOK
    <2>3. row' = row
        BY <1>3 DEF FirstRefresh
    <2> QED BY <2>1, <2>2, <2>3, StepType, CopiesFollow
<1>4. ASSUME NEW p \in Procs, Crash(p) PROVE OneDocumentPerRevision'
    <2>1. Copies' \subseteq Copies \cup {None}
        BY <1>4 DEF Crash, Copies, TypeOK
    <2> QED BY <1>4, <2>1, CopiesKept DEF Crash
<1>5. ASSUME NEW t \in Tasks, Publish(t, Scan, None), pc[t] # "idle" \/ Idle(t),
             UNCHANGED <<row, boot, snap>>
      PROVE  OneDocumentPerRevision'
    <2>1. row # None /\ Scan \in Snapshot /\ Scan.rev = row.rev /\ Scan.doc = row.doc
        BY <1>5, RowWhole, HomeOf, AtWork DEF Idle
    <2> QED BY <1>5, <2>1, StepType, PublishCopies, CopiesFollow
<1>6. ASSUME NEW t \in Tasks, Load(t) PROVE OneDocumentPerRevision'
    <2>1. Copies' \subseteq Copies \cup {None}
        BY <1>6, HomeOf DEF Load, Published, Goto, Copies, TypeOK
    <2> QED BY <1>6, <2>1, CopiesKept DEF Load
<1>7. ASSUME NEW t \in Tasks, Swap(t) PROVE OneDocumentPerRevision'
    <2>1. Copies' \subseteq Copies \cup {None}
        BY <1>7, HomeOf DEF Swap, Published, Goto, Copies, TypeOK
    <2> QED BY <1>7, <2>1, CopiesKept DEF Swap
<1>8. ASSUME NEW t \in Tasks, NEW doc \in Doc, row \in Row, Save(doc), snap' = snap,
             \/ Publish(t, [doc |-> doc, rev |-> row.rev + 1], None)
             \/ Refuse(t)
             \/ UNCHANGED local
      PROVE  OneDocumentPerRevision'
    <2>1. /\ row' \in Snapshot /\ row'.rev = row.rev + 1 /\ row' # None
          /\ [doc |-> doc, rev |-> row.rev + 1] = row'
        BY <1>8, SavedRow, RuntimeAssumption
    <2>2. Copies' \subseteq Copies \cup {None, row'}
        <3>1. CASE Publish(t, [doc |-> doc, rev |-> row.rev + 1], None)
            BY <1>8, <2>1, <3>1, PublishCopies
        <3>2. CASE Refuse(t)
            BY <1>8, <3>2, RefuseCopies
        <3>3. CASE UNCHANGED local
            BY <1>8, <3>3 DEF local, Copies
        <3> QED BY <1>8, <3>1, <3>2, <3>3
    <2> QED BY <1>8, <2>1, <2>2, CopiesSaved
<1>9. ASSUME NEW t \in Tasks, NEW doc \in Doc, Put(t, doc) PROVE OneDocumentPerRevision'
    BY <1>8, <1>9, RowWhole, HomeOf DEF Put, Idle
<1>10. ASSUME NEW t \in Tasks, NEW r \in Patches, PatchRead(t, r) PROVE OneDocumentPerRevision'
    <2>1. row # None /\ Scan \in Snapshot /\ Scan.rev = row.rev /\ Scan.doc = row.doc
        BY <1>10, RowWhole, HomeOf DEF PatchRead, Idle
    <2> QED BY <1>10, <2>1, StepType, PublishCopies, CopiesFollow DEF PatchRead
<1>11. ASSUME NEW t \in Tasks, PatchStale(t) \/ PatchError(t) \/ Done(t)
       PROVE  OneDocumentPerRevision'
    BY <1>11, RefuseCopies, CopiesKept DEF PatchStale, PatchError, Done
<1>12. ASSUME NEW t \in Tasks, PatchWrite(t) PROVE OneDocumentPerRevision'
    <2> DEFINE doc == Apply(patch[t].changes, got[t].doc)
    <2>1. doc \in Doc /\ row \in Row
        BY <1>12, PatchedDoc, AtWork DEF PatchWrite, Working
    <2>2. Save(doc) /\ snap' = snap
          /\ (Publish(t, [doc |-> doc, rev |-> row.rev + 1], None) \/ Refuse(t))
        BY <1>12 DEF PatchWrite
    <2> HIDE DEF doc
    <2> QED BY <1>8, <2>1, <2>2
<1>13. ASSUME NEW t \in Tasks, PatchConflict(t) PROVE OneDocumentPerRevision'
    <2>1. Copies' = Copies
        BY <1>13 DEF PatchConflict, Copies
    <2> QED BY <1>13, <2>1, CopiesKept DEF PatchConflict
<1>14. ASSUME NEW t \in Tasks, PatchReread(t) PROVE OneDocumentPerRevision'
    BY <1>5, <1>14 DEF PatchReread
<1>15. ASSUME NEW p \in Procs, Refresh(p) PROVE OneDocumentPerRevision'
    BY <1>5, <1>15 DEF Refresh, Tasks
<1>16. CASE UNCHANGED vars
    BY <1>16 DEF vars, OneDocumentPerRevision, Copies
<1> QED BY <1>1, <1>2, <1>3, <1>4, <1>6, <1>7, <1>9, <1>10, <1>11, <1>12, <1>13, <1>14,
           <1>15, <1>16, RuntimeAssumption DEF Next, Advance, Tasks

-----------------------------------------------------------------------------
THEOREM Inductive == Spec => []IInv
<1>1. IInv /\ [Next]_vars => IInv'
    BY StepType, StepBooted, StepWorking, StepCopies DEF IInv
<1> QED BY InitIInv, <1>1, PTL DEF Spec

\* Every reachable state is well-typed.
THEOREM TypeCorrect == Spec => []TypeOK
<1>1. IInv => TypeOK
    BY DEF IInv
<1> QED BY Inductive, <1>1, PTL

\* Wherever the settings of a revision are held (RuntimeProvider.current, the
\* result of a SELECT or of RETURNING), they are the same document.
THEOREM RevisionsAgree == Spec => []OneDocumentPerRevision
<1>1. IInv => OneDocumentPerRevision
    BY DEF IInv
<1> QED BY Inductive, <1>1, PTL

\* A request that has been answered finds its settings, or newer ones, in force
\* in its process (RuntimeProvider.publish).
THEOREM SavesInForce == Spec => []ReadYourWrites
<1>1. IInv => ReadYourWrites
    BY DEF IInv, Working, ReadYourWrites
<1> QED BY Inductive, <1>1, PTL

\* RuntimeProvider.publish never replaces a snapshot by an older one.
THEOREM SnapshotsAdvance == Spec => NeverBack
<1>1. IInv /\ [Next]_vars =>
          [\A p \in Procs :
              snap[p] # None /\ snap'[p] # None => snap'[p].rev >= snap[p].rev]_vars
    <2> SUFFICES ASSUME IInv, Next, NEW p \in Procs, snap[p] # None, snap'[p] # None
                 PROVE  snap'[p].rev >= snap[p].rev
        OBVIOUS
    <2>1. snap[p] \in Snapshot /\ snap[p].rev \in Int
        BY DEF IInv, TypeOK, Snapshot
    <2>2. ASSUME NEW q \in Procs, FirstRefresh(q) PROVE snap'[p].rev >= snap[p].rev
        BY <2>1, <2>2 DEF FirstRefresh, IInv, Booted, TypeOK
    <2>3. ASSUME NEW q \in Procs, Crash(q) PROVE snap'[p].rev >= snap[p].rev
        BY <2>1, <2>3 DEF Crash, IInv, TypeOK
    <2>4. ASSUME NEW t \in Tasks, Swap(t) PROVE snap'[p].rev >= snap[p].rev
        <3>1. got[t] \in Snapshot /\ got[t].rev \in Int /\ seen[t].rev < got[t].rev
            BY <2>4, AtWork DEF Swap, IInv, Working, Snapshot
        <3> QED BY <2>1, <2>4, <3>1 DEF Swap, IInv, TypeOK
    <2>5. CASE UNCHANGED snap
        BY <2>1, <2>5
    <2> QED BY <2>2, <2>3, <2>4, <2>5, RuntimeAssumption
            DEF Next, Advance, Ensure, Adopt, Refresh, Load, Put, PatchRead, PatchStale,
                PatchWrite, PatchConflict, PatchReread, PatchError, Done
<1> QED BY Inductive, <1>1, PTL DEF Spec, NeverBack

\* RuntimeProvider.Patch and the revision predicate of the UPDATE: a patch
\* leaves every field it does not name as the row had it.
THEOREM PatchesKeepOthers == Spec => PatchKeepsOthers
<1>1. IInv /\ [Next]_vars =>
          [\A t \in Requests : PatchWrite(t) =>
              \A f \in Fields \ DOMAIN patch[t].changes : row'.doc[f] = row.doc[f]]_vars
    <2> SUFFICES ASSUME IInv, NEW t \in Requests, PatchWrite(t),
                        NEW f \in Fields \ DOMAIN patch[t].changes
                 PROVE  row'.doc[f] = row.doc[f]
        OBVIOUS
    <2> DEFINE doc == Apply(patch[t].changes, got[t].doc)
    <2>1. t \in Tasks /\ got[t] # None /\ patch[t] # None /\ row \in Row
        BY AtWork, RuntimeAssumption DEF PatchWrite, IInv, Working, Tasks
    <2>2. got[t].doc = row.doc
        BY <2>1 DEF PatchWrite, IInv, OneDocumentPerRevision, Copies
    <2>3. doc \in Doc /\ doc[f] = row.doc[f]
        BY <2>1, <2>2, PatchedDoc DEF IInv, Apply
    <2>4. Save(doc)
        BY DEF PatchWrite
    <2> HIDE DEF doc
    <2> QED BY <2>1, <2>3, <2>4, SavedRow
<1> QED BY Inductive, <1>1, PTL DEF Spec, PatchKeepsOthers
=============================================================================
