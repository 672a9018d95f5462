--------------------------- MODULE LinkCache_proofs ---------------------------
(***************************************************************************)
(* Proofs about LinkCache: type correctness, that every copy of a link is  *)
(* a version the table held, and that a retired link stays as it is.       *)
(***************************************************************************)
EXTENDS LinkCache, TLAPS

\* How one statement may change a row: not at all, by removing it for good,
\* by writing a later version of the same alias, or by inserting it.
Evolves == \A i \in Ids :
    \/ links'[i] = links[i]
    \/ links[i] # Unborn /\ links'[i] = Gone
    \/ /\ Exists(i) /\ Exists(i)'
       /\ links'[i].link.alias = links[i].link.alias
       /\ links'[i].link.version > links[i].link.version
    \/ links[i] = Unborn /\ Exists(i)'

\* The links of the table's rows.
Rows == {links[i].link : i \in {j \in Ids : Exists(j)}}

\* A copy that is not None is a link.
LEMMA CopiesType ==
    ASSUME TypeOK, StageCopies
    PROVE  Copies \subseteq Link \cup {None}
BY LinkCacheAssumption DEF TypeOK, StageCopies, Copies, Holding, Stages

\* Copies remain versions of their rows when rows only evolve and the only
\* new copies are of rows as the table now holds them.
LEMMA CopiesFollow ==
    ASSUME TypeOK, TypeOK', StageCopies, RowIds', CopiesAreVersions, Evolves,
           Copies' \subseteq Copies \cup {None} \cup Rows'
    PROVE  CopiesAreVersions'
<1>1. \A l \in Copies \ {None} : l \in Link /\ l.id \in Ids /\ l.version \in Nat
    BY CopiesType DEF Link
<1>2. \A i \in Ids : /\ Exists(i) => links[i].link \in Link /\ links[i].link.version \in Nat
                     /\ Exists(i)' => links'[i].link \in Link /\ links'[i].link.version \in Nat
    BY DEF TypeOK, Row, Link, Exists
<1>3. ASSUME NEW l \in Copies \ {None}
      PROVE  /\ links'[l.id] # Unborn
             /\ Exists(l.id)' => VersionOf(l, links'[l.id])
    <2>1. l.id \in Ids /\ l.version \in Nat
        BY <1>1
    <2>2. links[l.id] # Unborn /\ (Exists(l.id) => VersionOf(l, links[l.id]))
        BY <1>3 DEF CopiesAreVersions
    <2>3. CASE links'[l.id] = links[l.id]
        BY <2>2, <2>3 DEF Exists
    <2>4. CASE links'[l.id] = Gone
        BY <2>4, LinkCacheAssumption DEF Exists
    <2>5. CASE /\ Exists(l.id) /\ Exists(l.id)'
               /\ links'[l.id].link.alias = links[l.id].link.alias
               /\ links'[l.id].link.version > links[l.id].link.version
        <3>1. VersionOf(l, links[l.id])
            BY <2>2, <2>5
        <3>2. links[l.id].link.version \in Nat /\ links'[l.id].link.version \in Nat
            BY <1>2, <2>1, <2>5
        <3>3. VersionOf(l, links'[l.id])
            BY <2>1, <2>5, <3>1, <3>2 DEF VersionOf
        <3> QED BY <3>3, <2>5 DEF Exists
    <2> QED BY <2>1, <2>2, <2>3, <2>4, <2>5 DEF Evolves
<1>4. ASSUME NEW l \in Rows'
      PROVE  /\ l \in Link /\ l.id \in Ids /\ Exists(l.id)' /\ l = links'[l.id].link
    <2>1. PICK i \in Ids : Exists(i)' /\ l = links'[i].link
        BY <1>4 DEF Rows, Exists
    <2>2. l.id = i
        BY <2>1 DEF RowIds, Exists
    <2> QED BY <1>2, <2>1, <2>2
<1>5. ASSUME NEW l \in Rows'
      PROVE  links'[l.id] # Unborn /\ VersionOf(l, links'[l.id])
    BY <1>2, <1>4, <1>5 DEF VersionOf, Exists
<1>6. ASSUME NEW l \in Rows', NEW m \in Copies \ {None}, l.id = m.id, l.version = m.version
      PROVE  l = m
    <2>1. Exists(m.id)' /\ VersionOf(m, links'[m.id]) /\ l = links'[m.id].link
        BY <1>3, <1>4, <1>6
    <2> QED BY <2>1, <1>6 DEF VersionOf
<1>7. \A l \in Copies \ {None}, m \in Copies \ {None} :
          l.id = m.id /\ l.version = m.version => l = m
    BY DEF CopiesAreVersions
<1>8. \A l \in Rows', m \in Rows' : l.id = m.id => l = m
    BY <1>4
<1>9. \A l \in Copies' \ {None} : l \in Copies \ {None} \/ l \in Rows'
    OBVIOUS
<1>10. \A l \in Copies' \ {None} : /\ links'[l.id] # Unborn
                                   /\ Exists(l.id)' => VersionOf(l, links'[l.id])
    BY <1>3, <1>5, <1>9
<1>11. \A l \in Copies' \ {None}, m \in Copies' \ {None} :
           l.id = m.id /\ l.version = m.version => l = m
    BY <1>6, <1>7, <1>8, <1>9
<1> QED BY <1>10, <1>11 DEF CopiesAreVersions

\* A statement that leaves the table alone lets rows evolve.
LEMMA TableKept == ASSUME UNCHANGED links PROVE Evolves
BY DEF Evolves

\* What UPDATE and the soft delete make of a row.
LEMMA UpdatedRow ==
    ASSUME NEW row \in Row, NEW d \in Dests, NEW s \in Statuses \cup {"deleted"},
           NEW e \in Expiries
    PROVE  /\ Updated(row, d, s, e) \in Row
           /\ Updated(row, d, s, e).link.id = row.link.id
           /\ Updated(row, d, s, e).link.alias = row.link.alias
           /\ Updated(row, d, s, e).link.version = row.link.version + 1
<1> DEFINE l == row.link
           m == [l EXCEPT !.dest = d, !.status = s, !.expiry = e, !.version = l.version + 1]
<1>1. l \in Link /\ row \in [link: Link, retired: BOOLEAN]
    BY DEF Row
<1>2. /\ m \in Link
      /\ m.id = l.id /\ m.alias = l.alias /\ m.version = l.version + 1
    <2>1. l \in Link
        BY <1>1
    <2>2. l.version + 1 \in Nat
        BY <2>1 DEF Link
    <2> HIDE DEF l
    <2>3. m.id = l.id /\ m.alias = l.alias /\ m.version = l.version + 1
        BY <2>1 DEF Link
    <2>4. m \in Link
        BY <2>1, <2>2 DEF Link, Statuses
    <2> QED BY <2>3, <2>4
<1>3. Updated(row, d, s, e) = [row EXCEPT !.link = m]
    BY DEF Updated
<1>4. [row EXCEPT !.link = m] \in Row /\ [row EXCEPT !.link = m].link = m
    BY <1>1, <1>2 DEF Row
<1> HIDE DEF m
<1> QED BY <1>2, <1>3, <1>4

LEMMA RetiredRow ==
    ASSUME NEW row \in Row
    PROVE  /\ Retire(row) \in Row
           /\ Retire(row).link.id = row.link.id
           /\ Retire(row).link.alias = row.link.alias
           /\ Retire(row).link.version = row.link.version + 1
<1> DEFINE l == row.link
           m == [l EXCEPT !.status = "deleted", !.version = l.version + 1]
<1>1. l \in Link /\ row \in [link: Link, retired: BOOLEAN]
    BY DEF Row
<1>2. /\ m \in Link
      /\ m.id = l.id /\ m.alias = l.alias /\ m.version = l.version + 1
    <2>1. l \in Link
        BY <1>1
    <2>2. l.version + 1 \in Nat
        BY <2>1 DEF Link
    <2> HIDE DEF l
    <2>3. m.id = l.id /\ m.alias = l.alias /\ m.version = l.version + 1
        BY <2>1 DEF Link
    <2>4. m \in Link
        BY <2>1, <2>2 DEF Link, Statuses
    <2> QED BY <2>3, <2>4
<1>3. Retire(row) = [row EXCEPT !.retired = TRUE, !.link = m]
    BY DEF Retire
<1>4. Retire(row) \in Row /\ Retire(row).link = m
    BY <1>1, <1>2, <1>3 DEF Row
<1> HIDE DEF m
<1> QED BY <1>2, <1>4

\* Copies seen one by one: what each cache entry and each request may hold
\* after a step for every copy to be an old one or a row of the table.
FreshCopies ==
    /\ \A a \in Aliases : cache'[a] \in Copies \cup {None} \cup Rows'
    /\ \A p \in Proc : pc'[p] \in Holding => copy'[p] \in Copies \cup {None} \cup Rows'

LEMMA CopiesHold ==
    /\ \A a \in Aliases : cache[a] \in Copies
    /\ \A p \in Proc : pc[p] \in Holding => copy[p] \in Copies
BY DEF Copies

\* The step of a proof of the invariant that all actions share.
LEMMA StepKeepsIInv ==
    ASSUME IInv, TypeOK', StageCopies', RowIds', Evolves, FreshCopies
    PROVE  IInv'
<1>1. Copies' \subseteq Copies \cup {None} \cup Rows'
    BY DEF FreshCopies, Copies
<1>2. CopiesAreVersions'
    BY <1>1, CopiesFollow DEF IInv
<1> QED BY <1>2 DEF IInv

\* The same for a step that leaves the table alone.
LEMMA ReadKeepsIInv ==
    ASSUME IInv, UNCHANGED links, TypeOK', StageCopies', FreshCopies
    PROVE  IInv'
<1>1. RowIds'
    BY DEF IInv, RowIds, Exists
<1> QED BY <1>1, TableKept, StepKeepsIInv

\* A row read back is a fresh copy, and a link.
LEMMA RowOf ==
    ASSUME TypeOK, NEW i \in Ids, Exists(i)
    PROVE  links[i] \in Row /\ links[i].link \in Link /\ links[i].link \in Rows
BY DEF TypeOK, Exists, Row, Rows

-----------------------------------------------------------------------------
\* Resolve serves and caches what it found in the cache or in the table.
LEMMA ResolveKeepsIInv ==
    ASSUME IInv, NEW p \in Proc,
           \/ \E a \in Aliases : ResolveHit(p, a) \/ ResolveMiss(p, a)
           \/ ResolveRead(p) \/ ResolveFill(p)
    PROVE  IInv'
<1> USE DEF IInv, Answer, Goto, Carry, db
<1>1. ASSUME NEW a \in Aliases, ResolveHit(p, a) PROVE IInv'
    <2>1. TypeOK'
        BY <1>1 DEF TypeOK, ResolveHit, Stages
    <2>2. StageCopies'
        BY <1>1 DEF TypeOK, ResolveHit, StageCopies, Stages
    <2>3. FreshCopies
        BY <1>1, CopiesHold DEF TypeOK, ResolveHit, FreshCopies
    <2> QED BY <1>1, <2>1, <2>2, <2>3, ReadKeepsIInv DEF ResolveHit
<1>2. ASSUME NEW a \in Aliases, ResolveMiss(p, a) PROVE IInv'
    <2>1. TypeOK'
        BY <1>2 DEF TypeOK, ResolveMiss, Stages
    <2>2. StageCopies'
        BY <1>2 DEF TypeOK, ResolveMiss, StageCopies, Stages
    <2>3. FreshCopies
        BY <1>2, CopiesHold DEF TypeOK, ResolveMiss, FreshCopies, Holding
    <2> QED BY <1>2, <2>1, <2>2, <2>3, ReadKeepsIInv DEF ResolveMiss
<1>3. ASSUME ResolveRead(p) PROVE IInv'
    <2>1. CASE \E i \in LiveHolder(copy[p]) : Usable(links[i].link)
        <3>1. PICK i \in LiveHolder(copy[p]) : copy' = [copy EXCEPT ![p] = links[i].link]
            BY <1>3, <2>1 DEF ResolveRead
        <3>2. /\ links[i].link \in Link
              /\ links[i].link \in Rows'
            BY <1>3, RowOf DEF LiveHolder, Holder, ResolveRead, Rows, Exists
        <3>3. TypeOK'
            BY <1>3, <2>1, <3>1, <3>2 DEF TypeOK, ResolveRead, Stages
        <3>4. StageCopies'
            BY <1>3, <2>1, <3>1, <3>2 DEF TypeOK, ResolveRead, StageCopies, Stages
        <3>5. FreshCopies
            BY <1>3, <2>1, <3>1, <3>2, CopiesHold DEF TypeOK, ResolveRead, FreshCopies
        <3> QED BY <1>3, <3>3, <3>4, <3>5, ReadKeepsIInv DEF ResolveRead
    <2>2. CASE ~\E i \in LiveHolder(copy[p]) : Usable(links[i].link)
        <3>1. TypeOK'
            BY <1>3, <2>2 DEF TypeOK, ResolveRead, Stages
        <3>2. StageCopies'
            BY <1>3, <2>2 DEF TypeOK, ResolveRead, StageCopies, Stages
        <3>3. FreshCopies
            BY <1>3, <2>2, CopiesHold DEF TypeOK, ResolveRead, FreshCopies
        <3> QED BY <1>3, <3>1, <3>2, <3>3, ReadKeepsIInv DEF ResolveRead
    <2> QED BY <2>1, <2>2
<1>4. ASSUME ResolveFill(p) PROVE IInv'
    <2>1. copy[p] \in Link /\ copy[p].alias \in Aliases /\ copy[p] \in Copies
        BY <1>4, CopiesHold DEF ResolveFill, StageCopies, Link, Holding
    <2>2. TypeOK'
        BY <1>4, <2>1 DEF TypeOK, ResolveFill, Put, Stages
    <2>3. StageCopies'
        BY <1>4, <2>1 DEF TypeOK, ResolveFill, StageCopies, Stages
    <2>4. FreshCopies
        BY <1>4, <2>1, CopiesHold DEF TypeOK, ResolveFill, Put, FreshCopies
    <2> QED BY <1>4, <2>2, <2>3, <2>4, ReadKeepsIInv DEF ResolveFill
<1> QED BY <1>1, <1>2, <1>3, <1>4

\* Create inserts a row under an id nothing refers to, or fails.
LEMMA CreateKeepsIInv ==
    ASSUME IInv, NEW p \in Proc, NEW i \in Ids, NEW a \in Aliases, NEW d \in Dests,
           NEW e \in Expiries, Create(p, i, a, d, e)
    PROVE  IInv'
<1> USE DEF IInv, Answer, Goto, Carry
<1> DEFINE link == [id |-> i, alias |-> a, version |-> 1, dest |-> d,
                    status |-> "active", expiry |-> e]
           row  == [link |-> link, retired |-> FALSE]
<1>1. link \in Link /\ row \in Row /\ row.link = link /\ link.id = i
    BY DEF Link, Row, Statuses
<1>2. row # Unborn /\ row # Gone
    BY <1>1, LinkCacheAssumption
<1>3. CASE Holder(a) = {}
    <2>1. /\ links' = [links EXCEPT ![i] = row]
          /\ pc' = [pc EXCEPT ![p] = "create_fill"] /\ copy' = [copy EXCEPT ![p] = link]
          /\ UNCHANGED <<patch, todo, cache, now, edits>>
          /\ pc[p] = "idle" /\ links[i] = Unborn
        BY <1>3 DEF Create
    <2> HIDE DEF link, row
    <2>2. TypeOK'
        BY <1>1, <2>1 DEF TypeOK, Stages
    <2>3. StageCopies'
        BY <1>1, <2>1 DEF TypeOK, StageCopies, Stages
    <2>4. \A j \in Ids : links'[j] = IF j = i THEN row ELSE links[j]
        BY <2>1 DEF TypeOK
    <2>5. RowIds' /\ Evolves
        BY <1>1, <1>2, <2>1, <2>4 DEF RowIds, Evolves, Exists
    <2>6. link \in Rows'
        BY <1>1, <1>2, <2>4 DEF Rows, Exists
    <2>7. FreshCopies
        BY <2>1, <2>6, CopiesHold DEF TypeOK, FreshCopies
    <2> QED BY <2>2, <2>3, <2>5, <2>7, StepKeepsIInv
<1>4. CASE Holder(a) # {}
    <2>1. TypeOK'
        BY <1>4 DEF Create, TypeOK, Stages
    <2>2. StageCopies'
        BY <1>4 DEF Create, TypeOK, StageCopies, Stages
    <2>3. FreshCopies
        BY <1>4, CopiesHold DEF Create, TypeOK, FreshCopies
    <2> QED BY <1>4, <2>1, <2>2, <2>3, ReadKeepsIInv DEF Create
<1> QED BY <1>3, <1>4

\* CreateFill caches the link the insert stored.
LEMMA CreateFillKeepsIInv ==
    ASSUME IInv, NEW p \in Proc, CreateFill(p) \/ UpdateFill(p)
    PROVE  IInv'
<1> USE DEF IInv, Answer, Goto, Carry, db, CreateFill, UpdateFill
<1>1. copy[p] \in Link /\ copy[p].alias \in Aliases /\ copy[p] \in Copies
    BY CopiesHold DEF StageCopies, Link, Holding
<1>2. TypeOK'
    BY <1>1 DEF TypeOK, Put, Stages
<1>3. StageCopies'
    BY <1>1 DEF TypeOK, StageCopies, Stages
<1>4. FreshCopies
    BY <1>1, CopiesHold DEF TypeOK, Put, FreshCopies
<1> QED BY <1>2, <1>3, <1>4, ReadKeepsIInv

-----------------------------------------------------------------------------
\* Update's draft is in nobody's hands but the request's own.
LEMMA UpdateReadKeepsIInv ==
    ASSUME IInv, NEW p \in Proc, NEW i \in Ids, NEW r \in Patch, UpdateRead(p, i, r)
    PROVE  IInv'
<1> USE DEF IInv, Answer, Goto, Carry, StartEdit
<1>1. edits' \in 0..MaxEdits
    BY LinkCacheAssumption DEF UpdateRead, TypeOK
<1>2. CASE Live(i)
    <2> DEFINE l == links[i].link
               Pick(new, old) == IF new = Unset THEN old ELSE new
               draft == [l EXCEPT !.dest = Pick(r.dest, l.dest),
                                  !.status = Pick(r.status, l.status),
                                  !.expiry = Pick(r.expiry, l.expiry)]
    <2>1. l \in Link
        BY <1>2, RowOf DEF Live
    <2>2. draft \in Link
        <3> HIDE DEF l
        <3> QED BY <2>1 DEF Link, Patch, Statuses
    <2>3. copy' = [copy EXCEPT ![p] = draft]
        BY <1>2 DEF UpdateRead
    <2> HIDE DEF draft
    <2>4. TypeOK'
        BY <1>1, <1>2, <2>2, <2>3 DEF UpdateRead, TypeOK, Stages
    <2>5. StageCopies'
        BY <1>2, <2>2, <2>3 DEF UpdateRead, TypeOK, StageCopies, Stages
    <2>6. FreshCopies
        BY <1>2, <2>3, CopiesHold DEF UpdateRead, TypeOK, FreshCopies, Holding
    <2> QED BY <2>4, <2>5, <2>6, ReadKeepsIInv DEF UpdateRead
<1>3. CASE ~Live(i)
    <2>1. TypeOK'
        BY <1>1, <1>3 DEF UpdateRead, TypeOK, Stages
    <2>2. StageCopies'
        BY <1>3 DEF UpdateRead, TypeOK, StageCopies, Stages
    <2>3. FreshCopies
        BY <1>3, CopiesHold DEF UpdateRead, TypeOK, FreshCopies
    <2> QED BY <2>1, <2>2, <2>3, ReadKeepsIInv DEF UpdateRead
<1> QED BY <1>2, <1>3

\* UpdateWrite puts a later version of the same link in its row.
LEMMA UpdateWriteKeepsIInv ==
    ASSUME IInv, NEW p \in Proc, UpdateWrite(p)
    PROVE  IInv'
<1> USE DEF IInv, Answer, Goto, Carry
<1> DEFINE i == copy[p].id
<1>1. /\ copy[p] \in Link /\ i \in Ids
      /\ copy[p].dest \in Dests /\ copy[p].expiry \in Expiries
      /\ copy[p].status \in Statuses \cup {"deleted"}
    BY DEF UpdateWrite, StageCopies, Link
<1>2. CASE Live(i)
    <2> DEFINE row == [links[i] EXCEPT !.link = [links[i].link EXCEPT
                           !.dest = copy[p].dest, !.status = copy[p].status,
                           !.expiry = copy[p].expiry, !.version = links[i].link.version + 1]]
    <2>1. links[i] \in Row
        BY <1>1, <1>2, RowOf DEF Live
    <2>2. row = Updated(links[i], copy[p].dest, copy[p].status, copy[p].expiry)
        BY DEF Updated
    <2>3. /\ row \in Row /\ row.link.id = links[i].link.id
          /\ row.link.alias = links[i].link.alias
          /\ row.link.version = links[i].link.version + 1
        <3> HIDE DEF row
        <3> QED BY <1>1, <2>1, <2>2, UpdatedRow
    <2>4. /\ links' = [links EXCEPT ![i] = row]
          /\ pc' = [pc EXCEPT ![p] = "update_reread"] /\ pc[p] = "update_write"
          /\ UNCHANGED <<patch, copy, todo, cache, now, edits>>
        BY <1>2, <2>2 DEF UpdateWrite
    <2> HIDE DEF row
    <2>5. TypeOK'
        BY <2>3, <2>4 DEF TypeOK, Stages
    <2>6. StageCopies'
        BY <1>1, <2>4 DEF TypeOK, StageCopies, Stages
    <2>7. \A j \in Ids : links'[j] = IF j = i THEN row ELSE links[j]
        BY <2>4 DEF TypeOK
    <2>8. row # Unborn /\ row # Gone /\ Exists(i)
        BY <1>2, <2>3, LinkCacheAssumption DEF Live
    <2>9. RowIds'
        BY <2>3, <2>7, <2>8 DEF RowIds, Exists
    <2>10. links[i].link.version \in Nat
        BY <2>1 DEF Row, Link
    <2>11. Evolves
        BY <2>3, <2>7, <2>8, <2>10 DEF Evolves, Exists
    <2>12. FreshCopies
        BY <2>4, CopiesHold DEF TypeOK, FreshCopies, Holding
    <2> QED BY <2>5, <2>6, <2>9, <2>11, <2>12, StepKeepsIInv
<1>3. CASE ~Live(i)
    <2>1. TypeOK'
        BY <1>3 DEF UpdateWrite, TypeOK, Stages
    <2>2. StageCopies'
        BY <1>3 DEF UpdateWrite, TypeOK, StageCopies, Stages
    <2>3. FreshCopies
        BY <1>3, CopiesHold DEF UpdateWrite, TypeOK, FreshCopies
    <2> QED BY <1>3, <2>1, <2>2, <2>3, ReadKeepsIInv DEF UpdateWrite
<1> QED BY <1>2, <1>3

\* UpdateReread exchanges the draft for the row as the table holds it.
LEMMA UpdateRereadKeepsIInv ==
    ASSUME IInv, NEW p \in Proc, UpdateReread(p)
    PROVE  IInv'
<1> USE DEF IInv, Answer, Goto, Carry, db, UpdateReread
<1> DEFINE i == copy[p].id
<1>1. i \in Ids
    BY DEF StageCopies, Link
<1>2. CASE Live(i)
    <2>1. links[i].link \in Link /\ links[i].link \in Rows'
        BY <1>1, <1>2, RowOf DEF Live, Rows, Exists
    <2>2. TypeOK'
        BY <1>2, <2>1 DEF TypeOK, Stages
    <2>3. StageCopies'
        BY <1>2, <2>1 DEF TypeOK, StageCopies, Stages
    <2>4. FreshCopies
        BY <1>2, <2>1, CopiesHold DEF TypeOK, FreshCopies
    <2> QED BY <2>2, <2>3, <2>4, ReadKeepsIInv
<1>3. CASE ~Live(i)
    <2>1. TypeOK'
        BY <1>3 DEF TypeOK, Stages
    <2>2. StageCopies'
        BY <1>3 DEF TypeOK, StageCopies, Stages
    <2>3. FreshCopies
        BY <1>3, CopiesHold DEF TypeOK, FreshCopies
    <2> QED BY <2>1, <2>2, <2>3, ReadKeepsIInv
<1> QED BY <1>2, <1>3

-----------------------------------------------------------------------------
\* Delete reads the link, and afterwards evicts its alias.
LEMMA DeleteKeepsIInv ==
    ASSUME IInv, NEW p \in Proc, (\E i \in Ids : DeleteRead(p, i)) \/ DeleteEvict(p)
    PROVE  IInv'
<1> USE DEF IInv, Answer, Goto, Carry, db
<1>1. ASSUME NEW i \in Ids, DeleteRead(p, i) PROVE IInv'
    <2>1. edits' \in 0..MaxEdits
        BY <1>1, LinkCacheAssumption DEF DeleteRead, StartEdit, TypeOK
    <2>2. Live(i) => links[i].link \in Link
        BY RowOf DEF Live
    <2>3. TypeOK'
        BY <1>1, <2>1, <2>2 DEF DeleteRead, TypeOK, Stages
    <2>4. StageCopies'
        BY <1>1, <2>2 DEF DeleteRead, TypeOK, StageCopies, Stages
    <2>5. FreshCopies
        BY <1>1, CopiesHold DEF DeleteRead, TypeOK, FreshCopies, Holding
    <2> QED BY <1>1, <2>3, <2>4, <2>5, ReadKeepsIInv DEF DeleteRead
<1>2. ASSUME DeleteEvict(p) PROVE IInv'
    <2>1. copy[p].alias \in Aliases
        BY <1>2 DEF DeleteEvict, StageCopies, Link
    <2>2. TypeOK'
        BY <1>2, <2>1 DEF DeleteEvict, Put, TypeOK, Stages
    <2>3. StageCopies'
        BY <1>2 DEF DeleteEvict, TypeOK, StageCopies, Stages
    <2>4. FreshCopies
        BY <1>2, <2>1, CopiesHold DEF DeleteEvict, Put, TypeOK, FreshCopies
    <2> QED BY <1>2, <2>2, <2>3, <2>4, ReadKeepsIInv DEF DeleteEvict
<1> QED BY <1>1, <1>2

\* DeleteWrite retires the row: a later version of the same link.
LEMMA DeleteWriteKeepsIInv ==
    ASSUME IInv, NEW p \in Proc, DeleteWrite(p)
    PROVE  IInv'
<1> USE DEF IInv, Answer, Goto, Carry
<1> DEFINE i == copy[p].id
           row == Retire(links[i])
<1>1. copy[p] \in Link /\ i \in Ids
    BY DEF DeleteWrite, StageCopies, Link
<1>2. CASE Live(i)
    <2>1. links[i] \in Row
        BY <1>1, <1>2, RowOf DEF Live
    <2>2. /\ row \in Row /\ row.link.id = links[i].link.id
          /\ row.link.alias = links[i].link.alias
          /\ row.link.version = links[i].link.version + 1
        BY <2>1, RetiredRow
    <2>3. /\ links' = [links EXCEPT ![i] = row]
          /\ pc' = [pc EXCEPT ![p] = "delete_evict"] /\ pc[p] = "delete_write"
          /\ UNCHANGED <<patch, copy, todo, cache, now, edits>>
        BY <1>2 DEF DeleteWrite
    <2> HIDE DEF row
    <2>4. TypeOK'
        BY <2>2, <2>3 DEF TypeOK, Stages
    <2>5. StageCopies'
        BY <1>1, <2>3 DEF TypeOK, StageCopies, Stages
    <2>6. \A j \in Ids : links'[j] = IF j = i THEN row ELSE links[j]
        BY <2>3 DEF TypeOK
    <2>7. row # Unborn /\ row # Gone /\ Exists(i)
        BY <1>2, <2>2, LinkCacheAssumption DEF Live
    <2>8. RowIds'
        BY <2>2, <2>6, <2>7 DEF RowIds, Exists
    <2>9. links[i].link.version \in Nat
        BY <2>1 DEF Row, Link
    <2>10. Evolves
        BY <2>2, <2>6, <2>7, <2>9 DEF Evolves, Exists
    <2>11. FreshCopies
        BY <2>3, CopiesHold DEF TypeOK, FreshCopies, Holding
    <2> QED BY <2>4, <2>5, <2>8, <2>10, <2>11, StepKeepsIInv
<1>3. CASE ~Live(i)
    <2>1. TypeOK'
        BY <1>3 DEF DeleteWrite, TypeOK, Stages
    <2>2. StageCopies'
        BY <1>3 DEF DeleteWrite, TypeOK, StageCopies, Stages
    <2>3. FreshCopies
        BY <1>3, CopiesHold DEF DeleteWrite, TypeOK, FreshCopies
    <2> QED BY <1>3, <2>1, <2>2, <2>3, ReadKeepsIInv DEF DeleteWrite
<1> QED BY <1>2, <1>3

-----------------------------------------------------------------------------
\* What a bulk statement makes of a row it hits.
BulkAfter(row, c) ==
    CASE c.action = "delete" -> Retire(row)
      [] c.action = "status" -> Updated(row, row.link.dest, c.value, row.link.expiry)
      [] c.action = "expiry" -> Updated(row, row.link.dest, row.link.status, c.value)

LEMMA BulkRow ==
    ASSUME NEW row \in Row, NEW c \in BulkChange
    PROVE  /\ BulkAfter(row, c) \in Row
           /\ BulkAfter(row, c).link.id = row.link.id
           /\ BulkAfter(row, c).link.alias = row.link.alias
           /\ BulkAfter(row, c).link.version = row.link.version + 1
<1>1. /\ row.link.dest \in Dests
      /\ row.link.status \in Statuses \cup {"deleted"}
      /\ row.link.expiry \in Expiries
    BY DEF Row, Link
<1>2. CASE c.action = "delete"
    BY <1>2, RetiredRow DEF BulkAfter
<1>3. CASE c.action = "status"
    <2>1. c.value \in Statuses
        BY <1>3 DEF BulkChange
    <2>2. BulkAfter(row, c) = Updated(row, row.link.dest, c.value, row.link.expiry)
        BY <1>3 DEF BulkAfter
    <2> QED BY <1>1, <2>1, <2>2, UpdatedRow
<1>4. CASE c.action = "expiry"
    <2>1. c.value \in Expiries
        BY <1>4 DEF BulkChange
    <2>2. BulkAfter(row, c) = Updated(row, row.link.dest, row.link.status, c.value)
        BY <1>4 DEF BulkAfter
    <2> DEFINE new == Updated(row, row.link.dest, row.link.status, c.value)
    <2>3. /\ new \in Row /\ new.link.id = row.link.id
          /\ new.link.alias = row.link.alias
          /\ new.link.version = row.link.version + 1
        BY <1>1, <2>1, UpdatedRow, Zenon
    <2> QED BY <2>2, <2>3
<1>5. c.action \in {"delete", "status", "expiry"}
    BY DEF BulkChange
<1> QED BY <1>2, <1>3, <1>4, <1>5

\* BulkWrite puts a later version in every row it hits.
LEMMA BulkWriteKeepsIInv ==
    ASSUME IInv, NEW p \in Proc, NEW S \in SUBSET Ids, NEW c \in BulkChange,
           BulkWrite(p, S, c)
    PROVE  IInv'
<1> USE DEF IInv, Answer, Goto, Carry
<1> DEFINE hit == {i \in S : Live(i)}
<1>1. edits' \in 0..MaxEdits
    BY LinkCacheAssumption DEF BulkWrite, StartEdit, TypeOK
<1>2. CASE hit # {}
    <2>1. links' = [i \in Ids |-> IF i \in hit THEN BulkAfter(links[i], c) ELSE links[i]]
        BY <1>2 DEF BulkWrite, BulkAfter
    <2>2. /\ todo' = [todo EXCEPT ![p] = {links[i].link.alias : i \in hit}]
          /\ pc' = [pc EXCEPT ![p] = "bulk_evict"] /\ pc[p] = "idle"
          /\ UNCHANGED <<patch, copy, cache, now>>
        BY <1>2 DEF BulkWrite
    <2>3. \A i \in hit : i \in Ids /\ Exists(i) /\ links[i] \in Row
        BY RowOf DEF Live
    <2>4. \A i \in hit :
              /\ links'[i] \in Row
              /\ links'[i].link.id = links[i].link.id
              /\ links'[i].link.alias = links[i].link.alias
              /\ links'[i].link.version = links[i].link.version + 1
              /\ links[i].link.version \in Nat
              /\ links[i].link.alias \in Aliases
        <3> SUFFICES ASSUME NEW i \in hit
                     PROVE  /\ links'[i] \in Row
                            /\ links'[i].link.id = links[i].link.id
                            /\ links'[i].link.alias = links[i].link.alias
                            /\ links'[i].link.version = links[i].link.version + 1
                            /\ links[i].link.version \in Nat
                            /\ links[i].link.alias \in Aliases
            OBVIOUS
        <3>1. i \in Ids /\ links[i] \in Row
            BY <2>3
        <3>2. links'[i] = BulkAfter(links[i], c)
            BY <2>1, <3>1
        <3>3. links[i].link.version \in Nat /\ links[i].link.alias \in Aliases
            BY <3>1 DEF Row, Link
        <3> QED BY <3>1, <3>2, <3>3, BulkRow
    <2>5. \A i \in Ids \ hit : links'[i] = links[i]
        BY <2>1
    <2>6. links' \in [Ids -> Row \cup {Unborn, Gone}]
        <3>1. \A i \in Ids : links'[i] \in Row \cup {Unborn, Gone}
            BY <2>4, <2>5 DEF TypeOK
        <3> QED BY <2>1, <3>1
    <2> HIDE DEF hit
    <2>7. todo' \in [Proc -> SUBSET Aliases]
        BY <2>2, <2>4 DEF TypeOK
    <2>8. TypeOK'
        BY <1>1, <2>2, <2>6, <2>7 DEF TypeOK, Stages
    <2>9. StageCopies'
        BY <2>2 DEF TypeOK, StageCopies, Stages
    <2>10. \A i \in hit : Exists(i)'
        BY <2>4, LinkCacheAssumption DEF Exists
    <2>11. RowIds'
        BY <2>3, <2>4, <2>5 DEF RowIds, Exists
    <2>12. Evolves
        BY <2>3, <2>4, <2>5, <2>10 DEF Evolves
    <2>13. FreshCopies
        BY <2>2, CopiesHold DEF TypeOK, FreshCopies, Holding
    <2> QED BY <2>8, <2>9, <2>11, <2>12, <2>13, StepKeepsIInv
<1>3. CASE hit = {}
    <2>1. TypeOK'
        BY <1>1, <1>3 DEF BulkWrite, TypeOK, Stages
    <2>2. StageCopies'
        BY <1>3 DEF BulkWrite, TypeOK, StageCopies, Stages
    <2>3. FreshCopies
        BY <1>3, CopiesHold DEF BulkWrite, TypeOK, FreshCopies
    <2> QED BY <1>3, <2>1, <2>2, <2>3, ReadKeepsIInv DEF BulkWrite
<1> QED BY <1>2, <1>3

\* BulkEvict, the end of a request, its death, the TTL and the clock change
\* no row and bring no copy.
LEMMA BulkEvictKeepsIInv ==
    ASSUME IInv, NEW p \in Proc, BulkEvict(p)
    PROVE  IInv'
<1> USE DEF IInv, Answer, Goto, Carry, db, BulkEvict
<1>1. TypeOK'
    BY DEF TypeOK, Put, Stages
<1>2. StageCopies'
    BY DEF TypeOK, StageCopies, Stages
<1>3. FreshCopies
    BY CopiesHold DEF TypeOK, Put, FreshCopies, Holding
<1> QED BY <1>1, <1>2, <1>3, ReadKeepsIInv

LEMMA EndKeepsIInv ==
    ASSUME IInv, NEW p \in Proc, Hangup(p) \/ Die(p)
    PROVE  IInv'
<1> USE DEF IInv, Goto, Carry, db, Hangup, Die
<1>1. TypeOK'
    BY DEF TypeOK, Stages
<1>2. StageCopies'
    BY DEF TypeOK, StageCopies, Stages
<1>3. FreshCopies
    BY CopiesHold DEF TypeOK, FreshCopies, Holding
<1> QED BY <1>1, <1>2, <1>3, ReadKeepsIInv

LEMMA TimeKeepsIInv ==
    ASSUME IInv, Tick \/ \E a \in Aliases : CacheExpire(a)
    PROVE  IInv'
<1> USE DEF IInv, db, Tick, CacheExpire
<1>1. TypeOK'
    BY LinkCacheAssumption DEF TypeOK
<1>2. StageCopies'
    BY DEF StageCopies
<1>3. FreshCopies
    BY CopiesHold DEF TypeOK, FreshCopies
<1> QED BY <1>1, <1>2, <1>3, ReadKeepsIInv

\* Prune turns rows into nothing.
LEMMA PruneKeepsIInv == ASSUME IInv, Prune PROVE IInv'
<1> USE DEF IInv
<1>1. /\ \A i \in Ids : links'[i] = IF Prunable(i) THEN Gone ELSE links[i]
      /\ UNCHANGED <<cache, now, pc, patch, copy, todo, edits>>
    BY DEF Prune
<1>2. TypeOK'
    BY DEF Prune, TypeOK
<1>3. StageCopies'
    BY <1>1 DEF StageCopies
<1>4. RowIds' /\ Evolves
    BY <1>1, LinkCacheAssumption DEF RowIds, Evolves, Exists, Prunable
<1>5. FreshCopies
    BY <1>1, CopiesHold DEF FreshCopies
<1> QED BY <1>2, <1>3, <1>4, <1>5, StepKeepsIInv

-----------------------------------------------------------------------------
LEMMA InitIInv == ASSUME Init PROVE IInv
<1>1. TypeOK
    BY LinkCacheAssumption DEF Init, TypeOK, Stages
<1>2. StageCopies
    BY DEF Init, StageCopies
<1>3. RowIds
    BY DEF Init, RowIds, Exists
<1>4. Copies \subseteq {None}
    BY DEF Init, Copies, Holding
<1>5. CopiesAreVersions
    BY <1>4 DEF CopiesAreVersions
<1> QED BY <1>1, <1>2, <1>3, <1>5 DEF IInv

LEMMA NextIInv == ASSUME IInv, [Next]_vars PROVE IInv'
<1>1. CASE Next
    <2>1. ASSUME NEW p \in Proc, Begin(p) PROVE IInv'
        BY <2>1, ResolveKeepsIInv, CreateKeepsIInv, UpdateReadKeepsIInv, DeleteKeepsIInv,
           BulkWriteKeepsIInv DEF Begin
    <2>2. ASSUME NEW p \in Proc, Continue(p) PROVE IInv'
        BY <2>2, ResolveKeepsIInv, CreateFillKeepsIInv, UpdateWriteKeepsIInv,
           UpdateRereadKeepsIInv, DeleteWriteKeepsIInv, DeleteKeepsIInv, BulkEvictKeepsIInv,
           EndKeepsIInv DEF Continue
    <2>3. ASSUME NEW p \in Proc, Die(p) PROVE IInv'
        BY <2>3, EndKeepsIInv
    <2>4. ASSUME Environment PROVE IInv'
        BY <2>4, PruneKeepsIInv, TimeKeepsIInv DEF Environment
    <2> QED BY <1>1, <2>1, <2>2, <2>3, <2>4 DEF Next
<1>2. CASE UNCHANGED vars
    <2> USE <1>2 DEF vars
    <2>1. TypeOK' /\ StageCopies'
        BY DEF IInv, TypeOK, StageCopies
    <2>2. FreshCopies
        BY CopiesHold DEF FreshCopies
    <2> QED BY <2>1, <2>2, ReadKeepsIInv
<1> QED BY <1>1, <1>2

LEMMA Invariance == Spec => []IInv
<1>1. Init => IInv
    BY InitIInv
<1>2. IInv /\ [Next]_vars => IInv'
    BY NextIInv
<1> QED BY <1>1, <1>2, PTL DEF Spec

\* The state of every request, row and entry has its type.
THEOREM TypeCorrect == Spec => []TypeOK
<1>1. IInv => TypeOK
    BY DEF IInv
<1> QED BY <1>1, Invariance, PTL

\* Whatever interleaves, fails or dies, what is cached or answered is a state
\* of the link that the table held (LinkService.Update reads the row back).
THEOREM CopiesCorrect == Spec => []CopiesAreVersions
<1>1. IInv => CopiesAreVersions
    BY DEF IInv
<1> QED BY <1>1, Invariance, PTL

\* No statement changes a row once deleted_at is set, except the prune.
THEOREM RetiredLinksAreFinal == Spec => RetiredIsFinal
<1> DEFINE Final == \A i \in Ids :
               Exists(i) /\ links[i].retired => links'[i] \in {links[i], Gone}
<1>1. IInv /\ [Next]_vars => Final
    <2> SUFFICES ASSUME IInv, [Next]_vars, NEW i \in Ids, Exists(i), links[i].retired
                 PROVE  links'[i] \in {links[i], Gone}
        OBVIOUS
    <2> USE DEF IInv, TypeOK
    <2>1. ASSUME NEW p \in Proc, Begin(p) PROVE links'[i] \in {links[i], Gone}
        <3>1. ASSUME NEW j \in Ids, NEW a \in Aliases, NEW d \in Dests, NEW e \in Expiries,
                     Create(p, j, a, d, e)
              PROVE  links'[i] \in {links[i], Gone}
            BY <3>1 DEF Create, Exists
        <3>2. ASSUME NEW S \in SUBSET Ids, NEW c \in BulkChange, BulkWrite(p, S, c)
              PROVE  links'[i] \in {links[i], Gone}
            <4>1. ~Live(i)
                BY DEF Live
            <4> QED BY <3>2, <4>1 DEF BulkWrite
        <3> QED BY <2>1, <3>1, <3>2
                DEF Begin, ResolveHit, ResolveMiss, UpdateRead, DeleteRead, db
    <2>2. ASSUME NEW p \in Proc, Continue(p) PROVE links'[i] \in {links[i], Gone}
        BY <2>2 DEF Continue, ResolveRead, ResolveFill, CreateFill, UpdateWrite, UpdateReread,
                    UpdateFill, DeleteWrite, DeleteEvict, BulkEvict, Hangup, Live, db
    <2>3. ASSUME Environment PROVE links'[i] \in {links[i], Gone}
        BY <2>3 DEF Environment, Prune, Tick, CacheExpire, db
    <2> QED BY <2>1, <2>2, <2>3 DEF Next, Die, vars, db
<1>2. Spec => [][Final]_vars
    BY <1>1, Invariance, PTL DEF Spec
<1> QED BY <1>2 DEF RetiredIsFinal
=============================================================================
