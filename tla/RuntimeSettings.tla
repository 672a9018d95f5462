--------------------------- MODULE RuntimeSettings ---------------------------
(***************************************************************************)
(* The deployment-wide settings: one row of runtime_settings, and in every *)
(* API and worker process a RuntimeProvider with a snapshot of it, which   *)
(* is what the process acts on.                                            *)
(*                                                                         *)
(* Processes boot (seed the row, adopt TOTP_ENABLED into a column a        *)
(* migration left NULL, take a first snapshot), poll the row, and serve    *)
(* PUT (the whole document) and PATCH (some fields of an observed          *)
(* revision).  A statement against the database is one step; so are the    *)
(* load and the compare-and-swap of the snapshot pointer.  A snapshot      *)
(* stands for its pointer: publish only ever stores a greater revision, so *)
(* no pointer comes back.                                                  *)
(***************************************************************************)
EXTENDS Integers

CONSTANTS
    Procs,        \* processes; each polls in a goroutine of its own
    Requests,     \* request goroutines
    Home,         \* the process of each request
    Fields,       \* the settings
    Totp,         \* totp_enabled, the field migration 000019 adds as NULL
    Values,       \* values of a setting
    Off,          \* FALSE
    Null,         \* SQL NULL
    Env,          \* RuntimeDefaults of each process, from its environment
    Saved,        \* documents that operators PUT
    Changed,      \* the fields of a PATCH, with their new values
    MaxRevision,  \* bound on the saves
    None          \* no row, no snapshot, no patch

Tasks   == Procs \cup Requests
In(t)   == IF t \in Procs THEN t ELSE Home[t]
Doc     == [Fields -> Values]
Snapshot == [doc: Doc, rev: 1..MaxRevision]
Row     == [doc: [Fields -> Values \cup {Null}], rev: 1..MaxRevision]
Changes == UNION {[D -> Values] : D \in (SUBSET Fields) \ {{}}}
Patches == [changes: Changed, rev: 1..MaxRevision]

ASSUME RuntimeAssumption ==
    /\ Procs \cap Requests = {} /\ Home \in [Requests -> Procs]
    /\ Totp \in Fields /\ Off \in Values /\ Null \notin Values
    /\ Env \in [Procs -> Doc]
    /\ Saved \subseteq Doc
    /\ Changed \subseteq Changes
    /\ MaxRevision \in Nat \ {0}
    /\ None \notin Snapshot /\ None \notin Row /\ None \notin Patches

VARIABLES
    row,     \* runtime_settings, or None before the first boot
    boot,    \* how far each process has booted
    snap,    \* RuntimeProvider.current of each process
    pc,      \* how far each goroutine has got
    got,     \* the settings it has read, or been returned, and publishes
    seen,    \* the snapshot its publish loop has loaded
    patch    \* the patch it still has to write

vars  == <<row, boot, snap, pc, got, seen, patch>>
local == <<pc, got, seen, patch>>

TypeOK ==
    /\ row \in Row \cup {None}
    /\ boot \in [Procs -> {"down", "ensured", "adopted", "up"}]
    /\ snap \in [Procs -> Snapshot \cup {None}]
    /\ pc \in [Tasks -> {"idle", "load", "swap", "check", "reread", "answered"}]
    /\ got \in [Tasks -> Snapshot \cup {None}]
    /\ seen \in [Tasks -> Snapshot \cup {None}]
    /\ patch \in [Tasks -> Patches \cup {None}]

\* A fresh database, or one from before migration 000019.
Init ==
    /\ row \in {None} \cup {[doc |-> [d EXCEPT ![Totp] = Null], rev |-> 1] : d \in Doc}
    /\ boot = [p \in Procs |-> "down"]
    /\ snap = [p \in Procs |-> None]
    /\ pc = [t \in Tasks |-> "idle"]
    /\ got = [t \in Tasks |-> None]
    /\ seen = [t \in Tasks |-> None]
    /\ patch = [t \in Tasks |-> None]

-----------------------------------------------------------------------------
\* scanRuntimeSettings: NULL reads as off.
Scan == [doc |-> [f \in Fields |-> IF row.doc[f] = Null THEN Off ELSE row.doc[f]],
         rev |-> row.rev]

\* RuntimeSettingsPatch.Apply.
Apply(changes, doc) ==
    [f \in Fields |-> IF f \in DOMAIN changes THEN changes[f] ELSE doc[f]]

-----------------------------------------------------------------------------
(* NewRuntimeProvider                                                      *)

\* INSERT ... ON CONFLICT (id) DO NOTHING.
Ensure(p) ==
    /\ boot[p] = "down"
    /\ boot' = [boot EXCEPT ![p] = "ensured"]
    /\ row' = IF row = None THEN [doc |-> Env[p], rev |-> 1] ELSE row
    /\ UNCHANGED <<snap, local>>

\* Mutant of Adopt: the column is left NULL.
AdoptSkipped(p) ==
    /\ boot[p] = "ensured"
    /\ boot' = [boot EXCEPT ![p] = "adopted"]
    /\ UNCHANGED <<row, snap, local>>

\* UPDATE ... WHERE totp_enabled IS NULL; the revision stays.
Adopt(p) ==
    /\ boot[p] = "ensured"
    /\ boot' = [boot EXCEPT ![p] = "adopted"]
    /\ row' = IF row.doc[Totp] = Null
              THEN [doc |-> [row.doc EXCEPT ![Totp] = Env[p][Totp]], rev |-> row.rev]
              ELSE row
    /\ UNCHANGED <<snap, local>>

\* The first Refresh, before anybody else has the provider.
FirstRefresh(p) ==
    /\ boot[p] = "adopted"
    /\ boot' = [boot EXCEPT ![p] = "up"]
    /\ snap' = [snap EXCEPT ![p] = Scan]
    /\ UNCHANGED <<row, local>>

\* A boot fails or a process dies, and its goroutines with it.
Crash(p) ==
    /\ boot[p] # "down"
    /\ boot' = [boot EXCEPT ![p] = "down"]
    /\ snap' = [snap EXCEPT ![p] = None]
    /\ pc'   = [t \in Tasks |-> IF In(t) = p THEN "idle" ELSE pc[t]]
    /\ got'  = [t \in Tasks |-> IF In(t) = p THEN None ELSE got[t]]
    /\ seen' = [t \in Tasks |-> IF In(t) = p THEN None ELSE seen[t]]
    /\ patch' = [t \in Tasks |-> IF In(t) = p THEN None ELSE patch[t]]
    /\ UNCHANGED row

-----------------------------------------------------------------------------
(* RuntimeProvider.publish                                                 *)

Goto(t, stage) == pc' = [pc EXCEPT ![t] = stage]

\* Begin to publish s; what is left to do afterwards is in patch.
Publish(t, s, rest) ==
    /\ Goto(t, "load")
    /\ got'   = [got EXCEPT ![t] = s]
    /\ patch' = [patch EXCEPT ![t] = rest]
    /\ UNCHANGED seen

\* publish returns: the poller waits for its next tick, a request goes on.
Published(t) ==
    /\ Goto(t, IF t \in Procs THEN "idle" ELSE IF patch[t] # None THEN "check" ELSE "answered")
    /\ got' = IF t \in Procs THEN [got EXCEPT ![t] = None] ELSE got

\* Mutant of Load: no comparison of revisions, the latest call wins.
LoadUnordered(t) ==
    /\ pc[t] = "load"
    /\ Goto(t, "swap") /\ seen' = [seen EXCEPT ![t] = snap[In(t)]]
    /\ UNCHANGED <<row, boot, snap, got, patch>>

Load(t) ==
    /\ pc[t] = "load"
    /\ IF snap[In(t)].rev >= got[t].rev
       THEN Published(t) /\ UNCHANGED seen
       ELSE Goto(t, "swap") /\ seen' = [seen EXCEPT ![t] = snap[In(t)]] /\ UNCHANGED got
    /\ UNCHANGED <<row, boot, snap, patch>>

\* Mutant of Swap: given up when another goroutine has published meanwhile.
SwapOnce(t) ==
    /\ pc[t] = "swap"
    /\ snap' = IF snap[In(t)] = seen[t] THEN [snap EXCEPT ![In(t)] = got[t]] ELSE snap
    /\ Published(t) /\ seen' = [seen EXCEPT ![t] = None]
    /\ UNCHANGED <<row, boot, patch>>

Swap(t) ==
    /\ pc[t] = "swap"
    /\ IF snap[In(t)] = seen[t]
       THEN snap' = [snap EXCEPT ![In(t)] = got[t]] /\ Published(t)
       ELSE Goto(t, "load") /\ UNCHANGED <<snap, got>>
    /\ seen' = [seen EXCEPT ![t] = None]
    /\ UNCHANGED <<row, boot, patch>>

-----------------------------------------------------------------------------
(* Polling and requests                                                    *)

Idle(t) == pc[t] = "idle" /\ boot[In(t)] = "up"

\* Mutant of Refresh: the poller stops (a fatal error instead of a retry).
RefreshNever(p) == FALSE /\ Idle(p) /\ UNCHANGED vars

\* A tick of Start.  (A failed read leaves everything as it is.)
Refresh(p) ==
    /\ Idle(p)
    /\ Publish(p, Scan, None)
    /\ UNCHANGED <<row, boot, snap>>

Save(doc) == row.rev < MaxRevision /\ row' = [doc |-> doc, rev |-> row.rev + 1]

\* The whole document, whatever the revision: UPDATE ... RETURNING.  The
\* reply of the database may get lost.
Put(t, doc) ==
    /\ Idle(t) /\ Save(doc)
    /\ \/ Publish(t, [doc |-> doc, rev |-> row.rev + 1], None)
       \/ UNCHANGED local
    /\ UNCHANGED <<boot, snap>>

\* Patch: the read it starts from is published first.
PatchRead(t, r) ==
    /\ Idle(t) /\ r.rev <= row.rev
    /\ Publish(t, Scan, r)
    /\ UNCHANGED <<row, boot, snap>>

Refuse(t) ==
    /\ Goto(t, "idle")
    /\ got'   = [got EXCEPT ![t] = None]
    /\ patch' = [patch EXCEPT ![t] = None]
    /\ UNCHANGED seen

PatchStale(t) ==
    /\ pc[t] = "check" /\ got[t].rev # patch[t].rev
    /\ Refuse(t)
    /\ UNCHANGED <<row, boot, snap>>

\* Mutant of PatchWrite: no "revision=$22" in the UPDATE.
PatchWriteBlind(t) ==
    /\ pc[t] = "check" /\ got[t].rev = patch[t].rev
    /\ LET doc == Apply(patch[t].changes, got[t].doc)
       IN  Save(doc) /\ Publish(t, [doc |-> doc, rev |-> row.rev + 1], None)
    /\ UNCHANGED <<boot, snap>>

\* Mutant of PatchWrite: the changes alone are written.
PatchWriteBare(t) ==
    /\ pc[t] = "check" /\ got[t].rev = patch[t].rev /\ row.rev = patch[t].rev
    /\ Save(patch[t].changes)
    /\ Publish(t, [doc |-> patch[t].changes, rev |-> row.rev + 1], None)
    /\ UNCHANGED <<boot, snap>>

\* CompareAndSwapRuntimeSettings: the merged document, if the revision stands.
PatchWrite(t) ==
    /\ pc[t] = "check" /\ got[t].rev = patch[t].rev
    /\ row.rev = patch[t].rev
    /\ LET doc == Apply(patch[t].changes, got[t].doc)
       IN  /\ Save(doc)
           /\ Publish(t, [doc |-> doc, rev |-> row.rev + 1], None) \/ Refuse(t)
    /\ UNCHANGED <<boot, snap>>

PatchConflict(t) ==
    /\ pc[t] = "check" /\ got[t].rev = patch[t].rev
    /\ row.rev # patch[t].rev
    /\ Goto(t, "reread")
    /\ UNCHANGED <<row, boot, snap, got, seen, patch>>

\* The Refresh of a refused patch.
PatchReread(t) ==
    /\ pc[t] = "reread"
    /\ Publish(t, Scan, None)
    /\ UNCHANGED <<row, boot, snap>>

\* A statement fails: the request is answered with an error.
PatchError(t) ==
    /\ pc[t] \in {"check", "reread"}
    /\ Refuse(t)
    /\ UNCHANGED <<row, boot, snap>>

\* The request is over.
Done(t) ==
    /\ pc[t] = "answered"
    /\ Refuse(t)
    /\ UNCHANGED <<row, boot, snap>>

-----------------------------------------------------------------------------
Advance(t) ==
    \/ Load(t) \/ Swap(t) \/ Done(t)
    \/ PatchStale(t) \/ PatchWrite(t) \/ PatchConflict(t) \/ PatchReread(t)

Next ==
    \/ \E p \in Procs : Ensure(p) \/ Adopt(p) \/ FirstRefresh(p) \/ Crash(p) \/ Refresh(p)
    \/ \E t \in Tasks : Advance(t)
    \/ \E t \in Requests :
          \/ \E doc \in Saved : Put(t, doc)
          \/ \E r \in Patches : PatchRead(t, r)
          \/ PatchError(t)

\* Tickers tick and a goroutine that can go on does.  Nothing makes a process
\* boot, or an operator save.
Fairness == \A p \in Procs : WF_vars(Refresh(p)) /\ WF_vars(Advance(p))

Spec == Init /\ [][Next]_vars
FairSpec == Spec /\ Fairness

-----------------------------------------------------------------------------
(* Properties                                                              *)

Copies == {snap[p] : p \in Procs} \cup {got[t] : t \in Tasks}
              \cup {seen[t] : t \in Tasks}

\* A revision names one document: what processes act on is a state of the row,
\* not ahead of it, and all agree on each revision.  (AdoptTOTPDefault changes
\* the row without a new revision, so it must be over before anybody reads.)
OneDocumentPerRevision ==
    /\ \A s \in Copies \ {None} :
          row # None /\ s.rev <= row.rev /\ (s.rev = row.rev => s.doc = row.doc)
    /\ \A s, t \in Copies \ {None} : s.rev = t.rev => s = t

\* A process never goes back to older settings while it runs ("a slow refresh
\* or response must not replace a newer successful write").
NeverBack == [][\A p \in Procs :
    snap[p] # None /\ snap'[p] # None => snap'[p].rev >= snap[p].rev]_vars

\* A save that has been answered is what its process acts on, or something
\* newer ("the API updates its own snapshot immediately").
ReadYourWrites == \A t \in Tasks :
    pc[t] = "answered" => snap[In(t)].rev >= got[t].rev

\* A patch changes the fields it names and no other, whatever was saved between
\* its read and its write.
PatchKeepsOthers == [][\A t \in Requests : PatchWrite(t) =>
    \A f \in Fields \ DOMAIN patch[t].changes : row'.doc[f] = row.doc[f]]_vars

\* The inductive invariant.  A process has a snapshot exactly while it is up, and
\* once a process has adopted, the row has no NULL any more ...
Booted == \A p \in Procs :
    /\ boot[p] # "down" => row # None
    /\ boot[p] \in {"adopted", "up"} => row.doc[Totp] # Null
    /\ snap[p] # None <=> boot[p] = "up"
Stored == row # None => \A f \in Fields \ {Totp} : row.doc[f] # Null

\* ... a goroutine works in a process that is up, only ever swaps an older
\* snapshot for a newer one, and leaves publish with its settings, or newer
\* ones, in force.
Working == \A t \in Tasks :
    /\ pc[t] = "idle" <=> got[t] = None
    /\ pc[t] # "idle" => boot[In(t)] = "up"
    /\ pc[t] = "swap" <=> seen[t] # None
    /\ pc[t] = "swap" => seen[t].rev < got[t].rev
    /\ pc[t] \in {"check", "reread", "answered"} => snap[In(t)].rev >= got[t].rev
    /\ pc[t] \in {"check", "reread"} => patch[t] # None

IInv == TypeOK /\ Booted /\ Stored /\ Working /\ OneDocumentPerRevision

\* Once nobody saves, every running process comes to act on the saved row.
Converges == <>[](\A p \in Procs : boot[p] = "up" => snap[p].rev = row.rev)
=============================================================================
