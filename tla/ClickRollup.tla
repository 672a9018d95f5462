----------------------------- MODULE ClickRollup -----------------------------
(***************************************************************************)
(* Recording of visits by the API, and the aggregate and prune loops of    *)
(* the worker processes.                                                   *)
(*                                                                         *)
(* A rollup is one transaction: lock the oldest pending visits that nobody *)
(* else has locked, upsert one daily row per link and day in the random    *)
(* order of a Go map, mark the visits, commit.  A prune is one DELETE:     *)
(* it locks the link rows one by one, then its cascades lock their visits  *)
(* and daily rows.  Both hold their row locks to the end, so they          *)
(* can wait on each other in a circle; PostgreSQL then aborts one of them. *)
(* Changes of an open transaction are invisible, so the tables change when *)
(* it commits and the variables below keep what it holds until then.       *)
(***************************************************************************)
EXTENDS ClickTables

CONSTANTS
    Workers,     \* worker processes (each runs one aggregateLoop)
    Pruner,      \* the pruneLoop of one of them
    Batch,       \* visits per rollup, 500 in the code
    PruneLimit,  \* links per prune
    MaxPrunes,   \* bound on the prunes started: rollups run every few seconds, prunes hourly
    MaxFaults,   \* bound on the transactions lost to crashes and broken connections
    None         \* not waiting for anything

ASSUME RollupAssumption ==
    /\ Batch \in Nat \ {0} /\ PruneLimit \in Nat /\ MaxPrunes \in Nat /\ MaxFaults \in Nat
    /\ Pruner \notin Workers
    /\ None \notin Keys /\ None \notin Links \cup Events /\ Links \cap Events = {}

VARIABLES
    pc,       \* how far each worker's rollup has got
    batch,    \* the visits it has locked
    added,    \* the daily rows it has upserted, hence locked
    want,     \* the daily row its current upsert is for
    ahead,    \* the workers that came to that row before it and are still there
    doomed,   \* the links the prune's subquery selected
    claimed,  \* those whose row it has locked
    swept,    \* the visits it has deleted
    aim,      \* the link row or visit it is about to lock
    prunes,   \* prunes started so far
    faults    \* transactions lost so far

rollup == <<pc, batch, added, want, ahead>>
prune  == <<doomed, claimed, swept, aim, prunes>>
vars   == <<exists, state, clicks, bots, pc, batch, added, want, ahead,
            doomed, claimed, swept, aim, prunes, faults>>

Stages == {"idle", "upserting", "marked"}
Actors == Workers \cup {Pruner}

TypeOK ==
    /\ exists \subseteq Links
    /\ state \in [Events -> {"unborn", "pending", "done", "gone"}]
    /\ clicks \in [Keys -> Nat] /\ bots \in [Keys -> Nat]
    /\ pc \in [Workers -> Stages]
    /\ batch \in [Workers -> SUBSET Events]
    /\ added \in [Workers -> SUBSET Keys]
    /\ want \in [Workers -> Keys \cup {None}]
    /\ ahead \in [Workers -> SUBSET Workers]
    /\ doomed \subseteq Links /\ claimed \subseteq doomed
    /\ swept \subseteq Events
    /\ aim \in doomed \cup Events \cup {None}
    /\ prunes \in 0..MaxPrunes /\ faults \in 0..MaxFaults

Init ==
    /\ InitTables
    /\ pc = [w \in Workers |-> "idle"]
    /\ batch = [w \in Workers |-> {}]
    /\ added = [w \in Workers |-> {}]
    /\ want = [w \in Workers |-> None]
    /\ ahead = [w \in Workers |-> {}]
    /\ doomed = {} /\ claimed = {} /\ swept = {} /\ aim = None
    /\ prunes = 0 /\ faults = 0

-----------------------------------------------------------------------------
(* Row locks and waiting                                                   *)

\* Rows of click_events an open transaction has locked or deleted.
Locked(e) == e \in swept \/ \E w \in Workers : e \in batch[w]

\* An upsert that inserts checks the foreign key, which locks the link's row
\* against deletion; one that updates does not.
Inserts(k)  == clicks[k] = 0
KeyShare(w) == {k[1] : k \in {j \in added[w] : Inserts(j)}}

\* The transactions the current statement of an actor waits for: those that
\* hold the row, or that came first to wait for it.
BlockersOf(w) ==
    IF want[w] = None THEN {}
    ELSE {v \in Workers \ {w} : want[w] \in added[v]} \cup ahead[w]
         \cup {x \in {Pruner} : Inserts(want[w]) /\ want[w][1] \in claimed}

PruneBlockers ==
    IF aim = None THEN {}
    ELSE {w \in Workers : aim \in KeyShare(w) \cup batch[w]}

WaitsFor(x) == IF x = Pruner THEN PruneBlockers ELSE BlockersOf(x)

\* A circle of transactions, each waiting for another one of the circle.
Circle(S)  == S # {} /\ \A x \in S : WaitsFor(x) \cap S # {}
Deadlocked(x) == \E S \in SUBSET Actors :
    x \in S /\ Circle(S) /\ \A T \in SUBSET S : Circle(T) => T = S

-----------------------------------------------------------------------------
(* The API                                                                 *)

\* RecordClick at a redirect.  The foreign key check waits for a prune that has
\* claimed the link; on a failure or after 200 ms the visit is not recorded.
RecordClick(e) ==
    /\ LinkOf[e] \notin claimed
    /\ Insert(e)
    /\ UNCHANGED <<rollup, prune, faults>>

-----------------------------------------------------------------------------
(* AggregateClicks                                                         *)

Oldest(S) == {e \in S : Cardinality({f \in S : f < e}) < Batch}

\* Mutant of SelectPending: no FOR UPDATE SKIP LOCKED.
SelectUnlocked(w) ==
    /\ pc[w] = "idle" /\ Pending # {}
    /\ batch' = [batch EXCEPT ![w] = Oldest(Pending)]
    /\ pc' = [pc EXCEPT ![w] = "upserting"]
    /\ UNCHANGED <<tables, added, want, ahead, prune, faults>>

\* SELECT ... ORDER BY occurred_at LIMIT ... FOR UPDATE SKIP LOCKED.
SelectPending(w) ==
    /\ pc[w] = "idle"
    /\ LET free == {e \in Pending : ~Locked(e)}
       IN  /\ free # {}
           /\ batch' = [batch EXCEPT ![w] = Oldest(free)]
    /\ pc' = [pc EXCEPT ![w] = "upserting"]
    /\ UNCHANGED <<tables, added, want, ahead, prune, faults>>

Leave(w) == ahead' = [v \in Workers |-> IF v = w THEN {} ELSE ahead[v] \ {w}]

Remaining(w) == {KeyOf(e) : e \in batch[w]} \ added[w]

\* The next key of "range counts", a map.
NextKey(w, k) ==
    /\ pc[w] = "upserting" /\ want[w] = None
    /\ k \in Remaining(w)
    /\ want' = [want EXCEPT ![w] = k]
    /\ ahead' = [ahead EXCEPT ![w] = {v \in Workers : want[v] = k}]
    /\ UNCHANGED <<tables, pc, batch, added, prune, faults>>

\* INSERT ... ON CONFLICT DO UPDATE SET clicks = clicks + EXCLUDED.clicks.
Upsert(w) ==
    /\ want[w] # None /\ BlockersOf(w) = {}
    /\ added' = [added EXCEPT ![w] = @ \cup {want[w]}]
    /\ want'  = [want EXCEPT ![w] = None] /\ Leave(w)
    /\ UNCHANGED <<tables, pc, batch, prune, faults>>

\* UPDATE click_events SET processed_at.
MarkProcessed(w) ==
    /\ pc[w] = "upserting" /\ want[w] = None /\ Remaining(w) = {}
    /\ pc' = [pc EXCEPT ![w] = "marked"]
    /\ UNCHANGED <<tables, batch, added, want, ahead, prune, faults>>

\* The transaction has ended, and its locks with it.
EndRollup(w) ==
    /\ pc'    = [pc EXCEPT ![w] = "idle"]
    /\ batch' = [batch EXCEPT ![w] = {}]
    /\ added' = [added EXCEPT ![w] = {}]
    /\ want'  = [want EXCEPT ![w] = None] /\ Leave(w)
    /\ UNCHANGED prune

Commit(w) ==
    /\ pc[w] = "marked"
    /\ RollUp(batch[w])
    /\ EndRollup(w)
    /\ UNCHANGED faults

\* Mutant of Rollback: no deferred tx.Rollback, so an error leaves the visits locked.
RollbackForgotten(w) ==
    /\ pc[w] # "idle" /\ pc' = [pc EXCEPT ![w] = "idle"]
    /\ want' = [want EXCEPT ![w] = None] /\ Leave(w)
    /\ UNCHANGED <<tables, batch, added, prune>>

Rollback(w) == pc[w] # "idle" /\ EndRollup(w) /\ UNCHANGED tables

-----------------------------------------------------------------------------
(* PruneExpiredLinks.  Which links have been expired for long enough is up *)
(* to their owners: any link may be.                                       *)

PruneStart(D) ==
    /\ doomed = {} /\ D # {} /\ Cardinality(D) <= PruneLimit
    /\ prunes < MaxPrunes /\ prunes' = prunes + 1
    /\ doomed' = D
    /\ UNCHANGED <<tables, claimed, swept, aim, rollup, faults>>

\* Deleting an unprocessed visit may have to wait for a rollup.  (Deleting a
\* processed one or a daily row never has to, once these are deleted.)
Unswept == {e \in Pending : LinkOf[e] \in doomed} \ swept

\* The DELETE turns to the next link row or, through its triggers, visit.
PruneAim(x) ==
    /\ aim = None
    /\ x \in IF claimed = doomed THEN Unswept ELSE doomed \ claimed
    /\ aim' = x
    /\ UNCHANGED <<tables, doomed, claimed, swept, rollup, prunes, faults>>

PruneClaim ==
    /\ aim \in Links /\ PruneBlockers = {}
    /\ claimed' = claimed \cup {aim} /\ aim' = None
    /\ UNCHANGED <<tables, doomed, swept, rollup, prunes, faults>>

PruneSweep ==
    /\ aim \in Events /\ PruneBlockers = {}
    /\ swept' = swept \cup {aim} /\ aim' = None
    /\ UNCHANGED <<tables, doomed, claimed, rollup, prunes, faults>>

\* Mutant of EndPrune: the claims outlive the transaction.
EndPruneKeepingClaims ==
    /\ doomed' = {} /\ swept' = {} /\ aim' = None
    /\ UNCHANGED <<claimed, rollup, prunes>>

EndPrune ==
    /\ doomed' = {} /\ claimed' = {} /\ swept' = {} /\ aim' = None
    /\ UNCHANGED <<rollup, prunes>>

PruneCommit ==
    /\ doomed # {} /\ claimed = doomed /\ Unswept = {}
    /\ Remove(doomed)
    /\ EndPrune
    /\ UNCHANGED faults

PruneRollback == doomed # {} /\ EndPrune /\ UNCHANGED tables

-----------------------------------------------------------------------------
\* PostgreSQL's deadlock detector aborts one transaction of a circle; the loop
\* logs the error and tries again at its next tick.
AbortVictim ==
    /\ \/ \E w \in Workers : Deadlocked(w) /\ Rollback(w)
       \/ Deadlocked(Pruner) /\ PruneRollback
    /\ UNCHANGED faults

\* A worker process dies or loses its connection, and restarts.
Fault ==
    /\ faults < MaxFaults /\ faults' = faults + 1
    /\ PruneRollback \/ \E w \in Workers : Rollback(w)

Advance(w) ==
    SelectPending(w) \/ (\E k \in Keys : NextKey(w, k)) \/ MarkProcessed(w) \/ Commit(w)

PruneAdvance == (\E x \in Links \cup Events : PruneAim(x)) \/ PruneCommit

Next ==
    \/ \E e \in Events : RecordClick(e)
    \/ \E w \in Workers : Advance(w) \/ Upsert(w)
    \/ \E D \in SUBSET exists : PruneStart(D)
    \/ PruneAdvance \/ PruneClaim \/ PruneSweep
    \/ AbortVictim \/ Fault

\* The tickers keep starting rollups, and the database keeps executing the
\* statements that need not wait, resolves deadlocks, and hands a row that a
\* rollup releases to the prune waiting for it before rollups can take it again
\* and again.  Nothing makes links expire or visitors come.
Fairness ==
    /\ \A w \in Workers : WF_vars(Advance(w) \/ Upsert(w))
    /\ WF_vars(PruneAdvance) /\ SF_vars(PruneClaim \/ PruneSweep)
    /\ WF_vars(AbortVictim)

Spec == Init /\ [][Next]_vars
FairSpec == Spec /\ Fairness

-----------------------------------------------------------------------------
(* Properties                                                              *)

\* No visit is in two open rollups (FOR UPDATE SKIP LOCKED).
BatchesDisjoint == \A v, w \in Workers : v # w => batch[v] \cap batch[w] = {}

\* What a rollup has locked is still there to be counted: pending, not deleted
\* by a prune, its link still in the table.
BatchStands == \A w \in Workers : \A e \in batch[w] :
    state[e] = "pending" /\ LinkOf[e] \in exists /\ e \notin swept

\* A pending visit and a doomed link are rows of the tables.
RowsStand ==
    /\ \A e \in Pending : LinkOf[e] \in exists
    /\ doomed \subseteq exists

\* The inductive invariant.
IInv == TypeOK /\ Tally /\ BatchesDisjoint /\ BatchStands /\ RowsStand

\* Concurrent rollups and prunes do what one-step counting and removal would.
Ledger == INSTANCE ClickLedger WITH
    exists <- exists, state <- state, clicks <- clicks, bots <- bots
ImplementsLedger == Ledger!Spec

\* Every recorded visit comes to be counted or goes with its link, whatever
\* transactions deadlock, crash or are retried.
EveryVisitCounted == \A e \in Events :
    state[e] = "pending" ~> state[e] \in {"done", "gone"}
=============================================================================
