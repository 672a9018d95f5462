---------------------------- MODULE DashboardPage -----------------------------
(***************************************************************************)
(* The overview (web/src/app/home/page.tsx): three calls settle together,  *)
(* and the numbers, the links and the verdict on the service are shown at  *)
(* once.  A change of language loads again while a load is under way.      *)
(***************************************************************************)
EXTENDS ConsoleCalls

Mounted == [stats |-> FALSE, links |-> FALSE, readiness |-> "", error |-> FALSE, loading |-> TRUE]

\* db: whether the database answers; the probe says "degraded" when it does not.
Init ==
    /\ db \in BOOLEAN
    /\ ui = Mounted
    /\ calls = <<Get("load", Effect)>>
    /\ clicks = 0

\* The database goes down or comes back.
Outage == db' = ~db /\ UNCHANGED <<ui, calls>>

\* The state of the API is read as the answers leave.
Serve(i) ==
    /\ calls[i].st = "sent"
    /\ \E summary, page \in {b \in BOOLEAN : b => db} :
           calls' = Served(i, Ok([summary |-> summary, page |-> page,
                                  probe |-> IF db THEN "ready" ELSE "degraded"]))
    /\ UNCHANGED <<ui, db>>

-----------------------------------------------------------------------------
Load ==
    Send([ui EXCEPT !.loading = TRUE, !.readiness = "", !.error = FALSE], Get("load", Effect))

\* allSettled: numbers and links need both calls, the verdict only its own.
\* Mutant of Settled: the rejected half is passed over in silence.
SettledSilently(a) ==
    LET shown == IF a.summary /\ a.page THEN [ui EXCEPT !.stats = TRUE, !.links = TRUE] ELSE ui
    IN  [shown EXCEPT !.readiness = a.probe, !.loading = FALSE]

Settled(a) ==
    LET both  == a.summary /\ a.page
        shown == IF both THEN [ui EXCEPT !.stats = TRUE, !.links = TRUE]
                 ELSE [ui EXCEPT !.error = TRUE]
    IN  [shown EXCEPT !.readiness = a.probe, !.loading = FALSE]

\* Any of the three connections may break as well.
Broken == [summary |-> FALSE, page |-> FALSE, probe |-> "unreachable"]
Partly(a) ==
    {[summary |-> s, page |-> p, probe |-> v] :
        s \in {FALSE, a.summary}, p \in {FALSE, a.page}, v \in {"unreachable", a.probe}}

Deliver(i) ==
    /\ \E a \in {Broken} \cup (IF calls[i].st = "served" THEN Partly(calls[i].res.data) ELSE {}) :
           Show([u |-> Settled(a), cs |-> Rest(i)])
    /\ UNCHANGED db

Retry == ui.error /\ Load
ChangeLanguage == Load

Click == (Retry \/ ChangeLanguage) /\ UNCHANGED db
Waiting == ui.loading

Next ==
    \/ UserActs /\ (Click \/ Outage)
    \/ (\E i \in DOMAIN calls : Serve(i) \/ Deliver(i)) /\ UNCHANGED clicks

(* The cards: skeletons, a number, or "unavailable"; the list: skeletons,  *)
(* the links, "unavailable", or the invitation to create the first.        *)
Number == IF ui.loading THEN "skeleton" ELSE IF ui.error THEN "unavailable"
          ELSE IF ui.stats THEN "number" ELSE "zero"
Recent == IF ui.loading THEN "skeleton" ELSE IF ui.links THEN "links"
          ELSE IF ui.error THEN "unavailable" ELSE "empty"
Verdict == IF ui.loading THEN "skeleton" ELSE IF ui.readiness = "" THEN "checking" ELSE ui.readiness
-----------------------------------------------------------------------------
TypeOK ==
    /\ db \in BOOLEAN /\ {ui.stats, ui.links, ui.error, ui.loading} \subseteq BOOLEAN
    /\ ui.readiness \in {"", "ready", "degraded", "unreachable"}

\* home/page.tsx:69-72: a zero is a real answer, so it is never shown for want of
\* one; nor is "no links yet" (the model's database has both).
ZeroIsAnswered == Number # "zero" /\ Recent # "empty" /\ Verdict # "checking"
=============================================================================
