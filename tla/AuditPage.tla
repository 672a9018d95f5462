------------------------------ MODULE AuditPage ------------------------------
(***************************************************************************)
(* The audit trail (web/src/app/home/audit/page.tsx): a filtered, paged    *)
(* list that others add to, and that may be pruned, while it is read.      *)
(***************************************************************************)
EXTENDS ListPage

CONSTANTS Kinds,        \* the actions recorded, e.g. "link.create"
          KindOf,       \* the action of each entry that will ever be recorded
          MaxEntries

AllActions == "all"

PageState ==
    [rows : Seq(1 .. MaxEntries), total : 0 .. MaxEntries, page : 0 .. MaxEntries,
     filter : Kinds \cup {AllActions}, error : {"", "load"}, loading : BOOLEAN]

Mounted == [rows |-> <<>>, total |-> 0, page |-> 0, filter |-> AllActions,
            error |-> "", loading |-> TRUE]

\* db: the entries in the table, and the identifier of the next.
Init ==
    /\ db \in [live : {1 .. n : n \in 0 .. MaxEntries - 1}, next : {MaxEntries}]
    /\ ui = Mounted
    /\ clicks = 0
    /\ calls = <<Call("list", Asked(Mounted), Effect)>>

-----------------------------------------------------------------------------
(* The API and the other users.                                            *)

\* Newest first, those of one action when the filter names one.
Matching(filter) == Descending({e \in db.live : filter \in {AllActions, KindOf[e]}})

Serve(i) ==
    /\ calls[i].st = "sent"
    /\ \E all \in Matching(calls[i].arg.filter) :
           calls' = Served(i, Ok([rows |-> Slice(all, calls[i].arg.page), total |-> Len(all)]))
    /\ UNCHANGED <<ui, db>>

\* Something else is recorded, or the oldest entry is pruned.
OthersRecord ==
    /\ db.next \notin db.live
    /\ db' = [db EXCEPT !.live = @ \cup {db.next}]
    /\ UNCHANGED <<ui, calls>>

Prune ==
    /\ \E oldest \in db.live :
           /\ \A e \in db.live : oldest <= e
           /\ db' = [db EXCEPT !.live = @ \ {oldest}]
    /\ UNCHANGED <<ui, calls>>

-----------------------------------------------------------------------------
(* The page.                                                               *)

\* An answer to load(): rows, a step back from an empty page, or an error.
Loaded(u, c, a) ==
    LET done == [u EXCEPT !.loading = FALSE]
    IN  IF ~a.ok THEN [done EXCEPT !.error = "load"]
        ELSE IF a.data.rows = <<>> /\ c.arg.page > 0 THEN StepBack(done)
        ELSE [done EXCEPT !.rows = a.data.rows, !.total = a.data.total, !.error = ""]

Deliver(i) ==
    /\ \E a \in Answers(i) : Show(Render(Loaded(ui, calls[i], a), Rest(i)))
    /\ UNCHANGED db

ChooseAction(f) ==
    /\ f # ui.filter
    /\ Show(Render([ui EXCEPT !.filter = f, !.page = 0], calls))
    /\ UNCHANGED db

\* Retry appears with the error and stays enabled while a load is under way.
Retry ==
    /\ ui.error # ""
    /\ Show(Load(ui, calls, Asked(ui), Effect))
    /\ UNCHANGED db

Previous ==
    /\ ui.page > 0 /\ ~ui.loading
    /\ Show(Render(StepBack(ui), calls))
    /\ UNCHANGED db

NextPage ==
    /\ ui.page + 1 < PageCount(ui) /\ ~ui.loading
    /\ Show(Render([ui EXCEPT !.page = @ + 1], calls))
    /\ UNCHANGED db

Click == \/ \E f \in Kinds \cup {AllActions} : ChooseAction(f)
         \/ Retry \/ Previous \/ NextPage

Waiting == ui.loading

Next ==
    \/ UserActs /\ Click
    \/ /\ \/ \E i \in DOMAIN calls : Serve(i) \/ Deliver(i)
          \/ OthersRecord \/ Prune
       /\ UNCHANGED clicks

-----------------------------------------------------------------------------
TypeOK ==
    /\ ui \in PageState
    /\ db.live \subseteq 1 .. MaxEntries
=============================================================================
