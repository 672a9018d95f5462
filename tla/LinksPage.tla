------------------------------ MODULE LinksPage ------------------------------
(***************************************************************************)
(* The list of links (web/src/app/home/links/page.tsx): search with a      *)
(* debounce, filters, paging, a selection with bulk actions, deletion row  *)
(* by row behind DeleteButton, and CSV import and export.  A handler that  *)
(* awaits goes on with the closure of the render that started it, so the   *)
(* list a handler asks for again is the list of that render.               *)
(***************************************************************************)
EXTENDS ListPage

CONSTANTS Ids,          \* links that exist or may be imported, 1 .. n
          Offered,      \* the values of each control: status, tag, sort
          Searches,     \* what may be typed, "" included
          Hits,         \* Hits[s]: the links a search for s finds
          Actions       \* the bulk actions offered

\* A DeleteButton: its confirmation closed, open, at work or failed; closed with the
\* Escape key while at work, or failed after that with nobody looking.
ButtonStates == {"closed", "armed", "busy", "failed", "left", "unseen"}
NoneArmed == [id \in Ids |-> "closed"]
LinkStates == {"active", "disabled", "gone", "unborn"}

Mounted ==
    [rows |-> <<>>, total |-> 0, page |-> 0, loading |-> TRUE, error |-> "",
     filter |-> [status |-> "all", tag |-> "", sort |-> "created_at_desc", text |-> ""],
     search |-> "", typing |-> TRUE, busy |-> FALSE, report |-> FALSE,
     selected |-> {}, action |-> "disable", value |-> FALSE,
     bulkDel |-> "closed", rowDel |-> NoneArmed]

\* db: the status of each link; what an import may create is unborn.
Init ==
    /\ db \in {d \in [Ids -> {"active", "unborn"}] : d[1] = "active"}
    /\ ui = Mounted
    /\ clicks = 0
    /\ calls = <<Call("list", Asked(Mounted), Effect)>>

-----------------------------------------------------------------------------
(* The API.                                                                *)

Live == {id \in Ids : db[id] \notin {"gone", "unborn"}}

Matching(f) ==
    LET wanted == {id \in Live \cap Hits[f.text] : f.status \in {"all", db[id]}}
    IN  IF f.sort = "created_at_desc" THEN Descending(wanted) ELSE Ascending(wanted)

\* Links of the caller that are gone already are skipped, not refused.
AfterBulk(action, ids) ==
    [id \in Ids |->
        IF id \notin ids \cap Live THEN db[id]
        ELSE CASE action = "delete" -> "gone" [] action = "disable" -> "disabled"
               [] action = "enable" -> "active" [] OTHER -> db[id]]

ServeList(i) ==
    /\ calls[i].op = "list"
    /\ \E all \in Matching(calls[i].arg.filter) :
           calls' = Served(i, Ok([rows |-> Slice(all, calls[i].arg.page), total |-> Len(all)]))
    /\ UNCHANGED db

ServeRemove(i) ==
    /\ calls[i].op = "remove"
    /\ LET id == calls[i].arg.id
       IN  IF id \in Live
           THEN /\ calls' = Served(i, Ok([n |-> 1]))
                /\ db' = [db EXCEPT ![id] = "gone"]
           ELSE /\ calls' = Served(i, Refused("not_found"))
                /\ UNCHANGED db

ServeBulk(i) ==
    /\ calls[i].op = "bulk"
    /\ calls' = Served(i, Ok([n |-> Cardinality(calls[i].arg.ids \cap Live)]))
    /\ db' = AfterBulk(calls[i].arg.action, calls[i].arg.ids)

\* Each row of the file is created, or named in the report with its reason.
ServeImport(i) ==
    /\ calls[i].op = "import"
    /\ \E created \in SUBSET {id \in Ids : db[id] = "unborn"} :
           /\ calls' = Served(i, Ok([n |-> Cardinality(created)]))
           /\ db' = [id \in Ids |-> IF id \in created THEN "active" ELSE db[id]]

ServeOther(i) ==
    /\ calls[i].op \in {"tags", "export"}
    /\ calls' = Served(i, Ok([n |-> 0]))
    /\ UNCHANGED db

Serve(i) ==
    /\ calls[i].st = "sent"
    /\ ServeList(i) \/ ServeRemove(i) \/ ServeBulk(i) \/ ServeImport(i) \/ ServeOther(i)
    /\ UNCHANGED ui

-----------------------------------------------------------------------------
(* What a render keeps mounted: the bulk bar goes with the selection, the  *)
(* bulk DeleteButton with its action, a row's DeleteButton with its row.   *)

Rows(u) == {u.rows[k] : k \in DOMAIN u.rows}

Trim(u) ==
    [u EXCEPT !.bulkDel = IF u.selected = {} \/ u.action # "delete" THEN "closed" ELSE @,
              !.rowDel = [id \in Ids |-> IF id \in Rows(u) THEN @[id] ELSE "closed"]]

Draw(u, cs) == Show(Render(Trim(u), cs))

\* DeleteButton: the trigger, the Escape key, and what confirm() ends with.
Opened(b) == CASE b = "closed" -> "armed" [] b = "left" -> "busy" [] b = "unseen" -> "failed"
Escaped(b) == CASE b \in {"armed", "failed"} -> "closed" [] b = "busy" -> "left" [] OTHER -> b
Succeeded(b) == IF b \in {"busy", "left"} THEN "closed" ELSE b
Threw(b) == CASE b = "busy" -> "failed" [] b = "left" -> "unseen" [] OTHER -> b
CanOpen == {"closed", "left", "unseen"}

\* load(): the old selection means nothing against new rows.
Loaded(u, c, a) ==
    LET done == [u EXCEPT !.loading = FALSE]
    IN  IF ~a.ok THEN [done EXCEPT !.error = "load"]
        ELSE IF a.data.rows = <<>> /\ c.arg.page > 0 THEN StepBack(done)
        ELSE [done EXCEPT !.rows = a.data.rows, !.total = a.data.total, !.error = "",
                          !.selected = {}]

\* await load() in a handler: once the list is in, loadTags() follows.
LoadTags(then) == Call("tags", [n |-> 0], then)

DeliverList(i) ==
    /\ calls[i].op = "list"
    /\ \E a \in Answers(i) :
           Draw(Loaded(ui, calls[i], a),
                IF calls[i].then = Effect THEN Rest(i)
                ELSE Append(Rest(i), LoadTags(calls[i].then)))

\* The handlers that end with loadTags(), and what each does after it.
Settle(u, then) ==
    CASE then[1] = "removed" ->
             [u EXCEPT !.rowDel[then[2]] = Succeeded(@)]
      [] then[1] = "bulk" ->
             [u EXCEPT !.error = IF then[2] > 0 THEN "skipped" ELSE @, !.busy = FALSE,
                       !.bulkDel = Succeeded(@)]
      [] then[1] = "imported" -> [u EXCEPT !.busy = FALSE]
      [] OTHER -> u

DeliverTags(i) ==
    /\ calls[i].op = "tags"
    /\ Draw(Settle(ui, calls[i].then), Rest(i))

\* Mutant of DeliverRemove: the failure is reported and not thrown on to the button.
DeliverRemoveSwallowed(i) ==
    /\ calls[i].op = "remove"
    /\ LET id == calls[i].arg.id
       IN  \E a \in Answers(i) :
              IF a.ok
              THEN Show(Load(ui, Rest(i), calls[i].arg.asked, <<"removed", id>>))
              ELSE Draw([ui EXCEPT !.error = "delete", !.rowDel[id] = "closed"], Rest(i))

DeliverRemove(i) ==
    /\ calls[i].op = "remove"
    /\ LET id == calls[i].arg.id
       IN  \E a \in Answers(i) :
              IF a.ok
              THEN Show(Load(ui, Rest(i), calls[i].arg.asked, <<"removed", id>>))
              ELSE Draw([ui EXCEPT !.error = "delete",
                                   !.rowDel[id] = Threw(@)], Rest(i))

\* runBulk() catches its own failure: DeleteButton closes all the same.
DeliverBulk(i) ==
    /\ calls[i].op = "bulk"
    /\ \E a \in Answers(i) :
           IF a.ok
           THEN Show(Load([ui EXCEPT !.value = FALSE], Rest(i), calls[i].arg.asked,
                          <<"bulk", Cardinality(calls[i].arg.ids) - a.data.n>>))
           ELSE Draw(Settle([ui EXCEPT !.error = "bulk"], <<"bulk", 0>>), Rest(i))

\* The page number returns to the first page; the awaited load() keeps the old one.
DeliverImport(i) ==
    /\ calls[i].op = "import"
    /\ \E a \in Answers(i) :
           IF a.ok
           THEN LET again == Load([ui EXCEPT !.report = TRUE, !.page = 0], Rest(i),
                                  calls[i].arg.asked, <<"imported", 0>>)
                IN  Show(Render(again.u, again.cs))
           ELSE Draw([ui EXCEPT !.error = "import", !.busy = FALSE], Rest(i))

DeliverExport(i) ==
    /\ calls[i].op = "export"
    /\ \E a \in Answers(i) :
           Draw([ui EXCEPT !.busy = FALSE, !.error = IF a.ok THEN @ ELSE "export"], Rest(i))

Deliver(i) ==
    /\ \/ DeliverList(i) \/ DeliverTags(i) \/ DeliverRemove(i)
       \/ DeliverBulk(i) \/ DeliverImport(i) \/ DeliverExport(i)
    /\ UNCHANGED db

-----------------------------------------------------------------------------
(* The controls.                                                           *)

Type(s) ==
    /\ s # ui.search
    /\ Draw([ui EXCEPT !.search = s, !.typing = TRUE], calls)

\* The 300 ms timer of the last keystroke, or of the mount.
Debounce ==
    /\ ui.typing
    /\ Draw([ui EXCEPT !.typing = FALSE, !.filter.text = ui.search, !.page = 0], calls)
    /\ UNCHANGED db

Choose(control, v) ==
    /\ v # ui.filter[control]
    /\ Draw([ui EXCEPT !.filter[control] = v, !.page = 0], calls)

Retry ==
    /\ ui.error # ""
    /\ Show(Load(ui, calls, Asked(ui), Effect))

Previous ==
    /\ ui.page > 0 /\ ~ui.loading
    /\ Draw(StepBack(ui), calls)

NextPage ==
    /\ ui.page + 1 < PageCount(ui) /\ ~ui.loading
    /\ Draw([ui EXCEPT !.page = @ + 1], calls)

ToggleOne(id) ==
    /\ id \in Rows(ui)
    /\ Draw([ui EXCEPT !.selected = IF id \in @ THEN @ \ {id} ELSE @ \cup {id}], calls)

ToggleAll ==
    /\ ui.rows # <<>>
    /\ Draw([ui EXCEPT !.selected = IF Rows(ui) \subseteq @ THEN @ \ Rows(ui)
                                                             ELSE @ \cup Rows(ui)], calls)

ClearSelection ==
    /\ ui.selected # {} /\ ~ui.busy
    /\ Draw([ui EXCEPT !.selected = {}], calls)

NeedsValue(action) == action \in {"tag", "untag", "set_expiry"}

ChooseBulk(action) ==
    /\ ui.selected # {} /\ action # ui.action
    /\ Draw([ui EXCEPT !.action = action, !.value = FALSE], calls)

TypeValue ==
    /\ ui.selected # {} /\ NeedsValue(ui.action)
    /\ Draw([ui EXCEPT !.value = ~@], calls)

RunBulk(u) ==
    IF NeedsValue(u.action) /\ ~u.value
    THEN Draw([u EXCEPT !.error = "needs value"], calls)
    ELSE Draw([u EXCEPT !.busy = TRUE, !.error = ""],
              Append(calls, Call("bulk", [action |-> u.action, ids |-> u.selected,
                                          asked |-> Asked(u)], Effect)))

Run ==
    /\ ui.selected # {} /\ ui.action # "delete" /\ ~ui.busy
    /\ RunBulk(ui)

\* DeleteButton: the trigger is disabled while busy, an open confirmation is not.
ArmBulk ==
    /\ ui.selected # {} /\ ui.action = "delete" /\ ui.bulkDel \in CanOpen /\ ~ui.busy
    /\ Draw([ui EXCEPT !.bulkDel = Opened(@)], calls)

ConfirmBulk ==
    /\ ui.bulkDel \in {"armed", "failed"}
    /\ RunBulk([ui EXCEPT !.bulkDel = "busy"])

CancelBulk ==
    /\ ui.bulkDel \in {"armed", "failed"}
    /\ Draw([ui EXCEPT !.bulkDel = "closed"], calls)

ArmRow(id) ==
    /\ id \in Rows(ui) /\ ui.rowDel[id] \in CanOpen
    /\ Draw([ui EXCEPT !.rowDel[id] = Opened(@)], calls)

ConfirmRow(id) ==
    /\ ui.rowDel[id] \in {"armed", "failed"}
    /\ Draw([ui EXCEPT !.rowDel[id] = "busy"],
            Append(calls, Call("remove", [id |-> id, asked |-> Asked(ui)], Effect)))

CancelRow(id) ==
    /\ ui.rowDel[id] \in {"armed", "failed"}
    /\ Draw([ui EXCEPT !.rowDel[id] = "closed"], calls)

\* The Escape key is heard by every confirmation that is open.
Escape ==
    /\ ({ui.bulkDel} \cup {ui.rowDel[id] : id \in Ids}) \cap {"armed", "busy", "failed"} # {}
    /\ Draw([ui EXCEPT !.bulkDel = Escaped(@), !.rowDel = [id \in Ids |-> Escaped(@[id])]], calls)

Import ==
    /\ ~ui.busy
    /\ Draw([ui EXCEPT !.busy = TRUE, !.error = "", !.report = FALSE],
            Append(calls, Call("import", [asked |-> Asked(ui)], Effect)))

Export ==
    /\ ~ui.busy
    /\ Draw([ui EXCEPT !.busy = TRUE, !.error = ""],
            Append(calls, Call("export", [filter |-> ui.filter], Effect)))

Click ==
    /\ \/ \E s \in Searches : Type(s)
       \/ \E control \in DOMAIN Offered : \E v \in Offered[control] : Choose(control, v)
       \/ Retry \/ Previous \/ NextPage
       \/ ToggleAll \/ ClearSelection \/ TypeValue
       \/ \E action \in Actions : ChooseBulk(action)
       \/ Run \/ ArmBulk \/ ConfirmBulk \/ CancelBulk \/ Escape \/ Import \/ Export
       \/ \E id \in Ids : ToggleOne(id) \/ ArmRow(id) \/ ConfirmRow(id) \/ CancelRow(id)
    /\ UNCHANGED db

\* A spinner, or a control that says it is working.
Waiting ==
    \/ ui.loading \/ ui.busy \/ ui.bulkDel = "busy"
    \/ \E id \in Ids : ui.rowDel[id] = "busy"

Next ==
    \/ UserActs /\ Click
    \/ /\ Debounce \/ \E i \in DOMAIN calls : Serve(i) \/ Deliver(i)
       /\ UNCHANGED clicks
-----------------------------------------------------------------------------
(* What the parts of the state look like, for the type invariant.          *)
TypeOK ==
    /\ db \in [Ids -> LinkStates]
    /\ ui.rowDel \in [Ids -> ButtonStates] /\ ui.bulkDel \in ButtonStates
    /\ Rows(ui) \subseteq Ids /\ ui.selected \subseteq Ids
    /\ ui.page \in 0 .. Cardinality(Ids) /\ ui.total \in 0 .. Cardinality(Ids)
    /\ {ui.loading, ui.busy, ui.report, ui.typing, ui.value} \subseteq BOOLEAN
    /\ ui.error \in {"", "load", "delete", "bulk", "import", "export", "skipped", "needs value"}

\* links/page.tsx:123-125: a selection is of rows on the screen.
SelectionOnScreen == ui.selected \subseteq Rows(ui)

\* delete-button.tsx:74-75: a failed delete must not look like a cancelled or a
\* finished one: an open confirmation closes on its own only over a deleted link.
ClosedIsDeleted ==
    \A id \in Ids :
        (ui.rowDel[id] = "busy" /\ ui'.rowDel[id] = "closed" /\ id \in Rows(ui')) => db[id] = "gone"
=============================================================================
