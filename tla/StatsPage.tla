------------------------------ MODULE StatsPage ------------------------------
(***************************************************************************)
(* The statistics page (web/src/app/home/stats/page.tsx).  Four parts are  *)
(* loaded by an effect each; an effect that runs again cancels the answer  *)
(* it was waiting for.  A part that is not asked for again stays as it is, *)
(* also when its last load failed.                                         *)
(***************************************************************************)
EXTENDS Naturals, Sequences, FiniteSets

CONSTANTS Ranges,       \* the presets of the range, e.g. "7d"
          Start,        \* the preset the page opens with
          Links,        \* links, 1 .. n
          LogPages,     \* pages of the click log of a link with clicks
          MaxClicks     \* clicks of one visit

VARIABLES ui,           \* controls and error of the page
          calls,        \* per part: what was asked, how far it is, what is shown
          db,           \* the links with clicks, per range
          clicks

vars == <<ui, calls, db, clicks>>

Parts == {"overview", "ranking", "detail", "log"}
NoLink == 0

Mounted == [range |-> Start, order |-> "top", selected |-> NoLink, page |-> 0,
            ranked |-> <<>>, pages |-> 0, error |-> FALSE]

\* The dependencies of the effect of a part: what its request is made of.
Deps(u, p) ==
    CASE p = "overview" -> <<u.range>>
      [] p = "ranking"  -> <<u.order, u.range>>
      [] p = "detail"   -> <<u.selected, u.range>>
      [] p = "log"      -> <<u.selected, u.range, u.page>>

\* detail and log are not loaded while no link is selected.
Wanted(u, p) == p \in {"detail", "log"} => u.selected # NoLink

Nothing == <<>>
Idle == [st |-> "idle", shown |-> Nothing, spin |-> FALSE]

\* The effect of a part: ask again, forgetting the request under way; without a
\* link the part is emptied, and its spinner left as it is.
Effect(u, c, p) ==
    IF Wanted(u, p) THEN [c[p] EXCEPT !.st = "sent", !.spin = p \in {"detail", "log"}]
    ELSE [c[p] EXCEPT !.st = "idle", !.shown = Nothing]

\* A render after a state change: another link or range starts the log at its
\* first page, and every effect whose dependencies changed runs.
Show(u, c) ==
    LET v == IF Deps(u, "detail") # Deps(ui, "detail") THEN [u EXCEPT !.page = 0] ELSE u
    IN  /\ ui' = v
        /\ calls' = [p \in Parts |-> IF Deps(v, p) = Deps(ui, p) THEN c[p] ELSE Effect(v, c, p)]

Init ==
    /\ db \in {d \in [Ranges -> SUBSET Links] : Start \in Ranges /\ \A r \in Ranges : d[r] \subseteq d[Start]}
    /\ ui = Mounted
    /\ calls = [p \in Parts |-> Effect(Mounted, [q \in Parts |-> Idle], p)]
    /\ clicks = 0

-----------------------------------------------------------------------------
\* The API: links without clicks in the range are not ranked.
Ranked(order, range) ==
    {s \in [1 .. Cardinality(db[range]) -> db[range]] :
        \A j, k \in DOMAIN s : j < k => IF order = "top" THEN s[j] < s[k] ELSE s[j] > s[k]}

\* A new ranking keeps the selection if it is ranked and takes the first link
\* otherwise.
WithRanking(u, new) ==
    [u EXCEPT !.ranked = new,
              !.selected = IF \E k \in DOMAIN new : new[k] = @ THEN @
                           ELSE IF new = <<>> THEN NoLink ELSE new[1]]

\* An answer that was not cancelled is shown.
Answered(p, u) ==
    CASE p = "overview" -> {[u EXCEPT !.error = FALSE]}
      [] p = "ranking" -> {WithRanking(u, new) : new \in Ranked(u.order, u.range)}
      [] p = "log" -> {[u EXCEPT !.pages = IF u.selected \in db[u.range] THEN LogPages ELSE 0]}
      [] OTHER -> {u}

Arrive(p) ==
    /\ calls[p].st = "sent"
    /\ \E u \in Answered(p, ui) :
           Show(u, [calls EXCEPT ![p] = [st |-> "idle", shown |-> Deps(ui, p), spin |-> FALSE]])
    /\ UNCHANGED <<db, clicks>>

Fail(p) ==
    /\ calls[p].st = "sent"
    /\ Show([ui EXCEPT !.error = TRUE], [calls EXCEPT ![p].st = "failed", ![p].spin = FALSE])
    /\ UNCHANGED <<db, clicks>>

Deliver(p) == Arrive(p) \/ Fail(p)

-----------------------------------------------------------------------------
ChooseRange(r) == r # ui.range /\ Show([ui EXCEPT !.range = r], calls)

ChooseOrder(o) == o # ui.order /\ Show([ui EXCEPT !.order = o], calls)

\* A row of the ranking, or any link of the list of all links, or none.
ChooseLink(l) == l # ui.selected /\ Show([ui EXCEPT !.selected = l], calls)

\* The detail panel: the log and its pager are drawn inside it.
DetailOpen == ui.selected # NoLink /\ calls["detail"].shown # Nothing /\ ~calls["detail"].spin

PreviousClicks ==
    /\ DetailOpen /\ ui.pages > 0 /\ ui.page > 0 /\ ~calls["log"].spin
    /\ Show([ui EXCEPT !.page = @ - 1], calls)

NextClicks ==
    /\ DetailOpen /\ ui.page + 1 < ui.pages /\ ~calls["log"].spin
    /\ Show([ui EXCEPT !.page = @ + 1], calls)

Click ==
    /\ clicks < MaxClicks /\ clicks' = clicks + 1
    /\ \/ \E r \in Ranges : ChooseRange(r)
       \/ \E o \in {"top", "bottom"} : ChooseOrder(o)
       \/ \E l \in Links \cup {NoLink} : ChooseLink(l)
       \/ PreviousClicks \/ NextClicks
    /\ UNCHANGED db

Next ==
    \/ Click
    \/ \E p \in Parts : Deliver(p)

\* A spinner the user can see.
Waiting ==
    /\ ui.selected # NoLink
    /\ calls["detail"].spin \/ (calls["detail"].shown # Nothing /\ calls["log"].spin)
-----------------------------------------------------------------------------
TypeOK ==
    /\ ui.range \in Ranges /\ ui.order \in {"top", "bottom"}
    /\ ui.selected \in Links \cup {NoLink} /\ ui.page \in 0 .. LogPages /\ ui.pages \in 0 .. LogPages
    /\ ui.error \in BOOLEAN /\ \A k \in DOMAIN ui.ranked : ui.ranked[k] \in Links
    /\ \A p \in Parts : calls[p].st \in {"idle", "sent", "failed"} /\ calls[p].spin \in BOOLEAN
    /\ db \in [Ranges -> SUBSET Links]

(***************************************************************************)
(* A part whose load is neither under way nor failed shows the answer to   *)
(* what the controls ask (stats/page.tsx:119-182, the cancelled flags).    *)
(***************************************************************************)
ShownIsAsked ==
    \A p \in Parts : (calls[p].st = "idle" /\ Wanted(ui, p)) => calls[p].shown = Deps(ui, p)

\* A detail that is shown without a spinner is of a link, and its log turns pages
\* that exist for that link and range once it has loaded (lines 164-167, 391-393).
LogPageExists ==
    (calls["log"].st = "idle" /\ ui.selected # NoLink /\ ui.pages > 0) => ui.page < ui.pages
=============================================================================
