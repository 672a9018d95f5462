------------------------------ MODULE ListPage -------------------------------
(***************************************************************************)
(* The paging both lists of the console share in substance: links/page.tsx *)
(* and audit/page.tsx each keep a page number, filters, the rows shown and *)
(* the total, and load again whenever the page number or a filter changes. *)
(* An answer is taken whenever it arrives: nothing compares it with what   *)
(* the controls ask by then.                                               *)
(***************************************************************************)
EXTENDS ConsoleCalls

CONSTANT PageSize

\* What the closure of load() has captured.
Asked(u) == [filter |-> u.filter, page |-> u.page]

\* load(): the spinner goes on and the list is asked for.
Load(u, cs, asked, then) ==
    [u |-> [u EXCEPT !.loading = TRUE], cs |-> Append(cs, Call("list", asked, then))]

\* A render: the effect runs load() when what it captured has changed.
Render(u, cs) ==
    IF Asked(u) = Asked(ui) THEN [u |-> u, cs |-> cs] ELSE Load(u, cs, Asked(u), Effect)

\* The members of a set of numbers as a list, the largest first or the smallest
\* (ORDER BY): there is one such list.
Descending(S) == {s \in [1 .. Cardinality(S) -> S] : \A j, k \in DOMAIN s : j < k => s[j] > s[k]}
Ascending(S) == {s \in [1 .. Cardinality(S) -> S] : \A j, k \in DOMAIN s : j < k => s[j] < s[k]}

\* The part of a list one page holds.
Slice(list, page) ==
    LET upTo == (page + 1) * PageSize
    IN  SubSeq(list, page * PageSize + 1, IF upTo < Len(list) THEN upTo ELSE Len(list))

PageCount(u) == IF u.total = 0 THEN 1 ELSE (u.total + PageSize - 1) \div PageSize

\* Mutant of StepBack: the page number goes down whatever it is by then.
StepBackBelow(u) == [u EXCEPT !.page = @ - 1]

StepBack(u) == [u EXCEPT !.page = IF @ = 0 THEN 0 ELSE @ - 1]
=============================================================================
