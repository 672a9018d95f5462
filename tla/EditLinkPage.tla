----------------------------- MODULE EditLinkPage -----------------------------
(***************************************************************************)
(* The form for an existing link (web/src/app/home/links/[id]/edit/        *)
(* page.tsx).  The link is loaded again when the language changes; the     *)
(* answer to a load that another one has followed is dropped.  The form    *)
(* sends the whole link, and leaves for the list once it is stored.        *)
(***************************************************************************)
EXTENDS LinkFields

CONSTANT Texts          \* what may be typed as destination, title, tags ...

\* An expiry is a day and a time of it; the field holds the day alone, and what
\* it sends is the midnight the day begins with.
Expiries == {"never", "midnight", "noon"}
ExpiryField(expiry) == IF expiry = "never" THEN "" ELSE "day"
ExpirySent(field) == IF field = "" THEN "never" ELSE "midnight"

Unhydrated == [text |-> "", domain |-> "", on |-> FALSE, seconds |-> 2, rules |-> <<>>]

Mounted == [known |-> FALSE, form |-> Unhydrated, expires |-> "", domains |-> {}, error |-> FALSE, loading |-> TRUE,
            saving |-> FALSE, checking |-> FALSE, checked |-> FALSE, left |-> FALSE,
            asked |-> 1, shown |-> 0]

LoadCall(n) == Call("get", [n |-> n], <<"load", n>>)

\* db: the link.
Init ==
    /\ \E x \in Texts \ {""}, n \in {0, 9}, e \in Expiries :
           db = [link |-> [text |-> x, domain |-> "", seconds |-> n, rules |-> <<>>], expiry |-> e]
    /\ ui = Mounted
    /\ calls = <<LoadCall(1)>>
    /\ clicks = 0

-----------------------------------------------------------------------------
Serve(i) ==
    /\ calls[i].st = "sent" /\ calls[i].op \in {"get", "update"}
    /\ IF calls[i].op = "get" THEN calls' = Served(i, Ok(db)) /\ UNCHANGED db
       ELSE \/ /\ ValidRules(calls[i].arg.link.rules)
               /\ calls' = Served(i, Ok(calls[i].arg)) /\ db' = calls[i].arg
            \/ calls' = Served(i, Refused("refused")) /\ UNCHANGED db
    /\ UNCHANGED ui

\* Somebody else edits the link.
OtherEdit(x) == x # db.link.text /\ db' = [db EXCEPT !.link.text = x] /\ UNCHANGED <<ui, calls>>

-----------------------------------------------------------------------------
\* The fields of a record; without an interstitial the box is off and holds 2.
Hydrated(link) ==
    [text |-> link.text, domain |-> link.domain, on |-> link.seconds > 0,
     seconds |-> IF link.seconds > 0 THEN link.seconds ELSE 2, rules |-> link.rules]

\* Mutant of Cancelled: the effect has no cleanup.
CancelledNever(n) == FALSE
Cancelled(n) == n # ui.asked

Loaded(n, a) ==
    IF a.ok THEN [ui EXCEPT !.known = TRUE, !.form = Hydrated(a.data.link), !.shown = n,
                            !.expires = ExpiryField(a.data.expiry), !.loading = FALSE]
    ELSE [ui EXCEPT !.error = TRUE, !.shown = n, !.loading = FALSE]

\* The first answer mounts the form and, in it, the picker.
DeliverGet(i) ==
    /\ calls[i].op = "get"
    /\ \E a \in Answers(i) :
           LET n == calls[i].then[2]
           IN  Show(IF Cancelled(n) THEN [u |-> ui, cs |-> Rest(i)]
                    ELSE [u |-> Loaded(n, a),
                          cs |-> IF a.ok /\ ~ui.known THEN Then(i, Get("config", Effect)) ELSE Rest(i)])

DeliverConfig(i) ==
    /\ calls[i].op = "config"
    /\ \E domains \in {{}, Domains} : Show([u |-> [ui EXCEPT !.domains = domains], cs |-> Rest(i)])

\* A destination that cannot be reached is an answer, shown as an error.
DeliverCheck(i) ==
    /\ calls[i].op = "check"
    /\ \E reached, error \in BOOLEAN :
           Show([u |-> [ui EXCEPT !.checking = FALSE, !.checked = @ \/ reached, !.error = @ \/ error],
                 cs |-> Rest(i)])

DeliverUpdate(i) ==
    /\ calls[i].op = "update"
    /\ \E a \in Answers(i) :
           Show([u |-> IF a.ok THEN [ui EXCEPT !.left = TRUE, !.saving = FALSE]
                       ELSE [ui EXCEPT !.error = TRUE, !.saving = FALSE],
                 cs |-> Rest(i)])

Deliver(i) ==
    /\ DeliverGet(i) \/ DeliverConfig(i) \/ DeliverCheck(i) \/ DeliverUpdate(i)
    /\ UNCHANGED db

-----------------------------------------------------------------------------
Editing == ui.known /\ ~ui.loading

Edit ==
    /\ Editing
    /\ \/ \E form \in Edits(ui.form, Texts, ui.domains) \ {ui.form} : Set([ui EXCEPT !.form = form])
       \/ Set([ui EXCEPT !.expires = IF @ = "" THEN "day" ELSE ""])

Submit ==
    /\ Editing /\ ~ui.saving /\ ui.form.text # ""
    /\ Send([ui EXCEPT !.saving = TRUE, !.error = FALSE], Call("update", [link |-> LinkOf(ui.form), expiry |-> ExpirySent(ui.expires)], Effect))

CheckNow ==
    /\ Editing /\ ~ui.checking
    /\ Send([ui EXCEPT !.checking = TRUE, !.error = FALSE], Get("check", Effect))

\* The effect depends on the language: its cleanup cancels the load before it.
ChangeLanguage == Send([ui EXCEPT !.asked = @ + 1], LoadCall(ui.asked + 1))

Cancel == Editing /\ Set([ui EXCEPT !.left = TRUE])

Click == ~ui.left /\ (Edit \/ Submit \/ CheckNow \/ ChangeLanguage \/ Cancel) /\ UNCHANGED db
Waiting == ~ui.left /\ (ui.loading \/ ui.saving \/ ui.checking)

Next ==
    \/ UserActs /\ (Click \/ \E x \in Texts : OtherEdit(x))
    \/ /\ ~ui.left /\ UNCHANGED clicks
       /\ \E i \in DOMAIN calls : Serve(i) \/ Deliver(i)
-----------------------------------------------------------------------------
TypeOK ==
    /\ ui.form \in Forms(Texts \cup {""}) /\ ui.expires \in {"", "day"} /\ ui.domains \in {{}, Domains}
    /\ {ui.known, ui.error, ui.loading, ui.saving, ui.checking, ui.checked, ui.left} \subseteq BOOLEAN
    /\ ui.shown <= ui.asked /\ db.link.text \in Texts /\ db.expiry \in Expiries

(* Once the answer to the last load is in, the form is that link, whatever *)
(* answers arrived after it (edit/page.tsx:56-81).                         *)
LastAsked ==
    (\A i \in DOMAIN calls : calls[i].op = "get" => Cancelled(calls[i].then[2])) => ui.shown = ui.asked
=============================================================================
