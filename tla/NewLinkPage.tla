----------------------------- MODULE NewLinkPage ------------------------------
(***************************************************************************)
(* The form for a new link (web/src/app/home/links/new/page.tsx).  It      *)
(* gives way to the link it created, until another one is started.         *)
(***************************************************************************)
EXTENDS LinkFields

CONSTANT Texts          \* what may be typed as the destination, "" included

NoLink == [text |-> "", domain |-> "", seconds |-> 0, rules |-> <<>>]

EmptyForm == [text |-> "", domain |-> "", on |-> TRUE, seconds |-> 2, rules |-> <<>>]

Mounted == [form |-> EmptyForm, domains |-> {}, error |-> FALSE, loading |-> FALSE, created |-> NoLink]

\* db: the links made so far.
Init ==
    /\ db = {}
    /\ ui = Mounted
    /\ calls = <<Get("config", Effect)>>
    /\ clicks = 0

-----------------------------------------------------------------------------
\* The API refuses an invalid rule, a taken alias, or a link over the quota.
Serve(i) ==
    /\ calls[i].st = "sent" /\ calls[i].op = "create"
    /\ \/ /\ ValidRules(calls[i].arg.rules)
          /\ calls' = Served(i, Ok(calls[i].arg))
          /\ db' = db \cup {calls[i].arg}
       \/ calls' = Served(i, Refused("refused")) /\ UNCHANGED db
    /\ UNCHANGED ui

DeliverConfig(i) ==
    /\ calls[i].op = "config"
    /\ \E domains \in {{}, Domains} : Show([u |-> [ui EXCEPT !.domains = domains], cs |-> Rest(i)])

\* The form goes, and with it the picker and what the picker waits for.
DeliverCreate(i) ==
    /\ calls[i].op = "create"
    /\ \E a \in Answers(i) :
           Show(IF a.ok THEN [u |-> [ui EXCEPT !.created = a.data, !.loading = FALSE, !.domains = {}],
                              cs |-> Drop(Rest(i), {k \in DOMAIN Rest(i) : Rest(i)[k].op = "config"})]
                ELSE [u |-> [ui EXCEPT !.error = TRUE, !.loading = FALSE], cs |-> Rest(i)])

Deliver(i) == (DeliverConfig(i) \/ DeliverCreate(i)) /\ UNCHANGED db

-----------------------------------------------------------------------------
Filling == ui.created = NoLink

Edit == Filling /\ \E form \in Edits(ui.form, Texts, ui.domains) \ {ui.form} : Set([ui EXCEPT !.form = form])

\* The browser asks for a destination first.
Submit ==
    /\ Filling /\ ~ui.loading /\ ui.form.text # ""
    /\ Send([ui EXCEPT !.loading = TRUE, !.error = FALSE], Call("create", LinkOf(ui.form), Effect))

\* The picker is mounted again with the form.
StartAnother ==
    /\ ~Filling
    /\ Send([ui EXCEPT !.form = EmptyForm, !.error = FALSE, !.created = NoLink],
            Get("config", Effect))

Click == (Edit \/ Submit \/ StartAnother) /\ UNCHANGED db
Waiting == ui.loading

Next ==
    \/ UserActs /\ Click
    \/ (\E i \in DOMAIN calls : Serve(i) \/ Deliver(i)) /\ UNCHANGED clicks
-----------------------------------------------------------------------------
TypeOK ==
    /\ ui.form \in Forms(Texts) /\ ui.domains \in {{}, Domains}
    /\ {ui.error, ui.loading} \subseteq BOOLEAN /\ ui.created \in db \cup {NoLink}
=============================================================================
