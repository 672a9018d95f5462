------------------------------ MODULE LinkFields ------------------------------
(***************************************************************************)
(* What the forms for a new link and for an existing one share: the editor *)
(* of divert rules (components/link-rules-editor.tsx), the picker of a     *)
(* short domain (components/link-domain-picker.tsx) and the interstitial.  *)
(***************************************************************************)
EXTENDS ConsoleCalls

CONSTANTS Domains,      \* short domains the deployment may have configured
          MaxRules      \* the editor's cap on rules

MatchTypes == {"ua_contains", "device"}
Devices == {"mobile", "bot"}                \* the first of them is preset
UserAgents == {"", "iPhone"}
Vocabulary == [ua_contains |-> UserAgents, device |-> Devices]

emptyRule == [match_type |-> "ua_contains", match_value |-> ""]

AddRules(rules) == IF Len(rules) < MaxRules THEN {Append(rules, emptyRule)} ELSE {}
DeleteRules(rules) == {Without(rules, k) : k \in DOMAIN rules}

\* The two types share no vocabulary, so another type starts with a value of its own.
Retyped(rule, type) ==
    [rule EXCEPT !.match_type = type, !.match_value = IF type = "device" THEN "mobile" ELSE ""]
RetypeRules(rules) ==
    {[rules EXCEPT ![k] = Retyped(@, type)] : k \in DOMAIN rules, type \in MatchTypes}
RevalueRules(rules) ==
    UNION {{[rules EXCEPT ![k].match_value = x] : x \in Vocabulary[rules[k].match_type]} :
              k \in DOMAIN rules}

\* One change in the editor.
EditedRules(rules) ==
    (AddRules(rules) \cup DeleteRules(rules) \cup RetypeRules(rules) \cup RevalueRules(rules))
        \ {rules}

\* The picker: nothing to pick until the domains are known, or when they never are.
Pickable(domains) == IF domains = {} THEN {} ELSE domains \cup {""}

\* The API refuses a rule whose value is not of its type.
ValidRules(rules) ==
    \A k \in DOMAIN rules : rules[k].match_value \in Vocabulary[rules[k].match_type]

\* Unchecking sends 0, which turns the interstitial off; the seconds stay typed.
Sent(form) == IF form.on THEN form.seconds ELSE 0

\* A link as the API keeps it, of a form.
LinkOf(form) ==
    [text |-> form.text, domain |-> form.domain, seconds |-> Sent(form), rules |-> form.rules]

\* One change in a form: another text in a field, a domain, the interstitial, the rules.
Edits(form, texts, domains) ==
    {[form EXCEPT !.text = x] : x \in texts} \cup {[form EXCEPT !.domain = d] : d \in Pickable(domains)}
        \cup {[form EXCEPT !.on = ~@]}
        \cup (IF form.on THEN {[form EXCEPT !.seconds = n] : n \in {2, 9}} ELSE {})
        \cup {[form EXCEPT !.rules = r] : r \in EditedRules(form.rules)}

Forms(texts) ==
    [text : texts, domain : Domains \cup {""}, on : BOOLEAN, seconds : {2, 9},
     rules : UNION {[1 .. n -> [match_type : MatchTypes, match_value : UserAgents \cup Devices]] :
                       n \in 0 .. MaxRules}]
=============================================================================
