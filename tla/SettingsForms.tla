---------------------------- MODULE SettingsForms -----------------------------
(***************************************************************************)
(* A settings page with two forms that are saved each on its own: the      *)
(* runtime form of a group (components/settings/runtime-form.tsx) next to  *)
(* the captcha form (captcha-form.tsx) or the tracking form                *)
(* (tracking-form.tsx), mounted once the scopes of the account are known   *)
(* (settings-access.tsx), under one guard of unsaved drafts                *)
(* (settings-draft-guard.tsx).  Other administrators save meanwhile.       *)
(***************************************************************************)
EXTENDS ConsoleCalls

CONSTANTS Values,       \* what a group of settings may hold
          Texts,        \* what may be typed into its fields
          Parsed        \* Parsed[x]: the value a text stands for, or "bad"

NoForm == [saved |-> FALSE, base |-> "", rev |-> 0, draft |-> "", secret |-> FALSE,
           error |-> FALSE, notice |-> FALSE, loading |-> FALSE, busy |-> FALSE, conflict |-> FALSE]
Loading == [NoForm EXCEPT !.loading = TRUE]

Mounted == [forms |-> {}, access |-> "loading", form |-> [f \in {} |-> NoForm],
            dirty |-> {}, pending |-> FALSE, left |-> FALSE]

\* registration/page.tsx and analytics/page.tsx: which forms the scopes open.
Pages == {{"runtime", "captcha"}, {"runtime", "tracking"}}

\* db: what each resource holds and at which revision.
Init ==
    /\ \E forms \in UNION {SUBSET p : p \in Pages}, v \in Values :
           /\ ui = [Mounted EXCEPT !.forms = forms]
           /\ db = [f \in forms |-> [v |-> v, rev |-> 1]]
    /\ calls = <<Get("me", Effect)>>
    /\ clicks = 0

-----------------------------------------------------------------------------
(* The API.  Runtime settings are patched at the revision the form has     *)
(* read; captcha and tracking settings are replaced as they come.          *)
\* Mutant of Accepts: the revision is sent and not compared.
AcceptsAny(c) == TRUE
Accepts(c) == c.op = "runtime" => c.arg.rev = db[c.op].rev

Stored(c) == [v |-> c.arg.v, rev |-> db[c.op].rev + 1]

Serve(i) ==
    /\ calls[i].st = "sent" /\ calls[i].op # "me"
    /\ LET c == calls[i]
       IN  IF ~c.arg.save THEN calls' = Served(i, Ok(db[c.op])) /\ UNCHANGED db
           ELSE IF c.arg.v = "bad" THEN calls' = Served(i, Refused("invalid")) /\ UNCHANGED db
           ELSE IF Accepts(c) THEN /\ calls' = Served(i, Ok(Stored(c)))
                                   /\ db' = [db EXCEPT ![c.op] = Stored(c)]
           ELSE calls' = Served(i, Refused("conflict")) /\ UNCHANGED db
    /\ UNCHANGED ui

OtherAdmin(f, v) ==
    /\ v # db[f].v
    /\ db' = [db EXCEPT ![f] = [v |-> v, rev |-> @.rev + 1]]
    /\ UNCHANGED <<ui, calls>>

-----------------------------------------------------------------------------
Dirty(s) == s.saved /\ (s.draft # s.base \/ s.secret)

\* registerDirty(): each form adds or removes itself only.
\* Mutant of Register: one flag for the page, which a form that is saved takes down.
RegisterFlag(set, f, dirty) == IF dirty THEN set \cup {f} ELSE {}
Register(set, f, dirty) == IF dirty THEN set \cup {f} ELSE set \ {f}

\* A render of form f and the effect that registers it.
Put(u, f, s) == [u EXCEPT !.form[f] = s, !.dirty = Register(@, f, Dirty(s))]

LoadCall(f) == Call(f, [save |-> FALSE, v |-> "", rev |-> 0], Effect)

\* The loads of the forms as they mount, the runtime form first.
LoadCalls(forms) ==
    (IF "runtime" \in forms THEN <<LoadCall("runtime")>> ELSE <<>>)
        \o (IF "captcha" \in forms THEN <<LoadCall("captcha")>> ELSE <<>>)
        \o (IF "tracking" \in forms THEN <<LoadCall("tracking")>> ELSE <<>>)

\* load(): the runtime form forgets what it had, the others hide it and keep the error.
Reload(f, s) == [Loading EXCEPT !.draft = s.draft, !.error = f # "runtime" /\ s.error]

\* What the answer to a load or a save puts into the form.
Taken(s, data) ==
    [NoForm EXCEPT !.saved = TRUE, !.base = data.v, !.rev = data.rev, !.draft = data.v]

DeliverMe(i) ==
    /\ calls[i].op = "me"
    /\ \/ Show([u |-> [ui EXCEPT !.access = "error"], cs |-> Rest(i)])
       \/ Show([u |-> [ui EXCEPT !.access = "open", !.form = [f \in ui.forms |-> Loading]],
                cs |-> Rest(i) \o LoadCalls(ui.forms)])

DeliverLoad(i) ==
    /\ calls[i].op # "me" /\ ~calls[i].arg.save
    /\ LET f == calls[i].op
       IN  \E a \in Answers(i) :
              Show([u |-> Put(ui, f, IF a.ok THEN Taken(ui.form[f], a.data)
                                     ELSE [ui.form[f] EXCEPT !.error = TRUE, !.loading = FALSE]),
                    cs |-> Rest(i)])

DeliverSave(i) ==
    /\ calls[i].op # "me" /\ calls[i].arg.save
    /\ LET f == calls[i].op
       IN  \E a \in Answers(i) :
              Show([u |-> Put(ui, f,
                              IF a.ok THEN [Taken(ui.form[f], a.data) EXCEPT !.notice = TRUE]
                              ELSE [ui.form[f] EXCEPT !.error = TRUE, !.busy = FALSE,
                                                      !.conflict = a.code = "conflict"]),
                    cs |-> Rest(i)])

Deliver(i) == (DeliverMe(i) \/ DeliverLoad(i) \/ DeliverSave(i)) /\ UNCHANGED db

-----------------------------------------------------------------------------
(* The controls.  A form under way is disabled as a whole.                 *)
OpenForms == {f \in DOMAIN ui.form : ui.form[f].saved /\ ~ui.form[f].busy}

Edit(f, x) ==
    /\ f \in OpenForms /\ x # ui.form[f].draft
    /\ Set(Put(ui, f, [ui.form[f] EXCEPT !.draft = x, !.notice = FALSE]))

TypeSecret ==
    /\ "captcha" \in OpenForms
    /\ Set(Put(ui, "captcha", [ui.form["captcha"] EXCEPT !.secret = ~@, !.notice = FALSE]))

\* The runtime and the tracking form read what was typed before they ask: an invalid
\* value is an error here, the captcha form leaves it to the API.  A runtime draft
\* that means what is saved already is put back.
Save(f) ==
    /\ f \in OpenForms /\ Dirty(ui.form[f]) /\ ~ui.form[f].conflict
    /\ LET s == [ui.form[f] EXCEPT !.error = FALSE, !.notice = FALSE]
           v == Parsed[s.draft]
       IN  IF v = "bad" /\ f # "captcha" THEN Set(Put(ui, f, [s EXCEPT !.error = TRUE]))
           ELSE IF f = "runtime" /\ v = s.base THEN Set(Put(ui, f, [s EXCEPT !.draft = s.base]))
           ELSE Send(Put(ui, f, [s EXCEPT !.busy = TRUE]),
                     Call(f, [save |-> TRUE, v |-> v, rev |-> s.rev], Effect))

Discard(f) ==
    /\ f \in OpenForms /\ Dirty(ui.form[f]) /\ ~ui.form[f].conflict
    /\ Set(Put(ui, f, [ui.form[f] EXCEPT !.draft = ui.form[f].base, !.secret = FALSE,
                                         !.error = FALSE, !.notice = FALSE]))

\* Retry of a form that never loaded, Reload of one that met a conflict.
LoadAgain(f) ==
    /\ f \in DOMAIN ui.form /\ ~ui.form[f].loading
    /\ ui.form[f].saved => f \in OpenForms /\ ui.form[f].conflict
    /\ Send(Put(ui, f, Reload(f, ui.form[f])), LoadCall(f))

RetryAccess == ui.access = "error" /\ Send([ui EXCEPT !.access = "loading"], Get("me", Effect))

\* use-settings-translator.ts: the language changes under the forms, not in them.
\* Mutant of AfterLanguage: the load depends on the translator, as other pages' does.
AfterLanguageReload(u) ==
    [u |-> [u EXCEPT !.form = [f \in DOMAIN u.form |-> Reload(f, u.form[f])]],
     cs |-> calls \o LoadCalls(DOMAIN u.form)]
AfterLanguage(u) == [u |-> u, cs |-> calls]
ChangeLanguage == Show(AfterLanguage(ui))

\* followLink(): a link of the page leaves it, unless a form holds a draft.
FollowLink ==
    /\ ~ui.pending
    /\ Set(IF ui.dirty = {} THEN [ui EXCEPT !.left = TRUE] ELSE [ui EXCEPT !.pending = TRUE])

KeepEditing == ui.pending /\ Set([ui EXCEPT !.pending = FALSE])
DiscardAndLeave == ui.pending /\ Set([ui EXCEPT !.pending = FALSE, !.left = TRUE])

\* The browser's Back and signing out leave at once: the guard listens to links alone.
LeaveUnasked == Set([ui EXCEPT !.pending = FALSE, !.left = TRUE])

\* The dialog of the guard covers the page.
Controls ==
    \/ \E f \in ui.forms : (\E x \in Texts : Edit(f, x)) \/ Save(f) \/ Discard(f) \/ LoadAgain(f)
    \/ TypeSecret \/ RetryAccess \/ ChangeLanguage \/ FollowLink

Click ==
    /\ ~ui.left
    /\ LeaveUnasked \/ IF ui.pending THEN KeepEditing \/ DiscardAndLeave ELSE Controls
    /\ UNCHANGED db

Waiting ==
    /\ ~ui.left
    /\ \/ ui.access = "loading"
       \/ \E f \in DOMAIN ui.form : ui.form[f].loading \/ ui.form[f].busy

Next ==
    \/ UserActs /\ (Click \/ \E f \in ui.forms, v \in Values : OtherAdmin(f, v))
    \/ /\ ~ui.left /\ UNCHANGED clicks
       /\ \E i \in DOMAIN calls : Serve(i) \/ Deliver(i)
-----------------------------------------------------------------------------
TypeOK ==
    /\ ui.access \in {"loading", "error", "open"} /\ ui.dirty \subseteq ui.forms
    /\ {ui.pending, ui.left} \subseteq BOOLEAN /\ DOMAIN ui.form \in {{}, ui.forms}
    /\ \A f \in DOMAIN ui.form :
           /\ ui.form[f].draft \in Texts \cup {""} /\ ui.form[f].base \in Values \cup {""}
           /\ {ui.form[f].saved, ui.form[f].secret, ui.form[f].error, ui.form[f].notice,
               ui.form[f].loading, ui.form[f].busy, ui.form[f].conflict} \subseteq BOOLEAN
    /\ \A f \in DOMAIN db : db[f].v \in Values /\ db[f].rev \in Nat

-----------------------------------------------------------------------------
(* While a form is open, what was typed into it, a secret too, is given up *)
(* by its author in that form, or saved as it is there: no other form,     *)
(* late answer or change of language takes it (use-settings-translator.ts: *)
(* 6).  And the guard knows of each draft that differs from what is saved, *)
(* and of no other, whatever the forms around it do: a link that is        *)
(* followed, a reload and a closed tab ask when there is something to lose *)
(* (settings-draft-guard.tsx:12, 90).  The browser's Back and signing out  *)
(* ask nothing (LeaveUnasked).                                             *)
Content(s) == [saved |-> s.saved, draft |-> s.draft, secret |-> s.secret]

ByItsAuthor(f) ==
    \/ \E x \in Texts : Edit(f, x)
    \/ f = "captcha" /\ TypeSecret
    \/ Save(f) \/ Discard(f) \/ LoadAgain(f)

SavedAsTyped(s, after) ==
    s.busy /\ after.notice /\ Content(after) = [saved |-> TRUE, draft |-> Parsed[s.draft], secret |-> FALSE]

DraftKept ==
    /\ \A f \in DOMAIN ui.form :
          (Dirty(ui.form[f]) /\ Content(ui'.form[f]) # Content(ui.form[f]))
              => ByItsAuthor(f) \/ SavedAsTyped(ui.form[f], ui'.form[f])
    /\ ui'.dirty = {f \in DOMAIN ui'.form : Dirty(ui'.form[f])}

(* A save of the runtime settings that goes through replaces what the form *)
(* had shown as saved, never what another administrator has put there      *)
(* since, after a conflict and a retry as well (runtime-form.tsx:57-80).   *)
SavesOverWhatIsShown ==
    ("runtime" \in DOMAIN db /\ db'["runtime"] # db["runtime"] /\ clicks' = clicks)
        => ui.form["runtime"].base = db["runtime"].v
=============================================================================
