----------------------------- MODULE SiteLanguage ------------------------------
(***************************************************************************)
(* The language and the theme a visitor is served, and the header of the   *)
(* first page (web/src/proxy.ts, lib/i18n/*.ts, components/                *)
(* locale-switcher.tsx, theme-provider.tsx, app/page.tsx, lib/             *)
(* public-config.server.ts, session.server.ts).  The language is decided   *)
(* on the server for each document; choosing one is an action on the       *)
(* server, which renders the tree again and sets a cookie in its answer.   *)
(***************************************************************************)
EXTENDS ConsoleCalls, Integers

CONSTANTS AcceptLanguages       \* headers a browser may send: sequences of tag and quality

DefaultLocale == "en"
IsLocale(x) == x \in {"en", "zh-CN"}

Root == "/"
LandingOf(locale) == IF locale = "en" THEN "/i18n/en" ELSE "/i18n/zh-CN"
Landings == {"/i18n/en", "/i18n/zh-CN"}
Console == "/home"

-----------------------------------------------------------------------------
(* preferredLocale: the best tag with a locale of ours, the first of equals*)
(* and never one the browser refuses.                                      *)
MatchTag(tag) ==
    CASE tag \in {"en", "en-GB"} -> "en" [] tag \in {"zh", "zh-TW", "zh-CN"} -> "zh-CN" [] OTHER -> "none"

\* A quality that is no number leaves no tag.
Malformed == -1
Usable(entry) == entry.q # Malformed /\ entry.q > 0 /\ MatchTag(entry.tag) # "none"

PreferredLocale(header) ==
    LET usable == {k \in DOMAIN header : Usable(header[k])}
        best   == {k \in usable : \A j \in usable : header[j].q <= header[k].q}
    IN  IF best = {} THEN DefaultLocale
        ELSE MatchTag(header[CHOOSE k \in best : \A j \in best : k <= j].tag)

\* proxy(): the header the landing pages of one language are given, whatever a
\* client sent under its name.
LandingLocale(path) == IF path = "/i18n/en" THEN "en" ELSE IF path = "/i18n/zh-CN" THEN "zh-CN" ELSE "none"

\* getLocale(): the URL, then the cookie, then the browser.
RequestLocale(path, cookie, accept) ==
    IF IsLocale(LandingLocale(path)) THEN LandingLocale(path)
    ELSE IF IsLocale(cookie) THEN cookie ELSE PreferredLocale(accept)

-----------------------------------------------------------------------------
(* What the header of the first page offers.  A read that fails says that  *)
(* sign-up is open and that nobody is signed in.                           *)
Headers(signedIn, open) ==
    {[entry |-> IF s THEN "console" ELSE "signIn", register |-> ~s /\ o] :
        s \in {signedIn, FALSE}, o \in {open, TRUE}}

\* db: the session of the visitor is live; sign-up is open, and what the server
\* last read of it, good for a minute.
Document(path, u) ==
    {[path |-> path, shown |-> RequestLocale(path, u.cookie, u.accept),
      selected |-> RequestLocale(path, u.cookie, u.accept), header |-> h,
      theme |-> u.stored, stored |-> u.stored, cookie |-> u.cookie, accept |-> u.accept,
      crashed |-> FALSE] : h \in Headers(db.live, db.cached)}

Paths == {Root, Console} \cup Landings

Init ==
    /\ db \in [live : BOOLEAN, open : BOOLEAN, cached : {TRUE}]
    /\ \E a \in AcceptLanguages, path \in Paths, c \in {"none", "en", "zh-CN"} :
           ui \in Document(path, [cookie |-> c, accept |-> a, stored |-> "dark"])
    /\ calls = <<>>
    /\ clicks = 0

-----------------------------------------------------------------------------
\* The router sends one action to the server at a time.
Serve(i) ==
    /\ i = 1 /\ calls[i].st = "sent"
    /\ calls' = Served(i, Ok([locale |-> calls[i].arg.locale]))
    /\ UNCHANGED <<ui, db>>

SignUpChanges == db' = [db EXCEPT !.open = ~@] /\ UNCHANGED <<ui, calls>>
CacheExpires == db' = [db EXCEPT !.cached = db.open] /\ UNCHANGED <<ui, calls>>

\* The answer brings the cookie and the tree, and the switcher follows a change of
\* language it sees; on a landing page the document of the language is loaded.
Rendered(u, locale) ==
    LET shown == RequestLocale(u.path, locale, u.accept)
    IN  [u EXCEPT !.cookie = locale, !.shown = shown, !.selected = IF shown = u.shown THEN @ ELSE shown]

Deliver(i) ==
    /\ i = 1 /\ UNCHANGED db
    /\ \E a \in Answers(i) :
           LET next == calls[i].arg.locale
           IN  IF ~a.ok THEN Show([u |-> [ui EXCEPT !.crashed = TRUE], cs |-> <<>>])
               ELSE IF calls[i].arg.landing
               THEN \E u \in Document(LandingOf(next), [ui EXCEPT !.cookie = next]) : Show([u |-> u, cs |-> <<>>])
               ELSE Show([u |-> Rendered(ui, next), cs |-> Rest(i)])

-----------------------------------------------------------------------------
Choose(next) ==
    /\ next # ui.selected
    /\ Send([ui EXCEPT !.selected = next],
            Call("setLocale", [locale |-> next, landing |-> ui.path # Console], Effect))

SetTheme(theme) == Set([ui EXCEPT !.theme = theme, !.stored = theme])

\* A document is loaded: what the old one waited for is forgotten.
Visit(path) == \E u \in Document(path, ui) : Show([u |-> u, cs |-> <<>>])

Click ==
    /\ \/ ~ui.crashed /\ \E l \in {"en", "zh-CN"} : Choose(l)
       \/ ~ui.crashed /\ \E theme \in {"dark", "light"} \ {ui.theme} : SetTheme(theme)
       \/ \E path \in Paths : Visit(path)
    /\ UNCHANGED db

Waiting == calls # <<>>

Next ==
    \/ UserActs /\ (Click \/ SignUpChanges \/ CacheExpires)
    \/ (\E i \in DOMAIN calls : Serve(i) \/ Deliver(i)) /\ UNCHANGED clicks
-----------------------------------------------------------------------------
TypeOK ==
    /\ ui.path \in Paths /\ IsLocale(ui.shown) /\ IsLocale(ui.selected)
    /\ ui.cookie \in {"none", "en", "zh-CN"} /\ {ui.theme, ui.stored} \subseteq {"dark", "light"}
    /\ ui.header.register => ui.header.entry = "signIn"

(* Once nothing is under way the switcher names the language the page is   *)
(* in, and the page of one language is in that language, whatever was      *)
(* chosen before and in which order the choices were answered              *)
(* (locale-switcher.tsx:29-56, proxy.ts:5-11).                             *)
LanguageAgrees ==
    /\ calls = <<>> /\ ~ui.crashed => ui.selected = ui.shown
    /\ ui.path \in Landings => ui.path = LandingOf(ui.shown)
=============================================================================
