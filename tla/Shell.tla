--------------------------------- MODULE Shell ---------------------------------
(***************************************************************************)
(* What stays on the screen while pages come and go                        *)
(* (web/src/components/admin-shell.tsx, ui/rare/bounce-sidebar.tsx,        *)
(* rare/account-menu.tsx, analytics-injector.tsx, lib/analytics-config.ts):*)
(* the sidebar, which on a phone is a drawer, the account menu, and the    *)
(* trackers, which count the first page themselves and are told of the     *)
(* others.                                                                 *)
(***************************************************************************)
EXTENDS ConsoleCalls, Navigation

CONSTANTS Paths,        \* the pages visited
          Granted,      \* the sets of scopes an account may hold
          Trackings     \* the tracking settings stored, as [Ids -> Spelling]

-----------------------------------------------------------------------------
(* parseAnalyticsConfig: the trackers a page is given.  A setting is left  *)
(* empty, has the form its provider gives out, or has not.                 *)
Ids == {"ga4", "gtm", "googleTag", "matomoUrl", "matomoSiteId", "clarity"}
Spelling == {"", "valid", "malformed"}

Malformed(raw) == \E f \in Ids : raw[f] = "malformed"
HalfMatomo(raw) == (raw["matomoUrl"] = "") # (raw["matomoSiteId"] = "")

\* The elements injected; none at all when one value is unfit.
Trackers(raw) ==
    IF Malformed(raw) \/ HalfMatomo(raw) THEN {} ELSE {f \in Ids \ {"matomoSiteId"} : raw[f] # ""}

\* Those a change of page is reported to; the others see it by themselves.
Told == {"ga4", "googleTag", "matomoUrl"}

-----------------------------------------------------------------------------
\* visit counts the pages seen; seen is the one the trackers' effect saw last.  A
\* tracker's log is the visits it has counted, one entry for each time.
Mounted(path, desktop) ==
    [desktop |-> desktop, drawer |-> FALSE, focus |-> "page", path |-> path, visit |-> 1, seen |-> 1,
     menu |-> FALSE, group |-> "auto", user |-> FALSE, scopes |-> {}, out |-> "no",
     trackers |-> {}, log |-> [f \in Told |-> <<>>], loaded |-> {}]

\* db: the scopes of the account and the tracking settings stored.
Init ==
    /\ db \in [scopes : Granted, tracking : Trackings]
    /\ \E path \in Paths, desktop \in BOOLEAN :
           ui = [Mounted(path, desktop) EXCEPT !.trackers = Trackers(db.tracking)]
    /\ calls = <<Get("me", Effect)>>
    /\ clicks = 0

Serve(i) ==
    /\ calls[i].st = "sent"
    /\ calls' = Served(i, Ok([scopes |-> db.scopes]))
    /\ UNCHANGED <<ui, db>>

-----------------------------------------------------------------------------
(* The trackers.                                                           *)

\* A snippet runs once in a document and counts the page it finds.
Loads(f) ==
    /\ f \in (ui.trackers \cap Told) \ ui.loaded
    /\ Set([ui EXCEPT !.loaded = @ \cup {f}, !.log[f] = Append(@, ui.visit)])

\* RoutePageviews: an effect of the path and the settings, which reports a path
\* other than the last it saw.
\* Mutant of Reports: the effect reports whenever it runs.
ReportsAlways(u) ==
    [u EXCEPT !.seen = u.visit,
              !.log = [f \in Told |-> IF f \in u.trackers \cap u.loaded
                                      THEN Append(u.log[f], u.visit) ELSE u.log[f]]]
Reports(u) ==
    IF u.seen = u.visit THEN u
    ELSE [u EXCEPT !.seen = u.visit,
                   !.log = [f \in Told |-> IF f \in u.trackers \cap u.loaded
                                           THEN Append(u.log[f], u.visit) ELSE u.log[f]]]

\* A render of the root layout on the server, as a change of language brings it:
\* the settings are read anew, and may be gone or back.
Rerender ==
    \E now \in {Trackers(db.tracking), {}} :
        Set(IF ui.trackers = {} /\ now # {} THEN [ui EXCEPT !.trackers = now, !.seen = ui.visit]
            ELSE Reports([ui EXCEPT !.trackers = now]))

-----------------------------------------------------------------------------
(* The drawer.  Its effect moves the focus in when it opens and, on a      *)
(* phone, back to the button when it has closed.                           *)
AsideReachable(u) == u.desktop \/ u.drawer
PageReachable(u) == ~u.drawer

Closed(u) ==
    IF ~u.drawer THEN u
    ELSE [u EXCEPT !.drawer = FALSE, !.focus = IF u.desktop THEN @ ELSE "menuButton"]

Open ==
    /\ ~ui.desktop /\ PageReachable(ui)
    /\ Set([ui EXCEPT !.drawer = TRUE, !.focus = "closeButton"])

\* The close button, the scrim, the Escape key.
Close == ~ui.desktop /\ ui.drawer /\ Set(Closed(ui))

\* The window is turned or resized: the drawer's state is not touched.
Resize == Set([ui EXCEPT !.desktop = ~@, !.focus = IF ui.drawer /\ ui.desktop THEN "closeButton" ELSE @])

\* A new path: the page changes, the drawer closes, the trackers are told.
Arrive(u, path) ==
    IF path = u.path THEN u
    ELSE Reports(Closed([u EXCEPT !.path = path, !.visit = @ + 1]))

Sidebar(u) == {e.path : e \in VisibleNavigation(u.scopes)}

FollowSidebar(path) == AsideReachable(ui) /\ path \in Sidebar(ui) \cup {Settings(<<>>)} /\ Set(Arrive(ui, path))
FollowPage(path) == PageReachable(ui) /\ Set(Arrive(ui, path))
Back(path) == Set(Arrive(ui, path))

\* The group of the settings is open as its reader left it, or while one of its
\* pages is on the screen.
ChildActive(u) == \E c \in Visible(Categories, u.scopes) : NavItemActive(u.path, c.path)
GroupOpen(u) == u.group = "open" \/ (u.group = "auto" /\ ChildActive(u))
ToggleGroup ==
    AsideReachable(ui) /\ Set([ui EXCEPT !.group = IF GroupOpen(ui) THEN "closed" ELSE "open"])

-----------------------------------------------------------------------------
(* The account menu.                                                       *)
ToggleMenu == AsideReachable(ui) /\ Set([ui EXCEPT !.menu = ~@])
EscapeMenu == ui.menu /\ Set([ui EXCEPT !.menu = FALSE, !.focus = "trigger"])
PointElsewhere == ui.menu /\ Set([ui EXCEPT !.menu = FALSE])

MenuLinks(u) ==
    {<<"home", "account", "security">>}
        \cup (IF "tokens:manage" \in u.scopes THEN {<<"home", "account", "tokens">>} ELSE {})
FollowMenu(path) ==
    ui.menu /\ AsideReachable(ui) /\ path \in MenuLinks(ui) /\ Set(Arrive([ui EXCEPT !.menu = FALSE], path))

\* The shell stays until the router has left for the sign-in page.
Logout ==
    /\ ui.menu /\ AsideReachable(ui) /\ ui.out = "no"
    /\ Send([ui EXCEPT !.menu = FALSE, !.out = "leaving"], Get("logout", Effect))

-----------------------------------------------------------------------------
DeliverMe(i) ==
    /\ calls[i].op = "me"
    /\ \E a \in Answers(i) :
           Show([u |-> [ui EXCEPT !.user = TRUE, !.scopes = IF a.ok THEN a.data.scopes ELSE {}],
                 cs |-> Rest(i)])

\* Whatever the API says, the router leaves for the sign-in page.
DeliverLogout(i) ==
    calls[i].op = "logout" /\ Show([u |-> [ui EXCEPT !.out = "left"], cs |-> <<>>])

Deliver(i) ==
    /\ DeliverMe(i) \/ DeliverLogout(i)
    /\ UNCHANGED db

Click ==
    /\ ui.out # "left"
    /\ \/ Open \/ Close \/ Resize \/ ToggleGroup \/ ToggleMenu \/ EscapeMenu \/ PointElsewhere
       \/ Logout \/ Rerender
       \/ \E p \in Paths : FollowSidebar(p) \/ FollowPage(p) \/ Back(p) \/ FollowMenu(p)
       \/ \E f \in Told : Loads(f)
    /\ UNCHANGED db

RoleChanges == \E g \in Granted \ {db.scopes} : db' = [db EXCEPT !.scopes = g] /\ UNCHANGED <<ui, calls>>

Waiting == ui.out = "leaving"

Next ==
    \/ UserActs /\ (Click \/ RoleChanges)
    \/ (\E i \in DOMAIN calls : Serve(i) \/ Deliver(i)) /\ UNCHANGED clicks
-----------------------------------------------------------------------------
TypeOK ==
    /\ {ui.desktop, ui.drawer, ui.menu, ui.user} \subseteq BOOLEAN
    /\ ui.focus \in {"page", "menuButton", "closeButton", "trigger"}
    /\ ui.path \in Paths /\ ui.scopes \in Granted \cup {{}}
    /\ ui.group \in {"auto", "open", "closed"} /\ ui.out \in {"no", "leaving", "left"}
    /\ ui.trackers \subseteq Ids /\ ui.loaded \subseteq Told /\ ui.seen = ui.visit

(* A tracker counts each page once: the snippet the one it loads on, the   *)
(* effect every other, and a render that changes nothing but the language  *)
(* none (analytics-injector.tsx:90-128).                                   *)
CountedOnce ==
    \A f \in Told : \A j, k \in DOMAIN ui.log[f] : ui.log[f][j] = ui.log[f][k] => j = k

=============================================================================
