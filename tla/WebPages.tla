------------------------------- MODULE WebPages -------------------------------
(***************************************************************************)
(* What runs in a visitor's browser: one page of the console or of the     *)
(* site, mounted with its state, the calls it has in flight, and as much   *)
(* of what the API keeps as the page can tell apart.  Nothing here is      *)
(* shared between pages but the protocol of the calls (ConsoleCalls), so   *)
(* a behaviour is the life of one page, chosen in its initial state.       *)
(***************************************************************************)
EXTENDS Naturals, Sequences, FiniteSets

CONSTANTS MaxCalls,       \* per page: calls a user lets pile up before they click again
          MaxClicks       \* per page: clicks and keystrokes of one visit

CONSTANTS AuditKinds, AuditKindOf, AuditEntries,
          LinkIds, LinkFilters, LinkSearches, LinkHits, BulkActions,
          ShortDomains, RuleCap, NewTexts, EditTexts,
          Accounts, Self, RoleNames, RoleGrants, TokenIds, OverviewScopes,
          FormValues, FormTexts, FormParsed, Providers, ProviderConfigs,
          BrowserTabs, SignIns, TwoFactor, MaxSessions, SiteKeys, ToastLimit,
          ShellPaths, ShellScopes, Trackings, AcceptLanguages, Durations,
          Ranges, Start, StatsLinks, LogPages

\* Tokens are numbered as they are made, and the tabs of a browser as they are opened;
\* a countdown is set to a number of moments, and a few notifications are shown.
ASSUME TokensAssumption == IsFiniteSet(TokenIds) /\ TokenIds = 1 .. Cardinality(TokenIds)
ASSUME TabsAssumption == IsFiniteSet(BrowserTabs) /\ BrowserTabs = 1 .. Cardinality(BrowserTabs)
\* What is saved may be typed, and what is typed stands for a value or for none.
ASSUME FormsAssumption ==
    FormValues \subseteq FormTexts /\ FormParsed \in [FormTexts -> FormValues \cup {"bad"}]
ASSUME DurationsAssumption == Durations \subseteq Nat
ASSUME LogAssumption == LogPages \in Nat
ASSUME LimitAssumption == ToastLimit \in Nat \ {0}
\* Entries, links and rules are counted, and so are the languages of a header.
ASSUME ListsAssumption ==
    AuditEntries \in Nat /\ IsFiniteSet(LinkIds) /\ IsFiniteSet(StatsLinks) /\ RuleCap \in Nat
ASSUME HeadersAssumption == \A header \in AcceptLanguages : DOMAIN header \subseteq Nat
\* A form of a link is opened empty, the form of providers with one there.
ASSUME MountedAssumption == "" \in NewTexts /\ 1 \in Providers
\* Clicks are counted.
ASSUME ClicksAssumption == MaxClicks["settings"] \in Nat /\ MaxClicks["toasts"] \in Nat

VARIABLES page,           \* the page that is open
          ui,             \* its state
          calls,          \* what it waits for
          db,             \* what the API keeps
          clicks          \* what its user has done so far

vars == <<page, ui, calls, db, clicks>>

Audit == INSTANCE AuditPage WITH MaxCalls <- MaxCalls["audit"], MaxClicks <- MaxClicks["audit"],
        PageSize <- 1, Kinds <- AuditKinds, KindOf <- AuditKindOf, MaxEntries <- AuditEntries
LinkList == INSTANCE LinksPage WITH MaxCalls <- MaxCalls["links"], MaxClicks <- MaxClicks["links"],
        PageSize <- 1, Ids <- LinkIds, Offered <- LinkFilters, Searches <- LinkSearches, Hits <- LinkHits, Actions <- BulkActions
NewLink == INSTANCE NewLinkPage WITH MaxCalls <- MaxCalls["newLink"], MaxClicks <- MaxClicks["newLink"],
        Domains <- ShortDomains, MaxRules <- RuleCap, Texts <- NewTexts
EditLink == INSTANCE EditLinkPage WITH MaxCalls <- MaxCalls["editLink"], MaxClicks <- MaxClicks["editLink"],
        Domains <- ShortDomains, MaxRules <- RuleCap, Texts <- EditTexts
UserList == INSTANCE UsersPage WITH MaxCalls <- MaxCalls["users"], MaxClicks <- MaxClicks["users"],
        Users <- Accounts, Roles <- RoleNames
RoleList == INSTANCE RolesPage WITH MaxCalls <- MaxCalls["roles"], MaxClicks <- MaxClicks["roles"],
        Roles <- RoleNames, Grants <- RoleGrants
TokenList == INSTANCE TokensPage WITH MaxCalls <- MaxCalls["tokens"], MaxClicks <- MaxClicks["tokens"],
        Tokens <- TokenIds
Security == INSTANCE SecurityPage WITH MaxCalls <- MaxCalls["security"], MaxClicks <- MaxClicks["security"]
Dashboard == INSTANCE DashboardPage WITH MaxCalls <- MaxCalls["dashboard"], MaxClicks <- MaxClicks["dashboard"]
Overview == INSTANCE SettingsHome WITH MaxCalls <- MaxCalls["settings"], MaxClicks <- MaxClicks["settings"],
        Granted <- OverviewScopes
Forms == INSTANCE SettingsForms WITH MaxCalls <- MaxCalls["forms"], MaxClicks <- MaxClicks["forms"],
        Values <- FormValues, Texts <- FormTexts, Parsed <- FormParsed
ProviderList == INSTANCE OidcPage WITH MaxCalls <- MaxCalls["providers"], MaxClicks <- MaxClicks["providers"],
        Configs <- ProviderConfigs
Session == INSTANCE BrowserSession WITH MaxCalls <- MaxCalls["session"], MaxClicks <- MaxClicks["session"],
        Tabs <- BrowserTabs, Accounts <- SignIns, Guarded <- TwoFactor
Register == INSTANCE RegisterPage WITH MaxCalls <- MaxCalls["register"], MaxClicks <- MaxClicks["register"]
Notices == INSTANCE Toasts WITH MaxCalls <- MaxCalls["toasts"], MaxClicks <- MaxClicks["toasts"],
        Limit <- ToastLimit
Console == INSTANCE Shell WITH MaxCalls <- MaxCalls["shell"], MaxClicks <- MaxClicks["shell"],
        Paths <- ShellPaths, Granted <- ShellScopes
Language == INSTANCE SiteLanguage WITH MaxCalls <- MaxCalls["language"], MaxClicks <- MaxClicks["language"]
Interstitial == INSTANCE Countdown WITH MaxCalls <- MaxCalls["countdown"], MaxClicks <- MaxClicks["countdown"]
Stats == INSTANCE StatsPage WITH MaxClicks <- MaxClicks["stats"], Links <- StatsLinks

-----------------------------------------------------------------------------
\* The router mounts one of the pages (web/src/app, redirect.js).
Init ==
    \/ page = "audit" /\ Audit!Init
    \/ page = "links" /\ LinkList!Init
    \/ page = "newLink" /\ NewLink!Init
    \/ page = "editLink" /\ EditLink!Init
    \/ page = "users" /\ UserList!Init
    \/ page = "roles" /\ RoleList!Init
    \/ page = "tokens" /\ TokenList!Init
    \/ page = "security" /\ Security!Init
    \/ page = "dashboard" /\ Dashboard!Init
    \/ page = "settings" /\ Overview!Init
    \/ page = "forms" /\ Forms!Init
    \/ page = "providers" /\ ProviderList!Init
    \/ page = "session" /\ Session!Init
    \/ page = "register" /\ Register!Init
    \/ page = "toasts" /\ Notices!Init
    \/ page = "shell" /\ Console!Init
    \/ page = "language" /\ Language!Init
    \/ page = "countdown" /\ Interstitial!Init
    \/ page = "stats" /\ Stats!Init

AuditStep == page = "audit" /\ Audit!Next /\ UNCHANGED page
LinkListStep == page = "links" /\ LinkList!Next /\ UNCHANGED page
NewLinkStep == page = "newLink" /\ NewLink!Next /\ UNCHANGED page
EditLinkStep == page = "editLink" /\ EditLink!Next /\ UNCHANGED page
UserListStep == page = "users" /\ UserList!Next /\ UNCHANGED page
RoleListStep == page = "roles" /\ RoleList!Next /\ UNCHANGED page
TokenListStep == page = "tokens" /\ TokenList!Next /\ UNCHANGED page
SecurityStep == page = "security" /\ Security!Next /\ UNCHANGED page
DashboardStep == page = "dashboard" /\ Dashboard!Next /\ UNCHANGED page
OverviewStep == page = "settings" /\ Overview!Next /\ UNCHANGED page
FormsStep == page = "forms" /\ Forms!Next /\ UNCHANGED page
ProviderListStep == page = "providers" /\ ProviderList!Next /\ UNCHANGED page
SessionStep == page = "session" /\ Session!Next /\ UNCHANGED page
RegisterStep == page = "register" /\ Register!Next /\ UNCHANGED page
NoticesStep == page = "toasts" /\ Notices!Next /\ UNCHANGED page
ConsoleStep == page = "shell" /\ Console!Next /\ UNCHANGED page
LanguageStep == page = "language" /\ Language!Next /\ UNCHANGED page
InterstitialStep == page = "countdown" /\ Interstitial!Next /\ UNCHANGED page
StatsStep == page = "stats" /\ Stats!Next /\ UNCHANGED page

Next ==
    \/ AuditStep \/ LinkListStep \/ NewLinkStep
    \/ EditLinkStep \/ UserListStep \/ RoleListStep
    \/ TokenListStep \/ SecurityStep \/ DashboardStep
    \/ OverviewStep \/ FormsStep \/ ProviderListStep
    \/ SessionStep \/ RegisterStep \/ NoticesStep
    \/ ConsoleStep \/ LanguageStep \/ InterstitialStep
    \/ StatsStep


-----------------------------------------------------------------------------
(* Fairness.  The API answers what has reached it, and a call ends: fetch  *)
(* resolves or rejects.  The first call is enough, for a call that ends    *)
(* leaves the queue.  Users owe nothing, nor do the other administrators.  *)

AnApiAnswers ==
    \/ page = "audit" /\ \E i \in DOMAIN calls : Audit!Serve(i)
    \/ page = "links" /\ \E i \in DOMAIN calls : LinkList!Serve(i)
    \/ page = "newLink" /\ \E i \in DOMAIN calls : NewLink!Serve(i)
    \/ page = "editLink" /\ \E i \in DOMAIN calls : EditLink!Serve(i)
    \/ page = "users" /\ \E i \in DOMAIN calls : UserList!Serve(i)
    \/ page = "roles" /\ \E i \in DOMAIN calls : RoleList!Serve(i)
    \/ page = "tokens" /\ \E i \in DOMAIN calls : TokenList!Serve(i)
    \/ page = "security" /\ \E i \in DOMAIN calls : Security!Serve(i)
    \/ page = "dashboard" /\ \E i \in DOMAIN calls : Dashboard!Serve(i)
    \/ page = "settings" /\ \E i \in DOMAIN calls : Overview!Serve(i)
    \/ page = "forms" /\ \E i \in DOMAIN calls : Forms!Serve(i)
    \/ page = "providers" /\ \E i \in DOMAIN calls : ProviderList!Serve(i)
    \/ page = "session" /\ \E i \in DOMAIN calls : Session!Serve(i)
    \/ page = "register" /\ \E i \in DOMAIN calls : Register!Serve(i)
    \/ page = "toasts" /\ \E i \in DOMAIN calls : Notices!Serve(i)
    \/ page = "shell" /\ \E i \in DOMAIN calls : Console!Serve(i)
    \/ page = "language" /\ \E i \in DOMAIN calls : Language!Serve(i)

ACallEnds ==
    \/ page = "audit" /\ calls # <<>> /\ Audit!Deliver(1)
    \/ page = "links" /\ calls # <<>> /\ LinkList!Deliver(1)
    \/ page = "newLink" /\ calls # <<>> /\ NewLink!Deliver(1)
    \/ page = "editLink" /\ ~ui.left /\ calls # <<>> /\ EditLink!Deliver(1)
    \/ page = "users" /\ calls # <<>> /\ UserList!Deliver(1)
    \/ page = "roles" /\ calls # <<>> /\ RoleList!Deliver(1)
    \/ page = "tokens" /\ calls # <<>> /\ TokenList!Deliver(1)
    \/ page = "security" /\ calls # <<>> /\ Security!Deliver(1)
    \/ page = "dashboard" /\ calls # <<>> /\ Dashboard!Deliver(1)
    \/ page = "settings" /\ calls # <<>> /\ Overview!Deliver(1)
    \/ page = "forms" /\ ~ui.left /\ calls # <<>> /\ Forms!Deliver(1)
    \/ page = "providers" /\ calls # <<>> /\ ProviderList!Deliver(1)
    \/ page = "session" /\ calls # <<>> /\ Session!Deliver(1)
    \/ page = "register" /\ calls # <<>> /\ Register!Deliver(1)
    \/ page = "toasts" /\ calls # <<>> /\ Notices!Deliver(1)
    \/ page = "shell" /\ calls # <<>> /\ Console!Deliver(1)
    \/ page = "language" /\ calls # <<>> /\ Language!Deliver(1)
    \/ page = "countdown" /\ calls # <<>> /\ Interstitial!Deliver(1)
    \/ page = "stats" /\ \E p \in Stats!Parts : Stats!Deliver(p)

Goes(A) == A /\ UNCHANGED <<page, clicks>>

Fairness == WF_vars(Goes(AnApiAnswers)) /\ WF_vars(Goes(ACallEnds))

Spec == Init /\ [][Next]_vars /\ Fairness

-----------------------------------------------------------------------------
(* Every page keeps to its types.                                          *)
TypeOK ==
    /\ page = "audit" => Audit!TypeOK
    /\ page = "links" => LinkList!TypeOK
    /\ page = "newLink" => NewLink!TypeOK
    /\ page = "editLink" => EditLink!TypeOK
    /\ page = "users" => UserList!TypeOK
    /\ page = "roles" => RoleList!TypeOK
    /\ page = "tokens" => TokenList!TypeOK
    /\ page = "security" => Security!TypeOK
    /\ page = "dashboard" => Dashboard!TypeOK
    /\ page = "settings" => Overview!TypeOK
    /\ page = "forms" => Forms!TypeOK
    /\ page = "providers" => ProviderList!TypeOK
    /\ page = "session" => Session!TypeOK
    /\ page = "register" => Register!TypeOK
    /\ page = "toasts" => Notices!TypeOK
    /\ page = "shell" => Console!TypeOK
    /\ page = "language" => Language!TypeOK
    /\ page = "countdown" => Interstitial!TypeOK
    /\ page = "stats" => Stats!TypeOK

\* A spinner, a disabled control or a message that is to go away by itself.
Waiting ==
    \/ page = "audit" /\ Audit!Waiting
    \/ page = "links" /\ LinkList!Waiting
    \/ page = "newLink" /\ NewLink!Waiting
    \/ page = "editLink" /\ EditLink!Waiting
    \/ page = "users" /\ UserList!Waiting
    \/ page = "roles" /\ RoleList!Waiting
    \/ page = "tokens" /\ TokenList!Waiting
    \/ page = "security" /\ Security!Waiting
    \/ page = "dashboard" /\ Dashboard!Waiting
    \/ page = "settings" /\ Overview!Waiting
    \/ page = "forms" /\ Forms!Waiting
    \/ page = "providers" /\ ProviderList!Waiting
    \/ page = "session" /\ Session!Waiting
    \/ page = "register" /\ Register!Waiting
    \/ page = "toasts" /\ Notices!Waiting
    \/ page = "shell" /\ Console!Waiting
    \/ page = "language" /\ Language!Waiting
    \/ page = "stats" /\ Stats!Waiting

(* No page stays busy: whatever fails, overlaps or arrives late, each      *)
(* spinner ends, each control that was disabled while its handler ran is   *)
(* given back, and each notification goes, once its user stops clicking    *)
(* (the finally blocks and cancelled flags of the pages).                  *)
Settles == <>[]~Waiting

(* What a page shows is the answer to what its controls ask, wherever the  *)
(* code takes care that it is: the parts of the statistics                 *)
(* (stats/page.tsx:119-182), the link that is edited (edit/page.tsx:56-81),*)
(* the summary of the settings (settings/page.tsx:33-66), the selection of *)
(* links (links/page.tsx:123-125) and the language (locale-switcher.tsx).  *)
ShownIsAsked ==
    /\ page = "stats" => Stats!ShownIsAsked /\ Stats!LogPageExists
    /\ page = "editLink" => EditLink!LastAsked
    /\ page = "settings" => Overview!SummaryIsOfThisLoad /\ Overview!SearchIsReachable
    /\ page = "links" => LinkList!SelectionOnScreen
    /\ page = "language" => Language!LanguageAgrees

(* A tab that signed in changes nothing under another tab's later session. *)
ActsAsSignedIn == page = "session" => Session!ActsAsSignedIn

(* A row's confirmation closes by itself over a deleted link only.         *)
ClosedIsDeleted == [][page = "links" => LinkList!ClosedIsDeleted]_vars

(* What is shown once, a token's secret and the recovery codes, is taken   *)
(* off the screen by its owner.                                            *)
SecretsStay ==
    [][/\ page = "tokens" => TokenList!SecretStays
       /\ page = "security" => Security!CodesStay]_vars

(* What was typed into an open settings form is given up by its author, or *)
(* saved; and the guard of the page knows exactly the forms it would lose. *)
DraftKept == [][page = "forms" => Forms!DraftKept]_vars

(* A save of the runtime settings replaces what its author was shown.      *)
SavesOverWhatIsShown == [][page = "forms" => Forms!SavesOverWhatIsShown]_vars

(* The dashboard shows no zero and no "nothing yet" for want of an answer. *)
ZeroIsAnswered == page = "dashboard" => Dashboard!ZeroIsAnswered

(* Registration is never offered with a challenge that was used before.    *)
FreshToken == page = "register" => Register!FreshToken

(* A tracker counts each page of a visit once.                             *)
CountedOnce == page = "shell" => Console!CountedOnce

(* The interstitial never leaves before its countdown ran for the whole of *)
(* its time: what it was stopped or put away for does not count, what its  *)
(* tab was in the background for does.                                     *)
NeverEarly == page = "countdown" => Interstitial!NeverEarly

(* Every notification on the screen, and the countdown while it runs, has  *)
(* exactly one timer; a countdown that is stopped, leaving or put away has *)
(* none, and a notification that goes leaves none behind, but for the one  *)
(* that a newer pushes out of a full screen, whose timer the code keeps.   *)
TimersTended ==
    /\ [](/\ page = "toasts" => Notices!TimedToasts
          /\ page = "countdown" => Interstitial!OneTimer)
    /\ [][page = "toasts" => Notices!TimersGo]_vars
=============================================================================
