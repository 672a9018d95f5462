------------------------------ MODULE Navigation -------------------------------
(***************************************************************************)
(* Where the console lets an account go                                    *)
(* (web/src/components/admin-navigation.ts, settings-tabs.tsx): the        *)
(* sections of the sidebar, the categories of the settings, their tabs and *)
(* what the settings search finds, each by the scopes of the account.  A   *)
(* path is the sequence of its segments.                                   *)
(***************************************************************************)
EXTENDS Naturals, Sequences

Home == <<"home">>
Settings(rest) == <<"home", "settings">> \o rest
Users == <<"home", "users">>

\* An entry is shown to an account with one of its scopes; an entry that names no
\* scope is everybody's.
Entry(path, scopes) == [path |-> path, scopes |-> scopes]

Primary ==
    {Entry(Home, {}), Entry(<<"home", "links">>, {}), Entry(<<"home", "stats">>, {}),
     Entry(<<"home", "audit">>, {"audit:read"})}

Categories ==
    {Entry(Settings(<<"links">>), {"settings:manage"}),
     Entry(Settings(<<"registration">>), {"settings:manage", "captcha:manage", "oidc:manage"}),
     Entry(Users, {"users:manage", "roles:manage"}),
     Entry(Settings(<<"traffic">>), {"settings:manage"}),
     Entry(Settings(<<"analytics">>), {"settings:manage", "analytics:manage"})}

Tabs ==
    {Entry(Settings(<<"links">>), {"settings:manage"}),
     Entry(Settings(<<"links", "redirects">>), {"settings:manage"}),
     Entry(Settings(<<"links", "maintenance">>), {"settings:manage"}),
     Entry(Settings(<<"registration">>), {"settings:manage", "captcha:manage"}),
     Entry(Settings(<<"oidc">>), {"oidc:manage"}),
     Entry(Users, {"users:manage"}),
     Entry(Settings(<<"roles">>), {"roles:manage"})}

May(entry, scopes) == entry.scopes = {} \/ entry.scopes \cap scopes # {}

\* An account that manages roles and no accounts is sent to the roles.
Redirected(entry, scopes) ==
    IF entry.path = Users /\ "users:manage" \notin scopes
    THEN [entry EXCEPT !.path = Settings(<<"roles">>)] ELSE entry

Visible(entries, scopes) == {Redirected(e, scopes) : e \in {x \in entries : May(x, scopes)}}
VisibleNavigation(scopes) == Visible(Primary, scopes) \cup Visible(Categories, scopes)
VisibleTabs(scopes) == {e \in Tabs : May(e, scopes)}

-----------------------------------------------------------------------------
\* Pages that belong to a category under another address.
Aliases ==
    {<<Settings(<<"runtime">>), Settings(<<"links">>)>>,
     <<Settings(<<"captcha">>), Settings(<<"registration">>)>>,
     <<Settings(<<"oidc">>), Settings(<<"registration">>)>>,
     <<Settings(<<"roles">>), Users>>}

\* A path is a page, or under it.
Under(page, path) == Len(page) <= Len(path) /\ SubSeq(path, 1, Len(page)) = page

NavigationPath(path) ==
    IF \E a \in Aliases : Under(a[1], path)
    THEN LET a == CHOOSE x \in Aliases : Under(x[1], path)
         IN  a[2] \o SubSeq(path, Len(a[1]) + 1, Len(path))
    ELSE path

NavItemActive(path, target) ==
    LET current == NavigationPath(path)
        wanted  == NavigationPath(target)
    IN  IF wanted = Home THEN current = wanted ELSE Under(wanted, current)

-----------------------------------------------------------------------------
\* What the search of the settings knows: a page, a field on it, the scope it is for.
Found(path, fields, scope) == [path : {path}, field : fields, scope : {scope}]

SearchEntries ==
    UNION {
        Found(Settings(<<"links">>),
              {"alias_mode", "unique_urls", "max_links_per_user", "short_domains"}, "settings:manage"),
        Found(Settings(<<"links", "redirects">>),
              {"forward_query", "fallback_url", "destination_denylist"}, "settings:manage"),
        Found(Settings(<<"links", "maintenance">>),
              {"health_check_enabled", "health_check_interval_seconds", "auto_prune_expired",
               "prune_grace_seconds"}, "settings:manage"),
        Found(Settings(<<"registration">>), {"registration_enabled", "totp_enabled"}, "settings:manage"),
        Found(Settings(<<"registration">>),
              {"title", "siteKey", "secretKey", "expectedHostname", "expectedAction"}, "captcha:manage"),
        Found(Settings(<<"oidc">>), {"thirdParty", "callback", "autoProvision"}, "oidc:manage"),
        Found(Users, {"users.title"}, "users:manage"),
        Found(Settings(<<"roles">>), {"roles.title"}, "roles:manage"),
        Found(Settings(<<"traffic">>),
              {"rate_limit_enabled", "rate_limit_login", "rate_limit_register", "rate_limit_2fa",
               "rate_limit_oidc", "rate_limit_api", "rate_limit_redirect"}, "settings:manage"),
        Found(Settings(<<"analytics">>), {"count_bots"}, "settings:manage"),
        Found(Settings(<<"analytics">>),
              {"ga4", "gtm", "googleTag", "matomoUrl", "matomoSiteId", "clarity"}, "analytics:manage")}

VisibleSearchEntries(scopes) == {e \in SearchEntries : e.scope \in scopes}

-----------------------------------------------------------------------------
\* What an entry leads to is open to the account: a category it belongs to is
\* in the sidebar, and its tab, where the page is one of several, is visible.
Reachable(path, scopes) ==
    /\ \E c \in Visible(Categories, scopes) : NavItemActive(path, c.path)
    /\ (\E t \in Tabs : t.path = path) => \E t \in VisibleTabs(scopes) : t.path = path
=============================================================================
