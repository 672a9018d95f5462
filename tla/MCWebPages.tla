------------------------------ MODULE MCWebPages ------------------------------
(* Small pages for TLC: two of everything that two things can happen to. *)
EXTENDS WebPages, TLC

MCMaxCalls == [audit |-> 2, links |-> 2, newLink |-> 2, editLink |-> 2, users |-> 2, roles |-> 2,
               tokens |-> 2, security |-> 2, dashboard |-> 3, settings |-> 4, forms |-> 2,
               providers |-> 2, session |-> 2, register |-> 2, toasts |-> 4, shell |-> 2,
               language |-> 3, countdown |-> 2]
MCMaxClicks == [audit |-> 3, links |-> 4, newLink |-> 4, editLink |-> 3, users |-> 3, roles |-> 3,
                tokens |-> 4, security |-> 6, dashboard |-> 5, settings |-> 3, forms |-> 4,
                providers |-> 4, session |-> 3, register |-> 5, toasts |-> 4, shell |-> 4,
                language |-> 3, countdown |-> 8, stats |-> 2]

MCAuditKindOf == <<"create", "delete", "create">>
MCLinkFilters == [status |-> {"all", "disabled"}]
MCLinkHits == "" :> {1, 2} @@ "x" :> {1}
MCRoleGrants == {{}, {"unrestricted"}}
MCOverviewScopes == {{}, {"settings:manage", "analytics:manage"}, {"captcha:manage"}, {"oidc:manage"},
                     {"roles:manage"}, {"users:manage"}}
MCFormParsed == "a" :> "a" @@ "b" :> "b" @@ "a " :> "a" @@ "x" :> "bad"
MCShellPaths == {<<"home">>, <<"home", "settings", "roles">>, <<"home", "account", "tokens">>}
MCShellScopes == {{}, {"roles:manage", "tokens:manage"}}

Untracked == [f \in {"ga4", "gtm", "googleTag", "matomoUrl", "matomoSiteId", "clarity"} |-> ""]
MCTrackings == {[Untracked EXCEPT !["ga4"] = "valid", !["gtm"] = "valid"],
                [Untracked EXCEPT !["matomoUrl"] = "valid"]}

Accepts(tag, q) == [tag |-> tag, q |-> q]
MCAcceptLanguages == {<<>>, <<Accepts("zh-TW", 8), Accepts("en-GB", 9)>>, <<Accepts("fr", 9), Accepts("zh", 8)>>}
=============================================================================
