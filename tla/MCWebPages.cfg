SPECIFICATION Spec
CONSTANTS
    MaxCalls <- MCMaxCalls
    MaxClicks <- MCMaxClicks
    AuditKinds = {"create", "delete"}
    AuditKindOf <- MCAuditKindOf
    AuditEntries = 3
    LinkIds = {1, 2}
    LinkFilters <- MCLinkFilters
    LinkSearches = {"", "x"}
    LinkHits <- MCLinkHits
    BulkActions = {"delete", "tag"}
    ShortDomains = {"d"}
    RuleCap = 2
    NewTexts = {"", "u"}
    EditTexts = {"t", "u"}
    Accounts = {"admin", "ann"}
    Self = "admin"
    RoleNames = {"a", "b"}
    RoleGrants <- MCRoleGrants
    TokenIds = {1, 2}
    OverviewScopes <- MCOverviewScopes
    FormValues = {"a", "b"}
    FormTexts = {"a", "b", "a ", "x"}
    FormParsed <- MCFormParsed
    Providers = {1, 2}
    ProviderConfigs = {"c", "d"}
    BrowserTabs = {1, 2}
    SignIns = {"ann", "bob"}
    TwoFactor = {"bob"}
    MaxSessions = 3
    SiteKeys = {"k"}
    ToastLimit = 2
    ShellPaths <- MCShellPaths
    ShellScopes <- MCShellScopes
    Trackings <- MCTrackings
    AcceptLanguages <- MCAcceptLanguages
    Durations = {1, 2}
    Ranges = {"7d", "30d"}
    Start = "30d"
    StatsLinks = {1, 2}
    LogPages = 2
INVARIANTS
    TypeOK
    ShownIsAsked
    ActsAsSignedIn
    ZeroIsAnswered
    FreshToken
    CountedOnce
    NeverEarly
PROPERTIES
    Settles
    ClosedIsDeleted
    SecretsStay
    DraftKept
    SavesOverWhatIsShown
    TimersTended
CHECK_DEADLOCK FALSE
