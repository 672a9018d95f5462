SPECIFICATION FairSpec
CONSTANTS
    api1 = api1
    api2 = api2
    r1 = r1
    r2 = r2
    totp = totp
    other = other
    on = on
    off = off
    Procs = {api1, api2}
    Requests = {r1, r2}
    Home <- MCHome
    Fields = {totp, other}
    Totp = totp
    Values = {on, off}
    Off = off
    Null = Null
    Env <- MCEnv
    Saved <- MCSaved
    Changed <- MCChanged
    MaxRevision = 3
    None = None
INVARIANTS
    TypeOK
    OneDocumentPerRevision
    ReadYourWrites
PROPERTIES
    NeverBack
    PatchKeepsOthers
    Converges
