SPECIFICATION FairSpec
CONSTANTS
    Aliases = {a1}
    Ids = {i1}
    Dests = {d1, d2}
    Expiries = {0}
    Proc = {p1, p2}
    MaxTime = 0
    MaxEdits = 2
    Grace = 0
    Faults = FALSE
    None = None
    Unborn = Unborn
    Gone = Gone
    Unset = Unset
PROPERTY
    RetiredNeverResolves
