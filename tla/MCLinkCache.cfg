SPECIFICATION FairSpec
CONSTANTS
    Aliases = {a1}
    Ids = {i1, i2}
    Dests = {d1}
    Expiries = {0, 1}
    Proc = {p1, p2}
    MaxTime = 2
    MaxEdits = 2
    Grace = 0
    Faults = TRUE
    None = None
    Unborn = Unborn
    Gone = Gone
    Unset = Unset

INVARIANTS
    TypeOK
    CopiesAreVersions
PROPERTIES
    EventuallyCoherent
    RetiredIsFinal
