SPECIFICATION Spec
CONSTANTS
    Providers = {k1, k2}
    Subjects = {x1}
    States = {s1, s2}
    Accounts = {a1, a2}
    Bases = {b1}
    Suffixes = 2
    Attempts = 3
    Procs = {p1, p2}
    None = None
SYMMETRY Symmetry
INVARIANTS
    TypeOK
    OneAccountEach
    NothingDangles
    RedeemedOnce
    AnotherNameEachTry
CHECK_DEADLOCK FALSE
