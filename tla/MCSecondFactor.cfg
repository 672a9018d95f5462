SPECIFICATION Spec
CONSTANTS
    Users = {u1}
    Tokens = {t1}
    Secrets = {s1, s2}
    Batches = {{c1, c2}, {c3}}
    Procs = {p1, p2}
    Limit = 2
    Wrong = Wrong
    None = None
SYMMETRY Symmetry
INVARIANTS
    TypeOK
    GuessesBounded
    SpentOnce
    CodesMatchSecret
