SPECIFICATION FairSpec
CONSTANTS
    l1 = l1
    l2 = l2
    w1 = w1
    w2 = w2
    Links = {l1, l2}
    Days = {1}
    Events <- MCEvents
    LinkOf <- MCLinkOf
    DayOf <- MCDayOf
    Bots = {1, 4}
    Workers = {w1, w2}
    Pruner = Pruner
    Batch = 2
    PruneLimit = 2
    MaxPrunes = 1
    MaxFaults = 1
    None = None
INVARIANTS
    TypeOK
    Tally
PROPERTIES
    ImplementsLedger
    EveryVisitCounted
CHECK_DEADLOCK FALSE
