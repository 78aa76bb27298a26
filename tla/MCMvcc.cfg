CONSTANTS
    r1 = r1
    r2 = r2
    p1 = p1
    p2 = p2
    Readers = {r1, r2}
    Procs = {p1, p2}
    NoProc = NoProc
    Proc <- Apart
    MaxReaders = 1
    MaxTxn = 3
    MaxLoop = 2
    Crashable = {p2}
SPECIFICATION FairSpec
INVARIANTS SnapshotIntact ActiveIsPublished SteadyIntact SlotExclusive CacheIsFresh
PROPERTIES OldestMonotone UnparkResolves
