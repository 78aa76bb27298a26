CONSTANTS
    r1 = r1
    r2 = r2
    p1 = p1
    Readers = {r1, r2}
    Procs = {p1}
    NoProc = NoProc
    NoReader = NoReader
    Proc <- Together
    MaxReaders = 2
    MaxTxn = 3
    MaxLoop = 1
    Crashable = {}
SPECIFICATION SpecC
INVARIANT ParkedIsMarked
