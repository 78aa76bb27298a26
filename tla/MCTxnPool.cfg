CONSTANTS
    Goroutines = {g1, g2}
    Sweepers = {s1, s2}
    Txns = {t1}
    Settings <- Complete
    MaxId = 3
    NoTxn = NoTxn
SPECIFICATION Spec
INVARIANTS OneOwner IdlePinsNothing ViewSeesEarlierCommits ReturnedIsPublished
PROPERTY NothingStuck
