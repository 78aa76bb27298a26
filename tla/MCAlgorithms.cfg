SPECIFICATION Spec
CONSTANTS
    B58Digits = 2
    B58Bytes = 2
    MaxKeySize = 2
    MAX_TXNID = 11
    RklSwapFrom = 2
    RklEager = FALSE
    dpl_insertion_threshold = 2
    LinearLimit = 2
    MaxTxn = 5
    MaxText = 5
    MaxPnl = 20
    MaxSpan = 9
    MaxSets = 3
    MantissaSize = 3
    ExponentSize = 4
    WithSpaces = FALSE
    SkipOld = FALSE
INVARIANTS TableInv TextSound SettingsSound ListsSound DumpLoads
