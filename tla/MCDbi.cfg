SPECIFICATION Spec
CONSTANTS
    Names = {a, b}
    MaxDbi = 2
    Flags = {"plain"}
    Modes = {"plain", "create"}
    MaxSeq = 4
    MaxId = 2
    Careful = TRUE
SYMMETRY SameNames
INVARIANTS HandleSound WritesSurvive
