SPECIFICATION Spec
CONSTANTS
    Names = {a, b}
    MaxDbi = 2
    Flags = {"plain", "dupsort"}
    Modes = {"plain", "create"}
    MaxSeq = 4
    MaxId = 2
    Careful = FALSE
SYMMETRY SameNames
INVARIANT WritesSurvive
