SPECIFICATION Spec
CONSTANTS
    p1 = p1
    p2 = p2
    Procs = {p1, p2}
    OsUnit = 2
    MinFirst = 2
    Gap = 1
    Madv = 1
    Plans <- ThePlans
SYMMETRY Symmetric
INVARIANTS Backed Openable
