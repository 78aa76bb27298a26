SPECIFICATION Spec
CONSTANTS
    Procs = {"p1", "p2"}
    Envs = {"a", "b", "c"}
    ProcOf <- MCProcOf
    Deleters = {"d"}
    Settings <- TwoAndDeleter
    OnDisk = {TRUE}
    DontSync = {}
    MayFail = {}
    MaxOpens = 2
    MaxFiles = 2
INVARIANT NoHang
CHECK_DEADLOCK FALSE
