SPECIFICATION Spec
CONSTANTS
    Procs = {"p1", "p2"}
    Envs = {"a", "b", "c"}
    ProcOf <- MCProcOf
    Deleters = {"d"}
    Settings <- AllSettings
    OnDisk = {TRUE}
    DontSync = {}
    MayFail = {"c"}
    MaxOpens = 2
    MaxFiles = 2
INVARIANTS InUseIsReady OneDomain ReadersSpared NoHang
PROPERTIES DeletedIsUnused
CHECK_DEADLOCK FALSE
