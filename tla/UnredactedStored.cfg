SPECIFICATION Spec
CONSTANTS
    Execs = {e1}
    Procs = {p1}
    NoProc = NoProc
    e1 = e1
    p1 = p1
    WorkerId <- DistinctIds
    PoolSize = 1
    Budgeted = {e1}
    Redacting = {e1}
    RelockRefreshes = FALSE
    Env = {"redactor_fails"}
    MaxStops = 0
INVARIANT StoredRedacted
CHECK_DEADLOCK FALSE
