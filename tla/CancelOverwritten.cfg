SPECIFICATION Spec
CONSTANTS
    Execs = {e1}
    Procs = {p1}
    NoProc = NoProc
    e1 = e1
    p1 = p1
    WorkerId <- DistinctIds
    PoolSize = 1
    Budgeted = {e1}
    Redacting = {}
    RelockRefreshes = FALSE
    Env = {}
    MaxStops = 0
PROPERTY CancelIsFinal
CHECK_DEADLOCK FALSE
