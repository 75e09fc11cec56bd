SPECIFICATION Spec
CONSTANTS
    Execs = {e1}
    Procs = {p1, p2}
    NoProc = NoProc
    e1 = e1
    p1 = p1
    p2 = p2
    WorkerId <- SharedIds
    PoolSize = 1
    Budgeted = {e1}
    Redacting = {}
    RelockRefreshes = FALSE
    Env = {}
    MaxStops = 1
PROPERTY RecoverySparesHealthy
CHECK_DEADLOCK FALSE
