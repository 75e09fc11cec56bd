SPECIFICATION FairSpec
CONSTANTS
    Execs = {e1, e2}
    Procs = {p1}
    NoProc = NoProc
    e1 = e1
    e2 = e2
    p1 = p1
    WorkerId <- DistinctIds
    PoolSize = 1
    Budgeted = {e1}
    Redacting = {e2}
    RelockRefreshes = FALSE
    Env = {"proxy_fails", "db_fails"}
    MaxStops = 2
PROPERTY Settles
PROPERTY KeysReclaimed
CHECK_DEADLOCK FALSE
