SPECIFICATION Spec
CONSTANTS
    Execs = {e1, e2}
    Procs = {p1, p2}
    NoProc = NoProc
    e1 = e1
    e2 = e2
    p1 = p1
    p2 = p2
    WorkerId <- DistinctIds
    PoolSize = 1
    Budgeted = {e1}
    Redacting = {e2}
    RelockRefreshes = TRUE
    Env = {"redactor_fails", "db_fails", "proxy_fails", "purge"}
    MaxStops = 1
SYMMETRY ProcSymmetry
PROPERTY KeepsPromise
PROPERTY NoCrewAfterCancel
CHECK_DEADLOCK FALSE
