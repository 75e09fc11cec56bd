SPECIFICATION Spec
CONSTANTS
    Execs = {e1, e2}
    Procs = {p1, p2}
    NoProc = NoProc
    e1 = e1
    e2 = e2
    p1 = p1
    p2 = p2
    WorkerId <- SharedIds
    PoolSize = 1
    Budgeted = {e1}
    Redacting = {e1, e2}
    RelockRefreshes = FALSE
    Env = {"long_run", "orphan_ages", "db_fails", "db_stays_down", "redactor_fails"}
    MaxStops = 1
SYMMETRY ProcSymmetry
INVARIANT TasksSettled
PROPERTY KeepsPromise
CHECK_DEADLOCK FALSE
