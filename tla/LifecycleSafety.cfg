SPECIFICATION Spec
CONSTANTS
    Execs = {e1, e2}
    Procs = {p1, p2}
    NoProc = NoProc
    e1 = e1
    e2 = e2
    p1 = p1
    p2 = p2
    WorkerId <- DistinctIds
    PoolSize = 1
    Budgeted = {e1}
    Redacting = {e2}
    RelockRefreshes = FALSE
    Env = {"audit_fails", "proxy_fails", "redactor_fails", "db_fails", "purge"}
    MaxStops = 1
SYMMETRY ProcSymmetry
INVARIANT TypeOK
INVARIANT TasksSettled
INVARIANT BudgetEnforced
INVARIANT KeysAccounted
PROPERTY QueuedCancelIsFinal
PROPERTY RecoverySparesHealthy
CHECK_DEADLOCK FALSE
