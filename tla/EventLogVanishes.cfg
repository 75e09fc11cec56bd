SPECIFICATION Spec
CONSTANTS
    Writers = {w1}
    Timers = {t1, t2}
    Closer = closer
    NoThread = NoThread
    Appenders = {r1}
    w1 = w1
    t1 = t1
    t2 = t2
    r1 = r1
    Logged = 0
    MaxBuffer = 2
    MaxPending = 10
    Retries = 2
    Attempts = 3
    BatchSize = 1
    CanRenumberFail = FALSE
    MaxEvents = 1
    MaxFails = 0
PROPERTY FinalFlushEmpties
