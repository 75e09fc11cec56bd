SPECIFICATION FairSpec
CONSTANTS
    Writers = {w1}
    Timers = {t1}
    Closer = closer
    NoThread = NoThread
    Appenders = {r1}
    w1 = w1
    t1 = t1
    r1 = r1
    Logged = 2
    MaxBuffer = 2
    MaxPending = 1
    Retries = 1
    Attempts = 2
    BatchSize = 5
    CanRenumberFail = TRUE
    MaxEvents = 2
    MaxFails = 1
INVARIANT WriteOrder
PROPERTY EventuallyLogged
