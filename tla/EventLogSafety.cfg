SPECIFICATION Spec
CONSTANTS
    Writers = {w1, w2}
    Timers = {t1}
    Closer = closer
    NoThread = NoThread
    Appenders = {r1}
    w1 = w1
    w2 = w2
    t1 = t1
    r1 = r1
    Logged = 2
    MaxBuffer = 2
    MaxPending = 10
    Retries = 2
    Attempts = 3
    BatchSize = 1
    CanRenumberFail = FALSE
    MaxEvents = 3
    MaxFails = 0
SYMMETRY Symmetry
INVARIANT TypeOK
INVARIANT NothingSkipped
INVARIANT WriteOrder
INVARIANT StreamComplete
 
