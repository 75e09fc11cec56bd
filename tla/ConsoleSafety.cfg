SPECIFICATION Spec
CONSTANTS
    None = None
    Execs = {x, y}
    First = x
    EventsLimit = 2
    MaxEvents = 3
    Views <- SomeViews
    Items = {i, j}
    Queries = {p, q}
    MaxChanges = 2
    MaxFaults = 1
    MaxLooks = 2
    n1 = n1
    n2 = n2
    Names = {n1, n2}
    CopyOf <- Copies
    Scopes <- SomeScopes
    Runs = {e1, e2}
    MaxInst = 3
    MaxLostCalls = 2
    MAX_HISTORY = 3
    MaxDocs = 4
    Crews = {c1, c2}
    Users <- SomeUsers
    Tabs = {a, b}
    Rooms = {c1, c2}
    Nodes = {n, m}
    MAX_RECONNECT_ATTEMPTS = 1
    Sessions <- SomeSessions
    People = {u, v}
    MaxTokens = 3
    MaxUpsets = 1
    MaxTurns = 3
    MaxChunks = 2
INVARIANTS
    ConsoleTypeOK
    LogInOrder  
    ReadYourWrites ListOfQuery AnnouncedOnce
    NoLostUpdate SavedWhereItBelongs ActsOnWhatIsShown
    ShowsItsProp 
     LockedOnlyWhileBusy
    NoGhostInTime 
    
    TurnsSettle
PROPERTIES
    IsUndoStack
    
CHECK_DEADLOCK FALSE
