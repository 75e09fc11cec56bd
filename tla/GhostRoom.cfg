SPECIFICATION RoomSpec
CONSTANTS
    Tabs = {a, b}
    Rooms = {c1, c2}
    Nodes = {n, m}
    None = None
    MAX_RECONNECT_ATTEMPTS = 1
    Sessions <- Renames
INVARIANT NoGhost
CHECK_DEADLOCK FALSE
