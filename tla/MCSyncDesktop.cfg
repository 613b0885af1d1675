SPECIFICATION Spec
CONSTANTS
    desk = desk phone = phone
    Desktop <- OneDesk
    Phone = {}
    Conn <- Sockets
    MaxConns = 2
    MaxCommits = 2
    EventsCap = 4
    SendCap = 1
INVARIANTS
    ReconnectingRefetches
CHECK_DEADLOCK FALSE
