SPECIFICATION Spec
CONSTANTS
    desk = desk phone = phone
    Desktop = {}
    Phone <- OnePhone
    Conn <- Sockets
    MaxConns = 2
    MaxCommits = 2
    EventsCap = 2
    SendCap = 1
INVARIANTS
    SyncTypeOK
    PhonesHearOfEverything
PROPERTIES
    DroppedComeBack
CHECK_DEADLOCK FALSE
