SPECIFICATION Spec
CONSTANTS
    ann = ann ben = ben
    n1 = n1 n2 = n2
    Client <- TwoClients
    Node <- TwoNodes
    Nil = Nil
    MaxConns = 2
    MaxFrames = 1
INVARIANTS
    TypeOK
    OneHolder
    NobodyLingers
PROPERTIES
    ClosedTabFreesLock
CHECK_DEADLOCK FALSE
