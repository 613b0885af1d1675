SPECIFICATION Spec
CONSTANTS
    ann = ann ben = ben
    n1 = n1 n2 = n2
    Client <- OneClient
    Node <- OneNode
    Nil = Nil
    MaxConns = 2
    MaxFrames = 2
INVARIANTS
    ConnectedIsHere
CHECK_DEADLOCK FALSE
