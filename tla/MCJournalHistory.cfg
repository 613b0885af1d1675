SPECIFICATION SpecSolo
CONSTANTS
    m1 = m1 m2 = m2
    n1 = n1 n2 = n2
    e1 = e1 e2 = e2
    g1 = g1 g2 = g2
    t1 = t1
    alice = alice bob = bob carol = carol server = server
    Map <- OneMap
    Node <- TwoNodes
    Edge <- OneEdge
    Group <- OneGroup
    Title <- OneTitle
    Tag <- OneTitle
    Type <- TwoTypes
    Position <- TwoPositions
    Offset <- OneStep
    InitMaps <- OneMap
    Actor <- OneActor
    MaxEntries = 3
    Nil = Nil
    Keep = Keep
    Process <- NoProcess
PROPERTIES
    ImplementsHistory
CHECK_DEADLOCK FALSE
