SPECIFICATION SpecBoth
CONSTANTS
    m1 = m1 m2 = m2
    n1 = n1 n2 = n2
    e1 = e1 e2 = e2
    g1 = g1 g2 = g2
    t1 = t1
    alice = alice bob = bob carol = carol server = server
    Map <- TwoMaps
    Node <- TwoNodes
    Edge <- TwoEdges
    Group <- TwoGroups
    Title <- OneTitle
    Tag = {}
    Type <- TwoTypes
    Position <- TwoPositions
    Offset <- OneStep
    InitMaps <- OneMap
    Actor <- ThreeActors
    MaxEntries = 3
    Nil = Nil
    Keep = Keep
    Process <- OneProcess
SYMMETRY LinkSymmetry
INVARIANTS
    JournalTypeOK
    EndpointsPlaced
    OneEdgePerClaim
PROPERTIES
    UndoInverts
    UndoSparesNotes
CHECK_DEADLOCK FALSE
