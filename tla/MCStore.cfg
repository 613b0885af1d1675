SPECIFICATION MCSpec
CONSTANTS
    m1 = m1 m2 = m2
    n1 = n1 n2 = n2
    e1 = e1 e2 = e2 e3 = e3
    g1 = g1
    t1 = t1
    server = server
    Map <- TwoMaps
    Node <- TwoNodes
    Edge <- ThreeEdges
    Group <- OneGroup
    Title <- OneTitle
    Tag = {}
    Type <- StoreTypes
    Position <- OnePosition
    Offset <- OneStep
    InitMaps <- TwoMaps
    Nil = Nil
    Keep = Keep
    Process <- OneProcess
SYMMETRY StoreSymmetry
INVARIANTS
    SharedTypeOK
    ForeignKeys
    ArgumentTrees
PROPERTIES
    EdgesStayLegal
