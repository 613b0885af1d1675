CONSTANTS
    m1 = m1  m2 = m2  m3 = m3
    n1 = n1  n2 = n2  n3 = n3
    e1 = e1  e2 = e2
    g1 = g1  g2 = g2
    t1 = t1  t2 = t2
    tag = tag
    Nil = Nil
    Keep = Keep
    Map <- Maps
    Node = {n1, n2, n3}
    Edge = {e1, e2}
    Group = {g1, g2}
    Title = {t1, t2}
    Tag = {tag}
    Type <- SomeTypes
    Position <- Places
    Offset <- Steps
    InitMaps = {m1, m2}
    SpareNodes <- Spares
    SpareEdges <- SpareLinks
    Tidy = 1
    Beside = 0
    Preferred = m1
    Budget = 1
    Asides <- SomeAsides
    Reverts <- SomeReverts
    Away <- SomeAway
    Rows <- Argument
SPECIFICATION Spec
PROPERTIES RemovalIsOfOneMap
CHECK_DEADLOCK FALSE
