CONSTANTS
    m1 = m1
    m2 = m2
    n1 = n1
    n2 = n2
    n3 = n3
    n4 = n4
    p1 = p1
    any = any
    one = one
    Nil = Nil
    Map = {m1, m2}
    Node = {n1, n2, n3, n4}
    Peer = {p1}
    Query = {any, one}
    NoText = any
    Start = m1
    Budget = 4
    TypeOf <- Types
    AnswerOf <- Answers
    GroupOn <- Groups
    OnMap <- Placed
    Matching <- Finds
SPECIFICATION Spec
INVARIANTS RowsAnswerTheQuery BodyGoesToItsNode
PROPERTIES SelectionStaysSound FollowingEnds JumpArrives
CHECK_DEADLOCK FALSE
