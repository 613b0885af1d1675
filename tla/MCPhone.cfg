SPECIFICATION MCSpec
CONSTANTS
    Maps = {"m1", "m2"}
    Nodes = {"n1", "n2", "n3", "mine"}
    Mine = {"mine"}
    TypeAtFirst <- MCType
    MapsAtFirst <- MCMaps
    Queries = {"x"}
    Finds <- MCFinds
    Retypes = {"note"}
    Peers <- MCPeers
    Nil = Nil
    Budget = 2
CHECK_DEADLOCK FALSE
INVARIANTS
    PhoneTypeOK
    FeedInStep
    NewMeansArrivedSince
    ResultsAreAsked
    FollowedMapIsOpen
PROPERTIES
    PostsAreLegal
    FeedLoads
