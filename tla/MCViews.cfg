SPECIFICATION MCSpec
CONSTANTS
    MaxIndent = 1
    MaxTerms = 2
    Ids <- MCIds
    Statuses = {"open", "resolved"}
    TagOf <- MCTags
    TextOf <- MCText
    Alphabet <- MCAlphabet
    Spots <- MCSpots
    Shifts <- MCShifts
    Budget = 2
CHECK_DEADLOCK FALSE
INVARIANTS
    OutlineIsForest
    ThreadsHoldEveryCard
    ScopeIsTheLiveBranches
    CardsStandApart
    MenuAgreesWithTheServer
PROPERTIES
    CriteriaOnlyNarrow
    HandoffMovesNothing
