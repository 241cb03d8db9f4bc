SPECIFICATION FairSpec
CONSTANTS
    Caller = {"a", "b", "c", "d", "e", "f"}
    Runner = {"r1", "r2"}
    Stripe <- MCStripe
    Scenarios <- MCScenarios
    Queries <- MCQueries
    HasPrefix <- MCHasPrefix
    Like <- MCLike
INVARIANTS
    AckedIsStored
    LogIsWhole
    MirrorFollows
    PushdownIsExact
PROPERTIES
    CallsReturn
CHECK_DEADLOCK FALSE
