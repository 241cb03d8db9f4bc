SPECIFICATION FairSpec
CONSTANTS
    a = a
    b = b
    c = c
    d = d
    Node <- MCNode
    Parents <- Diamond
    Initial <- DiamondInitial
    MaxAdds = 1
INVARIANTS
    StartsOnceAfterParents
    WaitingIsJustified
    IdleIsHonest
PROPERTIES
    EngineEnds
CHECK_DEADLOCK FALSE
