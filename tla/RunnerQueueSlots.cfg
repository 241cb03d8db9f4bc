SPECIFICATION FairSpec
CONSTANTS
    r1 = r1
    r2 = r2
    r3 = r3
    Runner <- Three
    Priority <- MCPriority
    Max = 1
    MayCancel <- Second
    MayRemove <- First
    MayStart <- Last
INVARIANT SlotsAreRight
PROPERTIES GrantsInOrder QueueDrains
CHECK_DEADLOCK FALSE
