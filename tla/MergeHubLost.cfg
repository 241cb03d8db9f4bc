SPECIFICATION Spec
CONSTANTS
    Merge <- Two
    Identity <- OtherIdentity
    Keys <- TwoKeys
    Depth = 2
    MaxHubs = 2
    MayStop = {}
    MayClose = FALSE
    MayOverflow = FALSE
INVARIANTS NothingIsLost
CHECK_DEADLOCK FALSE
