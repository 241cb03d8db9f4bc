SPECIFICATION FairSpec
CONSTANTS
    Merge <- Two
    Identity <- SameIdentity
    Keys <- TwoKeys
    Depth = 2
    MaxHubs = 1
    MayStop = {"m2"}
    MayClose = TRUE
    MayOverflow = FALSE
INVARIANTS PendingIsExact EventsPassInOrder
PROPERTIES AllEnd
CHECK_DEADLOCK FALSE
