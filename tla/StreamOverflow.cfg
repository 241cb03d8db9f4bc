SPECIFICATION FairSpec
CONSTANTS
    Sub <- Strict
    Option <- StrictOption
    Frame <- MCFrame
    BufferLimit = 2
    MaxEmits = 2
    MayFail = FALSE
PROPERTIES SubscribeEnds
CHECK_DEADLOCK FALSE
