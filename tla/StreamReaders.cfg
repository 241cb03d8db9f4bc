SPECIFICATION FairSpec
CONSTANTS
    Sub <- TwoReaders
    Option <- MCOption
    Frame <- MCFrame
    BufferLimit = 1
    MaxEmits = 2
    MayFail = TRUE
INVARIANTS NoSendOnClosed ReadersSeeTheLog
PROPERTIES ReadersEnd
CHECK_DEADLOCK FALSE
