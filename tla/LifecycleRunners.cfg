SPECIFICATION FairSpec
CONSTANTS
    Setups <- MCSetups
    ObserverBuf = 1
    WaiterBuf = 1
INVARIANTS DoneIsFinal ReviewSeesCurrentFragments
PROPERTIES PhasesAreLegal EverythingEnds
CHECK_DEADLOCK FALSE
