SPECIFICATION FairSpec
CONSTANTS
    Batches <- MCBatches
    Removals <- MCRemovals
    Servers = {s1}
    Planners = {p1}
    Registered <- MCRegistered
    Reader = {d1}
    Budgets <- MCBudgets
INVARIANTS
    LogIsFaithful
    OutcomeIsLogged
    ResumeIsReplay
PROPERTIES
    RegistryHolds
    LogEnds
CHECK_DEADLOCK FALSE
