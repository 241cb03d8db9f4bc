SPECIFICATION Spec
CONSTANTS
    Batches <- MCBatches
    Removals <- MCRemovals
    Servers = {s1}
    Planners = {p1}
    Registered <- MCRegistered
    Reader = {d1}
    Budgets <- MCCyclicBudgets
INVARIANTS
    ReportMeansRan
CHECK_DEADLOCK FALSE
