SPECIFICATION FairSpec
CONSTANTS
    Stores = 2
    Tools <- MCTools
    MCPTools <- MCPOnly
    Policy <- MCPolicy
    Responses <- MCResponses
    KeepTurns = 2
    KeepOutputs = 1
    Summaries <- Both
    MaxSteps = 2
    Budgets <- MCBudgets
    TruncateTo = {3}
    Bodies = {0}
INVARIANTS ResumeRestores RequestIsWellFormed MCPResultsStayOut ApprovedBeforeUse
PROPERTIES RunEnds
CHECK_DEADLOCK FALSE
