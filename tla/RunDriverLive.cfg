SPECIFICATION FairSpec
CONSTANTS
    n1 = n1  n2 = n2  c1 = c1
    Nodes <- MCNodes
    Entry = n2
    Done = Done
    Kind <- SubflowKind
    NextOf <- SubflowNext
    ErrorOf <- SubflowError
    MaxAttempts <- TwoAttempts
    NodeTimeout <- FirstTimed
    MaxSteps = 3
    RetryBudget = 0
    MaxDrives = 3
    Cancellers = {c1}
    MaxExecutes = 1
    MayReject = FALSE
    StoreMayFail = TRUE
    EarlyReturns = FALSE
    LeaseMayFail = TRUE
INVARIANTS SubflowFence
PROPERTIES EventuallyDelivered
CHECK_DEADLOCK FALSE
