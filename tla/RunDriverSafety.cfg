SPECIFICATION Spec
CONSTANTS
    n1 = n1  n2 = n2  c1 = c1
    Nodes <- MCNodes
    Entry = n1
    Done = Done
    Kind <- HumanKind
    NextOf <- HumanNext
    ErrorOf <- HumanError
    MaxAttempts <- TwoAttempts
    NodeTimeout <- FirstTimed
    MaxSteps = 3
    RetryBudget = 1
    MaxDrives = 2
    Cancellers = {c1}
    MaxExecutes = 2
    MayReject = TRUE
    StoreMayFail = FALSE
    EarlyReturns = TRUE
    LeaseMayFail = TRUE
INVARIANTS SingleDriver AbandonedIsCancelled RetryBudgetShared NoLeaseLeak ResultFence NeverStranded CallbackOnce
PROPERTIES NoStartAfterDelivery
CHECK_DEADLOCK FALSE
