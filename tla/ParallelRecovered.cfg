SPECIFICATION Spec
CONSTANTS
    w1 = w1
    w2 = w2
    Workers = {w1, w2}
    N = 2
    MaxParallel = 2
    Policies <- WaitForAll
    Minimum = 1
    MaxExecutes = 2
    MaxFaults = 1
INVARIANTS
    MergeFollowsPolicy
CHECK_DEADLOCK FALSE
