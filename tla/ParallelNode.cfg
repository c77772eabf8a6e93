SPECIFICATION FairSpec
CONSTANTS
    w1 = w1
    w2 = w2
    Workers = {w1, w2}
    N = 3
    MaxParallel = 2
    Policies <- AnyAndMinimum
    Minimum = 2
    MaxExecutes = 2
    MaxFaults = 1
INVARIANTS
    EachBranchCountedOnce
    MergeFollowsPolicyUnlessMisread
    SuccessIsMerged
PROPERTIES
    RecordedNotRerun
    EventuallyAnswered
CHECK_DEADLOCK FALSE
