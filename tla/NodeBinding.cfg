SPECIFICATION Spec
CONSTANTS
    r1 = r1
    r2 = r2
    r3 = r3
    Runs = {r1, r2, r3}
    PoolThreads = 2
    Free = Free
INVARIANT HandlesLive
PROPERTY RunsSettle
CHECK_DEADLOCK FALSE
