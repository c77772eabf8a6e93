SPECIFICATION Spec
CONSTANTS
    p1 = p1
    p2 = p2
    End = End
    NoProc = NoProc
    NoCheckpoint = NoCheckpoint
    Procs = {p1, p2}
    Nodes = {"undo"}
    Entry = "undo"
    NextOf <- Alone
    ErrorOf <- Alone
    Effectful = {"undo"}
    Guarded = {"undo"}
    Async = {"undo"}
    Retries = {}
    Quotas = {}
    MaxCalls = 3
    MaxFaults = 0
INVARIANT ManualOnlyAfterRecovery
CHECK_DEADLOCK FALSE
