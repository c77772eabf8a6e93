SPECIFICATION Spec
CONSTANTS
    p1 = p1
    p2 = p2
    End = End
    NoProc = NoProc
    NoCheckpoint = NoCheckpoint
    Procs = {p1, p2}
    Nodes = {"read", "put", "send", "undo"}
    Entry = "read"
    NextOf <- ReadPutSend
    ErrorOf <- UndoOnError
    Effectful = {"put", "send", "undo"}
    Guarded = {"send", "undo"}
    Async = {"undo"}
    Retries = {"send"}
    Quotas = {"send"}
    MaxCalls = 3
    MaxFaults = 1
SYMMETRY Symmetry
INVARIANTS
    AtMostOnceEffect
    SingleWriter
    SuccessIsDurable
PROPERTY CommittedStays
CHECK_DEADLOCK FALSE
