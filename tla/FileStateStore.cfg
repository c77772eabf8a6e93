SPECIFICATION Spec
CONSTANTS
    p1 = p1
    p2 = p2
    Procs = {p1, p2}
    Absent = Absent
    Nobody = Nobody
    PutAttempts = 2
    MaxCalls = 5
    MaxFaults = 1
SYMMETRY Symmetry
INVARIANTS
    AckedIsDurable
    VersionWonOnce
PROPERTIES
    Implements
    ReplacesWhatWasRead
CHECK_DEADLOCK FALSE
