SPECIFICATION Spec
CONSTANTS
    r1 = r1
    r2 = r2
    Workflows <- MCWorkflows
    Done = Done
    Replayed = Replayed
    None = None
INVARIANTS
    AcceptedReproduces
    CompleteAccepted
CHECK_DEADLOCK FALSE
