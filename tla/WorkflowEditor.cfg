SPECIFICATION Spec
CONSTANTS
    x = x
    y = y
    z = z
    Ids = {x, y, z}
    NoId = NoId
    IdOrder <- Order
    NoRoot = NoRoot
    Bases <- SomeBases
    NodeValues <- SomeNodes
    EdgeValues <- SomeEdges
    MaxChanges = 3
INVARIANTS
    InverseRestores
    
    AffectedExact
    CyclesBounded
CHECK_DEADLOCK FALSE
