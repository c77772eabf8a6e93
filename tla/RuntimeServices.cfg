SPECIFICATION Spec
CONSTANTS
    w1 = w1
    w2 = w2
    h = h
    a = a
    a2 = a2
    b = b
    b2 = b2
    s = s
    n = n
    cpu = cpu
    net = net
    None = None
    NoEvent = NoEvent
    NoKey = NoKey
    Workers = {w1, w2}
    Hosts = {h}
    Tasks = {a, a2, b, b2, s, n}
    Program <- Programs
    QueueCapacity = 1
    MaxInlineDepth = 1
    TraceCapacity = 1
    Resources = {cpu, net}
    LeaseCapacity <- Capacity
    Requests <- AllRequests
    Ttl = 1
    MaxCalls = 1
    Setups <- EachPolicy
INVARIANTS
    CapacityConserved
    JoinedIsDrained
    EventsConserved
PROPERTIES
    NoResurrection
    AcceptedTasksEnd
CHECK_DEADLOCK FALSE
