SPECIFICATION RoundTripSpec
CONSTANTS
    p1 = p1
    p2 = p2
    n1 = n1
    n2 = n2
    s1 = s1
    s2 = s2
    None = None
    Rid = {1, 2, 3, 4}
    Plan = {p1, p2}
    Nonce = {n1, n2}
    Server = {s1, s2}
    TTL = 1
    MaxCalls = 9
    MaxClock = 0
    Backwards = FALSE
    MaxFaults = 1
    Task <- OnePlan
    ClientCalls <- ContendingCalls
CONSTRAINT DrawsFirst
CHECK_DEADLOCK FALSE
INVARIANTS
    HonestRejections
    MisuseContained
PROPERTIES
    GetsThrough
