SPECIFICATION Spec
CONSTANTS
    r1 = r1
    r2 = r2
    p1 = p1
    p2 = p2
    n1 = n1
    n2 = n2
    s1 = s1
    s2 = s2
    None = None
    Rid = {r1, r2}
    Plan = {p1}
    Nonce = {n1}
    Server = {s1, s2}
    TTL = 1
    MaxCalls = 3
    MaxClock = 1
    Backwards = FALSE
    MaxFaults = 1
    ClientCalls <- ContendingCalls
SYMMETRY ProcessSymmetry
INVARIANT
    ConsumptionRecorded
