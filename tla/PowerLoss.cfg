SPECIFICATION PowerSpec
CONSTANTS
    r1 = r1
    p1 = p1
    n1 = n1
    s1 = s1
    s2 = s2
    None = None
    Rid = {r1}
    Plan = {p1}
    Nonce = {n1}
    Server = {s1, s2}
    TTL = 1
    MaxCalls = 3
    MaxClock = 0
    Backwards = FALSE
    MaxFaults = 2
    ClientCalls <- ContendingCalls
SYMMETRY ServerSymmetry
INVARIANTS
    StoreAtomic
    LogSound
    ExecutedOnceBetweenLosses
