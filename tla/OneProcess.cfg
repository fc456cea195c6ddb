SPECIFICATION TelemetrySpec
CONSTANTS
    r1 = r1
    r2 = r2
    p1 = p1
    p2 = p2
    n1 = n1
    n2 = n2
    s1 = s1
    None = None
    Rid = {r1, r2}
    Plan = {p1, p2}
    Nonce = {n1, n2}
    Server = {s1}
    TTL = 1
    MaxCalls = 3
    MaxClock = 1
    Backwards = FALSE
    MaxFaults = 0
    MaxLost = 1
    ClientCalls <- SessionCalls
SYMMETRY SessionSymmetry
INVARIANTS
    GateHolds
    TruthfulErrors
    OneLiveReceiptPerPlan
    QueriesAgree
    ConfirmedBacked
    UnpromptedExplained
