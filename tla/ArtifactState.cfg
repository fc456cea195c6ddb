SPECIFICATION Spec
CONSTANTS
    s1 = s1
    s2 = s2
    Server = {s1, s2}
    Cap = 2
    MaxAppends = 6
    MaxFaults = 2
SYMMETRY ServerSymmetry
INVARIANTS
    TypeOK
    NewestFirst
    KeepsUndisturbed
    FailedOnlyFromFallback
