SPECIFICATION Spec
CONSTANTS
    Server = {s1, s2}
    MaxFaults = 1
    Origins <- OnlyEmpty
INVARIANTS
    OwnFileAccepted
