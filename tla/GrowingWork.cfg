SPECIFICATION Spec
CONSTANTS
    Warn = 3
    Block = 5
    FilesWarn = 2
    DiffWarn = 10
    Levels <- Boundaries
CONSTRAINT OneGrows
CHECK_DEADLOCK FALSE
INVARIANTS
    HardStopKept
    HintHarsher
PROPERTIES
    GateMonotone
    RiskMonotone
