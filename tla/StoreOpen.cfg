SPECIFICATION FairSpec
CONSTANTS
    Server = {s1, s2}
    MaxFaults = 2
    Origins <- AnyFile
INVARIANTS
    TypeOK
    ForeignUntouched
    OpenIsComplete
    MigrationCrashSafe
    SupportedAccepted
PROPERTIES
    SomeoneOpens
