SPECIFICATION Spec
CONSTANTS
    Jobs = {j1, j2}
    NoJob = NoJob
    Other = Other
    Lost = Lost
    Miners = {m1, m2}
    NChunks = 2
    MaxTry = 2
INVARIANTS
    TypeOK
    NoHalfTag
PROPERTIES
    ImplementsRecord
    WorkLockKept
    LockGranted
CHECK_DEADLOCK FALSE
