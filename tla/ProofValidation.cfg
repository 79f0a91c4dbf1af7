SPECIFICATION Spec
CONSTANTS
    Proofs = {p1, p2}
    Kinds = {"good", "bad", "empty", "malformed", "noBlocks", "short"}
    MaxResults = 1
    MaxTry = 2
INVARIANTS
    TypeOK
    RoundCovered
PROPERTIES
    ImplementsAudit
    WorkLockKept
    VerifiedUnlessLost
CHECK_DEADLOCK FALSE
