SPECIFICATION Spec
CONSTANTS
    Requesters = {r1, r2}
    Files = {f1, f2}
    Callbacks = {c1, c2}
    None = None
INVARIANTS
    TypeOK
    TagMatchesUnlessLate
    KeySurvives
PROPERTIES
    LockReleased
