SPECIFICATION Spec
CONSTANTS
    Clients = {c1, c2}
    NBlocks = 2
INVARIANTS
    TypeOK
PROPERTIES
    StoredWhole
    Accepted
    JobEnds
