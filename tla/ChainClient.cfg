SPECIFICATION Spec
CONSTANTS
    Callers = {g1, g2}
    NoCaller = NoCaller
    TxKinds = {"filler", "proof"}
    Foreign = {"filler"}
    MaxResubmit = 2
    MaxTx = 2
SYMMETRY Symmetry
INVARIANTS
    TypeOK
    PoolReady
PROPERTIES
    ImplementsAccount
    LockKept
