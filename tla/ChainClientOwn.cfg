SPECIFICATION Spec
CONSTANTS
    Callers = {g1, g2}
    NoCaller = NoCaller
    TxKinds = {"filler"}
    Foreign = {"filler"}
    MaxResubmit = 2
    MaxTx = 1
INVARIANTS
    SuccessIsOwn
