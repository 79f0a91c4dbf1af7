SPECIFICATION Spec
CONSTANTS
    Callers = {g1, g2}
    NoCaller = NoCaller
    TxKinds = {"register", "update", "file"}
    Foreign = {}
    MaxResubmit = 2
    MaxTx = 1
PROPERTIES
    CallReturns
    Lands
