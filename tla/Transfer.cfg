SPECIFICATION Spec
CONSTANTS
    NFiles = 2
    NData = 1
    SendCap = 1
    RecvCap = 1
    NetCap = 1
    SizeForms = {TRUE, FALSE}
INVARIANTS
    TypeOK
    AnswersFit
PROPERTIES
    ImplementsFileTransfer
    TransferEnds
CHECK_DEADLOCK FALSE
