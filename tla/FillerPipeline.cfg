SPECIFICATION Spec
CONSTANTS
    Miners = {m1, m2}
    NoMiner = NoMiner
    Reserved = 2
    MaxFillers = 3
INVARIANTS
    TypeOK
    QueueBacked
    NoOrphan
PROPERTIES
    ImplementsLedger
    VerdictUnlessPanic
