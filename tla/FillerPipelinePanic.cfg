SPECIFICATION Spec
CONSTANTS
    Miners = {m1}
    NoMiner = NoMiner
    Reserved = 1
    MaxFillers = 1
PROPERTIES
    SpaceAdvances
