SPECIFICATION Spec
CONSTANTS
    Miners = {m1, m2}
    NoMiner = NoMiner
    Infos <- MCInfos
    Modulus = 4
    ChunkSize = 1
    Balances = {"enough", "low"}
    MaxPending = 1
INVARIANTS
    TypeOK
    OneInstance
    RunsRegistered
    RoundFaithful
PROPERTIES
    NothingLost
    PoorStops
    CacheConverges
