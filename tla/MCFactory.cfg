SPECIFICATION FactorySpec
CONSTANTS
    Actor = {u1, u2, u3}
    NoPda = NoPda
    Config = {c1, c2}
    MaxVersion = 2
    Capacity = 1
    PositionList <- Lists
    MintAddress = {m1}
INVARIANTS
    VersionsConsecutive
PROPERTIES
    MintKeepsItsMask
    FactoryPauseHalts
    OfficesPass
SYMMETRY ActorSymmetry
