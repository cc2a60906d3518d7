SPECIFICATION Spec
CONSTANTS
    Account = {t1, t2}
    op = op
    user = user
    Actor <- OnlyOp
    NoPda = NoPda
    MaxAmount = 3
    MaxHoldId = 1
    MaxTime = 1
    MaxBatch = 2
    Mask <- SupplyMask
    InitRoles <- OperatorRoles
    Expiration = {1}
    RoleBatch = {}
SYMMETRY AccountSymmetry
INVARIANTS
    LienCovered
    CapRespected
    NoUncappedSupply
