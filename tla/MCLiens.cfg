SPECIFICATION Spec
CONSTANTS
    Account = {t1, t2}
    op = op
    user = user
    Actor <- OnlyOp
    NoPda = NoPda
    MaxAmount = 2
    MaxHoldId = 2
    MaxTime = 2
    MaxBatch = 0
    Mask <- LienMask
    InitRoles <- OperatorRoles
    Expiration = {1, 2}
    RoleBatch = {}
SYMMETRY AccountSymmetry
INVARIANTS
    TypeOK
    HeldIsSumOfActiveHolds
    HoldRecordsConsistent
    UnfrozenHoldsExecutable
PROPERTIES
    HoldsOnlyShrink
    ExecutionPaysTheClaim
    LiensActAsCustody
