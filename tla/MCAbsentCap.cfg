SPECIFICATION Spec
CONSTANTS
    Account = {t1, t2}
    op = op
    user = user
    Actor <- OnlyOp
    NoPda = NoPda
    MaxAmount = 2
    MaxHoldId = 1
    MaxTime = 1
    MaxBatch = 0
    Mask <- SupplyMask
    InitRoles <- OperatorRoles
    Expiration = {1}
    RoleBatch = {}
SYMMETRY AccountSymmetry
INVARIANTS
    AbsentCapAdmitsMinting
