SPECIFICATION Spec
CONSTANTS
    Account = {t1, t2}
    op = op
    user = user
    Actor <- OnlyOp
    NoPda = NoPda
    MaxAmount = 2
    MaxHoldId = 1
    MaxTime = 0
    MaxBatch = 2
    Mask <- ComplianceMask
    InitRoles <- NoControllerRoles
    Expiration = {1}
    RoleBatch = {}
SYMMETRY AccountSymmetry
INVARIANTS
    BatchesSpendWhatIsFree
PROPERTIES
    DebitsRespectFreezes
    MovesRespectControlList
