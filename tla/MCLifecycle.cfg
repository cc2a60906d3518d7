SPECIFICATION FairSpec
CONSTANTS
    Account = {t1}
    op = op
    user = user
    Actor <- Everyone
    NoPda = NoPda
    MaxAmount = 1
    MaxHoldId = 2
    MaxTime = 1
    MaxBatch = 1
    Mask <- Functionality
    InitRoles <- OperatorRoles
    Expiration = {1}
    RoleBatch <- AdminOrPauser
INVARIANTS
    NeverPausedAndDeactivated
PROPERTIES
    DeactivationIsFinal
    PauseHaltsTheAsset
    AdminLossIsPermanent
    HoldsResolve
CHECK_DEADLOCK FALSE
