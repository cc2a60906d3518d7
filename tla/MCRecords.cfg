SPECIFICATION MCSpec
CONSTANTS
    op = op
    data = data
    Account = {}
    Actor <- Everyone
    NoPda = NoPda
    MaxAmount = 0
    MaxHoldId = 0
    MaxTime = 5
    MaxBatch = 0
    Mask <- RecordMask
    InitRoles <- RecordRoles
    RoleBatch <- AdminBatch
    Value = {1, 2}
    MaxEvents = 4
    DocumentName = {d1, d2}
    TextArg <- Texts
    KeyArg <- Keys
    TextLength <- Lengths
    Lowercase <- Folded
    Deployed <- NoExtras
    RentOverhead = 2
    BaseSize = 0
    MaxLamports = 119
INVARIANTS
    EventsTellTheHistory
    DocumentsFitTheirAccounts
    MintStaysRentExempt
    NoShadowFields
PROPERTIES
    RecordsHalt
CHECK_DEADLOCK FALSE
