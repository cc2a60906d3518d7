SPECIFICATION MCSpec
CONSTANTS
    MaskLen = 2
    PositionArg = {0, 1, 6, 7, 8, 9, 15, 16, 17}
    MaxList = 2
    Key = {1, 2, 3, 4}
    Balance = {0, 1}
    MaxProof = 3
INVARIANTS
    MaskIsItsSet
    RootsCommit
CHECK_DEADLOCK FALSE
