SPECIFICATION DistributionSpec
CONSTANTS
    h1 = h1
    h2 = h2
    tokA = tokA
    tokB = tokB
    op = op
    Account <- Holders
    Actor <- OnlyOp
    NoPda = NoPda
    MaxAmount = 4
    MaxHoldId = 0
    MaxTime = 2
    MaxBatch = 0
    Mask <- Functionality
    InitRoles <- OperatorRoles
    RoleBatch <- NoRoleChange
    MaxCount = 2
    MaxU128 = 1000
    MaxI64 = 10
    Convention <- Conventions
    YearSeconds <- Year
    PaymentMint <- TwoTokens
    PaymentDecimals <- Decimals
    MintDecimals = 0
    CouponDates <- Dates
    RateArg <- Rates
    DecimalsArg <- RateDecimals
    TermsArg <- BothTerms
    Tree <- Trees
PROPERTIES
    DistributionKeepsItsToken
