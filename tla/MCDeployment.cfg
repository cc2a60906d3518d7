SPECIFICATION HookSpec
CONSTANTS
    Actor = {u1}
    Class <- Classes
    FieldKey = {"isin", "k"}
    KeyLength <- KeyLengths
    TextSize = {0, 3}
    MaxFields = 2
    ExtensionSize = 1
    RentOverhead = 2
    Mint <- Mints
    Wallet <- Wallets
INVARIANTS
    FundedForItsMetadata
PROPERTIES
    DeploymentsGoThrough
    HonestTransfersReachTheHook
CHECK_DEADLOCK FALSE
