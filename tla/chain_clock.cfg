SPECIFICATION Spec
CONSTANTS
    Block <- FutureBlocks
    Genesis = "G"
    Parent <- MCParent
    Ancestors <- MCAncestors
    Height <- MCHeight
    Bits <- MCBits
    Time <- MCTime
    MeetsTarget <- FutureBlocks
    Tx <- MCTx
    CoinbaseTx <- MCCoinbaseTx
    ClaimedHeight <- MCClaimedHeight
    Inputs <- MCInputs
    Outputs <- MCOutputs
    Coinbase <- MCCoinbase
    Payments <- MCPayments
    Copies <- Damaged
    LastTime = 1
    MaxCrashes = 0
    CoinbaseMaturity = 2
    InitialSubsidy = 8
    HalvingInterval = 3
    MaxHalvings = 64
    TargetBlockTime = 2
    RetargetInterval = 2
    MaxRetargetFactor = 4
    PowLimitBits <- MCPowLimit
    MedianTimeBlocks = 3
    MaxFutureBlockTime = 10
    CompactBase = 16
    WorkSpace = 64
INVARIANT VerdictPermanent
