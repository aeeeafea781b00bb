SPECIFICATION Spec
CONSTANTS
    Block <- PoolBlocks
    Genesis = "G"
    Parent <- MCParent
    Ancestors <- MCAncestors
    Height <- MCHeight
    Bits <- MCBits
    Time <- MCTime
    MeetsTarget <- PoolBlocks
    Tx <- PoolTx
    CoinbaseTx <- MCCoinbaseTx
    ClaimedHeight <- MCClaimedHeight
    Inputs <- MCInputs
    Outputs <- MCOutputs
    Coinbase <- MCCoinbase
    Payments <- MCPayments
    Size <- MCSize
    MaxPoolSize = 5
    MaxTemplateSize = 4
    CoinbaseMaturity = 2
    InitialSubsidy = 8
    HalvingInterval = 3
    MaxHalvings = 64
    TargetBlockTime = 2
    RetargetInterval = 100
    MaxRetargetFactor = 4
    PowLimitBits <- MCPowLimit
    MedianTimeBlocks = 3
    MaxFutureBlockTime = 10
    CompactBase = 16
    WorkSpace = 64
INVARIANTS IndexExact Unsettled TemplateSound TemplateComplete NothingLost
