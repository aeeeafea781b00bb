SPECIFICATION MCSpec
CONSTANTS
    LastHeight = 7
    Clock = 12
    InitialSubsidy = 3
    HalvingInterval = 2
    MaxHalvings = 3
    TargetBlockTime = 2
    RetargetInterval = 3
    MaxRetargetFactor = 2
    PowLimitBits <- MCPowLimit
    MedianTimeBlocks = 3
    MaxFutureBlockTime = 2
    CompactBase = 16
    WorkSpace = 64
    t1 = t1  t2 = t2  t3 = t3  t4 = t4  t5 = t5
    Txid = {t1, t2, t3, t4, t5}
    MaxTxs = 5
CHECK_DEADLOCK FALSE
INVARIANT TwinsRejected
