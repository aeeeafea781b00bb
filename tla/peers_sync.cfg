SPECIFICATION FairSpec
CONSTANTS
    alice = alice  bob = bob  carol = carol
    Node = {alice, bob}
    Block <- SyncBlocks
    Genesis = "G"
    Parent <- MCParent
    Work <- MCWork
    Tx = {}
    Payments <- NoPayments
    Held <- SyncHeld
    Established = {}
    Found <- SyncFound
    Submitted <- NoSubmissions
    MaxInv = 3
    MaxOutstanding = 6
    DenseLocator = 2
    BanScore = 2
    TxScore = 1
    SendBuffer = 3
    MidHandshake = FALSE
    MaxLosses = 1
CHECK_DEADLOCK FALSE
INVARIANT AwaitedIsComing
PROPERTY Agreement
