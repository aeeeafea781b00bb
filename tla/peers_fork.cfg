SPECIFICATION FairSpec
CONSTANTS
    alice = alice  bob = bob  carol = carol
    Node = {alice, bob}
    Block <- ForkBlocks
    Genesis = "G"
    Parent <- MCParent
    Work <- MCWork
    Tx = {}
    Payments <- NoPayments
    Held <- ForkHeld
    Established = {}
    Found = {}
    Submitted <- NoSubmissions
    MaxInv = 2
    MaxOutstanding = 4
    DenseLocator = 2
    BanScore = 2
    TxScore = 1
    SendBuffer = 3
    MidHandshake = FALSE
    MaxLosses = 0
CHECK_DEADLOCK FALSE
PROPERTY Agreement
