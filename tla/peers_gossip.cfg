SPECIFICATION FairSpec
CONSTANTS
    alice = alice  bob = bob  carol = carol
    Node = {alice, bob, carol}
    Block <- MeshBlocks
    Genesis = "G"
    Parent <- MCParent
    Work <- MCWork
    Tx = {"t"}
    Payments <- MeshPayments
    Held <- MeshHeld
    Established <- Mesh
    Found = {"a1"}
    Submitted <- AliceSubmits
    MaxInv = 3
    MaxOutstanding = 6
    DenseLocator = 2
    BanScore = 1
    TxScore = 1
    SendBuffer = 3
    MidHandshake = FALSE
    MaxLosses = 0
CHECK_DEADLOCK FALSE
PROPERTY TxSpreads
