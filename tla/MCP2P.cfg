SPECIFICATION FairSpec
CONSTANTS
    n1 = n1
    n2 = n2
    n3 = n3
    Nodes = {n1, n2}
    MinedBy <- TwoMiners
    Seeds <- OneSeed
    Introductions <- ByHand
    Hashes = {1, 2, 3}
    Quorum <- OneSignature
    Limit = 1
    MaxHeight = 3
    MaxLosses = 1
    MaxRestarts = 1
INVARIANTS
    SharedPast
PROPERTIES
    NodesCatchUp
    SyncEnds
