CONSTANTS
    MaxRing = 2
    MaxTxOutputs = 2
    MaxQuorum = 4
    MaxString = 2
    MaxTransactions = 3
    MaxDeposits = 3
    MaxWithdrawals = 3
    MaxOutputs = 4
    Points = {1, 2, 3, 4, 5}
    Validators = {1, 2, 3}
    Miners = {2}
    Threshold = 2
    Operations <- MCOperations
    MaxOperations = 3
    Header <- MCHeader
SPECIFICATION Spec
INVARIANTS
    RoundTrip
    CutIsNoOtherBlock
    RootCommits
    CertificateIsItsSigners
CHECK_DEADLOCK FALSE
