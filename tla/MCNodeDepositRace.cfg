SPECIFICATION Spec
CONSTANTS
    AmountMax = 1000
    MaxTransactionAmount = 500
    v1 = v1
    v2 = v2
    v3 = v3
    Oversized = {}
    Events = {e1, e2}
    NoPoints = {}
    FreshKeys = {k1, k2}
    Gross <- MCGross
    Hashes = {1, 2, 3}
    Validators = {v1, v2, v3}
    AuthorizedKeys = {v1, v2, v3, "not a key"}
    Threshold = 1
    Self = v1
    DepositBps = 50
    WithdrawBps = 50
    RpcThreads = {t1, t2}
    RpcEvents = {e1, e2}
    DirectEvents = {}
    PeerEvents = {}
    SendAmounts = {198}
    TxFees = {1}
    WithdrawAmounts = {198, 398}
    ClaimAmounts = {1}
    PeerSignatures <- NoSignatures
    PeerBps = {50, 75}
    MaxHeight = 3
    MaxClaims = 0
    MaxFaults = 0
    MaxThrows = 0
    MaxCrashes = 0
SYMMETRY KeySymmetry
INVARIANTS
    EventMintedOnce
CHECK_DEADLOCK FALSE
