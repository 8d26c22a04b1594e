SPECIFICATION Spec
CONSTANTS
    AmountMax = 1000
    MaxTransactionAmount = 500
    v1 = v1
    v2 = v2
    v3 = v3
    Oversized = {e3}
    Events = {e1, e3, e4}
    NoPoints = {e4}
    FreshKeys = {k1, k2}
    Gross <- MCGross
    Hashes = {1, 2}
    Validators = {v1, v2, v3}
    AuthorizedKeys = {v1, v2, v3, "not a key"}
    Threshold = 1
    Self = v1
    DepositBps = 0
    WithdrawBps = 50
    RpcThreads = {t1}
    RpcEvents = {e1, e3, e4}
    DirectEvents = {}
    PeerEvents = {e1}
    SendAmounts = {399}
    TxFees = {1}
    WithdrawAmounts = {400}
    ClaimAmounts = {1}
    PeerSignatures <- MCPeerSignatures
    PeerBps = {0}
    MaxHeight = 3
    MaxClaims = 1
    MaxFaults = 1
    MaxThrows = 1
    MaxCrashes = 1
SYMMETRY KeySymmetry
INVARIANTS
    NoDoubleSpend
    VaultsSolvent
