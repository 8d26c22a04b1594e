SPECIFICATION Spec
CONSTANTS
    AmountMax = 1000
    MaxTransactionAmount = 500
    v1 = v1
    v2 = v2
    v3 = v3
    Oversized = {}
    Events = {e1, e2, e3}
    NoPoints = {e3}
    FreshKeys = {k1, k2, k3}
    Gross <- MCGross
    Hashes = {1, 2}
    Validators = {v1, v2, v3}
    AuthorizedKeys = {v1, v2, v3, "not a key"}
    Threshold = 1
    Self = v1
    DepositBps = 50
    WithdrawBps = 50
    RpcThreads = {t1}
    RpcEvents = {e3}
    DirectEvents = {e2}
    PeerEvents = {e1}
    SendAmounts = {197}
    TxFees = {1}
    WithdrawAmounts = {200}
    ClaimAmounts = {1}
    PeerSignatures <- MCPeerSignatures
    PeerBps = {50, 75}
    MaxHeight = 4
    MaxClaims = 0
    MaxFaults = 0
    MaxThrows = 1
    MaxCrashes = 0
SYMMETRY KeySymmetry
INVARIANTS
    TypeOK
    EventMintedOnce
    IndexesMatchChain
    MirrorMatchesDisk
    RingsAreGrounded
    SupplyMatchesOutputs
    VaultMatchesChain
PROPERTIES
    ImplementsCanonicalChain
    MinedBlocksAcceptable
