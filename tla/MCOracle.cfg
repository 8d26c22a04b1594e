SPECIFICATION Spec

CONSTANTS
    AmountMax = 100000
    MaxTransactionAmount = 500
    Events = {e1, e2}
    Orders = {o1}
    OrderGross <- MCOrderGross
    EventGross <- MCEventGross
    Oversized = {e2}
    NoPoints = {}
    FreeOfFee = {}
    DepositBps = 50
    WithdrawBps = 50
    BadOrders = {}
    Claims = {2}
    L2Confirmations = 1
    Confirmations = 1
    MaxL2Height = 3
    MaxHeight = 3
    MaxL2Reorgs = 1
    MaxReorgs = 1
    MaxFaults = 1
    MaxCrashes = 1
    MaxPauses = 1

INVARIANTS
    BackedAcrossChains
    NothingFromNothing

CHECK_DEADLOCK FALSE
