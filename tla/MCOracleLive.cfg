SPECIFICATION FairSpec

CONSTANTS
    AmountMax = 100000
    MaxTransactionAmount = 500
    Events = {e1, e2}
    Orders = {o1, o2, o3}
    OrderGross <- MCOrderGross
    EventGross <- MCEventGross
    Oversized = {}
    NoPoints = {e2}
    FreeOfFee = {o3}
    DepositBps = 50
    WithdrawBps = 50
    BadOrders = {o2}
    Claims = {}
    L2Confirmations = 1
    Confirmations = 1
    MaxL2Height = 3
    MaxHeight = 3
    MaxL2Reorgs = 0
    MaxReorgs = 0
    MaxFaults = 1
    MaxCrashes = 1
    MaxPauses = 0


PROPERTIES
    DepositsMinted
    WithdrawalsPaid

CHECK_DEADLOCK FALSE
