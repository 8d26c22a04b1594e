SPECIFICATION FairSpec

CONSTANTS
    AmountMax = 100000
    MaxTransactionAmount = 500
    Genesis = g
    b1 = b1
    a2 = a2
    a3 = a3
    a4 = a4
    c2 = c2
    c3 = c3
    c4 = c4
    oa = oa
    ob = ob
    oc = oc
    v1 = v1
    v2 = v2
    v3 = v3
    vr = vr
    Blocks = {b1, a2, a3, a4, c2, c3, c4}
    Parent <- MCParent
    HeightOf <- MCHeight
    OrdersIn <- MCOrdersIn
    Orders = {oa, ob, oc}
    BadOrders = {ob}
    OrderGross <- MCOrderGross
    DepositBps = 50
    WithdrawBps = 50
    Cosigners = {v1, v2, v3}
    Threshold = 2
    RelayerNode = vr
    Starts <- LivenessStarts
    Backing = 1000
    Confirmations = 1
    NodePrefixes = FALSE

PROPERTIES
    BuriedIsFinalized

