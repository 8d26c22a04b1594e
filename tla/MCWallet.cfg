CONSTANTS
    alice = alice
    bob = bob
    pc = pc
    phone = phone
    main = main
    Clients = {pc, phone}
    Seeds = {alice, bob}
    Funded <- TwoOutputs
    Amounts = {2}
    Names = {main}
    MaxOrders = 2
    MaxAttempts = 2
    MaxReloads = 1
SPECIFICATION Spec
SYMMETRY Programs
INVARIANTS
    ListOfIdentity
    ValueConserved
    PaidTwiceOnlyAfterReload
