CONSTANTS
    Q = 5
    H = 3
    Hash <- MCHash
    ByteBits = 2
    WordBits = 3
    WordCount = 4
    EntropyBytes = 5
    Sha <- MCSha
    Draws = {1, 3}
    Payee <- MCPayee
    RingPoints = {1, 4}
    Amounts = {2, 20}
    Typed = {5, 15}
    Weights = {1, 10}
    MaxFragments = 3
    HopCounts = {2, 3}
SPECIFICATION Spec
INVARIANTS
    PhraseIsFaithful
    OwnerCanSpend
    SignaturesVerify
    SpentOnceAndWhole
    PayoutArrives
    BalanceIsConservation
