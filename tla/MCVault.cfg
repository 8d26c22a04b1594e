SPECIFICATION Spec
CONSTANTS
    AmountMax = 210
    MaxTransactionAmount = 200
    Supply = 215
    Amounts <- MCAmounts
    Rates <- MCRates
INVARIANTS
    AlwaysSolvent
    ValueConserved
    FullyBacked
PROPERTIES
    NoRoundTripProfits
