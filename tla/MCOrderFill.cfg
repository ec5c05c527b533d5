SPECIFICATION Spec
CONSTANTS
    None = None
    MarketPrices <- MCMarketPrices
    RequestedPrices <- MCRequestedPrices
    Quantities <- MCQuantities
    Values <- MCValues
    StartingCash = 12
    MaxCash = 18
    MaxHeld = 8
INVARIANTS
    TypeOK
    NoOverdraft
    FillIsHonest
    WorthConserved
    MarketAndLimitKeepValue
