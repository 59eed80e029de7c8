\* Three legs of distinct markets, at most 3 contracts each, a venue that may
\* lose cancels and answer late.
CONSTANTS
    N = 3
    QuantityCap = 3
    MaxOrders = 4
    MaxPolls = 1
    NoAdapter = {}
    Faults = {"cancel", "lag"}
    One = 100
    Slip = 1
    MaxTotal = 195
    MaxLeg = 84
    MinEdge = 10
    MinPayoff = 100
    Parallel = FALSE
    Baskets <- DistinctBaskets
SPECIFICATION PlannedSpec
INVARIANTS
    LegNotionalKept
    TotalNotionalKept
    QuietTradeEarnsEdge
    HardestLegFirst
