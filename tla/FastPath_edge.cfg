\* One candidate found as a near miss: do the live orders keep the edge they were
\* decided for?
CONSTANTS
    Baskets <- SharedLegBaskets
    Prices = {40, 50}
    Fee = 1
    MinPayoff = 100
    Slip = 1
    One = 100
    MinEdge = 10
    NearMiss = 10
    MaxCandidates = 2
    MaxLegs = 4
    RefreshEvery = 2
    MaxDecisionAge = 1
    Ticks = 1
    MaxTime = 2
SPECIFICATION Spec
INVARIANT LiveOrdersKeepEdge
