\* Two candidates with a common leg, two ticks, one re-discovery, narrowing to one
\* candidate at the start.
CONSTANTS
    Baskets <- SharedLegBaskets
    Prices = {40, 50}
    Fee = 1
    MinPayoff = 100
    Slip = 1
    One = 100
    MinEdge = 10
    NearMiss = 2
    MaxCandidates = 2
    MaxLegs = 2
    RefreshEvery = 1
    MaxDecisionAge = 1
    Ticks = 2
    MaxTime = 3
SPECIFICATION Spec
INVARIANTS
    TypeOK
    QuotesOfThisTick
    UniverseIsWatched
    EdgeIsDecided
