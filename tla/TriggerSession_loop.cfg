\* Two trades of two legs, in sessions of two scans with a candidate each, one of
\* them started again, with venues that lose cancels and raise.
CONSTANTS
    N = 2
    QuantityCap = 2
    MaxOrders = 2
    MaxPolls = 0
    NoAdapter = {}
    Faults = {"cancel", "raise"}
    Iterations = 2
    Candidates = 1
    MaxTrades = 2
    Ask <- Asks
    BasketPayoff = 100
    Riskless = 100
SPECIFICATION FairSession
INVARIANTS
    LeftoverHasCause
    ReportShowsExposure
    CleanStaysMatched
PROPERTY SessionEnds
