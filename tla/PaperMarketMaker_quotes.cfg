\* Three quotes, two of which may be open, under a position of one; a print above
\* or at the limit; one crash; a life of a second in half seconds.
CONSTANTS
    Books <- WideAndTight
    PrintPrices = {41, 42}
    Second = 2
    TTL = 2
    Stale = 2
    Improve = 1
    MinSpread = 8
    MinDepth = 10
    MaxPosition = 1
    MaxOpen = 2
    MaxTime = 4
    MaxPrints = 1
    MaxQuotes = 3
    MaxCrashes = 1
SPECIFICATION Spec
INVARIANTS
    TypeOK
    PositionBounded
    
    CancelledUnfilled
    EventsFollowQuotes
PROPERTY QuotesSettle
