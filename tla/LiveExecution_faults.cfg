\* Four legs under an order budget of three, and a venue that may lose cancels,
\* answer with an old status and raise.
CONSTANTS
    N = 4
    QuantityCap = 3
    MaxOrders = 3
    MaxPolls = 2
    NoAdapter = {}
    Faults = {"cancel", "lag", "raise"}
SPECIFICATION Spec
INVARIANTS
    TypeOK
    CoveredLadder
    NoOrphanOrder
    AtMostOneOrderPastKill
    JournalNeverOverstates
    UnflaggedImbalanceHasCause
PROPERTY ImplementsPurchase
