\* Up to three records about two legs of two contracts: late, again, or without
\* a price or a quantity.
CONSTANTS
    a = a
    b = b
    Legs <- TwoLegs
    Intended = 2
    Ask <- Asks
    ExpectedFee <- LegFees
    MinPayoff = 100
    One = 100
    CrossSource = FALSE
    Prices = {49}
    FeesPerFill = {1}
    MaxRecords = 3
SYMMETRY LegSymmetry
SPECIFICATION Spec
INVARIANTS
    TypeOK
    GuaranteeIsHeld
    ExcessIsListed
    VerdictFitsResidual
