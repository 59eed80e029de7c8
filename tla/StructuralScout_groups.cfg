\* Six groups of up to four contracts of three platforms, five quotes each, three
\* modes, and a price of each source.
CONSTANTS
    Groups <- TerminalGroups
    Quotes <- QuoteSet
    Options <- OptionSet
    Prices = {3, 7, 11, 13, 19, 25}
    Bottom = 0
    Top = 30
    Grain = 6
    Whole = 24
    Fee <- Fees
    Buffer = 5
    MaxBasketLegs = 3
    One = 100
SPECIFICATION Spec
INVARIANTS
    GuaranteePays
    StrictEarns
    CheapCoverIsFound
CHECK_DEADLOCK FALSE
