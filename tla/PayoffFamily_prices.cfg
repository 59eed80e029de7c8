\* Prices in percent: a grid with pairs closer than the tolerance of 3, and all mixtures
\* of quarters.
SPECIFICATION Spec
CONSTANTS
    Families <- MCFamilies
    Prices = {0, 2, 25, 31, 54, 100}
    Unit = 100
    Tolerance = 3
    Parts = 4
INVARIANTS
    MixturesAreFeasible
    FeasibleHasNoArbitrage
CHECK_DEADLOCK FALSE
