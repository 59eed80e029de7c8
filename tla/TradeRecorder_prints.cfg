\* Three prints in three seconds, one at a time stored by another writer only, two pages
\* of one print, an hour of two seconds, one failure and one crash.
SPECIFICATION FairSpec
CONSTANTS
    Modes = {"ticker", "global"}
    PageSize = 1
    MaxPages = 2
    Lookback = 2
    MaxTime = 3
    MaxPrints = 3
    MaxFaults = 1
    MaxCrashes = 1
    MaxOthers = 1
INVARIANTS
    LostPrintHasCause
PROPERTIES
    PrintsAreRecorded
CHECK_DEADLOCK FALSE
