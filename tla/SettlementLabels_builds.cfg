\* Two contracts of one day, two builds that may overlap, one failure, two changes of the
\* sources: enough for the report to come and go, and for the NWS to displace the archive.
SPECIFICATION FairSpec
CONSTANTS
    N = 2
    MaxBuilds = 2
    MaxFaults = 1
    MaxMoves = 2
INVARIANTS
    LimitedReadMakesNoLabel
    OneBuildOneSource
PROPERTIES
    LabelWorsensForACause
    CollectorEnds
CHECK_DEADLOCK FALSE
