CONSTANTS
    Workloads <- Sessions
SPECIFICATION FairSpec
CHECK_DEADLOCK FALSE
INVARIANTS
    RefusalInItsPlace
    EachRefusalOnce
PROPERTIES
    NothingIntoAFrame
    RefusalEnds
