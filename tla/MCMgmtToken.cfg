CONSTANTS
    gateway = gateway
    api = api
    other = other
    Starts <- ThreeStarts
    Faults <- AnyFault
SPECIFICATION FairSpec
CHECK_DEADLOCK FALSE
INVARIANTS
    AgreeUnlessBroken
PROPERTIES
    TokenStays
    EveryStartEnds
