CONSTANTS
    gateway = gateway
    api = api
    other = other
    Starts <- ThreeStarts
    Faults <- CrashesOnly
SPECIFICATION Spec
CHECK_DEADLOCK FALSE
SYMMETRY StartSymmetry
INVARIANTS
    StartsAgree
