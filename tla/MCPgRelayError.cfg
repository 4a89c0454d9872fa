CONSTANTS
    Workloads <- Failing
SPECIFICATION Spec
CHECK_DEADLOCK FALSE
INVARIANTS
    RefusalBehindEveryFlush
