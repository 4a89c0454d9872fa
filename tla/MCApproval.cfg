\* An HTTP hold and a PostgreSQL hold competing for one slot.
CONSTANTS
    http = http
    pg = pg
    Holds <- HTTPAndPostgres
    Watched <- PostgresOnly
    Droppable <- HTTPAndPostgres
    MaxPending = 1
SPECIFICATION FairSpec
CHECK_DEADLOCK FALSE
INVARIANTS
    ApprovedOnlyByHuman
    WaitingIsResolvable
    AuditTellsTheOutcome
    DepartureYieldsToDecision
PROPERTIES
    EveryHoldEnds
    GateSpec
