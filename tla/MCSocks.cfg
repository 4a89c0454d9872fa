SPECIFICATION Spec
CONSTANTS
    MaxPgFrame = 3
    MaxHeldPipeline = 3
    Clients = {"a", "b", "c"}
    Permits = 2
    Workloads <- MCWorkloads
    ProtocolOf <- MCProtocol
    VerdictOn <- MCVerdict
    AnswerOf <- MCAnswer
INVARIANTS TunnelIsAuthorized OnlyJudgedReach
PROPERTY PermitReturns
CHECK_DEADLOCK FALSE
