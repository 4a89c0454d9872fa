SPECIFICATION Spec
CONSTANTS
    LoopbackAttempts = 2
    ScratchAttempts = 2
    Conns = {"c1", "c2", "c3"}
    MaxConnections = 2
    AcceptFailureLimit = 2
    Workloads <- MCWorkloads
INVARIANTS ToldOrConfined RunsOnce WholeOrGone RouteIsSound
PROPERTIES RunEnds EveryConversationEnds
CHECK_DEADLOCK FALSE
