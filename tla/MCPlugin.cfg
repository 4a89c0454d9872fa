SPECIFICATION Spec
CONSTANTS
    Procs <- MCProcs
    Daemons = {"gateway"}
    Worlds <- MCWorlds
    NoProc = "nobody"
    SecretSurfaces <- MCSecrets
    PiiSeverity <- MCPii
    MaxRedactDepth = 3
    Longer <- MCLonger
    Calls <- MCCalls
    Situations <- MCSituations
    ProcOf <- MCProcOf
    Gateway <- MCGateway
    MaxLookups = 2
INVARIANTS FailClosedWithholds OneMachineKey WeaknessIsTold RejectionIsNotKept
CHECK_DEADLOCK FALSE
