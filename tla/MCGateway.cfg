SPECIFICATION Spec
CONSTANTS
    Conns <- MCConns
    Settings <- MCSettings
    MaxInspectBody = 6
    MinSeverity = 2
    MaxEntries = 2
    MaxBytes = 3
    HookTexts <- MCHookTexts
    MaxEvicted = 2
    Credentials <- MCCredentials
    Severity <- MCSeverity
    Placeholder <- MCPlaceholder
    Astral <- MCAstral
INVARIANTS UpstreamIsAuthorized SecretsStayHome ServiceCanTakeIt EchoComesHome AuditTellsTheStory
CHECK_DEADLOCK FALSE
