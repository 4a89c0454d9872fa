SPECIFICATION AlgorithmsSpec
CONSTANTS
    Credentials <- MCCredentials
    Severity <- MCSeverity
    Placeholder <- MCPlaceholder
    Astral <- MCAstral
    Prefix <- MCPrefix
    PlaceholderLen <- MCPlaceholderLen
    Encoding <- MCEncoding
    Continuation <- MCContinuation
    MinSeverity = 2
    FrameSizes = {1, 4, 9}
    Requests <- MCRequests
    Replies = {"echo", "cut", "invalid"}
    Policies <- MCPolicies
    FactSets <- MCFactSets
    StatementLists <- MCStatementLists
    StatementPolicies <- MCStatementPolicies
    StatementFacts <- MCStatementFacts
INVARIANTS RestoredWhole JsonKeepsItsShape ScanningAloneNeverRefuses WalkIsClosedForm FactsTellTheWorst
CHECK_DEADLOCK FALSE
