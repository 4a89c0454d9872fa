SPECIFICATION Spec
CONSTANTS
    Directories <- MCDirectories
    Root = "root"
    Cwd = "home"
    Owner <- MCOwner
    Shared = {"tmp"}
    Elsewhere = {"bait"}
    ParentOf <- MCParentOf
    Placed <- MCPlaced
    MaxSymlinkHops = 2
    SinkOpenAttempts = 2
    Workloads <- MCWorkloads
    Recorders = {"t1", "t2"}
    HookProcess = "hook"
    Capacity = 2
    Approvals = {1, 2}
    Fragments <- MCFragments
    Session = "session"
    MaxPolls = 3
INVARIANTS SinkStaysPut TrailIsTrue FailedStartIsHarmless
PROPERTY DecidedStaysGone
CHECK_DEADLOCK FALSE
