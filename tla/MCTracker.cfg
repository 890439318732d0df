\* Small instances of the tracker's and the workspaces' parts.
SPECIFICATION PartsSpec
CONSTANTS
    Requests = {r1, r2}
    Kinds <- ProbeOrWrite
    Limit = 4
    Burst <- SmallBurst
    Unit <- SmallUnit
    Rate <- SmallRate
    WritePoints = 2
    Window = 2
    MaxClock = 2
    MaxTicks = 1
    MaxIssues = 3
    IssuesPerPage = 2
    MaxCached = 2
    MaxBytes = 2
    MaxEntry = 2
    MaxQueueEvents = 2
    PerPage = 2
    MaxLog = 7
    MaxTick = 2
    MaxMishaps = 2
    HeldIssues = {1, 2}
    MaxHeldEdits = 3
    MaxCycles = 2
    Rooms = {1, 2}
    MaxExaminations = 1
    Outlives = TRUE
    MaxSweepTrouble = 3
    MaxTreeClaims = 2
    MaxLength = 3
    MaxMeddling = 2
INVARIANTS  WorkspacesSafe
CHECK_DEADLOCK FALSE
