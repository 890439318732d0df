\* Small instances of the execution, remote-cycle and review parts.
SPECIFICATION PartsSpec
CONSTANTS
    MaxAttempts = 2
    MaxDaemons = 2
    MaxDomainFaults = 1
    CleanupFailures = 1
    Prompts = {"large", "huge"}
    Chunks = 2
    ReplayWindow = 1
    MaxAirClock = 1
    MaxAirFaults = 1
    MaxApproval = 2
    MaxEpoch = 2
    MaxCommits = 2
    MaxCycleFaults = 1
    Required = {"queue", "ok"}
    QueueLabel = "queue"
    RoundCap = 2
    MaxEvents = 6
    MaxHeads = 3
    MaxBases = 2
    MaxTrouble = 2
    Listing <- TwoRepositories
    Price <- DearAndCheap
    SweepBudget = 4
    PaceRequests = 3
    PaceWindow = 1
    LatestBackoff = 1
    Subjects = {1, 2}
    Outputs <- MCOutputs
    RefusalsLast = TRUE
    MaxRunFaults = 1
INVARIANTS ExecutionSafe CycleSafe  
CHECK_DEADLOCK FALSE
