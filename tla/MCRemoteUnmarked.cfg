\* One process, two daemon restarts and two faults.
SPECIFICATION RemoteSpec
CONSTANTS
    WireLogs <- CutSealedOverlong
    MaxLine = 2
    MaxRestarts = 2
    MaxRemoteFaults = 2
INVARIANT NilHandleMeansNoRun
CHECK_DEADLOCK FALSE
