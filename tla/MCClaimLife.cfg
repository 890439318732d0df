SPECIFICATION Spec
CONSTANTS
    MaxRuns = 2
    MaxCrashes = 1
    MaxGestures = 1
    MaxClaims = 2
    MaxLag = 1
    MaxLog = 6
    Gestures = {"unassign", "assign", "close", "reopen", "unlabel", "label", "requeue", "join"}
INVARIANTS TypeOK SharedOnlyAfterUnassign FreshStartMeansNoLaunch PublishedIsNotRepeated ParkedWaitsForPerson 
CHECK_DEADLOCK FALSE
