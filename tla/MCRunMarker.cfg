\* Two workspaces, four launches: a removal of launch n can meet launches n+1 and n+2.
SPECIFICATION FairSpec
CONSTANTS
    Keys = {k1, k2}
    MaxRuns = 4
CHECK_DEADLOCK FALSE
INVARIANTS
    TypeOK
    MarkerCoversAgent
    OneAgentPerWorkspace
    StaleMarkerIsOwed
PROPERTIES
    OwedMarkerIsFreed
    LaunchIsNotBlocked
