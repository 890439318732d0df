\* A remote workspace, and a transient failure anywhere.
SPECIFICATION FairSpec
CONSTANT Limits <- RemoteFault
INVARIANTS
    NothingLeavesBeforeTheAgent
    HookPrecedesDisposal
    DrainedIsQuiet
PROPERTIES
    ExitIsFinal
    DrainStartsNothing
    ExitCompletes
    RunSettles
CHECK_DEADLOCK FALSE
