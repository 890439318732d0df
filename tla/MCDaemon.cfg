\* Small instances of the daemon's parts.
SPECIFICATION PartsSpec
CONSTANTS
    Scripts <- OneLine
    EventBuffer = 1
    Windows = {"timeout"}
    MaxEntries = 4
    MaxIoFaults = 2
    MaxCrashes = 2
    Big = {3}
    Failing = {1, 2}
    Defs <- OneEditOfEach
    FirstDef <- Base
    MaxEdits = 2
    MaxClaims = 1
    MaxReloadFaults = 1
    WireLogs <- CutSealedOverlong
    MaxLine = 2
    MaxRestarts = 2
    MaxRemoteFaults = 2
    Layouts <- MCLayouts
    MaxChainDepth = 3
    MaxChainEdits = 4
    DaemonVars = {"GITHUB_TOKEN", "PUSH", "PATH"}
    Blocks <- MCBlocks
    FileTexts <- MCLeaves
    StartSources <- MCStart
    SourceNames = {"a", "b"}
    ExchangeTTL = 3
    LoadMargin = 1
    MaxFileEdits = 2
    Callers = {1, 2}
    Minters = {2}
    Purposes = {"tracker", "publish"}
    MinFreshTTL = 3
    TTLMargin = 1
    DeadlineHandoff = 1
    IssuerLife = 5
    HTTPTimeout = 1
    AttemptTimeout = 2
    MaxTime = 3
    MaxRotations = 1
    Expressions <- MCExpressions
    MaxNodes = 5
    MaxDepth = 2
    MaxRounds = 2
    Secrets <- MCSecrets
    OutLines <- MCOutLines
    ErrChunks <- MCErrChunks
    PromptTexts <- MCPromptTexts
    Marker <- MCMarker
    MinNeedle = 3
    StderrTail = 5
    MaxWrites = 3
    MaxOpens = 2
    LabelSpellings = {"queue", "QUEUE", "ok"}
    RequiredSets = {{"queue"}, {"queue", "ok"}}
    MaxHistory = 3
    MaxContent = 2
    MaxSecond = 1
    MaxDecisions = 1
INVARIANTS HandleSafe LogSafe RunsSafe 
PROPERTY KeepsContract
CHECK_DEADLOCK FALSE
