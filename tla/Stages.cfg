SPECIFICATION StagesSpec
CONSTANTS
    Scenarios = {"plan", "develop", "synthetic", "writeback", "other"}
    PlnChain = 2
    MaxPlnDeaths = 1
    f1 = f1
    n1 = n1
    Existing <- MCExisting
    Planned <- MCPlanned
    MustTouch = {f1}
    Stubs = {}
    ParallelMax = 2
    MaxRecovery = 1
    MaxRevivals = 1
    ChainLength = 2
    MaxChecks = 1
    CliFiles = {f1, f2}
    CliNew = {g1}
    CliRetries = 1
    MaxCliFaults = 1
    p1 = p1
    Paths = {p1}
    Trees <- MCTrees
    Views <- MCViews
    Anchors <- MCAnchors
    Replacements <- MCReplacements
    MaxBlocks = 2
    NoText = NoText
    MaxTurns = 4
    Loaded = {l1, l2}
    Quota <- MCQuota
    Sandboxed = {f1, f2, NoName}
    NoName = NoName
    Messages = {"e1"}
    Allowed = {f1}
    FilesPerRound = 2
    MaxRepairRounds = 3
    RevVersions = 4
    RevBudget <- MCBudget
    WsFiles = {w1, w2}
    MaxWsFaults = 1
    MaxWsDeaths = 1
    MaxAttempts = 2
INVARIANTS
    StagesTypeOK PlanIsReviewed PatchesAreChecked AnswersAreKept RepairsAreJudged AskedIsBacked
PROPERTY StagesEnd
CHECK_DEADLOCK FALSE
