SPECIFICATION ServicesSpec
CONSTANTS
    c1 = c1
    c2 = c2
    McpCalls <- TwoCalls
    MaxStarts = 2
    Files = {f1, f2}
    NewFiles = {g1}
    MaxPatches = 2
    MaxBoxFaults = 1
    Writers = {w1, w2}
    MaxTimes = 2
    MaxIds = 2
    MaxEvents = 2
    MaxDrops = 1
    Chain = 2
    MaxIterations = 1
    MaxSends = 2
    CcProviders = 2
    CcFiles = {c1, c2}
    MaxRounds = 3
    MaxToolCalls = 1
    OverallTime = 2
    CallTime = 1
    TopK = 2
    n1 = n1
    q1 = q1
    RegNames = {n1, n2}
    Requests = {q1, q2, q3}
    NoRequest = NoRequest
    j1 = j1
    j2 = j2
    j3 = j3
    Jobs <- ThreeJobs
    MaxWorkers = 2
    MaxPools = 2
    Sources = {repo, up}
    Uploads = {up}
    DefaultSource = repo
    CardSources = {repo}
    MaxVersions = 2
    MemTasks = {t1, t2}
    NoTask = NoTask
    Mishaps = {g1}
    MemIds = {1, 2}
    MaxDeaths = 1
    PrTasks = {k1, k2}
    Diffs = {d1, d2}
    MinVerified = 2
    MaxPrFaults = 1
    Rows = 3
    Sourced = {1, 2, 3}
    QaCounted = {1, 2}
    JudgeModes = {"rule", "single", "codex", "hybrid", "hybrid_v2"}
    Samples = 2
    PauseOn = TRUE
    BurstThreshold = 1
    Backoffs = 1
    StreakLimit = 2
    EarlyWindow = 3
INVARIANTS
    ServicesTypeOK CountersHold McpSentOnce SharedFilesAgree PageFollowsTask ChatKeepsItsWord
    SearchesFind RecordHasTree LessonsAreEarned ScoresHold
PROPERTIES
    NothingIsTakenBack ServicesEnd
CHECK_DEADLOCK FALSE
