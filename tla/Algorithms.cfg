CONSTANTS
    NumFaqs = 2
    NumDocs = 3
    MaxRev = 2
    MaxPage = 4
    Features <- MCFeatures
    MaxFeatures = 3
    Visible = {"m2"}
    Hidden = {"m1"}
    Wanted = {"invoice"}
    Budget = 2
    MaxRetries = 3
    MaxBytes = 2
    MaxTokens = 3
    MaxConfig = 3
    Histories <- MCHistories
    SummaryTokens = {1, 9}
    KnowledgeTokens = {0, 3, 9}
    RecentRounds = 2
    MaxContext = 8
    MaxPrompt = 10
    BaseTokens = 4
    TriggerTokens = 2
    Entries = {"f1", "f2"}
    Passages = {"d1"}
    Asks <- MCAsks
    Stores <- MCStores
    VectorScores = {0, 60}
    KeywordScores = {0, 65, 90}
    HighK = 3
    LowK = 2
    MinPool = 2
    MaxPool = 3
    Multiplier = 1
    Edits = 1
    CaseSets <- MCCaseSets
    Policies <- MCPolicies
    Texts = {"t1", "t2"}
    Manifests = {{1}, {1, 2}}
    CaseLimit = 2
    MaxVersions = 3
    MaxWrites = 2
    MaxJobs = 2
    Requests <- MCRequests
    Defects <- MCDefects
    Scans <- MCScans
    MaxCells = 20
    MaxScanPages = 4
    MaxScanBlocks = 12
    Sentences <- MCSentences
    Clean <- MCClean
    Breaks <- MCBreaks
    Sources <- MCSources
    Distances <- MCDistances
    MaxText = 40
    MaxBlocks = 9
    MaxDepth = 6
    NearEmpty = 2
    MaxFurniture = 5
    MaxChunk = 6
    MinChunk = 4
    Overlap = 1
SPECIFICATION Spec
INVARIANTS
    ScanIsComplete
    IngestKeepsText
    AnswerIsSound
    QualityIsMeasured
    ReplyIsOneAnswer
    PromptAsksTheQuestion
    TriageAgrees
    OcrIsFaithful
CHECK_DEADLOCK FALSE
