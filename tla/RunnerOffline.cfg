CONSTANTS
    NCells = 3
    Concurrency = 2
    Mode = "read_only_strict"
    Providers = {"p", "q", "r"}
    Chain <- ChainOfTwo
    FallbackEnabled = TRUE
    Triggers = {"refusal"}
    Request <- OwnRequest
    Keyed = {"p", "q", "r"}
    Shapes <- BothShapes
    InitialStores <- WarmStores
    StoreFaults = TRUE
    StorePolicy = "reproducible"
    ProbeBudget = 2
    Replies = {"answer"}
    CallErrors = {"provider_auth"}
    Unrenderable = {3}
    Latency = {2}
    Graded <- TwoGraded
    HasGrader = TRUE
    GraderCache = FALSE
    ShortCircuit = TRUE
    SkipReasons = {"truncated"}
    ExpectFail = {2}
    EntryKeys = {1, 2, 3}
    Blobs <- AFewBlobs
    Dialects = {"sqlite", "postgres"}
    OldTables <- AFewTables
    Batch = 2
    ReadBudget = 2
    PageSize = 1
    Listings <- AFewListings
    AskedPrunes <- AFewPrunes
    AgeLimit = 0
    SizeLimit = 3
    SweptReasons = {"refusal"}
    LastDay = 1
    MaxIds = 3
    MaxRestarts = 1
    GradingSuites <- AFewAsserts
    GradedCases <- AFewGraded
    GraderEnvirons <- AFewEnvirons
    JudgeAnswers <- AFewJudges
    CheckerAnswers <- AFewCheckers
    EmbeddingAnswers <- AFewVectors
    OldOrigins <- AFewOrigins
    TopScore = 2
    MaxUsage = 5
    MaxGradings = 2
    Nothing = Nothing
    Unset = Unset
SPECIFICATION OfflineSpec
INVARIANTS
    CacheOnlyIsOffline
    BrowserIsExact
    GradedAsAsked
PROPERTIES
    BacklogDrains
    HungCallsCostTheirSlots
CHECK_DEADLOCK FALSE
