CONSTANTS
    NCells = 3
    Concurrency = 2
    Mode = "read_write"
    Providers = {"p", "q", "r"}
    Chain <- ChainOfTwo
    FallbackEnabled = TRUE
    Triggers = {"refusal"}
    Request <- SameRequest
    Keyed = {"p", "q"}
    Shapes <- NoShapes
    InitialStores <- EmptyStore
    StoreFaults = FALSE
    StorePolicy = "reproducible"
    ProbeBudget = 0
    Replies = {"answer", "truncated"}
    CallErrors = {"provider_auth"}
    Unrenderable = {}
    Latency = {}
    Graded <- OneGraded
    HasGrader = TRUE
    GraderCache = TRUE
    ShortCircuit = TRUE
    SkipReasons = {"truncated"}
    ExpectFail = {2}
    Transcripts <- UpToFive
    NoId = NoId
    RequestSize = 3
    PipeRoom = 2
    MaxOutput = 3
    Broken = Broken
    NoJson = NoJson
    Absent = Absent
    Misfit = Misfit
    PromptfooConfigs <- AFewConfigs
    OwnAsserts <- AFewOwnAsserts
    JudgedOutputs <- AFewOutputs
SPECIFICATION AbortSpec
INVARIANTS
    BoundedLoss
    NoUngradedPass
    ReplayMatchesStore
    ResultsAnswerTheirCalls
    NoProcessIsLeft
    ImportKeepsMeaning
CHECK_DEADLOCK FALSE
