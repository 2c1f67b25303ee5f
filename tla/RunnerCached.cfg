CONSTANTS
    NCells = 3
    Concurrency = 2
    Mode = "read_write"
    Providers = {"p", "q", "r"}
    Chain <- ChainOfThree
    FallbackEnabled = TRUE
    Triggers = {"refusal"}
    Request <- SameRequest
    Keyed = {"p", "q"}
    Shapes <- BothShapes
    InitialStores <- OldStores
    StoreFaults = TRUE
    StorePolicy = "reproducible"
    ProbeBudget = 3
    Replies = {"answer", "refusal"}
    CallErrors = {"provider_unavailable", "provider_request"}
    Unrenderable = {}
    Latency = {2}
    Graded <- NoGraded
    HasGrader = TRUE
    GraderCache = TRUE
    ShortCircuit = TRUE
    SkipReasons = {"truncated"}
    ExpectFail = {2}
    MTok = 10
    RateTable <- Rates
    NoRate = NoRate
    NoUsage = NoUsage
    Unreported = Unreported
    NoValue = NoValue
    Unset = Unset
    AnswersOf <- AllAnswers
    RateOverrides <- Overrides
    ProviderCfgs <- AFewProviders
    CallRequests <- TwoRequests
    Environs <- TwoEnvirons
    GlobalHeaders <- TwoGlobals
    CallAnswers <- SomeAnswers
    CallCells = {c1, c2}
    MaxCalls = 2
SYMMETRY Interchangeable
SPECIFICATION CachedSpec
INVARIANTS
    NeverWorse
    ReplayIsOwn
    RepliesAreRead
CHECK_DEADLOCK FALSE
