CONSTANTS
    Calls = {c1, c2}
    Interval = 2
    MaxRetries = 1
    InitialBackoff = 2
    MaxBackoff = 2
    RetryAfterMax = 3
    Hints = {3, 4}
    Jitter = TRUE
    Timeout = 1
    Lateness = 1
    AccessUsers = {"ann"}
    AccessRuns = {"r1", "r2"}
    RunSetOf <- TwoSuites
    CachedRuns = {"r2"}
    NewerThan <- FirstIsNewest
    AccessScopes <- ProjectAndSuite
    AccessClients = {c1}
    AuthMode = "protect_writes"
    PageLimit = 1
    MaxChanges = 2
    NoName = "-"
    NoRun = "-"
    NoScope = NoScope
    NoUser = "-"
    PageRuns = {1, 2, 3, 4}
    RunRow <- FourRuns
    CaseRows <- SixCases
    EntryRows <- ThreeCases
    ListingKinds <- AFewListings
    Limits = {1, 2}
    MaxTableChanges = 2
SPECIFICATION PacedSpec
INVARIANTS
    RateBound
    WireIsHonest
    AccessIsHeld
    PagesAreExact
PROPERTY
    EveryCallIsAnswered
CHECK_DEADLOCK FALSE
