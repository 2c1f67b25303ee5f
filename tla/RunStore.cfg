CONSTANTS
    RunIds = {1, 2, 3}
    Suites = {"s", "t"}
    Branches = {"main"}
    Cases = {"a", "b"}
    Shapes <- BothShapes
    Recording = TRUE
    Checkouts = {"null"}
    MaxAge = 0
    MaxNow = 1
    Lookback = 2
    Runs = {"r", "s"}
    RunOfCase <- TwoRunsOf
    Documents <- CaseDocs
    StartVersions = {1, 5, 6, 13, 14, 15, 17, 18}
    CASE_CHUNK = 2
    RUN_CHUNK = 1
    MaxStops = 1
    Keys = {"a", "b", "c"}
    SourceRows <- GappedRows
    Batch = 2
    MaxCrashes = 2
    IntWidth = 3
    Samples = {0, 1}
SPECIFICATION StoreSpec
INVARIANTS
    NothingDangles
    ReshareIsHarmless
    GateFindsItsBaseline
    DatabaseIsKept
PROPERTIES
    SweepIsSelective
CHECK_DEADLOCK FALSE
