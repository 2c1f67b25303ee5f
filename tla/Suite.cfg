\* Loading and planning end.
CHECK_DEADLOCK FALSE
CONSTANTS
    Files = {"suite.yaml", "base.yaml", "part.yaml"}
    RootFile = "suite.yaml"
    Fields = {"name", "providers"}
    EnvFields = {"providers"}
    Contents <- AFewContents
    PlannedSuites <- AFewSuites
    Options <- AFewOptions
    Generated <- AFewAnswers
    Jobs = {"j1", "j2"}
    Earlier <- StoredBefore
    Args <- AFewArgs
    Outcomes <- AFewOutcomes
    ServerRuns <- SharedBefore
    Top = 2
    Weights = {1, 3}
    Thresholds = {0, 1, 2, 3}
    ShortCircuit = TRUE
    MaxLocal = 2
    MaxGraded = 2
    Exchanges = {"j1", "j2", "c", "d", "v", "w"}
    ExchangeKind <- Kinds
    ExchangeRequest <- Requests
    GradedSuites <- Together
    Paired <- Texts
    Unprepared = {"d"}
    OldVerdicts = {"j1", "j2", "c"}
    GraderStores <- OldStores
    GraderFaults = TRUE
    GraderBudget = 2
    MaxReasks = 2
    MaxRuns = 2
SPECIFICATION SuiteSpec
INVARIANTS
    ImportsCompose
    PlanIsSound
    ShortCircuitIsInvisible
    StoredVerdictsStand
    ExitIsHonest
    RegressionsAreShared
