CONSTANTS
    Top = 2
    Weights = {0, 1}
    Thresholds = {0, 1, 2, 3}
    ShortCircuit = TRUE
    MaxLocal = 2
    MaxGraded = 2
SPECIFICATION Spec
INVARIANTS
    ShortCircuitIsInvisible
CHECK_DEADLOCK FALSE
