CONSTANTS
    RequestSize = 3
    PipeRoom = 2
    MaxOutput = 3
SPECIFICATION ExecSpec
PROPERTIES
    EveryExecCallEnds
CHECK_DEADLOCK FALSE
