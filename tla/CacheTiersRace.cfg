CONSTANTS
    Clients = {"w1", "w2"}
    Dirs = {"d1"}
    Keys = {"k", "l"}
    Entries = {"answer", "refusal"}
    Refused = {"refusal"}
    Sites <- DiskSites
    RemoteFaults = TRUE
    WriteFaults = FALSE
    Crashes = FALSE
    CommandSites <- AFewSites
    CacheKeys = {1, 2}
    FileBodies <- AFewBodies
    StartingFiles <- AFewFiles
    AskedCommands = {}
    HoursADay = 2
    LastHour = 1
    MAX_SCAN = 2
    MaxChanges = 0
    Missing = Missing
SPECIFICATION TiersSpec
PROPERTIES
    FirstWriteWins
CHECK_DEADLOCK FALSE
