CONSTANTS
    Clients = {"w1", "w2", "p"}
    Dirs = {"d1", "d2"}
    Keys = {"k"}
    Entries = {"answer", "refusal"}
    Refused = {"refusal"}
    Sites <- BothSites
    RemoteFaults = TRUE
    WriteFaults = TRUE
    Crashes = TRUE
    CommandSites <- AFewSites
    CacheKeys = {1, 2}
    FileBodies <- AFewBodies
    StartingFiles <- AFewFiles
    AskedCommands <- AFewCommands
    HoursADay = 2
    LastHour = 1
    MAX_SCAN = 2
    MaxChanges = 2
    Missing = Missing
SPECIFICATION TiersSpec
INVARIANTS
    ReadsAreWhole
    CommandsAreExact
PROPERTIES
    TiersAreImmutable
CHECK_DEADLOCK FALSE
