SPECIFICATION Spec
CONSTANTS
    Engines <- AllEngines
    Processes = {p}
    Nobody = Nobody
    Body <- Bodies
    Disks <- OneDisk
    Calls <- AllCalls
    MaxCalls = 4
    MaxFaults = 2
INVARIANTS TypeOK SchemaMatchesLog
PROPERTIES HistorySpec StaysWithinTarget DoneMeansDone ThrowsOnlyOnFaults
CHECK_DEADLOCK FALSE
