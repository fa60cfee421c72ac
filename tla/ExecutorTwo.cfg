SPECIFICATION FairSpec
CONSTANTS
    Engines = {"sqlite"}
    Processes = {p, q}
    Nobody = Nobody
    Body <- RepeatableBodies
    Disks <- UpgradeDisks
    Calls <- ApplyCalls
    MaxCalls = 3
    MaxFaults = 1
INVARIANTS SchemaMatchesLog LogIsPrefix
PROPERTIES DoneMeansDone WritesOnlyItsLog EveryCallEnds
CHECK_DEADLOCK FALSE
