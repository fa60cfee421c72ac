SPECIFICATION FairSpec
CONSTANTS
    Threads = {t1, t2, t3}
    Nobody = Nobody
    PoolSize = 2
    MaxHeld <- OneNests
    MaxGets = 2
    MaxSpurious = 2
    EarlyGet = FALSE
INVARIANTS TypeOK ExclusiveLease NothingLost NoSleeperLeftBehind
PROPERTIES LeaseSpec EveryGetReturns
