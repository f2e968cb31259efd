SPECIFICATION FairSpec
CONSTANTS
    t1 = t1
    t2 = t2
    Tabs <- TwoTabs
    Hands <- Acting
    Nobody = Nobody
    MaxOps = 2
    MaxTroubles = 1
INVARIANTS
    AccountedFor
PROPERTIES
    JournalIsKept
    SyncedInTheEnd
CHECK_DEADLOCK FALSE
