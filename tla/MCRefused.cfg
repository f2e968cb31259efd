SPECIFICATION Spec
CONSTANTS
    t1 = t1
    t2 = t2
    Tabs <- TwoTabs
    Hands <- Acting
    Nobody = Nobody
    MaxOps = 1
    MaxTroubles = 2
INVARIANTS
    RefusalsAreShown
CHECK_DEADLOCK FALSE
