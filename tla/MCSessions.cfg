\* Two tabs, two calls of one and one of the other; any two of a lapse, a loss, a revocation, a sign-in and a sign-out.
SPECIFICATION FairSpec
CONSTANTS
    t1 = t1
    t2 = t2
    a = a
    b = b
    c = c
    Tabs <- TwoTabs
    Slots <- ThreeCalls
    TabOf <- CallsTabs
    MaxLoads = 2
    MaxTroubles = 2
INVARIANTS
    EndedSessionsStayEnded
    AlarmsHaveAReason
    CookiesAreGood
    SignedOutStaysSignedOut
PROPERTIES
    SessionsAreChains
    WaitingEnds
CHECK_DEADLOCK FALSE
