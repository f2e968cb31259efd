SPECIFICATION CompletionFairSpec
CONSTANTS
    w1 = w1
    w2 = w2
    Orders <- MCOrders
    Companies <- MCCompanies
    CompanyOf <- MCCompanyOf
    Workers <- MCWorkers
    MaxCrashes = 1
INVARIANTS
    DisputedWhileOpen
    AnnouncedOnce
    JobsNeverWaitInACircle
PROPERTIES
    ClosesAtOnce
    AllActiveAllCompleted
