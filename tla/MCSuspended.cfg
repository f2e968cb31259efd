SPECIFICATION CompletionFairSpec
CONSTANTS
    w1 = w1
    w2 = w2
    Orders <- OneEach
    Companies <- MCCompanies
    CompanyOf <- OneEachOf
    Workers <- OneWorker
    MaxCrashes = 0
PROPERTIES
    ActiveCompanyCompleted
