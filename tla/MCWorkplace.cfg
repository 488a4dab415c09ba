SPECIFICATION WorkplaceSpec
CONSTANTS
    b1 = b1
    b2 = b2
    c1 = c1
    c2 = c2
    Browsers <- MCBrowsers
    Calls <- MCCalls
    MaxToken = 2
    Requests <- MCCalls
    MaxFailed = 2
    MaxCount = 3
    CodesPerSet = 2
    Links = {1}
    MaxPassword = 3
    MaxSets = 1
    MaxChallenges = 2
    Orgs = {"acme", "bolt"}
    Bare = {"bolt"}
    MaxRuns = 3
    MaxWrites = 1
    Editors <- MCCalls
    MaxRows = 3
    Accounts <- MCCalls
    Companies = {"acme", "bolt"}
INVARIANTS
    WorkplaceTypeOK
    OneTokenPerSession EndedStaysEnded CookieIsHonoured
    LockHasEnd OneTimeMeansOnce ResetClosesSessions
    TabIsCurrent
    SiblingsApart MarksAddUp
CHECK_DEADLOCK FALSE
SYMMETRY Symmetry
VIEW WorkplaceView
