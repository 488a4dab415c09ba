SPECIFICATION ServicesSpec
CONSTANTS
    x1 = x1
    x2 = x2
    y1 = y1
    y2 = y2
    Callers <- Pair
    Updaters <- Pair
    MaxTokens = 3
    Costs = {1, 2}
    MaxCost = 2
    Users = {"ann"}
    Roles = {"MEMBER"}
    Lookups <- Pair
    Changes <- OtherPair
    Events = {"redisFails", "expiry"}
    Nobody = Nobody
    MaxVendors = 2
    MaxRuns = 2
    MaxStalls = 1
    TextTries = 3
    Uploaders <- Pair
    MaxFiles = 3
    Makers <- Pair
    Payers <- Pair
    Amounts = {1, 2}
    InvoiceTotal = 3
    MaxInvoices = 3
    MaxReceived = 5
    Clients <- Pair
    Handlers <- OtherPair
    MaxConnections = 2
    MaxPosts = 2
    Backlog = 1
    HistoryLimit = 1
    MaxVisits = 2
    Planners <- Pair
    MaxEdits = 2
    MaxReleases = 2
    MaxDays = 2
    Workers <- Pair
    MaxUrls = 2
    Pages = {1, 2, 3}
    Origin <- SiteOf
    Disallowed = {2}
    MaxRedirects = 1
    Accounts = {"main", "second"}
    Checkers = {"dashboard"}
    MaxTime = 2
    Importers <- Pair
    BrandFields = {"companyName", "toneOfVoice", "websiteUrl"}
    NameField = "companyName"
    UrlField = "websiteUrl"
    MaxWordings = 2
    MaxConversations = 2
    MaxMessages = 3
    Inflight <- Pair
    Tenants = {"acme", "bolt"}
    Ranks = {"OWNER", "MEMBER"}
    Gate = {"OWNER"}
    MaxTurns = 1
    MaxCalls = 2
    MaxLosses = 3
    Lengths <- MonthLengths
    Todays <- ReportDays
    Dates <- BookedDays
    Bars = 3
    Listed = {"first", "second"}
    RowStages = {"OPEN", "DONE"}
    Done = "DONE"
    MaxWrites = 2
    Desks <- Pair
    People = {"ann", "bob"}
    MaxOrgs = 1
    MaxRows = 3
    VideoModels = 2
    ImageModels = 3
    MaxSleeps = 2
    MaxAttempts = 2
    SeedUsers = 2
    SeedRoles = 1
    SeedClients = 1
    SeedInvoices = 3
    MaxSeedings = 2
    MaxNumbered = 2
    Tabs = {1, 2}
    MaxLinks = 2
    Askers = {"caller"}
    MaxTasks = 2
    MaxChanges = 2
    Texts = {"ann", "R&D", "R"}
    EmptyBox = ""
    Heard <- HeardAs
    TooShort = {"R"}
    Firms = {"acme", "bolt"}
    MaxSearches = 3
    MaxSwitches = 1
    MaxToasts = 3
INVARIANTS
    ServicesTypeOK
    SettingsHold
    CacheCoherent AdmitsCurrent
    RecordsAreTrue DraftsExplained
    DocumentIsWhole LeftoversExplained
    InvoicesAddUp
    CallersAreKnown ScreensAreTrue
    PlannedOnce EditsStay RobotsRespected
CHECK_DEADLOCK FALSE
SYMMETRY Symmetry
VIEW ServicesView
