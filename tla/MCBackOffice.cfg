SPECIFICATION Spec
CHECK_DEADLOCK FALSE
CONSTANTS
    c1 = c1
    c2 = c2
    Callers = {c1, c2}
    Emails = {"ann", "eve"}
    Slugs = {"acme", "other"}
    TelegramIds = {"tg1"}
    MaxCompanies = 2
    MaxUsers = 3
    Orders <- MCOrders
    MaxNumber = 3
    TINs = {"", "t1", "t2"}
    ATCs = {"", "WC010", "XX"}
    Payments <- MCPayments
    RateTable <- MCRateTable
    LearnedRules <- MCLearnedRules
    MaxListed = 2
    Patterns <- MCPatterns
    AnalyzeThreshold = 5
    AnalyzeNewMin = 3
    RuleThreshold = 3
    MaxAnalyzed = 500
    VendorTexts <- MCVendorTexts
    MinCorrections = 5
    TagNames = {"north", "urgent"}
    Transactions = {"t1", "t2"}
    PrefKeys = {"k1", "k2"}
    Chunks <- MCChunks
    MaxRetrieved = 2
    Batches <- MCBatches
    BatchSize = 2
    SentCandidates <- MCSentCandidates
    ActiveRules <- MCActiveRules
    KnownVendors <- MCKnownVendors
    VATTypes <- MCVATTypes
    Uploads <- MCUploads
    Matches <- MCMatches
    Suggestions <- MCSuggestions
    ItemInputs <- MCItemInputs
    PolicyInputs <- MCPolicyInputs
    Staff = {"ann", "bob"}
    Departments = {"ops", "it"}
    NoLimit = NoLimit
    NoDescription = NoDescription
    Edits <- MCEdits
    Overrides <- MCOverrides
    RecordLimit = 2
    Entities = {0, 1}
    HistoryLimit = 2
    HeaderScanLimit = 3
    MaxPreviewRows = 2
    x = x
    y = y
    NoDay = NoDay
    NoAnswer = NoAnswer
    Tolerance = 1
    ToleranceDays = 7
INVARIANTS IdentitySound PurchasingSound LearningSound SessionDeskSound ExpenseDeskSound RecordsSound ConversationsSound
INVARIANTS MatchingSound Stable SchedulesAreSlices FormsAgree SheetsRead
