SPECIFICATION SessionsSpec
CHECK_DEADLOCK FALSE
CONSTANTS
    Site <- MCSite
    Element <- MCElement
    BlockedHosts = {"local"}
    BaseHosts = {"shop"}
    AllowLists <- MCAllowLists
    Budgets = {2}
    RedirectBounds = {0, 2}
    Texts = {"hello", "secret"}
    DefaultBudget = 1
    DefaultRedirects = 2
    MaxNavigations = 1
    MaxSessions = 2
    MaxEpoch = 3
    Apps <- MCApps
    Documents = {"main", "outside"}
    Payloads = {"a", "pay", "secret"}
    Flagged = {"pay"}
    AppBudget = 2
    MaxAppEpoch = 3
    MaxAppLives = 1
    Paths <- MCPaths
    Content <- MCContent
    TransformOps = {"merge"}
    DocBudget = 2
    DefaultDocBudget = 1
    MaxDocEpoch = 2
    MaxDocLives = 1
    Programs = {"notepad", "shell"}
    Denied = {"shell"}
    Coordinates <- MCCoordinates
    Width = 1
    Height = 1
    Buttons = {"left", "wheel"}
    KeySets <- MCKeySets
    KnownKeys = {"a", "ctrl", "del"}
    BlockedCombos <- MCBlockedCombos
    KeyTexts = {"hi", "secret"}
    Tickets = {"none", "t"}
    ActionLimit = 4
    Replies <- MCReplies
    Retries = 1
    TurnLimit = 2
    MaxRuns = 1
    MaxWindows = 2
    MaxInputs = 2
    Pipelines <- MCPipelines
    Backends = {"mock", "read", "write"}
    WfBudget = 6
    FileContents = {"old", "new", "absent"}
    InitialContent = "old"
    MaxWfCalls = 7
    MaxWfLives = 1
INVARIANTS ConsumedIsHandedOver
