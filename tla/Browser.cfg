SPECIFICATION BrowserSpec
CONSTANTS
    Loaders <- AllLoaders
    Values = {a, b}
    MaxVersion = 2
    MaxRequests = 3
    Instances = {"i1"}
    Nodes = {"i1", "i2"}
    Compared = {"i1", "i2", "i3"}
    Views = {"overview", "detail", "explore", "scanner"}
    Ranges = {"hour", "past"}
    DefaultRange = "hour"
    Tabs = {"patterns", "querylog"}
    MaxBack = 2
    MaxEntries = 2
    Pages = {"p1", "p2"}
    Askers = {"p1"}
    MaxQuestions = 2
    MaxSessions = 1
    MaxEvents = 1
    Alerts = {"a1", "a2"}
    MaxResolves = 1
    Catalog <- SomeAlerts
    PageSize = 1
    LogPage = 2
    PerSecond = 2
    MaxQueries = 4
    MaxReloads = 1
    Databases = {"d1", "d2"}
    Tables <- SomeTables
    MaxLoads = 3
    MaxChecks = 2
    MaxOpened = 2
    MaxPastes = 2
    Columns = {"c"}
    Cells <- SomeCells
    MaxRows = 3
    MaxExecutions = 2
    HistoryLimit = 2
    Collectors = {"c1", "c2"}
    Reporting = {"c1"}
    MaxRuns = 2
    MaxTriggers = 3
    SavedNames = {"n1", "n2"}
    Cap = 2
    MaxSaved = 3
    ComparedTables = {"t1"}
    Copies <- SomeCopies
    Settings = {"s1"}
    SettingValues = {"x", "y"}
    Types <- SomeWidgets
    MaxBuilds = 4
INVARIANTS
    BrowserTypeOK
    NothingStaleUnmarked
    SettlesOnSelection
    ErrorsAreCurrent
    NothingHangs
    AnswersAreCurrent
    ClaimsAreTrue
    ListsAreWhole
    NavigationHolds
PROPERTIES
    DataAdvances
CHECK_DEADLOCK FALSE
