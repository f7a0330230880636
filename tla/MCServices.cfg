SPECIFICATION ServicesSpec
CONSTANTS
    s1 = s1
    judge = judge
    w1 = w1
    w2 = w2
    l1 = l1
    l2 = l2
    none = none
    json = json
    text = text
    Steps = {s1, judge}
    Judge = judge
    Waiters = {w1, w2}
    Listeners = {l1, l2}
    MaxReads = 2
    Surroundings <- MCSurroundings
    NoStep = none
    Savers = {p1, p2}
    Loaders = {q}
    Types = {json, text}
    Json = json
    StoreSettings <- MCStoreSettings
    Absent = Absent
    Partial = Partial
    Bytes = Bytes
    NoRow = NoRow
    MaxWork = 2
    MaxMishaps = 2
    Tools = {"http"}
    Limits <- MCLimits
    Jobs = {"j1", "j2", "j3", "j4"}
    ToolOf <- MCToolOf
    MaxAsks = 1
    MaxStrays <- MCMaxStrays
    NodeOrder <- MCNodeOrder
    OutEdges <- MCOutEdges
    Tabs = {"plain", "ofRun", "ofSim"}
    EventGraph = "graph"
    NoTab = NoTab
    OpenedAs <- MCOpenedAs
    Runs = {"r1", "r2"}
    NoRun = NoRun
    History = {"r1"}
    PerRun <- MCPerRun
    MaxBuffer = 1
    MaxEvents = 4
    Scenes <- MCScenes
INVARIANTS RowsAreTrue ClientsSeeTruth StoreIsWhole ListedIsThere Orderly GrantsExact GraphIsAnalysed EventsAreAccounted PanelsAgree
PROPERTIES OverIsAnswered
CHECK_DEADLOCK FALSE
