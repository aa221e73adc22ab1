SPECIFICATION PartsSpec
CONSTANTS
    N = 5
    Lengths = {1, 3}
    MAX_PASSES = 8
    Threads = {"t1", "t2"}
    Faults = {"bug", "noise", "wild", "throw"}
    fatal = {"bug", "noise", "wild"}
    av = {"bug", "noise", "wild"}
    eip_in <- MCEip
    caller_in <- MCCaller
    MaxReports = 4
    MaxFaults = 4
    Wares = {0, 1, 2}
    Barrels = {1, 2}
    SCALING <- MCScaling
    value_rank <- MCRank
    DEFAULT_ORDER <- MCDefaultOrder
    MAX_AMOUNT = 20
    WORD = 21
    Descriptions <- FileDescriptions
    GoodsTables <- FileTables
    Citizens = {0, 5, 14, 16}
    Home = 7
    HomeTown = 7
    Targets <- SupplyTargets
    HasOffice = {7, 8}
    Produces <- MCProduces
    Consumes <- MCConsumes
    NO_SUPPLY_WARES = {0}
    NO_BUY_WARES = {0}
    Holds = {3, 5, 7}
    Stocks <- SupplyStocks
    Offers = {0, 1}
    Laps = {1, 2}
    MaxServed = 9
    Target = 8
    None = None
    TYPES = 3
    ELEMENTS = 4
    BITMASKS <- MCBitmasks
    Owners <- MCOwners
    Keys = {"F1", "DEL", "1", "PgDn", "ALT+F4"}
    CAPACITY = 5
    MAX_MATCHES = 3
    MaxHandle = 10
    GroupKeys <- MCGroupKeys
    CLEAR_ROUTE_KEY = "DEL"
    CloseChords = {"ALT+F4"}
    Loop = "loop"
    Intro = "intro"
    Other = "other"
    NoAnim = "none"
    StaleModes = {0, 1}
    stride = 2
    height = 3
    EntryHooks = {"submit"}
    LateHooks = {"convert", "decode"}
    Sites = {"s1", "s2"}
    NoSite = "none"
    LIMIT = 1
    SECOND = 1
    WIDTH = 2
    MaxCalls = 2
    Pages = {0}
    MaxNesting = 2
    Variables = {0, 1}
    Scripts <- MCScripts
    Values <- MCValues
    Columns <- MCColumns
    Color = "red"
    LastRow = 2
    MAP_WIDTH = 3
    MAP_HEIGHT = 2
    Count = 4
    MaxLand = 2
    SCALE = 16
    Scenes = {"town", "world"}
    Menu = "menu"
    Scene0 = "town"
    Applicants = {"a", "b", "c"}
    ValueOf <- MCValueOf
    TAVERN_WIDTH = 425
    Heights = {92, 110}
    Clicks = {199, 202, 250, 270, 300, 350, 390}
    Fleet = {"lead", "mate"}
    lead_of <- MCLeadOf
    convoys = {"lead"}
    WaresAboard = {"grain"}
    Artillery = {"catapult"}
    has_office = TRUE
    MIN_CREW = 1
    FULL_CREW = 2
    CREW_ROOM = 2
    RouteStops <- MCRouteStops
    MaxPending = 1
INVARIANTS
    OrderedIsOptimal
    MarksNameTheirReport
    DeathIsTold
    FillsItsRegion
    NeverStreamsBlind
    NothingLeftBehind
    ReportsAreTrue
    PathsArrive
    NobodyWaitsInACircle
    BlocksAddUp
    NoOrphans
    MissedIsTrue
    FilesSayWhatWasMeant
    EveryoneIsInReach
    InkIsRight
PROPERTIES
    TargetIsReset
    StripIsComplete
    SameBytesSameOrder
CHECK_DEADLOCK FALSE
