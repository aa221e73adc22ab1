\* The locked amounts of one office and two saves, and of two offices and one save; and the other
\* windows, each on an instance of its own.
SPECIFICATION MCSpec
CONSTANTS
    Towns = {"A", "B"}
    Wares = {"beer"}
    Scaling <- MCScaling
    BoxMax = 1
    Names = {"s1", "s2"}
    None = "none"
    Offices = {"A", "B"}
    Goods = {"grain"}
    Levels = {1, 2}
    Produced <- MCProduced
    SCALING <- MCSCALING
    BUY_AMOUNT <- MCBuyAmount
    Required <- MCRequired
    Materials <- MCMaterials
    MAX_BOX = 3
    Typed = {1}
    MaxQueued = 1
    Rows = {"grain", "beer"}
    DEFAULT_ORDER <- MCDefaultOrder
    ValueKey <- MCValueKey
    PriceLevels = {1, 2}
    Route <- MCRoute
    Production <- MCProduction
    NO_BUY_WARES = {"beer"}
    Demand <- MCDemand
    LapFactor = 2
    MAX_AMOUNT = 2
    Visited = {2}
INVARIANTS
    ShipsLeaveWhatTheBoxShows
    ProvisionsCover
    SetupHolds
PROPERTIES
    TravellingSpec
    LoadRestores
    OthersKeepTheirOrders
CHECK_DEADLOCK FALSE
