\* Every window twice over, a table that never fills.
CONSTANTS
    Owners <- MCOwners
    Keys = {"F1", "DEL", "1", "PgDn", "ALT+F4"}
    CAPACITY = 9
    MAX_MATCHES = 3
    MaxHandle = 11
    GroupKeys <- MCGroupKeys
    CLEAR_ROUTE_KEY = "DEL"
    CloseChords = {"ALT+F4"}
SPECIFICATION ScopesSpec
INVARIANTS ScopesFollowWindows
PROPERTIES WindowsShadowRouteKeys
