SPECIFICATION Spec
CONSTANTS
    Towns = {"Lue", "Ros", "Ste"}
    Offices = {"Lue", "Ros"}
    Hometown = "Lue"
    Producers = {"Ste"}
    ManualRoutes <- SmallRoutes
    MAX_DISPLAYABLE_STOPS = 5
    NAME_TOWNS = 2
INVARIANTS
    ReadingIsStable
    RebuildKeepsTheRoute
    NameNamesTheRoute
CHECK_DEADLOCK FALSE
