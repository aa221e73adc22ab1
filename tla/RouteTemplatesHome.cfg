SPECIFICATION Spec
CONSTANTS
    Towns = {t1, t2, t3, t4, t5, t6, t7, t8, t9, t10, t11, t12}
    Offices = {t1, t2, t3, t4, t5, t6, t7, t8, t9, t10, t11, t12}
    Hometown = t1
    Producers = {t2}
    ManualRoutes <- EveryTown
    MAX_DISPLAYABLE_STOPS = 20
    NAME_TOWNS = 10
INVARIANTS
    SupplyRoutesComeHome
CHECK_DEADLOCK FALSE
