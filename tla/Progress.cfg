SPECIFICATION Spec
PROPERTIES
    HitShipsRun
    BrokenLinksHeal
    StopEnds
    ShuttlesOn
CHECK_DEADLOCK FALSE
