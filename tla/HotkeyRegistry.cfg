\* Two consumers on two keys, a table of three slots and room for two matches: a full
\* table, a truncated snapshot, stale and re-registered matches all occur.
CONSTANTS
    Owners = {o1, o2}
    Keys = {k1, k2}
    CAPACITY = 3
    MAX_MATCHES = 2
    MaxHandle = 4
SPECIFICATION FairSpec
PROPERTIES KeystrokeEnds ShadowingSpec
