\* Two captains, as many tasks, three ships: a captain can be found on a ship that is neither
\* the recorded one nor the other captain's.
SPECIFICATION FairSpec
CONSTANTS
    Captains = {ada, bo}
    Ships = {s1, s2, s3}
    Slots = {k1, k2}
    None = None
    MaxMoves = 4
INVARIANTS FlagMeansQueued
PROPERTIES OldCaptainsRetire
CHECK_DEADLOCK FALSE
