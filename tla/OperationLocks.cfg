\* One session thread, as in the game. Three operations: one inserted between drains, one
\* in a drain, one by a transferred route, in any order and any session.
SPECIFICATION FairSpec
CONSTANTS
    Game = game
    Networkers = {net}
    MaxOps = 3
INVARIANTS NothingLostOrReordered
PROPERTIES EveryOperationRuns
