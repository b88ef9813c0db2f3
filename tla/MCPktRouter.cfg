CONSTANTS
    Keys = {"a", "b"}
    NumChans = 2
    NumRt = 2
    Tables <- MCTables
    Waits = {0, 1, 3}
SPECIFICATION RouterFairSpec
INVARIANTS
    DroppedOnTime
PROPERTIES
    NeverBlocks
