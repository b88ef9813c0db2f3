CONSTANTS
    Pipes = 3
    Outps = 2
    RsvdSize = 14
SPECIFICATION FairSpec
INVARIANTS
    OnlyNodesLeak
    FreedIsHeld
    HandlerFindsItsPipe
    WindowsApart
CHECK_DEADLOCK FALSE
