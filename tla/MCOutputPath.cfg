CONSTANTS
    Clients = {c1, c2}
    NoClient = NoClient
    Requests <- MCRequests
    QueueLen = 1
SPECIFICATION FairSpec
CHECK_DEADLOCK FALSE
INVARIANTS
    StopIsPrompt
PROPERTIES
    SentToRecentClient
    StopEnds
