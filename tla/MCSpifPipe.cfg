CONSTANTS
    c1 = c1
    c2 = c2
    Clients = {c1, c2}
    HasOutput = TRUE
    Lengths = {0, 4}
    Frames = {1, 2}
    Request = 2
    Upsets = {"timeout", "signal", "openInterrupted", "releaseInterrupted"}
SPECIFICATION FairSpec
INVARIANTS
    ExclusiveAccess
PROPERTIES
    NotRefusedUnlessWedged
    NoOverrun
    WholeFrameUnlessAbandoned
    WaiterWoken
    TransfersFinishUnlessStarved
