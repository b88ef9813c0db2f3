CONSTANTS
    WordBits = 2
    RouteBits = 1
    ShiftBits = 1
    DsShiftBits = 1
    NumPipes = 2
    NumRt = 2
    NumMp = 2
    NumFl = 1
    NumDs = 1
    MpRegsNum = 2
    FlRegsNum = 1
    Entries = 1
    RoutingMask = 3
    MprKey = 2
    DropWait = 2
    FilterValue = 1
    FilterMask = 2
    FedElsewhere = {}
    ResetPoints = {0, 18, 23}
    IfDefault <- MCIfDefault
    FieldMask <- MCFieldMask
    FieldShift <- MCFieldShift
    ApbRequests <- MCApbRequests
SPECIFICATION FairSpec
INVARIANTS
    ApbReadIsCurrent
    ApbWriteLandsUnlessCrowded
    ConfiguredAsAsked
PROPERTIES
    CountersReported
