CONSTANTS
    Cameras = {1, 2}
    Kind <- AllCAER
    NPipes = 2
    NThreads = 5
    Echoes = 2
    MaxChanges = 2
    Upsets = {"elsewhere", "term"}
SPECIFICATION FairSpec
CHECK_DEADLOCK FALSE
INVARIANTS
    SoleListener
    SortedBySerial
    
    SwitchesUnlessOverlooked
PROPERTIES
    SurveysEnd
    TermStopsUnlessReplaced
