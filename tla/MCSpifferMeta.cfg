CONSTANTS
    Cameras = {1, 2}
    Kind <- AllMETA
    NPipes = 2
    NThreads = 9
    Echoes = 2
    MaxChanges = 2
    Upsets = {"term", "elsewhere"}
SPECIFICATION Spec
CHECK_DEADLOCK FALSE
INVARIANTS
    SwitchesUnlessOverlooked
