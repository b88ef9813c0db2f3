CONSTANTS
    Cameras = {1, 2}
    Kind <- AllMETA
    NPipes = 2
    NThreads = 8
    Echoes = 1
    MaxChanges = 2
    Upsets = {}
SPECIFICATION FairSpec
CHECK_DEADLOCK FALSE
PROPERTY SurveysEnd
