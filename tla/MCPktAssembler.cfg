CONSTANTS
    WordBits = 2
    NumFilters = 1
    NumFields = 1
    Configs <- MCConfigs
    Events <- MCEvents
SPECIFICATION FairSpec
PROPERTIES
    ImplementsFifo
    NoAxiDeadlock
