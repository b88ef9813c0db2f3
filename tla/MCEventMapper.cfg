CONSTANTS
    WordBits = 4
    NumFilters = 1
    NumFields = 2
    MapperConfigs <- MCConfigs
SPECIFICATION MapperSpec
INVARIANTS
    FieldsAreArithmeticShifts
    DroppedAsDocumented
