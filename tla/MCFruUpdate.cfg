SPECIFICATION LiveSpec
CONSTANTS
    Resize = TRUE
    maxFruSize = 512
    EepromSize = 96
    Frus <- MCFrus
    Names <- MCNames
    Values <- MCValues
    Breaks = {2, 9, 13, 20}
    MaxCalls = 2
    MaxField = 8
INVARIANT
    WholeIsWellFormed
PROPERTIES
    OneFieldChanges
    UpdateIsShown
