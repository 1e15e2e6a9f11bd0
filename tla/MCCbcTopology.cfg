SPECIFICATION CbcFairSpec
CONSTANTS
    Services = {A, B}
    Self = Self
    Mapper = Mapper
    Paths = {p}
    Fields <- MCFields
    NotHex = NotHex
    Unset = Unset
    None = None
    MaxCableChanges = 3
    MaxFaults = 1
INVARIANT
    NothingIsMissed
PROPERTY
    EventuallyShown
CHECK_DEADLOCK FALSE
