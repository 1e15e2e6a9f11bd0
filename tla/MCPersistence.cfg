SPECIFICATION FairSpec
CONSTANTS
    chassis = chassis
    riser = riser
    fan = fan
    sensor = sensor
    low = low
    high = high
    Null = Null
    Absent = Absent
    Broken = Broken
    Record <- MCRecord
    Key <- MCKey
    Value <- MCValue
    Default <- MCDefault
    Settable <- MCSettable
    TypeIsLast <- MCTypeIsLast
    Found <- MCFound
    MaxOps = 4
INVARIANTS
    NeverBroken
    SetIsSaved
    OwnSlot
PROPERTIES
    ReturnsAsItWas
    ComesUp
