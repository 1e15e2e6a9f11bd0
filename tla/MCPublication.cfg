SPECIFICATION FairSpec
CONSTANTS
    Chassis = Chassis
    Board = Board
    Supply = Supply
    Sensor = Sensor
    Eeprom = Eeprom
    Boards = {Chassis, Board, Supply}
    Devices = {Sensor, Eeprom}
    hasHWMonDir = {Sensor}
    Record <- MCRecord
    Retries = 5
    NoPath = NoPath
    Off = Off
    MaxFailures = 4
    MaxCrashes = 1
INVARIANTS
    EarlierOnesAreAssociated
    NoHalfDevices
PROPERTY
    BoundInTheEnd
CHECK_DEADLOCK FALSE
