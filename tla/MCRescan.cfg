SPECIFICATION FairSpec
CONSTANTS
    board = board
    riser = riser
    Device <- MCDevice
    Templated <- MCTemplated
    NeedsPower <- MCNeedsPower
    MaxInstance = 3
    MaxReady = 3
INVARIANTS
    NoSignalLost
    NewestWaits
    DetectedWhenQuiet
    OutputsAgree
    NeverPublishedTwice
PROPERTIES
    ShutdownFreezes
    RemovalIsDecided
    KeepsPromise
