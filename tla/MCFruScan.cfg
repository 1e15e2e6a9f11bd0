SPECIFICATION Spec
CONSTANTS
    Buses = {0, 1}
    Addrs = {0, 20, 21, 80, 106}
    NvmeAddr = 106
    Root <- MCRoot
    NoBus = NoBus
    NoSmbus = {}
    Names = {p}
    NoName = NoName
    VendorId = VendorId
    p = p
    f1 = f1
    None = None
    Mute = Mute
    Blank = Blank
    Garbled = Garbled
    Drive = Drive
    ByteRange = 256
    Driver <- EepromLoc
    BlockedBuses = {}
    BlockedAddrs <- NextLoc
    AddressBlacklist <- NoLoc
    Fields = {f1}
    Values = {0, 1}
    Plug <- ScanPlug
    Written <- WrittenFrus
    WriteFaults = TRUE
    Timeouts = TRUE
    MaxOps = 3
CHECK_DEADLOCK FALSE
INVARIANTS
    PathsAreUnique
    DBusShowsTheMap
    EveryFruOnce
PROPERTY
    OthersKeepTheirPath
