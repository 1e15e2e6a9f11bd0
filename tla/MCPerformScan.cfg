SPECIFICATION FairSpec
CONSTANTS
    slot = slot
    plane = plane
    fru = fru
    item = item
    red = red
    blue = blue
    green = green
    body = body
    sameLabel = sameLabel
    chassis = chassis
    riser = riser
    kit = kit
    base = base
    MaxTokens = 5
    NoValue = NoValue
    Path <- MCPath
    PathOrder <- MCPathOrder
    Interface <- MCInterface
    Value <- MCValue
    Config <- MCConfig
    LoadOrder <- MCLoadOrder
    Command <- MCCommand
    Naming <- MCNaming
    Label <- MCLabel
    Offers <- MCOffers
    Boots <- MCBoots
    Probes <- MCProbes
    MapperRetries = 1
    GetAllRetries = 2
    MaxChanges = 2
INVARIANTS
    InventoryCurrent
    PassesLeftToRight
PROPERTIES
    ScanReachesFixpoint
    NamesAreKept
    ScanEnds
CHECK_DEADLOCK FALSE
