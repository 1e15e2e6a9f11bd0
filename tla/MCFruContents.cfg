SPECIFICATION ContentsSpec
CONSTANTS
    CacheBlock = 8
    FruBlock = 4
    Areas = 2
    RecordHeader = 3
    Limit = 40
    OtherBase = 8
    Images <- MCImages
    Sizes = {0, 3, 6, 11, 16, 22}
CHECK_DEADLOCK FALSE
INVARIANT
    FittingIsExact
