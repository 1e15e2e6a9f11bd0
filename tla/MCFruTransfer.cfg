SPECIFICATION TransferSpec
CONSTANTS
    Page = 3
    MaxFruSize = 6
    RetryMax = 2
    Modes = {"MODE_1", "MODE_2"}
    Looked = 2
    Kinds <- AllKinds
CHECK_DEADLOCK FALSE
INVARIANTS
    DetectionIsRight
    PagesInOrder
    PageReadsBack
