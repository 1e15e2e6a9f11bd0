SPECIFICATION Spec
CONSTANTS
    board = board
    riser = riser
    Device <- MCBoardOnly
    Templated <- MCNone
    NeedsPower <- MCNone
    MaxInstance = 3
    MaxReady = 3
INVARIANTS
    UndetectedIsPruned
