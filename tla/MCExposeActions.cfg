SPECIFICATION Spec
CONSTANTS
    Records = {"baseboard", "chassis", "backplane"}
    KeyOrder <- MCKeyOrder
    Names <- MCNames
    Exposes <- MCExposes
    NotCombined = NotCombined
    MaxRestarts = 2
INVARIANT
    InOrderIsShown
    ComesBackAsSaved
    ReplacedAsMeant
