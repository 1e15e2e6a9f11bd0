SPECIFICATION FairSpec
CONSTANTS
    cable = cable
    card = card
    slot0a = slot0a
    slot0b = slot0b
    Config <- MCConfig
    Line <- MCLine
    Pins <- MCPins
    Faulty <- MCFaulty
    MaxChanges = 3
INVARIANTS
    PresenceIsTrue
    NeverDeaf
PROPERTY
    EventuallyTrue
CHECK_DEADLOCK FALSE
