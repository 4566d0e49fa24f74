SPECIFICATION FairSpec
CONSTANTS
    Block = {sb0, b1}
    SB = sb0
    Data = {x, y}
    Torn = torn
    None = none
    MaxEntries = 2
    HeaderTears = TRUE
PROPERTIES
    Implements
    Converges
