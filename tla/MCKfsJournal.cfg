SPECIFICATION Spec
CONSTANTS
    Block = {sb0, b1, b2}
    SB = sb0
    Data = {x, y}
    Torn = torn
    None = none
    MaxEntries = 2
    HeaderTears = FALSE
INVARIANTS
    TypeOK
    Recoverable
    ViewIsCommitted
    NeverRefused
PROPERTIES
    WriteAhead
    RecordKept
    Implements
