CONSTANTS
    CPU = {c0, c1}
    Boot = c0
    Kernel = k
    Proc = {p1, p2}
    None = none
    MaxSleep = 1
    Signals = {"STOP", "CONT"}
    TickInWindow = TRUE
SPECIFICATION HSpec
CONSTRAINT Unraced
SYMMETRY Slots
VIEW Read
INVARIANTS TypeOK StackUnshared NoneFreedInUse RingWhole AlwaysATask ExecutesOwn
