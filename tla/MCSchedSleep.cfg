CONSTANTS
    CPU = {c0, c1}
    Boot = c0
    Kernel = k
    Proc = {p1, p2}
    None = none
    MaxSleep = 1
    Signals = {"CHLD"}
    TickInWindow = TRUE
SPECIFICATION Spec
INVARIANT OneStack
