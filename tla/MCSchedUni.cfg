CONSTANTS
    CPU = {c0}
    Boot = c0
    Kernel = k
    Proc = {p1, p2}
    None = none
    MaxSleep = 1
    Signals = {"STOP", "CONT"}
    TickInWindow = TRUE
SPECIFICATION FairSpec
 
PROPERTY TurnComes
