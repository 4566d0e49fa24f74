CONSTANTS
    MaxPid = 4
    EXIT_RING = 2
    MaxChildren = 2
    Code = {0, 1}
SPECIFICATION FairSpec
INVARIANTS TypeOK WaitpidExact WaitanyExact
PROPERTY WaitpidReturns
