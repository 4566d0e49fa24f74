SPECIFICATION FairSpec
CONSTANTS
    KLOG_RING_ENTRIES = 9
    Batch = 2
    Cap = 3
    CopyBlock = 2
    MaxTotal = 9
    MaxKills = 0
    MaxRedone = 0
    MaxBoots = 1
    Faults = {}
INVARIANTS TypeOK NoneLost Consecutive
PROPERTY Delivered
