SPECIFICATION Spec
CONSTANTS
    KLOG_RING_ENTRIES = 3
    Batch = 2
    Cap = 2
    CopyBlock = 2
    MaxTotal = 4
    MaxKills = 1
    MaxRedone = 1
    MaxBoots = 2
    Faults = {"append", "save", "copy"}
VIEW Effective
INVARIANT RepeatsAccounted
