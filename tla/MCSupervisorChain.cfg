SPECIFICATION FairSpec
CONSTANTS
    N = 3
    Requires <- Chain
    Policy <- ChainPolicy
    Order <- ChainOrder
    Ready = {3}
    BootDisabled = {2}
    Loads = {"ok", "no exec"}
    Edits <- NoEdits
    Stubborn = {}
    Verb = {}
    WriteFails = {}
    WalkMisses = {}
    Pid = {1, 2, 3}
    Code = {0, 1}
    FAIL_MAX = 2
    FAIL_WINDOW = 1
    SETTLED = 1
    backoff_ms <- Delays
INVARIANT NoOrphan
PROPERTIES FailedStaysDown DependentsFail StartupEnds
