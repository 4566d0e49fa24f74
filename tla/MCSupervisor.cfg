SPECIFICATION Spec
CONSTANTS
    N = 1
    Requires <- One
    Policy <- OnePolicy
    Order <- OneOrder
    Ready = {1}
    BootDisabled = {1}
    Loads = {"ok", "no exec", "bad ready"}
    Edits <- OneEdits
    Stubborn = {}
    Verb = {"start", "stop", "restart", "reload", "reset-failed", "shutdown"}
    WriteFails = {TRUE}
    WalkMisses = {TRUE}
    Pid = {1, 2}
    Code = {0, 1}
    FAIL_MAX = 3
    FAIL_WINDOW = 2
    SETTLED = 1
    backoff_ms <- Delays
INVARIANTS TypeOK NoOrphan PublishedExact
