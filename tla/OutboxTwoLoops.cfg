\* Two loops that finish a batch within CLAIM_FOR.
SPECIFICATION Spec
CONSTANTS
    Workers = {w1, w2}
    Hooks = {h1}
    NoHook = NoHook
    MaxDeliveries = 2
    MaxAttempts = 2
    DisableAfter = 2
    Keep = 1
    Batch = 2
    Overrun = FALSE
    CrashBudget = 1
    EditBudget = 1
SYMMETRY LoopSymmetry
INVARIANTS
    OutboxSafe
    ResendsBounded
PROPERTIES
    TriesCountedOnce
\* Quiet once the bounded deliveries have settled.
CHECK_DEADLOCK FALSE
