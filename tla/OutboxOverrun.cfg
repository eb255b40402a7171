\* Two loops, a batch of slow receivers.
SPECIFICATION Spec
CONSTANTS
    Workers = {w1, w2}
    Hooks = {h1}
    NoHook = NoHook
    MaxDeliveries = 1
    MaxAttempts = 2
    DisableAfter = 2
    Keep = 1
    Batch = 1
    Overrun = TRUE
    CrashBudget = 0
    EditBudget = 0
INVARIANTS
    NoDoubleHold
\* Quiet once the bounded deliveries have settled.
CHECK_DEADLOCK FALSE
