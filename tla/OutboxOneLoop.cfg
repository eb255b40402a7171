\* One delivery loop ticking fairly, two webhooks, one crash and two admin requests.
SPECIFICATION FairSpec
CONSTANTS
    Workers = {w1}
    Hooks = {h1, h2}
    NoHook = NoHook
    MaxDeliveries = 2
    MaxAttempts = 2
    DisableAfter = 2
    Keep = 1
    Batch = 2
    Overrun = FALSE
    CrashBudget = 1
    EditBudget = 2
INVARIANTS
    FailuresAreDeliveries
PROPERTIES
    KeepsTheContract
    LogKept
    EverythingSettles
\* Quiet once the bounded deliveries have settled.
CHECK_DEADLOCK FALSE
