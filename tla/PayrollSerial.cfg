\* One request at a time, while pay and accounts change.
SPECIFICATION Spec
CONSTANTS
    Handlers = {q1}
    Runs = {r1, r2}
    People = {p1, p2}
    Schedules = {monthly, semi}
    LastDay = 2
    MaxPay = 1
    PayChanges = 2
SYMMETRY Alike
INVARIANTS
    RunsSafe
    OnTheRunThatPays
PROPERTIES
    ApprovedIsFinal
\* Quiet once every run that may exist has come and gone.
CHECK_DEADLOCK FALSE
