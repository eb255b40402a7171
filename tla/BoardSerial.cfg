\* One request at a time, through deletions, restores and transfers.
SPECIFICATION Spec
CONSTANTS
    Handlers = {q1}
    Tickets = {t1, t2, t3}
    Teams = {eng, ops}
    NoTicket = NoTicket
    NoTeam = NoTeam
    MaxNumber = 3
    Limit = 1
    CountSubs = TRUE
SYMMETRY Alike
INVARIANTS
    NumbersSafe
PROPERTIES
    FamiliesHold
    LimitKept
\* Quiet once the bounded numbers are handed out.
CHECK_DEADLOCK FALSE
