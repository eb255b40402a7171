\* One request at a time, and a sub-ticket out of the trash.
SPECIFICATION Spec
CONSTANTS
    Handlers = {q1}
    Tickets = {t1, t2, t3}
    Teams = {eng, ops}
    NoTicket = NoTicket
    NoTeam = NoTeam
    MaxNumber = 3
    Limit = 1
    CountSubs = TRUE
SYMMETRY Alike
INVARIANTS
    OneLevel
CHECK_DEADLOCK FALSE
