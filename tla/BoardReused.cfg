\* Two requests at a time.
SPECIFICATION Spec
CONSTANTS
    Handlers = {q1, q2}
    Tickets = {t1, t2}
    Teams = {eng, ops}
    NoTicket = NoTicket
    NoTeam = NoTeam
    MaxNumber = 2
    Limit = 1
    CountSubs = TRUE
SYMMETRY Alike
INVARIANTS
    KeysNameOneTicket
CHECK_DEADLOCK FALSE
