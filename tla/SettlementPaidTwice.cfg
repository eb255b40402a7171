\* Two requests at a time: a batch gathered from a stale read.
SPECIFICATION Spec
CONSTANTS
    Handlers = {q1, q2}
    Claims = {c1}
    Batches = {b1, b2}
    Runs = {}
    NoBox = NoBox
    Amounts = {1}
SYMMETRY Alike
INVARIANTS
    PaidOnce
\* Quiet once every claim and batch that may exist has come and gone.
CHECK_DEADLOCK FALSE
