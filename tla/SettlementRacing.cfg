\* Two requests at a time.
SPECIFICATION Spec
CONSTANTS
    Handlers = {q1, q2}
    Claims = {c1, c2}
    Batches = {b1, b2}
    Runs = {r1}
    NoBox = NoBox
    Amounts = {1}
SYMMETRY Alike
INVARIANTS
    ClaimsSafe
PROPERTIES
    OnlyApprovedIsPaid
\* Quiet once every claim and batch that may exist has come and gone.
CHECK_DEADLOCK FALSE
