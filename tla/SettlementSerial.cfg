\* One request at a time: long sequences of legal calls.
SPECIFICATION Spec
CONSTANTS
    Handlers = {q1}
    Claims = {c1, c2, c3}
    Batches = {b1, b2}
    Runs = {r1}
    NoBox = NoBox
    Amounts = {1, 2}
SYMMETRY Alike
INVARIANTS
    PaidOnce
    BoxesSound
PROPERTIES
    KeepsTheDebt
    NothingReopens
\* Quiet once every claim and batch that may exist has come and gone.
CHECK_DEADLOCK FALSE
