-------------------------------- MODULE Debt --------------------------------
(***************************************************************************)
(* What an expense claim is to the person who made it: asked for, then     *)
(* owed or closed, and what is owed is paid back once, in full, at the     *)
(* amount that was agreed.  Several claims may be paid in one step.        *)
(***************************************************************************)
CONSTANTS Claims, Amounts, Payments

VARIABLES
    debt,       \* of each claim
    amount,     \* what it is about
    paidOut     \* the payments it was in

Init ==
    /\ debt = [c \in Claims |-> "none"]
    /\ amount \in [Claims -> Amounts]
    /\ paidOut = [c \in Claims |-> {}]

Keep(c) == amount'[c] = amount[c]

Ask(c) == debt[c] = "none" /\ debt'[c] = "asked" /\ Keep(c) /\ paidOut'[c] = {}
Change(c) == debt[c] = "asked" /\ debt'[c] = "asked" /\ amount'[c] \in Amounts /\ paidOut'[c] = {}
Close(c) == debt[c] = "asked" /\ debt'[c] = "closed" /\ Keep(c) /\ paidOut'[c] = {}
Owe(c) == debt[c] = "asked" /\ debt'[c] = "owed" /\ Keep(c) /\ paidOut'[c] = {}
Pay(c) ==
    /\ debt[c] = "owed" /\ debt'[c] = "paid" /\ Keep(c)
    /\ \E p \in Payments : paidOut'[c] = {p}
Rest(c) == debt'[c] = debt[c] /\ Keep(c) /\ paidOut'[c] = paidOut[c]

Next == \A c \in Claims : Ask(c) \/ Change(c) \/ Close(c) \/ Owe(c) \/ Pay(c) \/ Rest(c)

Spec == Init /\ [][Next]_<<debt, amount, paidOut>>
=============================================================================
