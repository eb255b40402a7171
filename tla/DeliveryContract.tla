--------------------------- MODULE DeliveryContract ---------------------------
(***************************************************************************)
(* What the rows of the webhookdelivery table promise, whatever processes  *)
(* send them: a delivery is tried at most MaxAttempts times, it settles    *)
(* once, it fails for want of an answer only when every try is used, and   *)
(* it is not forgotten before it settles unless its webhook is deleted.    *)
(* Several rows may move in one step: one transaction queues, prunes or    *)
(* deletes many.                                                           *)
(***************************************************************************)
EXTENDS Naturals

CONSTANTS Deliveries, MaxAttempts

VARIABLES
    status,     \* of each delivery
    tries,      \* POSTs recorded for it
    stopped,    \* the deliveries whose webhook takes none just now
    orphaned    \* the deliveries whose webhook is deleted

Init ==
    /\ status = [d \in Deliveries |-> "unborn"]
    /\ tries = [d \in Deliveries |-> 0]

Queue(d) == status[d] = "unborn" /\ status'[d] = "pending" /\ tries'[d] = tries[d]

Try(d) ==
    /\ status[d] = "pending"
    /\ tries'[d] = tries[d] + 1
    /\ tries'[d] <= MaxAttempts
    /\ \/ status'[d] = "succeeded"
       \/ status'[d] = "pending" /\ tries'[d] < MaxAttempts
       \/ status'[d] = "failed" /\ tries'[d] = MaxAttempts

\* Given up on without a try.
Cancel(d) ==
    status[d] = "pending" /\ d \in stopped /\ status'[d] = "failed" /\ tries'[d] = tries[d]

Forget(d) ==
    /\ status[d] \in {"succeeded", "failed"} \/ (status[d] = "pending" /\ d \in orphaned')
    /\ status'[d] = "gone"
    /\ tries'[d] = tries[d]

Rest(d) == status'[d] = status[d] /\ tries'[d] = tries[d]

Next == \A d \in Deliveries : Queue(d) \/ Try(d) \/ Cancel(d) \/ Forget(d) \/ Rest(d)

Spec == Init /\ [][Next]_<<status, tries>>
=============================================================================
