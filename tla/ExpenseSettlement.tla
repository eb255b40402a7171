-------------------------- MODULE ExpenseSettlement --------------------------
(***************************************************************************)
(* Expense claims and how they are paid back: lib_finance/expenses.py, the *)
(* batches of lib_finance/reimbursements.py, and the payroll runs of       *)
(* lib_finance/payroll.py as far as they carry claims.                     *)
(*                                                                         *)
(* A request loads the rows it needs and checks them, and commits what it  *)
(* writes in a later step: two actions, with any other request's commit    *)
(* possible in between.  What the database itself enforces, the check      *)
(* constraints and foreign keys of the expense table, is a guard of the    *)
(* commit; a commit it refuses changes nothing, like a request that dies.  *)
(***************************************************************************)
EXTENDS Naturals, FiniteSets

CONSTANTS
    Handlers,   \* requests the server works on at once
    Claims,     \* expense rows that may ever exist
    Batches,    \* reimbursementbatch rows that may ever exist
    Runs,       \* payrollrun rows that may ever exist
    NoBox,      \* a null reimbursement_batch_id or payroll_run_id
    Amounts     \* amount_minor

ASSUME SettlementAssumption ==
    /\ Batches \cap Runs = {}
    /\ NoBox \notin Batches \cup Runs
    /\ Amounts # {}

VARIABLES
    state,      \* of each claim, with "unborn" and "gone" for no row
    amount,     \* amount_minor
    batchOf,    \* reimbursement_batch_id
    runOf,      \* payroll_run_id
    reimbursed, \* reimbursed_at is set
    box,        \* state of each batch and run
    request,    \* what each handler has loaded and not committed
    payments    \* the batches and runs whose being marked paid has covered a claim

claimVars == <<state, amount, batchOf, runOf, reimbursed>>
vars == <<claimVars, box, request, payments>>

Boxes == Batches \cup Runs

Idle == [op |-> "none"]

Request ==
    {Idle}
    \cup [op : {"update"}, claim : Claims, loaded : Amounts, amount : Amounts]
    \cup [op : {"withdraw"}, claim : Claims]
    \cup [op : {"decide"}, claim : Claims, verdict : {"approved", "refused"}]
    \cup [op : {"gather"}, claims : SUBSET Claims, box : Boxes]
    \cup [op : {"delete", "approve", "pay"}, box : Boxes]
    \cup [op : {"release"}, claim : Claims, batch : Batches \cup {NoBox},
          run : Runs \cup {NoBox}]

\* Every column and every loaded claim or batch keeps its shape.
TypeOK ==
    /\ state \in [Claims -> {"unborn", "submitted", "approved", "refused", "gone"}]
    /\ amount \in [Claims -> Amounts]
    /\ batchOf \in [Claims -> Batches \cup {NoBox}]
    /\ runOf \in [Claims -> Runs \cup {NoBox}]
    /\ reimbursed \in [Claims -> BOOLEAN]
    /\ box \in [Boxes -> {"unborn", "draft", "approved", "paid", "gone"}]
    /\ request \in [Handlers -> Request]
    /\ payments \in [Claims -> SUBSET Boxes]

Init ==
    /\ state = [c \in Claims |-> "unborn"]
    /\ amount \in [Claims -> Amounts]
    /\ batchOf = [c \in Claims |-> NoBox]
    /\ runOf = [c \in Claims |-> NoBox]
    /\ reimbursed = [c \in Claims |-> FALSE]
    /\ box = [b \in Boxes |-> "unborn"]
    /\ request = [q \in Handlers |-> Idle]
    /\ payments = [c \in Claims |-> {}]

Exists(c) == state[c] \in {"submitted", "approved", "refused"}
BoxExists(b) == box[b] \in {"draft", "approved", "paid"}
Members(b) == {c \in Claims : batchOf[c] = b \/ runOf[c] = b}

\* SQLAlchemy's UPDATE leaves out a column whose value is the one loaded.
Put(loaded, new, current) == IF new = loaded THEN current ELSE new

(***************************************************************************)
(* Requests                                                                *)
(***************************************************************************)
\* The checks have passed: the handler goes on with what it has loaded.
Begin(q, loaded) ==
    /\ request[q] = Idle
    /\ request' = [request EXCEPT ![q] = loaded]
    /\ UNCHANGED <<claimVars, box, payments>>

Doing(q, op) == request[q].op = op
Done(q) == request' = [request EXCEPT ![q] = Idle]

\* The commit is refused, or the process dies first: nothing is written.
Fail(q) ==
    /\ request[q] # Idle
    /\ Done(q)
    /\ UNCHANGED <<claimVars, box, payments>>

(***************************************************************************)
(* The submitter's own claims                                              *)
(***************************************************************************)
Create(c) ==
    /\ state[c] = "unborn"
    /\ state' = [state EXCEPT ![c] = "submitted"]
    /\ UNCHANGED <<amount, batchOf, runOf, reimbursed, box, request, payments>>

\* Of the columns update writes, amount_minor stands for all.
BeginUpdateIf(q, c, new, allowed) ==
    /\ state[c] \in allowed
    /\ Begin(q, [op |-> "update", claim |-> c, loaded |-> amount[c], amount |-> new])

BeginUpdate(q, c, new) == BeginUpdateIf(q, c, new, {"submitted"})

Update(q) ==
    LET r == request[q]
    IN  /\ Doing(q, "update")
        /\ Exists(r.claim)
        /\ amount' = [amount EXCEPT ![r.claim] = Put(r.loaded, r.amount, @)]
        /\ Done(q)
        /\ UNCHANGED <<state, batchOf, runOf, reimbursed, box, payments>>

BeginWithdraw(q, c) ==
    /\ state[c] = "submitted"
    /\ Begin(q, [op |-> "withdraw", claim |-> c])

\* A DELETE by id: what the claim has become meanwhile is not asked.
Withdraw(q) ==
    LET c == request[q].claim
    IN  /\ Doing(q, "withdraw")
        /\ state' = [state EXCEPT ![c] = "gone"]
        /\ batchOf' = [batchOf EXCEPT ![c] = NoBox]
        /\ runOf' = [runOf EXCEPT ![c] = NoBox]
        /\ Done(q)
        /\ UNCHANGED <<amount, reimbursed, box, payments>>

(***************************************************************************)
(* The decision                                                            *)
(***************************************************************************)
BeginDecide(q, c, verdict) ==
    /\ state[c] = "submitted"
    /\ Begin(q, [op |-> "decide", claim |-> c, verdict |-> verdict])

Decided(q, c) ==
    /\ Doing(q, "decide")
    /\ Exists(c)
    /\ state' = [state EXCEPT ![c] = request[q].verdict]
    /\ Done(q)
    /\ UNCHANGED <<amount, batchOf, runOf, reimbursed, box, payments>>

\* Mutant: the table without ck_expense_settles_approved.
DecideUnchecked(q) == Decided(q, request[q].claim)

\* ck_expense_settles_approved refuses a refusal of what is going out.
Decide(q) ==
    LET c == request[q].claim
    IN  /\ Decided(q, c)
        /\ request[q].verdict = "approved" \/ (batchOf[c] = NoBox /\ runOf[c] = NoBox)

(***************************************************************************)
(* Batches and runs                                                        *)
(***************************************************************************)
Settleable(c) == state[c] = "approved" /\ batchOf[c] = NoBox /\ runOf[c] = NoBox

CreateRun(r) ==
    /\ box[r] = "unborn"
    /\ box' = [box EXCEPT ![r] = "draft"]
    /\ UNCHANGED <<claimVars, request, payments>>

BeginCreateBatch(q, b, gathered) ==
    /\ b \in Batches /\ box[b] = "unborn"
    /\ \A r \in Handlers : Doing(r, "gather") => request[r].box # b
    /\ gathered # {} /\ \A c \in gathered : Settleable(c)
    /\ Begin(q, [op |-> "gather", claims |-> gathered, box |-> b])

\* Mutant: the table without ck_expense_settles_approved, gathering.
GatherableUndecided(c, b) ==
    /\ Exists(c)
    /\ b \in Batches => runOf[c] = NoBox
    /\ b \in Runs => batchOf[c] = NoBox

\* Both check constraints hold of the rows about to be written.
Gatherable(c, b) ==
    /\ state[c] = "approved"
    /\ b \in Batches => runOf[c] = NoBox
    /\ b \in Runs => batchOf[c] = NoBox

\* The claims' column is overwritten, in whichever batch they are by now.
CreateBatch(q) ==
    LET r == request[q]
    IN  /\ Doing(q, "gather") /\ r.box \in Batches
        /\ \A c \in r.claims : Gatherable(c, r.box)
        /\ box' = [box EXCEPT ![r.box] = "draft"]
        /\ batchOf' = [c \in Claims |-> IF c \in r.claims THEN r.box ELSE batchOf[c]]
        /\ Done(q)
        /\ UNCHANGED <<state, amount, runOf, reimbursed, payments>>

BeginCarryIf(q, run, carried, open) ==
    /\ run \in Runs /\ open
    /\ carried # {} /\ \A c \in carried : Settleable(c)
    /\ Begin(q, [op |-> "gather", claims |-> carried, box |-> run])

\* Mutant: carry without _draft_or_409.
BeginCarryLate(q, run, carried) == BeginCarryIf(q, run, carried, BoxExists(run))

BeginCarry(q, run, carried) == BeginCarryIf(q, run, carried, box[run] = "draft")

\* The foreign key wants the run to be there still; its state is not asked.
Carry(q) ==
    LET r == request[q]
    IN  /\ Doing(q, "gather") /\ r.box \in Runs
        /\ \A c \in r.claims : Gatherable(c, r.box)
        /\ BoxExists(r.box)
        /\ runOf' = [c \in Claims |-> IF c \in r.claims THEN r.box ELSE runOf[c]]
        /\ Done(q)
        /\ UNCHANGED <<state, amount, batchOf, reimbursed, box, payments>>

\* _draft_batch_or_409 and _draft_or_409.
BeginDelete(q, b) == box[b] = "draft" /\ Begin(q, [op |-> "delete", box |-> b])
BeginApprove(q, b) == box[b] = "draft" /\ Begin(q, [op |-> "approve", box |-> b])
BeginPay(q, b) == box[b] = "approved" /\ Begin(q, [op |-> "pay", box |-> b])

Empty(b) ==
    /\ batchOf' = [c \in Claims |-> IF batchOf[c] = b THEN NoBox ELSE batchOf[c]]
    /\ runOf' = [c \in Claims |-> IF runOf[c] = b THEN NoBox ELSE runOf[c]]

\* delete_batch and delete_run: whatever claims it has by now are let go.
Delete(q) ==
    LET b == request[q].box
    IN  /\ Doing(q, "delete")
        /\ Empty(b)
        /\ box' = [box EXCEPT ![b] = "gone"]
        /\ Done(q)
        /\ UNCHANGED <<state, amount, reimbursed, payments>>

Approve(q) ==
    LET b == request[q].box
    IN  /\ Doing(q, "approve")
        /\ BoxExists(b)
        /\ box' = [box EXCEPT ![b] = "approved"]
        /\ Done(q)
        /\ UNCHANGED <<claimVars, payments>>

\* mark_batch_paid and mark_paid: the claims it has by now are paid back.  Of two
\* requests that mark one batch paid, the second writes the same payment again.
MarkPaid(q) ==
    LET b == request[q].box
    IN  /\ Doing(q, "pay")
        /\ BoxExists(b)
        /\ box' = [box EXCEPT ![b] = "paid"]
        /\ reimbursed' = [c \in Claims |-> c \in Members(b) \/ reimbursed[c]]
        /\ payments' = [c \in Claims |->
                           IF c \in Members(b) THEN payments[c] \cup {b} ELSE payments[c]]
        /\ Done(q)
        /\ UNCHANGED <<state, amount, batchOf, runOf>>

Draft(b) == b # NoBox => box[b] = "draft"

\* Mutant: release without its look at the container's state.
BeginReleaseLocked(q, c) ==
    /\ Exists(c)
    /\ Begin(q, [op |-> "release", claim |-> c, batch |-> batchOf[c], run |-> runOf[c]])

BeginRelease(q, c) ==
    /\ Exists(c)
    /\ Draft(batchOf[c]) /\ Draft(runOf[c])
    /\ Begin(q, [op |-> "release", claim |-> c, batch |-> batchOf[c], run |-> runOf[c]])

\* The claims left in the batch that release loaded, once its own is out.
Left(r) == {c \in Claims \ {r.claim} : batchOf[c] = r.batch}

TakeOut(q, thrownAway) ==
    LET r == request[q]
    IN  /\ Doing(q, "release")
        /\ Exists(r.claim) \/ (r.batch = NoBox /\ r.run = NoBox)
        /\ batchOf' = [batchOf EXCEPT ![r.claim] = Put(r.batch, NoBox, @)]
        /\ runOf' = [runOf EXCEPT ![r.claim] = Put(r.run, NoBox, @)]
        /\ box' = [b \in Boxes |-> IF b \in thrownAway THEN "gone" ELSE box[b]]
        /\ Done(q)
        /\ UNCHANGED <<state, amount, reimbursed, payments>>

\* Mutant: an emptied batch left behind.
ReleaseOnly(q) == TakeOut(q, {})

\* The batch goes with the last claim taken out of it.
Release(q) ==
    TakeOut(q, {b \in Batches : b = request[q].batch /\ Left(request[q]) = {}})

(***************************************************************************)
(* The specification                                                       *)
(***************************************************************************)
Submitter(q) ==
    \/ \E c \in Claims : BeginWithdraw(q, c) \/ \E a \in Amounts : BeginUpdate(q, c, a)
    \/ Update(q)
    \/ Withdraw(q)

Finance(q) ==
    \/ \E c \in Claims : \/ \E v \in {"approved", "refused"} : BeginDecide(q, c, v)
                         \/ BeginRelease(q, c)
    \/ \E b \in Boxes : \/ BeginDelete(q, b) \/ BeginApprove(q, b) \/ BeginPay(q, b)
                        \/ \E s \in SUBSET Claims : BeginCreateBatch(q, b, s) \/ BeginCarry(q, b, s)
    \/ Decide(q) \/ CreateBatch(q) \/ Carry(q) \/ Delete(q) \/ Approve(q) \/ MarkPaid(q)
    \/ Release(q)

Next ==
    \/ \E c \in Claims : Create(c)
    \/ \E r \in Runs : CreateRun(r)
    \/ \E q \in Handlers : Submitter(q) \/ Finance(q) \/ Fail(q)

Spec == Init /\ [][Next]_vars

(***************************************************************************)
(* Properties                                                              *)
(***************************************************************************)
\* The two check constraints, kept whatever requests race: a claim is in a
\* batch or on a run and not both, and only once it is approved.
Constrained ==
    \A c \in Claims :
        /\ batchOf[c] = NoBox \/ runOf[c] = NoBox
        /\ batchOf[c] # NoBox \/ runOf[c] # NoBox => state[c] = "approved"

\* Every row keeps its type, and the claims their constraints.
ClaimsSafe == TypeOK /\ Constrained

\* What they are for: whoever decides, gathers, releases and withdraws at
\* once, money goes out only for a claim that is approved as it goes out.
OnlyApprovedIsPaid ==
    [][\A c \in Claims : payments'[c] # payments[c] => state[c] = "approved"]_vars

\* "A claim is paid back exactly once": no two batches or runs pay for it.
PaidOnce == \A c \in Claims : \A a, b \in payments[c] : a = b

\* "A decided claim is frozen": neither its amount nor the decision changes.
DecidedFrozen ==
    [][\A c \in Claims : state[c] \in {"approved", "refused"} =>
          state'[c] = state[c] /\ amount'[c] = amount[c]]_vars

\* "An approved batch does not change": no claim joins or leaves one.
LockedStaysFull ==
    [][\A b \in Boxes : box[b] \in {"approved", "paid"} => Members(b)' = Members(b)]_vars

\* How far along a batch or run is.
Rank(s) == CASE s = "unborn" -> 0 [] s = "draft" -> 1 [] s = "approved" -> 2
             [] s = "paid" -> 3 [] s = "gone" -> 4

\* "draft -> approved -> paid, forward only", and only a draft is thrown away.
ForwardOnly ==
    [][\A b \in Boxes : /\ Rank(box'[b]) >= Rank(box[b])
                        /\ box[b] \in {"approved", "paid"} => box'[b] # "gone"]_vars

\* The submitter sees "Reimbursed" exactly when the batch or run has been paid.
ReimbursedWithItsBox ==
    \A c \in Claims : Exists(c) =>
        (reimbursed[c] <=> \E b \in Boxes : c \in Members(b) /\ box[b] = "paid")

\* Taking the last claim out throws the batch away: there is never an empty one.
NoEmptyBatch == \A b \in Batches : BoxExists(b) => Members(b) # {}

\* What a batch or a run says and what it holds go together.
BoxesSound == ReimbursedWithItsBox /\ NoEmptyBatch

\* What was decided, approved and paid stays so: claims, and what they are in.
NothingReopens == DecidedFrozen /\ LockedStaysFull /\ ForwardOnly

\* What a claim is to the person who made it.
Owed == [c \in Claims |->
            CASE state[c] = "unborn" -> "none"
              [] state[c] = "submitted" -> "asked"
              [] state[c] \in {"refused", "gone"} -> "closed"
              [] state[c] = "approved" -> IF reimbursed[c] THEN "paid" ELSE "owed"]

Debts == INSTANCE Debt WITH Payments <- Boxes, debt <- Owed, paidOut <- payments

\* One request at a time, each claim is what Debt promises.
KeepsTheDebt == Debts!Spec
=============================================================================
