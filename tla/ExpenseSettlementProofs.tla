----------------------- MODULE ExpenseSettlementProofs -----------------------
(***************************************************************************)
(* For any number of claims, batches, runs and concurrent requests the     *)
(* check constraints are kept and only approved claims are paid; and while *)
(* one request is served at a time, no claim is paid twice, nothing that   *)
(* was decided reopens, what a batch says is what its claims say, and each *)
(* claim is the debt its submitter takes it for.                           *)
(***************************************************************************)
EXTENDS ExpenseSettlement, TLAPS

\* What a handler has loaded, by what it is doing.
LEMMA Loaded ==
    ASSUME TypeOK, NEW q \in Handlers
    PROVE  /\ Doing(q, "update") => /\ request[q].claim \in Claims
                                    /\ request[q].loaded \in Amounts
                                    /\ request[q].amount \in Amounts
           /\ Doing(q, "withdraw") => request[q].claim \in Claims
           /\ Doing(q, "decide") => /\ request[q].claim \in Claims
                                    /\ request[q].verdict \in {"approved", "refused"}
           /\ Doing(q, "gather") => /\ request[q].claims \subseteq Claims
                                    /\ request[q].box \in Boxes
           /\ Doing(q, "delete") => request[q].box \in Boxes
           /\ Doing(q, "approve") => request[q].box \in Boxes
           /\ Doing(q, "pay") => request[q].box \in Boxes
           /\ Doing(q, "release") => /\ request[q].claim \in Claims
                                     /\ request[q].batch \in Batches \cup {NoBox}
                                     /\ request[q].run \in Runs \cup {NoBox}
  <1>1. request[q] \in Request
    BY DEF TypeOK
  <1> QED
    BY <1>1 DEF Request, Idle, Doing

\* A request that begins leaves every table alone.
LEMMA BeginTypes ==
    ASSUME TypeOK, NEW q \in Handlers, NEW loaded \in Request, Begin(q, loaded)
    PROVE  TypeOK'
  BY DEF TypeOK, Begin, claimVars

\* One that ends leaves its handler idle and the others as they were.
LEMMA DoneTypes ==
    ASSUME TypeOK, NEW q \in Handlers, Done(q)
    PROVE  request' \in [Handlers -> Request]
  BY DEF TypeOK, Done, Request

\* The type invariant: every row and every loaded copy of one keeps its shape.
THEOREM TypeCorrect == Spec => []TypeOK
<1>1. Init => TypeOK
  BY DEF Init, TypeOK, Request
<1>2. TypeOK /\ [Next]_vars => TypeOK'
  <2> SUFFICES ASSUME TypeOK, [Next]_vars PROVE TypeOK'
    OBVIOUS
  <2>1. ASSUME NEW c \in Claims, Create(c) PROVE TypeOK'
    BY <2>1 DEF TypeOK, Create
  <2>2. ASSUME NEW r \in Runs, CreateRun(r) PROVE TypeOK'
    BY <2>2 DEF TypeOK, CreateRun, Boxes, claimVars
  <2>3. ASSUME NEW q \in Handlers, NEW c \in Claims, NEW a \in Amounts, BeginUpdate(q, c, a)
        PROVE TypeOK'
    <3> DEFINE loaded == [op |-> "update", claim |-> c, loaded |-> amount[c], amount |-> a]
    <3>1. loaded \in Request
      BY DEF Request, TypeOK
    <3>2. Begin(q, loaded)
      BY <2>3 DEF BeginUpdate, BeginUpdateIf
    <3> QED
      BY <3>1, <3>2, BeginTypes
  <2>4. ASSUME NEW q \in Handlers, NEW c \in Claims, BeginWithdraw(q, c) PROVE TypeOK'
    <3> DEFINE loaded == [op |-> "withdraw", claim |-> c]
    <3>1. loaded \in Request
      BY DEF Request
    <3>2. Begin(q, loaded)
      BY <2>4 DEF BeginWithdraw
    <3> QED
      BY <3>1, <3>2, BeginTypes
  <2>5. ASSUME NEW q \in Handlers, NEW c \in Claims, NEW v \in {"approved", "refused"},
               BeginDecide(q, c, v)
        PROVE TypeOK'
    <3> DEFINE loaded == [op |-> "decide", claim |-> c, verdict |-> v]
    <3>1. loaded \in Request
      BY DEF Request
    <3>2. Begin(q, loaded)
      BY <2>5 DEF BeginDecide
    <3> QED
      BY <3>1, <3>2, BeginTypes
  <2>6. ASSUME NEW q \in Handlers, NEW c \in Claims, BeginRelease(q, c) PROVE TypeOK'
    <3> DEFINE loaded == [op |-> "release", claim |-> c, batch |-> batchOf[c], run |-> runOf[c]]
    <3>1. loaded \in Request
      BY DEF Request, TypeOK
    <3>2. Begin(q, loaded)
      BY <2>6 DEF BeginRelease
    <3> QED
      BY <3>1, <3>2, BeginTypes
  <2>7. ASSUME NEW q \in Handlers, NEW b \in Boxes, NEW s \in SUBSET Claims,
               BeginCreateBatch(q, b, s) \/ BeginCarry(q, b, s)
        PROVE TypeOK'
    <3> DEFINE loaded == [op |-> "gather", claims |-> s, box |-> b]
    <3>1. loaded \in Request
      BY DEF Request
    <3>2. Begin(q, loaded)
      BY <2>7 DEF BeginCreateBatch, BeginCarry, BeginCarryIf
    <3> QED
      BY <3>1, <3>2, BeginTypes
  <2>8. ASSUME NEW q \in Handlers, NEW b \in Boxes,
               BeginDelete(q, b) \/ BeginApprove(q, b) \/ BeginPay(q, b)
        PROVE TypeOK'
    <3>1. PICK o \in {"delete", "approve", "pay"} : Begin(q, [op |-> o, box |-> b])
      BY <2>8 DEF BeginDelete, BeginApprove, BeginPay
    <3>2. [op |-> o, box |-> b] \in Request
      BY DEF Request
    <3> QED
      BY <3>1, <3>2, BeginTypes
  <2>9. ASSUME NEW q \in Handlers, Update(q) PROVE TypeOK'
    BY <2>9, Loaded, DoneTypes DEF TypeOK, Update, Put
  <2>10. ASSUME NEW q \in Handlers, Withdraw(q) PROVE TypeOK'
    BY <2>10, Loaded, DoneTypes DEF TypeOK, Withdraw
  <2>11. ASSUME NEW q \in Handlers, Decide(q) PROVE TypeOK'
    BY <2>11, Loaded, DoneTypes DEF TypeOK, Decide, Decided
  <2>12. ASSUME NEW q \in Handlers, CreateBatch(q) PROVE TypeOK'
    BY <2>12, Loaded, DoneTypes DEF TypeOK, CreateBatch, Boxes
  <2>13. ASSUME NEW q \in Handlers, Carry(q) PROVE TypeOK'
    BY <2>13, Loaded, DoneTypes DEF TypeOK, Carry
  <2>14. ASSUME NEW q \in Handlers, Delete(q) PROVE TypeOK'
    BY <2>14, Loaded, DoneTypes DEF TypeOK, Delete, Empty
  <2>15. ASSUME NEW q \in Handlers, Approve(q) PROVE TypeOK'
    BY <2>15, Loaded, DoneTypes DEF TypeOK, Approve, claimVars
  <2>16. ASSUME NEW q \in Handlers, MarkPaid(q) PROVE TypeOK'
    BY <2>16, Loaded, DoneTypes DEF TypeOK, MarkPaid
  <2>17. ASSUME NEW q \in Handlers, Release(q) PROVE TypeOK'
    BY <2>17, Loaded, DoneTypes DEF TypeOK, Release, TakeOut, Put
  <2>18. ASSUME NEW q \in Handlers, Fail(q) PROVE TypeOK'
    BY <2>18, DoneTypes DEF TypeOK, Fail, claimVars
  <2>19. CASE UNCHANGED vars
    BY <2>19 DEF TypeOK, vars, claimVars
  <2> QED
    BY <2>1, <2>2, <2>3, <2>4, <2>5, <2>6, <2>7, <2>8, <2>9, <2>10, <2>11, <2>12, <2>13,
       <2>14, <2>15, <2>16, <2>17, <2>18, <2>19 DEF Next, Submitter, Finance
<1> QED
  BY <1>1, <1>2, PTL DEF Spec

\* A request that begins or dies writes no row.
LEMMA NothingWritten ==
    ASSUME NEW q \in Handlers, Submitter(q) \/ Finance(q) \/ Fail(q)
    PROVE  \/ UNCHANGED <<claimVars, box, payments>>
           \/ Update(q) \/ Withdraw(q) \/ Decide(q) \/ CreateBatch(q) \/ Carry(q)
           \/ Delete(q) \/ Approve(q) \/ MarkPaid(q) \/ Release(q)
  BY DEF Submitter, Finance, Fail, BeginUpdate, BeginUpdateIf, BeginWithdraw, BeginDecide,
         BeginRelease, BeginCreateBatch, BeginCarry, BeginCarryIf, BeginDelete, BeginApprove,
         BeginPay, Begin

\* A claim in no batch and on no run is in no box.
LEMMA NoBoxIsNoBox == NoBox \notin Boxes
  BY SettlementAssumption DEF Boxes

\* Every write keeps both check constraints.
LEMMA ConstraintsStep ==
    ASSUME TypeOK, Constrained, [Next]_vars
    PROVE  Constrained'
  <1>1. ASSUME NEW c \in Claims, Create(c) PROVE Constrained'
    BY <1>1 DEF TypeOK, Constrained, Create
  <1>2. ASSUME NEW r \in Runs, CreateRun(r) PROVE Constrained'
    BY <1>2 DEF Constrained, CreateRun, claimVars
  <1>3. ASSUME NEW q \in Handlers, Submitter(q) \/ Finance(q) \/ Fail(q) PROVE Constrained'
    <2>1. CASE UNCHANGED <<claimVars, box, payments>>
      BY <2>1 DEF Constrained, claimVars
    <2>2. CASE Update(q)
      BY <2>2 DEF Constrained, Update
    <2>3. CASE Withdraw(q)
      BY <2>3 DEF TypeOK, Constrained, Withdraw
    <2>4. CASE Decide(q)
      BY <2>4 DEF TypeOK, Constrained, Decide, Decided
    <2>5. CASE CreateBatch(q)
      BY <2>5, SettlementAssumption DEF Constrained, CreateBatch, Gatherable
    <2>6. CASE Carry(q)
      BY <2>6, SettlementAssumption DEF Constrained, Carry, Gatherable
    <2>7. CASE Delete(q)
      BY <2>7 DEF Constrained, Delete, Empty
    <2>8. CASE Approve(q)
      BY <2>8 DEF Constrained, Approve, claimVars
    <2>9. CASE MarkPaid(q)
      BY <2>9 DEF Constrained, MarkPaid
    <2>10. CASE Release(q)
      BY <2>10 DEF TypeOK, Constrained, Release, TakeOut, Put
    <2> QED
      BY <1>3, <2>1, <2>2, <2>3, <2>4, <2>5, <2>6, <2>7, <2>8, <2>9, <2>10, NothingWritten
  <1>4. CASE UNCHANGED vars
    BY <1>4 DEF Constrained, vars, claimVars
  <1> QED
    BY <1>1, <1>2, <1>3, <1>4 DEF Next

\* Whatever requests race, a claim is never in a batch and on a run, and never
\* in either before it is approved.
THEOREM ConstraintsKept == Spec => []Constrained
<1>1. Init => Constrained
  BY DEF Init, Constrained
<1>2. TypeOK /\ Constrained /\ [Next]_vars => Constrained'
  BY ConstraintsStep
<1> QED
  BY <1>1, <1>2, TypeCorrect, PTL DEF Spec

\* Whatever requests race, the rows keep their types and the two check constraints
\* of Expense.
THEOREM ClaimsCorrect == Spec => []ClaimsSafe
<1>1. TypeOK /\ Constrained => ClaimsSafe
  BY DEF ClaimsSafe
<1> QED
  BY <1>1, TypeCorrect, ConstraintsKept, PTL

\* Only marking a batch or run paid pays, and it pays its members.
LEMMA OnlyMembersArePaid ==
    ASSUME TypeOK, [Next]_vars, NEW c \in Claims, payments'[c] # payments[c]
    PROVE  \E q \in Handlers : MarkPaid(q) /\ c \in Members(request[q].box)
  <1>1. ASSUME NEW q \in Handlers, Submitter(q) \/ Finance(q) \/ Fail(q)
        PROVE  MarkPaid(q) /\ c \in Members(request[q].box)
    <2>1. payments' # payments
      OBVIOUS
    <2>2. MarkPaid(q)
      BY <1>1, <2>1, NothingWritten DEF Update, Withdraw, Decide, Decided, CreateBatch,
         Carry, Delete, Approve, Release, TakeOut
    <2> QED
      BY <2>2 DEF MarkPaid
  <1> QED
    BY <1>1 DEF Next, Create, CreateRun, vars

\* However decisions, batches and releases interleave, money goes out only for
\* claims that are approved as it goes out.
THEOREM PaysTheApproved == Spec => OnlyApprovedIsPaid
<1>1. ASSUME TypeOK, Constrained, [Next]_vars, NEW c \in Claims, payments'[c] # payments[c]
      PROVE  state[c] = "approved"
  <2>1. PICK q \in Handlers : MarkPaid(q) /\ c \in Members(request[q].box)
    BY <1>1, OnlyMembersArePaid
  <2>2. request[q].box \in Boxes
    BY <1>1, <2>1, Loaded DEF MarkPaid
  <2> QED
    BY <1>1, <2>1, <2>2, NoBoxIsNoBox DEF Members, Constrained
<1>2. TypeOK /\ Constrained /\ [Next]_vars =>
        [\A c \in Claims : payments'[c] # payments[c] => state[c] = "approved"]_vars
  BY <1>1
<1> QED
  BY <1>2, TypeCorrect, ConstraintsKept, PTL DEF Spec, OnlyApprovedIsPaid

(***************************************************************************)
(* One request at a time                                                   *)
(***************************************************************************)
OneAtATime == \A p, q \in Handlers : p = q

\* What a handler checked when it loaded still holds.
Current(q) ==
    LET r == request[q]
    IN  /\ Doing(q, "delete") \/ Doing(q, "approve") => box[r.box] = "draft"
        /\ Doing(q, "pay") => box[r.box] = "approved"
        /\ Doing(q, "update") \/ Doing(q, "withdraw") \/ Doing(q, "decide")
              => state[r.claim] = "submitted"
        /\ Doing(q, "gather") => /\ r.claims # {} /\ \A c \in r.claims : Settleable(c)
                                 /\ r.box \in Batches => box[r.box] = "unborn"
                                 /\ r.box \in Runs => box[r.box] = "draft"
        /\ Doing(q, "release") => /\ batchOf[r.claim] = r.batch /\ Draft(r.batch)
                                  /\ runOf[r.claim] = r.run /\ Draft(r.run)

\* A claim that has been paid stays in what paid it.
PaidInside ==
    \A c \in Claims : payments[c] # {} =>
        \E b \in Boxes : payments[c] = {b} /\ c \in Members(b) /\ box[b] = "paid"

SerialInv == (\A q \in Handlers : Current(q)) /\ PaidInside

\* With one request at a time, what is checked at the start still holds.
LEMMA BeginsCurrent ==
    ASSUME TypeOK, OneAtATime, NEW q \in Handlers, Submitter(q) \/ Finance(q) \/ Fail(q),
           UNCHANGED <<claimVars, box, payments>>, SerialInv
    PROVE  SerialInv'
  <1>1. PaidInside'
    BY DEF SerialInv, PaidInside, Members, claimVars
  <1>2. CASE Done(q)
    <2>1. request'[q] = Idle
      BY <1>2 DEF Done, TypeOK
    <2> QED
      BY <1>1, <2>1 DEF OneAtATime, SerialInv, Current, Doing, Idle
  <1>3. CASE ~Done(q)
    <2>1. Current(q)'
      <3>1. ASSUME NEW c \in Claims, BeginWithdraw(q, c) PROVE Current(q)'
        BY <3>1 DEF BeginWithdraw, Begin, Current, Doing, TypeOK, claimVars
      <3>2. ASSUME NEW c \in Claims, NEW a \in Amounts, BeginUpdate(q, c, a) PROVE Current(q)'
        BY <3>2 DEF BeginUpdate, BeginUpdateIf, Begin, Current, Doing, TypeOK, claimVars
      <3>3. ASSUME NEW c \in Claims, NEW v \in {"approved", "refused"}, BeginDecide(q, c, v)
            PROVE Current(q)'
        BY <3>3 DEF BeginDecide, Begin, Current, Doing, TypeOK, claimVars
      <3>4. ASSUME NEW c \in Claims, BeginRelease(q, c) PROVE Current(q)'
        BY <3>4 DEF BeginRelease, Begin, Current, Doing, TypeOK, claimVars, Draft
      <3>5. ASSUME NEW b \in Boxes, NEW s \in SUBSET Claims, BeginCreateBatch(q, b, s)
            PROVE Current(q)'
        BY <3>5, SettlementAssumption DEF BeginCreateBatch, Begin, Current, Doing, TypeOK, claimVars, Settleable
      <3>6. ASSUME NEW b \in Boxes, NEW s \in SUBSET Claims, BeginCarry(q, b, s)
            PROVE Current(q)'
        BY <3>6, SettlementAssumption
           DEF BeginCarry, BeginCarryIf, Begin, Current, Doing, TypeOK, claimVars, Settleable
      <3>7. ASSUME NEW b \in Boxes, BeginDelete(q, b) \/ BeginApprove(q, b) \/ BeginPay(q, b)
            PROVE Current(q)'
        BY <3>7 DEF BeginDelete, BeginApprove, BeginPay, Begin, Current, Doing, TypeOK, claimVars
      <3> QED
        BY <1>3, <3>1, <3>2, <3>3, <3>4, <3>5, <3>6, <3>7 DEF Submitter, Finance, Fail, Update,
           Withdraw, Decide, Decided, CreateBatch, Carry, Delete, Approve, MarkPaid, Release,
           TakeOut
    <2> QED
      BY <1>1, <2>1 DEF OneAtATime, SerialInv
  <1> QED
    BY <1>2, <1>3

\* After it nothing is loaded.
LEMMA EndsCurrent ==
    ASSUME TypeOK, OneAtATime, NEW q \in Handlers, Done(q)
    PROVE  \A p \in Handlers : Current(p)'
  <1>1. request'[q] = Idle
    BY DEF Done, TypeOK
  <1> QED
    BY <1>1 DEF OneAtATime, Current, Doing, Idle

\* Every commit keeps a paid claim in what paid it.
LEMMA PaidInsideStep ==
    ASSUME TypeOK, Constrained, SerialInv, NEW q \in Handlers,
           \/ Update(q) \/ Withdraw(q) \/ Decide(q) \/ CreateBatch(q) \/ Carry(q)
           \/ Delete(q) \/ Approve(q) \/ MarkPaid(q) \/ Release(q)
    PROVE  PaidInside'
  <1> USE NoBoxIsNoBox DEF SerialInv
  <1>1. CASE Update(q)
    BY <1>1 DEF Update, PaidInside, Members
  <1>2. CASE Withdraw(q)
    BY <1>2, Loaded DEF Withdraw, PaidInside, Members, Current, Constrained, TypeOK
  <1>3. CASE Decide(q)
    BY <1>3 DEF Decide, Decided, PaidInside, Members
  <1>4. CASE CreateBatch(q)
    BY <1>4, Loaded DEF CreateBatch, PaidInside, Members, Current, Settleable, TypeOK
  <1>5. CASE Carry(q)
    BY <1>5, Loaded DEF Carry, PaidInside, Members, Current, Settleable
  <1>6. CASE Delete(q)
    BY <1>6, Loaded DEF Delete, Empty, PaidInside, Members, Current, TypeOK
  <1>7. CASE Approve(q)
    BY <1>7, Loaded DEF Approve, PaidInside, Members, Current, TypeOK, claimVars
  <1>8. CASE MarkPaid(q)
    <2> DEFINE b == request[q].box
    <2>1. b \in Boxes /\ box[b] = "approved" /\ box' = [box EXCEPT ![b] = "paid"]
      BY <1>8, Loaded DEF MarkPaid, Current
    <2>2. ASSUME NEW c \in Claims, c \in Members(b) PROVE payments[c] = {}
      BY <2>1, <2>2 DEF PaidInside, Members, Constrained
    <2>3. ASSUME NEW c \in Claims, c \in Members(b) PROVE payments'[c] = {b}
      BY <1>8, <2>2, <2>3 DEF MarkPaid
    <2>4. ASSUME NEW c \in Claims, c \notin Members(b) PROVE payments'[c] = payments[c]
      BY <1>8, <2>4 DEF MarkPaid
    <2>5. \A x \in Boxes : Members(x)' = Members(x)
      BY <1>8 DEF MarkPaid, Members
    <2>6. box'[b] = "paid" /\ \A x \in Boxes : box[x] = "paid" => box'[x] = "paid"
      BY <2>1 DEF TypeOK
    <2> QED
      BY <2>1, <2>3, <2>4, <2>5, <2>6 DEF PaidInside
  <1>9. CASE Release(q)
    <2> DEFINE r == request[q]
    <2>1. /\ r.claim \in Claims
          /\ batchOf[r.claim] = r.batch /\ Draft(r.batch)
          /\ runOf[r.claim] = r.run /\ Draft(r.run)
      BY <1>9, Loaded DEF Release, TakeOut, Current
    <2>2. payments[r.claim] = {}
      BY <2>1 DEF PaidInside, Members, Draft
    <2>3. \A b \in Boxes : box[b] = "paid" => box'[b] = "paid"
      BY <1>9, <2>1 DEF Release, TakeOut, Draft, Boxes, TypeOK
    <2>4. \A c \in Claims \ {r.claim} : batchOf'[c] = batchOf[c] /\ runOf'[c] = runOf[c]
      BY <1>9 DEF Release, TakeOut, TypeOK
    <2>5. payments' = payments
      BY <1>9 DEF Release, TakeOut
    <2> QED
      BY <2>2, <2>3, <2>4, <2>5 DEF PaidInside, Members
  <1> QED
    BY <1>1, <1>2, <1>3, <1>4, <1>5, <1>6, <1>7, <1>8, <1>9

\* What is checked stays so, and what is paid stays in.
LEMMA SerialStep ==
    ASSUME TypeOK, Constrained, OneAtATime, SerialInv, [Next]_vars
    PROVE  SerialInv'
  <1>1. ASSUME NEW c \in Claims, Create(c) PROVE SerialInv'
    BY <1>1, Loaded
       DEF Create, SerialInv, Current, PaidInside, Members, Doing, Settleable, Draft, TypeOK
  <1>2. ASSUME NEW r \in Runs, CreateRun(r) PROVE SerialInv'
    <2>1. PaidInside'
      BY <1>2 DEF CreateRun, SerialInv, PaidInside, Members, claimVars, TypeOK
    <2>2. ASSUME NEW q \in Handlers PROVE Current(q)'
      BY <1>2, Loaded, SettlementAssumption
         DEF CreateRun, SerialInv, Current, Doing, Settleable, Draft, claimVars, TypeOK, Boxes
    <2> QED
      BY <2>1, <2>2 DEF SerialInv
  <1>3. ASSUME NEW q \in Handlers, Submitter(q) \/ Finance(q) \/ Fail(q) PROVE SerialInv'
    <2>1. CASE UNCHANGED <<claimVars, box, payments>>
      BY <1>3, <2>1, BeginsCurrent
    <2>2. CASE ~UNCHANGED <<claimVars, box, payments>>
      <3>1. \/ Update(q) \/ Withdraw(q) \/ Decide(q) \/ CreateBatch(q) \/ Carry(q)
            \/ Delete(q) \/ Approve(q) \/ MarkPaid(q) \/ Release(q)
        BY <1>3, <2>2, NothingWritten
      <3>2. Done(q)
        BY <3>1 DEF Update, Withdraw, Decide, Decided, CreateBatch, Carry, Delete, Approve,
           MarkPaid, Release, TakeOut
      <3> QED
        BY <3>1, <3>2, EndsCurrent, PaidInsideStep DEF SerialInv
    <2> QED
      BY <2>1, <2>2
  <1>4. CASE UNCHANGED vars
    BY <1>4 DEF vars, claimVars, SerialInv, Current, Doing, Settleable, Draft, PaidInside, Members
  <1> QED
    BY <1>1, <1>2, <1>3, <1>4 DEF Next

\* So the invariant holds throughout.
LEMMA SerialKept == ASSUME OneAtATime PROVE Spec => [](TypeOK /\ Constrained /\ SerialInv)
<1>1. Init => SerialInv
  BY DEF Init, SerialInv, Current, Doing, Idle, PaidInside
<1>2. TypeOK /\ Constrained /\ SerialInv /\ [Next]_vars => SerialInv'
  BY SerialStep
<1> QED
  BY <1>1, <1>2, TypeCorrect, ConstraintsKept, PTL DEF Spec

\* Served one request at a time, the finance pages pay no claim back twice.
THEOREM PaidBackOnce == ASSUME OneAtATime PROVE Spec => []PaidOnce
<1>1. TypeOK /\ SerialInv => PaidOnce
  BY DEF TypeOK, SerialInv, PaidInside, PaidOnce
<1> QED
  BY <1>1, SerialKept, PTL

(***************************************************************************)
(* One request at a time: what was decided stays decided                   *)
(***************************************************************************)
\* The commits, each a step that writes.
Commits(q) ==
    \/ Update(q) \/ Withdraw(q) \/ Decide(q) \/ CreateBatch(q) \/ Carry(q)
    \/ Delete(q) \/ Approve(q) \/ MarkPaid(q) \/ Release(q)

\* A step creates a row, commits, or writes nothing.
LEMMA StepWrites ==
    ASSUME [Next]_vars
    PROVE  \/ \E c \in Claims : Create(c)
           \/ \E r \in Runs : CreateRun(r)
           \/ \E q \in Handlers : Commits(q)
           \/ UNCHANGED <<claimVars, box, payments>>
  <1>1. ASSUME NEW q \in Handlers, Submitter(q) \/ Finance(q) \/ Fail(q)
        PROVE  UNCHANGED <<claimVars, box, payments>> \/ Commits(q)
    BY <1>1, NothingWritten DEF Commits
  <1> QED
    BY <1>1 DEF Next, vars

\* A claim is in one batch or run at most.
LEMMA OneBox ==
    ASSUME TypeOK, Constrained, NEW c \in Claims, NEW a \in Boxes, NEW b \in Boxes,
           c \in Members(a), c \in Members(b)
    PROVE  a = b
  BY NoBoxIsNoBox DEF Members, Constrained, TypeOK

\* A member of any box has been approved.
LEMMA MembersApproved ==
    ASSUME Constrained, NEW c \in Claims, NEW b \in Boxes, c \in Members(b)
    PROVE  state[c] = "approved"
  BY NoBoxIsNoBox DEF Members, Constrained

\* The decided are neither withdrawn, edited nor decided again.
LEMMA FrozenStep ==
    ASSUME TypeOK, SerialInv, [Next]_vars, NEW c \in Claims,
           state[c] \in {"approved", "refused"}
    PROVE  state'[c] = state[c] /\ amount'[c] = amount[c]
  <1>1. CASE \E d \in Claims : Create(d)
    BY <1>1 DEF Create, TypeOK
  <1>2. CASE \E r \in Runs : CreateRun(r)
    BY <1>2 DEF CreateRun, claimVars
  <1>3. ASSUME NEW q \in Handlers, Commits(q)
        PROVE  state'[c] = state[c] /\ amount'[c] = amount[c]
    <2>1. Current(q)
      BY DEF SerialInv
    <2>2. CASE Update(q)
      BY <2>1, <2>2, Loaded DEF Update, Current, TypeOK
    <2>3. CASE Withdraw(q)
      BY <2>1, <2>3, Loaded DEF Withdraw, Current, TypeOK
    <2>4. CASE Decide(q)
      BY <2>1, <2>4, Loaded DEF Decide, Decided, Current, TypeOK
    <2> QED
      BY <1>3, <2>2, <2>3, <2>4 DEF Commits, CreateBatch, Carry, Delete, Approve, MarkPaid,
         Release, TakeOut, claimVars
  <1>4. CASE UNCHANGED <<claimVars, box, payments>>
    BY <1>4 DEF claimVars
  <1> QED
    BY <1>1, <1>2, <1>3, <1>4, StepWrites

\* What has been approved or paid out keeps its claims, and is not thrown away.
LEMMA LockedStep ==
    ASSUME TypeOK, Constrained, SerialInv, [Next]_vars, NEW b \in Boxes,
           box[b] \in {"approved", "paid"}
    PROVE  /\ Members(b)' = Members(b)
           /\ box'[b] = box[b] \/ (box[b] = "approved" /\ box'[b] = "paid")
  <1> USE NoBoxIsNoBox
  <1>1. CASE \E d \in Claims : Create(d)
    BY <1>1 DEF Create, Members
  <1>2. CASE \E r \in Runs : CreateRun(r)
    BY <1>2 DEF CreateRun, claimVars, Members, TypeOK
  <1>3. ASSUME NEW q \in Handlers, Commits(q)
        PROVE  /\ Members(b)' = Members(b)
               /\ box'[b] = box[b] \/ (box[b] = "approved" /\ box'[b] = "paid")
    <2> DEFINE r == request[q]
    <2>1. Current(q)
      BY DEF SerialInv
    <2>2. CASE Update(q)
      BY <2>2 DEF Update, Members
    <2>3. CASE Withdraw(q)
      <3>1. r.claim \in Claims /\ state[r.claim] = "submitted"
        BY <2>1, <2>3, Loaded DEF Withdraw, Current
      <3>2. batchOf[r.claim] = NoBox /\ runOf[r.claim] = NoBox
        BY <3>1 DEF Constrained
      <3>3. batchOf' = batchOf /\ runOf' = runOf /\ box' = box
        BY <2>3, <3>1, <3>2 DEF Withdraw, TypeOK
      <3> QED
        BY <3>3 DEF Members
    <2>4. CASE Decide(q)
      BY <2>4 DEF Decide, Decided, Members
    <2>5. CASE CreateBatch(q)
      <3>1. r.claims \subseteq Claims /\ r.box \in Batches /\ box[r.box] = "unborn"
        BY <2>1, <2>5, Loaded DEF CreateBatch, Current
      <3>2. \A c \in r.claims : batchOf[c] = NoBox
        BY <2>1, <2>5 DEF CreateBatch, Current, Settleable
      <3>3. r.box # b
        BY <3>1
      <3>4. runOf' = runOf /\ box' = [box EXCEPT ![r.box] = "draft"]
        BY <2>5 DEF CreateBatch
      <3>5. \A c \in Claims : batchOf'[c] = b <=> batchOf[c] = b
        BY <2>5, <3>2, <3>3 DEF CreateBatch
      <3>6. box'[b] = box[b]
        BY <3>3, <3>4 DEF TypeOK
      <3> QED
        BY <3>4, <3>5, <3>6 DEF Members
    <2>6. CASE Carry(q)
      <3>1. r.claims \subseteq Claims /\ r.box \in Runs /\ box[r.box] = "draft"
        BY <2>1, <2>6, Loaded DEF Carry, Current
      <3>2. \A c \in r.claims : runOf[c] = NoBox
        BY <2>1, <2>6 DEF Carry, Current, Settleable
      <3>3. r.box # b
        BY <3>1
      <3>4. batchOf' = batchOf /\ box' = box
        BY <2>6 DEF Carry
      <3>5. \A c \in Claims : runOf'[c] = b <=> runOf[c] = b
        BY <2>6, <3>2, <3>3 DEF Carry
      <3> QED
        BY <3>4, <3>5 DEF Members
    <2>7. CASE Delete(q)
      <3>1. r.box # b /\ box' = [box EXCEPT ![r.box] = "gone"]
        BY <2>1, <2>7 DEF Delete, Current
      <3>2. box'[b] = box[b]
        BY <3>1 DEF TypeOK
      <3>3. \A c \in Claims : /\ batchOf'[c] = b <=> batchOf[c] = b
                              /\ runOf'[c] = b <=> runOf[c] = b
        BY <2>7, <3>1 DEF Delete, Empty
      <3> QED
        BY <3>2, <3>3 DEF Members
    <2>8. CASE Approve(q)
      BY <2>1, <2>8 DEF Approve, Current, claimVars, Members, TypeOK
    <2>9. CASE MarkPaid(q)
      <3>1. Members(b)' = Members(b)
        BY <2>9 DEF MarkPaid, Members
      <3> QED
        BY <2>1, <2>9, <3>1 DEF MarkPaid, Current, TypeOK
    <2>10. CASE Release(q)
      <3>1. /\ r.claim \in Claims
            /\ batchOf[r.claim] = r.batch /\ Draft(r.batch)
            /\ runOf[r.claim] = r.run /\ Draft(r.run)
        BY <2>1, <2>10, Loaded DEF Release, TakeOut, Current
      <3>2. batchOf[r.claim] # b /\ runOf[r.claim] # b
        BY <3>1 DEF Draft
      <3>3. \A c \in Claims : /\ batchOf'[c] = b <=> batchOf[c] = b
                              /\ runOf'[c] = b <=> runOf[c] = b
        BY <2>10, <3>1, <3>2 DEF Release, TakeOut, Put, TypeOK
      <3>4. box'[b] = box[b]
        BY <2>10, <3>1, <3>2 DEF Release, TakeOut
      <3> QED
        BY <3>3, <3>4 DEF Members
    <2> QED
      BY <1>3, <2>2, <2>3, <2>4, <2>5, <2>6, <2>7, <2>8, <2>9, <2>10 DEF Commits
  <1>4. CASE UNCHANGED <<claimVars, box, payments>>
    BY <1>4 DEF claimVars, Members
  <1> QED
    BY <1>1, <1>2, <1>3, <1>4, StepWrites

\* A batch or run that is not locked only moves on.
LEMMA ForwardStep ==
    ASSUME TypeOK, SerialInv, [Next]_vars, NEW b \in Boxes,
           box[b] \notin {"approved", "paid"}
    PROVE  \/ box'[b] = box[b]
           \/ box[b] = "unborn" /\ box'[b] = "draft"
           \/ box[b] = "draft" /\ box'[b] \in {"approved", "gone"}
  <1>1. CASE \E d \in Claims : Create(d)
    BY <1>1 DEF Create
  <1>2. CASE \E r \in Runs : CreateRun(r)
    BY <1>2 DEF CreateRun, TypeOK
  <1>3. ASSUME NEW q \in Handlers, Commits(q)
        PROVE  \/ box'[b] = box[b]
               \/ box[b] = "unborn" /\ box'[b] = "draft"
               \/ box[b] = "draft" /\ box'[b] \in {"approved", "gone"}
    <2> DEFINE r == request[q]
    <2>1. Current(q)
      BY DEF SerialInv
    <2>2. CASE CreateBatch(q)
      BY <2>1, <2>2 DEF CreateBatch, Current, TypeOK
    <2>3. CASE Delete(q)
      BY <2>1, <2>3 DEF Delete, Current, TypeOK
    <2>4. CASE Approve(q)
      BY <2>1, <2>4 DEF Approve, Current, TypeOK
    <2>5. CASE MarkPaid(q)
      BY <2>1, <2>5 DEF MarkPaid, Current, TypeOK
    <2>6. CASE Release(q)
      <3>1. Draft(r.batch)
        BY <2>1, <2>6 DEF Release, TakeOut, Current
      <3>2. box'[b] = box[b] \/ (b = r.batch /\ box'[b] = "gone")
        BY <2>6 DEF Release, TakeOut
      <3> QED
        BY <3>1, <3>2, NoBoxIsNoBox DEF Draft
    <2> QED
      BY <1>3, <2>2, <2>3, <2>4, <2>5, <2>6
         DEF Commits, Update, Withdraw, Decide, Decided, Carry
  <1>4. CASE UNCHANGED <<claimVars, box, payments>>
    BY <1>4
  <1> QED
    BY <1>1, <1>2, <1>3, <1>4, StepWrites

\* Served one request at a time, a decided claim is frozen, an approved or paid
\* batch or run keeps its claims, and each of them only moves on.
THEOREM NothingReopensSerially == ASSUME OneAtATime PROVE Spec => NothingReopens
<1>1. TypeOK /\ Constrained /\ SerialInv /\ [Next]_vars =>
        [\A c \in Claims : state[c] \in {"approved", "refused"} =>
            state'[c] = state[c] /\ amount'[c] = amount[c]]_vars
  BY FrozenStep
<1>2. TypeOK /\ Constrained /\ SerialInv /\ [Next]_vars =>
        [\A b \in Boxes : box[b] \in {"approved", "paid"} => Members(b)' = Members(b)]_vars
  BY LockedStep
<1>3. TypeOK /\ Constrained /\ SerialInv /\ [Next]_vars =>
        [\A b \in Boxes : /\ Rank(box'[b]) >= Rank(box[b])
                          /\ box[b] \in {"approved", "paid"} => box'[b] # "gone"]_vars
  <2> SUFFICES ASSUME TypeOK, Constrained, SerialInv, [Next]_vars, NEW b \in Boxes
               PROVE  /\ Rank(box'[b]) >= Rank(box[b])
                      /\ box[b] \in {"approved", "paid"} => box'[b] # "gone"
    OBVIOUS
  <2>1. box[b] \in {"unborn", "draft", "approved", "paid", "gone"}
    BY DEF TypeOK
  <2>2. CASE box[b] \in {"approved", "paid"}
    <3>1. box'[b] = box[b] \/ (box[b] = "approved" /\ box'[b] = "paid")
      BY <2>2, LockedStep
    <3> QED
      BY <2>2, <3>1 DEF Rank
  <2>3. CASE box[b] \notin {"approved", "paid"}
    <3>1. \/ box'[b] = box[b]
          \/ box[b] = "unborn" /\ box'[b] = "draft"
          \/ box[b] = "draft" /\ box'[b] \in {"approved", "gone"}
      BY <2>3, ForwardStep
    <3> QED
      BY <2>1, <2>3, <3>1 DEF Rank
  <2> QED
    BY <2>2, <2>3
<1> QED
  BY <1>1, <1>2, <1>3, SerialKept, PTL
     DEF Spec, NothingReopens, DecidedFrozen, LockedStaysFull, ForwardOnly

(***************************************************************************)
(* One request at a time: batches and runs say what their claims say       *)
(***************************************************************************)
\* Something the claim is in has been paid.
PaidOut(c) == \E b \in Boxes : c \in Members(b) /\ box[b] = "paid"

\* ReimbursedWithItsBox for every claim that is not gone, the unborn included.
BoxInv ==
    /\ NoEmptyBatch
    /\ \A c \in Claims : state[c] # "gone" => (reimbursed[c] <=> PaidOut(c))

\* Until it is marked paid nothing changes about what has been.
LEMMA PaidUnchanged ==
    ASSUME TypeOK, Constrained, SerialInv, [Next]_vars, ~\E q \in Handlers : MarkPaid(q),
           NEW c \in Claims
    PROVE  reimbursed'[c] = reimbursed[c] /\ payments'[c] = payments[c] /\ PaidOut(c)' = PaidOut(c)
  <1>1. reimbursed' = reimbursed /\ payments' = payments
    BY StepWrites DEF Create, CreateRun, Commits, Update, Withdraw, Decide, Decided, CreateBatch,
       Carry, Delete, Approve, Release, TakeOut, claimVars
  <1>2. ASSUME NEW b \in Boxes PROVE box'[b] = "paid" <=> box[b] = "paid"
    <2>1. CASE box[b] = "approved"
      <3>1. box'[b] # "paid"
        BY <2>1, StepWrites, NoBoxIsNoBox
           DEF Create, CreateRun, Commits, Update, Withdraw, Decide, Decided, CreateBatch,
               Carry, Delete, Approve, Release, TakeOut, claimVars, TypeOK
      <3> QED
        BY <2>1, <3>1
    <2>2. CASE box[b] = "paid"
      BY <2>2, LockedStep
    <2>3. CASE box[b] \notin {"approved", "paid"}
      BY <2>3, ForwardStep
    <2> QED
      BY <2>1, <2>2, <2>3
  <1>3. ASSUME NEW b \in Boxes, box[b] = "paid" PROVE Members(b)' = Members(b)
    BY <1>3, LockedStep
  <1> QED
    BY <1>1, <1>2, <1>3 DEF PaidOut

\* Marking a batch or run paid pays its claims, none of which had been.
LEMMA MarkPaidPays ==
    ASSUME TypeOK, Constrained, SerialInv, NEW q \in Handlers, MarkPaid(q), NEW c \in Claims
    PROVE  LET b == request[q].box
           IN  /\ b \in Boxes
               /\ c \in Members(b) => /\ ~PaidOut(c) /\ PaidOut(c)' /\ reimbursed'[c]
                                      /\ payments[c] = {} /\ payments'[c] = {b}
                                      /\ state[c] = "approved"
               /\ c \notin Members(b) => /\ PaidOut(c)' = PaidOut(c)
                                         /\ reimbursed'[c] = reimbursed[c]
                                         /\ payments'[c] = payments[c]
  <1> DEFINE b == request[q].box
  <1>1. b \in Boxes /\ box[b] = "approved" /\ box' = [box EXCEPT ![b] = "paid"]
    BY Loaded DEF MarkPaid, SerialInv, Current
  <1>2. \A x \in Boxes : Members(x)' = Members(x)
    BY DEF MarkPaid, Members
  <1>3. box'[b] = "paid" /\ \A x \in Boxes \ {b} : box'[x] = box[x]
    BY <1>1 DEF TypeOK
  <1>4. CASE c \in Members(b)
    <2>1. ~PaidOut(c)
      BY <1>1, <1>4, OneBox DEF PaidOut
    <2>2. PaidOut(c)'
      BY <1>1, <1>2, <1>3, <1>4 DEF PaidOut
    <2>3. payments[c] = {}
      BY <2>1 DEF SerialInv, PaidInside, PaidOut
    <2>4. payments'[c] = {b}
      BY <1>4, <2>3 DEF MarkPaid
    <2>5. reimbursed'[c]
      BY <1>4, Zenon DEF MarkPaid
    <2> QED
      BY <1>1, <1>4, <2>1, <2>2, <2>3, <2>4, <2>5, MembersApproved
  <1>5. CASE c \notin Members(b)
    <2>1. PaidOut(c)' = PaidOut(c)
      BY <1>1, <1>2, <1>3, <1>5 DEF PaidOut
    <2>2. reimbursed'[c] = reimbursed[c] /\ payments'[c] = payments[c]
      BY <1>5 DEF MarkPaid, TypeOK
    <2> QED
      BY <1>1, <1>5, <2>1, <2>2
  <1> QED
    BY <1>4, <1>5

\* A row that is gone does not come back.
LEMMA GoneStaysGone ==
    ASSUME TypeOK, [Next]_vars, NEW c \in Claims, state[c] = "gone"
    PROVE  state'[c] = "gone"
  <1>1. ASSUME NEW q \in Handlers, Commits(q) PROVE state'[c] = "gone"
    BY <1>1, Loaded DEF Commits, Update, Withdraw, Decide, Decided, Exists, CreateBatch, Carry,
       Delete, Approve, MarkPaid, Release, TakeOut, claimVars, TypeOK
  <1> QED
    BY <1>1, StepWrites DEF Create, CreateRun, claimVars, TypeOK

\* A batch that is there after a step has a claim in it.
LEMMA NoEmptyStep ==
    ASSUME TypeOK, Constrained, SerialInv, NoEmptyBatch, [Next]_vars, NEW b \in Batches,
           BoxExists(b)'
    PROVE  Members(b)' # {}
  <1> USE NoBoxIsNoBox, SettlementAssumption
  <1>1. b \in Boxes /\ b \notin Runs /\ b # NoBox
    BY DEF Boxes
  <1>2. CASE box[b] \in {"approved", "paid"}
    BY <1>1, <1>2, LockedStep DEF NoEmptyBatch, BoxExists
  <1>3. CASE box[b] = "unborn"
    <2>1. box'[b] # "unborn"
      BY DEF BoxExists
    <2>2. PICK q \in Handlers : CreateBatch(q) /\ request[q].box = b
      <3>1. ASSUME NEW q \in Handlers, Commits(q)
            PROVE  CreateBatch(q) /\ request[q].box = b
        <4>1. Current(q)
          BY DEF SerialInv
        <4> QED
          BY <1>1, <1>3, <2>1, <3>1, <4>1, Loaded
             DEF Commits, Update, Withdraw, Decide, Decided, CreateBatch, Carry, Delete, Approve,
                 MarkPaid, Release, TakeOut, claimVars, TypeOK, Current, Draft, BoxExists
      <3> QED
        BY <1>1, <1>3, <2>1, <3>1, StepWrites DEF Create, CreateRun, TypeOK
    <2>3. PICK c \in request[q].claims : c \in Claims
      BY <2>2, Loaded DEF CreateBatch, SerialInv, Current
    <2>4. c \in Members(b)'
      BY <2>2, <2>3 DEF CreateBatch, Members
    <2> QED
      BY <2>4
  <1>4. CASE box[b] = "draft"
    <2>1. PICK c \in Claims : batchOf[c] = b
      BY <1>1, <1>4 DEF NoEmptyBatch, BoxExists, Members, TypeOK
    <2>2. state[c] = "approved"
      BY <1>1, <2>1 DEF Constrained
    <2>3. ASSUME NEW q \in Handlers, Commits(q) PROVE Members(b)' # {}
      <3> DEFINE r == request[q]
      <3>1. Current(q)
        BY DEF SerialInv
      <3>2. CASE Update(q) \/ Decide(q) \/ Carry(q) \/ Approve(q) \/ MarkPaid(q)
        <4>1. batchOf' = batchOf
          BY <3>2 DEF Update, Decide, Decided, Carry, Approve, MarkPaid, claimVars
        <4> QED
          BY <2>1, <4>1 DEF Members
      <3>3. CASE Withdraw(q)
        <4>1. r.claim # c
          BY <2>2, <3>1, <3>3, Loaded DEF Withdraw, Current
        <4>2. batchOf'[c] = b
          BY <2>1, <3>3, <4>1 DEF Withdraw, TypeOK
        <4> QED
          BY <4>2 DEF Members
      <3>4. CASE CreateBatch(q)
        <4>1. c \notin r.claims
          BY <1>1, <2>1, <3>1, <3>4 DEF CreateBatch, Current, Settleable
        <4>2. batchOf'[c] = b
          BY <2>1, <3>4, <4>1 DEF CreateBatch
        <4> QED
          BY <4>2 DEF Members
      <3>5. CASE Delete(q)
        <4>1. r.box # b
          BY <1>1, <3>5 DEF Delete, BoxExists, TypeOK
        <4>2. batchOf'[c] = b
          BY <2>1, <3>5, <4>1 DEF Delete, Empty
        <4> QED
          BY <4>2 DEF Members
      <3>6. CASE Release(q)
        <4>1. r.batch = b => Left(r) # {}
          BY <1>1, <3>6 DEF Release, TakeOut, BoxExists
        <4>2. r.claim \in Claims /\ batchOf[r.claim] = r.batch
          BY <3>1, <3>6, Loaded DEF Release, TakeOut, Current
        <4>3. PICK d \in Claims \ {r.claim} : batchOf[d] = b
          BY <2>1, <4>1, <4>2 DEF Left
        <4>4. batchOf'[d] = b
          BY <3>6, <4>3 DEF Release, TakeOut, TypeOK
        <4> QED
          BY <4>4 DEF Members
      <3> QED
        BY <2>3, <3>2, <3>3, <3>4, <3>5, <3>6 DEF Commits
    <2>4. CASE ~\E q \in Handlers : Commits(q)
      <3>1. batchOf' = batchOf
        BY <2>4, StepWrites DEF Create, CreateRun, claimVars
      <3> QED
        BY <2>1, <3>1 DEF Members
    <2> QED
      BY <2>3, <2>4
  <1>5. CASE box[b] = "gone"
    BY <1>1, <1>5, ForwardStep DEF BoxExists
  <1> QED
    BY <1>1, <1>2, <1>3, <1>4, <1>5 DEF TypeOK

\* What boxes and claims say of one another is kept by every step.
LEMMA BoxInvStep ==
    ASSUME TypeOK, Constrained, SerialInv, BoxInv, [Next]_vars
    PROVE  BoxInv'
  <1>1. NoEmptyBatch'
    BY NoEmptyStep DEF BoxInv, NoEmptyBatch
  <1>2. ASSUME NEW c \in Claims, state'[c] # "gone"
        PROVE  reimbursed'[c] <=> PaidOut(c)'
    <2>1. state[c] # "gone"
      BY <1>2, GoneStaysGone
    <2>2. reimbursed[c] <=> PaidOut(c)
      BY <2>1 DEF BoxInv
    <2>3. ASSUME NEW q \in Handlers, MarkPaid(q) PROVE reimbursed'[c] <=> PaidOut(c)'
      BY <2>2, <2>3, MarkPaidPays
    <2>4. CASE ~\E q \in Handlers : MarkPaid(q)
      BY <2>2, <2>4, PaidUnchanged
    <2> QED
      BY <2>3, <2>4
  <1> QED
    BY <1>1, <1>2 DEF BoxInv

\* So it holds throughout.
LEMMA BoxInvKept ==
    ASSUME OneAtATime PROVE Spec => [](TypeOK /\ Constrained /\ SerialInv /\ BoxInv)
<1>1. Init => BoxInv
  BY NoBoxIsNoBox DEF Init, BoxInv, NoEmptyBatch, BoxExists, PaidOut, Members, Boxes
<1>2. TypeOK /\ Constrained /\ SerialInv /\ BoxInv /\ [Next]_vars => BoxInv'
  BY BoxInvStep
<1> QED
  BY <1>1, <1>2, SerialKept, PTL DEF Spec

\* Served one request at a time, a claim says reimbursed exactly when what it is in
\* has been paid, and no batch is ever empty.
THEOREM BoxesCorrect == ASSUME OneAtATime PROVE Spec => []BoxesSound
<1>1. BoxInv => BoxesSound
  BY DEF BoxInv, BoxesSound, ReimbursedWithItsBox, Exists, PaidOut
<1> QED
  BY <1>1, BoxInvKept, PTL

(***************************************************************************)
(* One request at a time: each claim is the debt Debt describes            *)
(***************************************************************************)
\* Owed, state by state.
LEMMA OwedIs ==
    ASSUME TypeOK, NEW c \in Claims
    PROVE  /\ state[c] = "unborn" => Owed[c] = "none"
           /\ state[c] = "submitted" => Owed[c] = "asked"
           /\ state[c] \in {"refused", "gone"} => Owed[c] = "closed"
           /\ state[c] = "approved" /\ reimbursed[c] => Owed[c] = "paid"
           /\ state[c] = "approved" /\ ~reimbursed[c] => Owed[c] = "owed"
  BY DEF Owed

\* And after a step.
LEMMA OwedWillBe ==
    ASSUME TypeOK', NEW c \in Claims
    PROVE  /\ state'[c] = "unborn" => Owed'[c] = "none"
           /\ state'[c] = "submitted" => Owed'[c] = "asked"
           /\ state'[c] \in {"refused", "gone"} => Owed'[c] = "closed"
           /\ state'[c] = "approved" /\ reimbursed'[c] => Owed'[c] = "paid"
           /\ state'[c] = "approved" /\ ~reimbursed'[c] => Owed'[c] = "owed"
  BY DEF Owed

\* What is in no box has been neither reimbursed nor paid for.
LEMMA UndecidedUnpaid ==
    ASSUME TypeOK, Constrained, SerialInv, BoxInv, NEW c \in Claims,
           state[c] \in {"unborn", "submitted"}
    PROVE  ~reimbursed[c] /\ payments[c] = {}
  <1>1. ~PaidOut(c)
    BY MembersApproved DEF PaidOut
  <1> QED
    BY <1>1 DEF BoxInv, SerialInv, PaidInside, PaidOut

\* A step that leaves a claim's row and its payments alone leaves the debt alone.
LEMMA Rests ==
    ASSUME TypeOK, TypeOK', NEW c \in Claims, state'[c] = state[c],
           reimbursed'[c] = reimbursed[c], amount'[c] = amount[c], payments'[c] = payments[c]
    PROVE  Debts!Rest(c)
  <1>1. state[c] \in {"unborn", "submitted", "approved", "refused", "gone"}
    BY DEF TypeOK
  <1>2. Owed'[c] = Owed[c]
    BY <1>1, OwedIs, OwedWillBe
  <1> QED
    BY <1>2 DEF Debts!Rest, Debts!Keep

\* Each step of the settlement is one of the debt for every claim, or leaves it.
LEMMA DebtStep ==
    ASSUME TypeOK, TypeOK', Constrained, SerialInv, BoxInv, [Next]_vars, NEW c \in Claims
    PROVE  \/ Debts!Ask(c) \/ Debts!Change(c) \/ Debts!Close(c) \/ Debts!Owe(c)
           \/ Debts!Pay(c) \/ Debts!Rest(c)
  <1> DEFINE Step == \/ Debts!Ask(c) \/ Debts!Change(c) \/ Debts!Close(c) \/ Debts!Owe(c)
                     \/ Debts!Pay(c) \/ Debts!Rest(c)
  <1>1. ASSUME NEW q \in Handlers, MarkPaid(q) PROVE Step
    <2> DEFINE b == request[q].box
    <2>1. state' = state /\ amount' = amount
      BY <1>1 DEF MarkPaid
    <2>2. CASE c \in Members(b)
      <3>1. state[c] = "approved" /\ ~PaidOut(c) /\ reimbursed'[c] /\ b \in Boxes /\ payments'[c] = {b}
        BY <1>1, <2>2, MarkPaidPays
      <3>2. ~reimbursed[c]
        BY <3>1 DEF BoxInv
      <3>3. Owed[c] = "owed" /\ Owed'[c] = "paid"
        BY <2>1, <3>1, <3>2, OwedIs, OwedWillBe
      <3> QED
        BY <2>1, <3>1, <3>3 DEF Debts!Pay, Debts!Keep
    <2>3. CASE c \notin Members(b)
      <3>1. reimbursed'[c] = reimbursed[c] /\ payments'[c] = payments[c]
        BY <1>1, <2>3, MarkPaidPays
      <3> QED
        BY <2>1, <3>1, Rests
    <2> QED
      BY <2>2, <2>3
  <1>2. CASE ~\E q \in Handlers : MarkPaid(q)
    <2>1. reimbursed'[c] = reimbursed[c] /\ payments'[c] = payments[c]
      BY <1>2, PaidUnchanged
    <2>2. CASE state'[c] = state[c] /\ amount'[c] = amount[c]
      BY <2>1, <2>2, Rests
    <2>3. CASE \E d \in Claims : Create(d) /\ ~(state'[c] = state[c] /\ amount'[c] = amount[c])
      <3>1. state[c] = "unborn" /\ state'[c] = "submitted" /\ amount'[c] = amount[c]
        BY <2>3 DEF Create, TypeOK
      <3>2. Owed[c] = "none" /\ Owed'[c] = "asked" /\ payments'[c] = {}
        BY <2>1, <3>1, OwedIs, OwedWillBe, UndecidedUnpaid
      <3> QED
        BY <3>1, <3>2 DEF Debts!Ask, Debts!Keep
    <2>4. ASSUME NEW q \in Handlers, Commits(q),
                 ~(state'[c] = state[c] /\ amount'[c] = amount[c])
          PROVE  Step
      <3>1. Current(q)
        BY DEF SerialInv
      <3>2. Update(q) \/ Withdraw(q) \/ Decide(q)
        BY <2>4 DEF Commits, CreateBatch, Carry, Delete, Approve, MarkPaid, Release, TakeOut,
           claimVars
      <3>3. request[q].claim = c
        BY <2>4, <3>2, Loaded DEF Update, Withdraw, Decide, Decided, TypeOK
      <3>4. state[c] = "submitted"
        BY <3>1, <3>2, <3>3 DEF Update, Withdraw, Decide, Decided, Current
      <3>5. Owed[c] = "asked" /\ payments'[c] = {} /\ ~reimbursed'[c]
        BY <2>1, <3>4, OwedIs, UndecidedUnpaid
      <3>6. CASE Update(q)
        <4>1. state' = state /\ amount'[c] \in Amounts
          BY <3>6 DEF Update, TypeOK
        <4>2. Owed'[c] = "asked"
          BY <3>4, <4>1, OwedWillBe
        <4> QED
          BY <3>5, <4>1, <4>2 DEF Debts!Change
      <3>7. CASE Withdraw(q)
        <4>1. state'[c] = "gone" /\ amount' = amount
          BY <3>3, <3>7 DEF Withdraw, TypeOK
        <4>2. Owed'[c] = "closed"
          BY <4>1, OwedWillBe
        <4> QED
          BY <3>5, <4>1, <4>2 DEF Debts!Close, Debts!Keep
      <3>8. CASE Decide(q)
        <4>1. state'[c] \in {"approved", "refused"} /\ amount' = amount
          BY <3>3, <3>8, Loaded DEF Decide, Decided, TypeOK
        <4>2. CASE state'[c] = "approved"
          <5>1. Owed'[c] = "owed"
            BY <3>5, <4>2, OwedWillBe
          <5> QED
            BY <3>5, <4>1, <5>1 DEF Debts!Owe, Debts!Keep
        <4>3. CASE state'[c] = "refused"
          <5>1. Owed'[c] = "closed"
            BY <4>3, OwedWillBe
          <5> QED
            BY <3>5, <4>1, <5>1 DEF Debts!Close, Debts!Keep
        <4> QED
          BY <4>1, <4>2, <4>3
      <3> QED
        BY <3>2, <3>6, <3>7, <3>8
    <2>5. CASE (\E r \in Runs : CreateRun(r)) \/ UNCHANGED <<claimVars, box, payments>>
      BY <2>2, <2>5 DEF CreateRun, claimVars
    <2> QED
      BY <2>2, <2>3, <2>4, <2>5, StepWrites
  <1> QED
    BY <1>1, <1>2

\* Served one request at a time, expense settlement implements Debt: every claim is
\* asked for, agreed to or closed, and what is owed is paid back once, at the amount
\* that was agreed.
THEOREM SettlementKeepsTheDebt == ASSUME OneAtATime PROVE Spec => KeepsTheDebt
<1>1. Init => Debts!Init
  BY DEF Init, Owed, Debts!Init
<1>2. TypeOK /\ TypeOK' /\ Constrained /\ SerialInv /\ BoxInv /\ [Next]_vars =>
        [Debts!Next]_<<Owed, amount, payments>>
  BY DebtStep DEF Debts!Next
<1> QED
  BY <1>1, <1>2, BoxInvKept, PTL DEF Spec, KeepsTheDebt, Debts!Spec
=============================================================================
