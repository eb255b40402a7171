-------------------------- MODULE PayrollRunsProofs --------------------------
(***************************************************************************)
(* For any number of runs, people, schedules and days: every row keeps its *)
(* type however requests race; and while one request is served at a time,  *)
(* no two runs of a schedule share a day, an approved run is final and     *)
(* everybody is on the run that pays them.                                 *)
(***************************************************************************)
EXTENDS PayrollRuns, TLAPS

RunStates == {"unborn", "draft", "approved", "paid", "gone"}
Rows == [People -> Line]
Amounts == 0..MaxPay
Adjustments == -MaxPay..MaxPay

\* No pay is pay of nothing on some schedule.
LEMMA NoPayIsPay == NoPay \in Pay /\ NoPay.schedule \in Schedules /\ NoPay.amount = 0
  BY PayrollAssumption DEF NoPay, Pay

\* Whatever somebody is paid on a day is an amount within the bound.
LEMMA PayIsAnAmount == ASSUME NEW x \in Pay PROVE x.amount \in Amounts
  BY NoPayIsPay, PayrollAssumption DEF Pay, Amounts

\* A row has its three columns, and three columns within bounds make a row.
LEMMA LineColumns ==
    ASSUME NEW l \in Line
    PROVE  l.there \in BOOLEAN /\ l.amount \in Amounts /\ l.adjustment \in Adjustments
  <1>1. 0 \in Amounts /\ 0 \in Adjustments
    BY PayrollAssumption DEF Amounts, Adjustments
  <1>2. CASE l = NoLine
    BY <1>1, <1>2 DEF NoLine
  <1>3. CASE l \in [there : {TRUE}, amount : Amounts, adjustment : Adjustments]
    BY <1>3
  <1> QED
    BY <1>2, <1>3 DEF Line, Amounts, Adjustments

\* What each request has loaded, by what it is doing.
LEMMA Loads ==
    ASSUME TypeOK, NEW q \in Handlers
    PROVE  /\ Doing(q, "create") => /\ request[q].run \in Runs
                                    /\ request[q].schedule \in Schedules
                                    /\ request[q].start \in Days /\ request[q].end \in Days
           /\ Doing(q, "delete") => request[q].run \in Runs /\ request[q].rows \in Rows
           /\ Doing(q, "approve") => /\ request[q].run \in Runs /\ request[q].rows \in Rows
                                     /\ request[q].due \subseteq People
                                     /\ request[q].amounts \in [People -> Amounts]
           /\ Doing(q, "pay") => request[q].run \in Runs
           /\ Doing(q, "adjust") => /\ request[q].run \in Runs /\ request[q].person \in People
                                    /\ request[q].row \in Line /\ request[q].by \in Adjustments
           /\ Doing(q, "clear") => request[q].run \in Runs /\ request[q].person \in People
  <1>1. request[q] \in Request
    BY DEF TypeOK
  <1> QED
    BY <1>1 DEF Request, Idle, Doing, Rows, Amounts, Adjustments

\* A request that begins leaves every table alone.
LEMMA BeginTypes ==
    ASSUME TypeOK, NEW q \in Handlers, NEW loaded \in Request, Begin(q, loaded)
    PROVE  TypeOK'
  <1>1. ASSUME loaded.op = "approve" PROVE loaded.run \in Runs
    BY <1>1 DEF Request, Idle
  <1>2. fresh' \subseteq Runs
    BY <1>1 DEF TypeOK, Begin
  <1> QED
    BY <1>2 DEF TypeOK, Begin, runVars

\* One that ends leaves its handler idle and the others as they were.
LEMMA DoneTypes ==
    ASSUME TypeOK, NEW q \in Handlers, Done(q)
    PROVE  request' \in [Handlers -> Request] /\ request'[q] = Idle
  BY DEF TypeOK, Done, Request

\* What a deletion or an approval loads of a draft is a request.
LEMMA LoadedTypes ==
    ASSUME TypeOK, NEW op \in {"delete", "approve"}, NEW r \in Runs
    PROVE  Loaded(op, r) \in Request
  <1>1. [p \in People |-> pay[p][end[r]].amount] \in [People -> Amounts]
    BY PayIsAnAmount DEF TypeOK
  <1>2. DraftLines(r) \in SUBSET People
    BY DEF DraftLines
  <1>3. line[r] \in Rows
    BY DEF TypeOK, Rows
  <1> QED
    BY <1>1, <1>2, <1>3 DEF Loaded, Request, Rows, Amounts

\* Every request that begins has loaded what a request may.
LEMMA ManageTypes ==
    ASSUME TypeOK, NEW q \in Handlers, NEW r \in Runs, Manage(q, r)
    PROVE  TypeOK'
  <1>1. ASSUME NEW s \in Schedules, NEW from \in Days, NEW to \in Days,
               BeginCreate(q, r, s, from, to)
        PROVE  TypeOK'
    <2>1. [op |-> "create", run |-> r, schedule |-> s, start |-> from, end |-> to] \in Request
      BY DEF Request
    <2> QED
      BY <1>1, <2>1, BeginTypes DEF BeginCreate
  <1>2. CASE BeginDelete(q, r)
    BY <1>2, LoadedTypes, BeginTypes DEF BeginDelete
  <1>3. CASE BeginApprove(q, r)
    BY <1>3, LoadedTypes, BeginTypes DEF BeginApprove, BeginApproveIn
  <1>4. CASE BeginMarkPaid(q, r)
    <2>1. [op |-> "pay", run |-> r] \in Request
      BY DEF Request
    <2> QED
      BY <1>4, <2>1, BeginTypes DEF BeginMarkPaid
  <1>5. ASSUME NEW p \in People, BeginClear(q, r, p) PROVE TypeOK'
    <2>1. [op |-> "clear", run |-> r, person |-> p, row |-> line[r][p], by |-> 0] \in Request
      BY PayrollAssumption DEF Request, TypeOK
    <2> QED
      BY <1>5, <2>1, BeginTypes DEF BeginClear
  <1>6. ASSUME NEW p \in People, NEW by \in -MaxPay..MaxPay, BeginAdjust(q, r, p, by)
        PROVE  TypeOK'
    <2>1. [op |-> "adjust", run |-> r, person |-> p, row |-> line[r][p], by |-> by] \in Request
      BY DEF Request, TypeOK
    <2> QED
      BY <1>6, <2>1, BeginTypes DEF BeginAdjust
  <1> QED
    BY <1>1, <1>2, <1>3, <1>4, <1>5, <1>6 DEF Manage

\* NoLine is a row, of nothing.
LEMMA NoLineIsALine == NoLine \in Line
  BY DEF Line

\* An approval writes rows.
LEMMA ApprovalTypes ==
    ASSUME TypeOK, NEW q \in Handlers, Approve(q)
    PROVE  TypeOK'
  <1> DEFINE c == request[q]
             Written(p) == IF p \in c.due
                           THEN [there |-> TRUE,
                                 amount |-> Put(c.rows[p].amount, c.amounts[p],
                                                line[c.run][p].amount),
                                 adjustment |-> line[c.run][p].adjustment]
                           ELSE IF c.rows[p].there THEN NoLine ELSE line[c.run][p]
  <1>1. /\ c.run \in Runs /\ c.rows \in Rows
        /\ c.amounts \in [People -> Amounts]
    BY Loads DEF Approve
  <1>2. ASSUME NEW p \in People PROVE Written(p) \in Line
    <2>1. line[c.run][p] \in Line
      BY <1>1 DEF TypeOK
    <2>2. Put(c.rows[p].amount, c.amounts[p], line[c.run][p].amount) \in Amounts
      BY <1>1, <2>1, LineColumns DEF Put
    <2>3. line[c.run][p].adjustment \in Adjustments
      BY <2>1, LineColumns
    <2> QED
      BY <2>1, <2>2, <2>3, NoLineIsALine DEF Line, Amounts, Adjustments
  <1>3. line' = [line EXCEPT ![c.run] = [p \in People |-> Written(p)]]
    BY DEF Approve
  <1>4. [p \in People |-> Written(p)] \in [People -> Line]
    <2> HIDE DEF Written
    <2> QED
      BY <1>2
  <1>5. line' \in [Runs -> [People -> Line]]
    <2> HIDE DEF Written
    <2> QED
      BY <1>3, <1>4 DEF TypeOK
  <1> QED
    BY <1>1, <1>5, DoneTypes DEF Approve, TypeOK, peopleVars

\* So does an adjustment.
LEMMA AdjustmentTypes ==
    ASSUME TypeOK, NEW q \in Handlers, SetAdjustment(q)
    PROVE  TypeOK'
  <1> DEFINE c == request[q]
             row == line[c.run][c.person]
             new == [there |-> TRUE, amount |-> row.amount,
                     adjustment |-> Put(c.row.adjustment, c.by, row.adjustment)]
  <1>1. c.run \in Runs /\ c.person \in People /\ c.row \in Line /\ c.by \in Adjustments
    BY Loads DEF SetAdjustment
  <1>2. row \in Line
    BY <1>1 DEF TypeOK
  <1>3. new \in Line
    BY <1>1, <1>2, LineColumns DEF Put, Line, Amounts, Adjustments
  <1>4. line' = [line EXCEPT ![c.run][c.person] = new]
    BY DEF SetAdjustment, WriteAdjustment
  <1>5. line' \in [Runs -> [People -> Line]]
    <2> HIDE DEF new
    <2> QED
      BY <1>1, <1>3, <1>4 DEF TypeOK
  <1> QED
    BY <1>5, DoneTypes DEF SetAdjustment, WriteAdjustment, TypeOK, runVars, peopleVars

\* Every row keeps its type, however requests race. (lib_finance/payroll.py)
THEOREM TypeCorrect == Spec => []TypeOK
<1>1. Init => TypeOK
  BY PayrollAssumption, NoPayIsPay, NoLineIsALine DEF Init, TypeOK, Days, Request
<1>2. TypeOK /\ [Next]_vars => TypeOK'
  <2> SUFFICES ASSUME TypeOK, [Next]_vars PROVE TypeOK'
    OBVIOUS
  <2>1. ASSUME NEW q \in Handlers, Create(q) PROVE TypeOK'
    BY <2>1, Loads, DoneTypes DEF TypeOK, Create, peopleVars
  <2>2. ASSUME NEW q \in Handlers, Delete(q) PROVE TypeOK'
    BY <2>2, Loads, DoneTypes, NoLineIsALine DEF TypeOK, Delete, peopleVars
  <2>3. ASSUME NEW q \in Handlers, MarkPaid(q) PROVE TypeOK'
    BY <2>3, Loads, DoneTypes DEF TypeOK, MarkPaid, peopleVars
  <2>4. ASSUME NEW q \in Handlers, ClearAdjustment(q) PROVE TypeOK'
    BY <2>4, Loads, DoneTypes, NoLineIsALine DEF TypeOK, ClearAdjustment, runVars, peopleVars
  <2>5. ASSUME NEW q \in Handlers, Fail(q) PROVE TypeOK'
    BY <2>5, DoneTypes DEF TypeOK, Fail, runVars, peopleVars
  <2>6. ASSUME NEW p \in People, NEW from \in Days, NEW to \in Days, NEW new \in Pay,
               RecordPay(p, from, to, new)
        PROVE  TypeOK'
    BY <2>6, PayrollAssumption DEF TypeOK, RecordPay, Change, runVars
  <2>7. ASSUME NEW p \in People, Employ(p) PROVE TypeOK'
    BY <2>7, PayrollAssumption DEF TypeOK, Employ, Change, runVars
  <2>8. CASE UNCHANGED vars
    BY <2>8 DEF TypeOK, vars, runVars, peopleVars
  <2> QED
    BY <2>1, <2>2, <2>3, <2>4, <2>5, <2>6, <2>7, <2>8, ManageTypes, ApprovalTypes,
       AdjustmentTypes DEF Next, Commit, Elsewhere
<1> QED
  BY <1>1, <1>2, PTL DEF Spec

(***************************************************************************)
(* One request at a time.                                                  *)
(***************************************************************************)
OneAtATime == \A p, q \in Handlers : p = q

\* What a request checked as it loaded still holds.
Current(q) ==
    LET c == request[q]
    IN  /\ Doing(q, "create") =>
               /\ state[c.run] = "unborn"
               /\ \A r \in Runs : ~Overlaps(r, c.schedule, c.start, c.end)
        /\ \A op \in {"delete", "approve", "adjust", "clear"} :
               Doing(q, op) => state[c.run] = "draft"
        /\ Doing(q, "pay") => state[c.run] = "approved"

PeriodsInv == NoOverlap /\ \A q \in Handlers : Current(q)

\* A request that begins with what it checked keeps the invariant.
LEMMA BeginKeeps ==
    ASSUME TypeOK, PeriodsInv, OneAtATime, NEW q \in Handlers, NEW loaded, Begin(q, loaded),
           Current(q)'
    PROVE  PeriodsInv'
  <1>1. NoOverlap'
    BY DEF PeriodsInv, NoOverlap, Begin, runVars, Exists
  <1>2. \A p \in Handlers : Current(p)'
    BY DEF OneAtATime
  <1> QED
    BY <1>1, <1>2 DEF PeriodsInv

\* After a request ends nothing is loaded.
LEMMA EndKeeps ==
    ASSUME TypeOK, OneAtATime, NEW q \in Handlers, Done(q), NoOverlap'
    PROVE  PeriodsInv'
  <1>1. request'[q] = Idle
    BY DEF Done, TypeOK
  <1>2. \A p \in Handlers : Current(p)'
    BY <1>1 DEF OneAtATime, Current, Doing, Idle
  <1> QED
    BY <1>2 DEF PeriodsInv

\* Every request begins with what it checked.
LEMMA ManageKeeps ==
    ASSUME TypeOK, PeriodsInv, OneAtATime, NEW q \in Handlers, NEW r \in Runs, Manage(q, r)
    PROVE  PeriodsInv'
  <1>1. ASSUME NEW s \in Schedules, NEW from \in Days, NEW to \in Days,
               BeginCreate(q, r, s, from, to)
        PROVE  PeriodsInv'
    <2> DEFINE c == [op |-> "create", run |-> r, schedule |-> s, start |-> from, end |-> to]
    <2>1. Begin(q, c) /\ request'[q] = c
      BY <1>1 DEF BeginCreate, Begin, TypeOK
    <2>2. state[r] = "unborn" /\ \A other \in Runs : ~Overlaps(other, s, from, to)
      BY <1>1 DEF BeginCreate
    <2>3. \A other \in Runs : ~Overlaps(other, s, from, to)'
      BY <2>1, <2>2 DEF Overlaps, Exists, Begin, runVars
    <2>4. Current(q)'
      BY <2>1, <2>2, <2>3 DEF Current, Doing, Begin, runVars, Overlaps
    <2> QED
      BY <2>1, <2>4, BeginKeeps
  <1>2. ASSUME NEW c, Begin(q, c), c.run = r, c.op \in {"delete", "approve", "adjust", "clear"},
               state[r] = "draft"
        PROVE  PeriodsInv'
    <2>1. request'[q] = c /\ state' = state
      BY <1>2 DEF Begin, TypeOK, runVars
    <2>2. Current(q)'
      BY <1>2, <2>1 DEF Current, Doing
    <2> QED
      BY <1>2, <2>2, BeginKeeps
  <1>3. CASE BeginDelete(q, r)
    BY <1>2, <1>3 DEF BeginDelete, Loaded
  <1>4. CASE BeginApprove(q, r)
    BY <1>2, <1>4 DEF BeginApprove, BeginApproveIn, Loaded
  <1>5. CASE BeginMarkPaid(q, r)
    <2> DEFINE c == [op |-> "pay", run |-> r]
    <2>1. Begin(q, c) /\ request'[q] = c /\ state' = state /\ state[r] = "approved"
      BY <1>5 DEF BeginMarkPaid, Begin, TypeOK, runVars
    <2>2. Current(q)'
      BY <2>1 DEF Current, Doing
    <2> QED
      BY <2>1, <2>2, BeginKeeps
  <1>6. ASSUME NEW p \in People, BeginClear(q, r, p) PROVE PeriodsInv'
    BY <1>2, <1>6 DEF BeginClear
  <1>7. ASSUME NEW p \in People, NEW by \in -MaxPay..MaxPay, BeginAdjust(q, r, p, by)
        PROVE  PeriodsInv'
    BY <1>2, <1>7 DEF BeginAdjust
  <1> QED
    BY <1>1, <1>3, <1>4, <1>5, <1>6, <1>7 DEF Manage

\* A run created shares no day with those there are.
LEMMA CreateKeeps ==
    ASSUME TypeOK, PeriodsInv, NEW q \in Handlers, Create(q)
    PROVE  NoOverlap'
  <1> DEFINE c == request[q]
  <1>1. /\ c.run \in Runs /\ c.schedule \in Schedules /\ c.start \in Days /\ c.end \in Days
    BY Loads DEF Create
  <1>2. \A r \in Runs : ~Overlaps(r, c.schedule, c.start, c.end)
    BY DEF Create, PeriodsInv, Current
  <1>3. /\ state' = [state EXCEPT ![c.run] = "draft"]
        /\ start' = [start EXCEPT ![c.run] = c.start]
        /\ end' = [end EXCEPT ![c.run] = c.end]
        /\ schedule' = [schedule EXCEPT ![c.run] = c.schedule]
    BY DEF Create
  <1>4. ASSUME NEW r \in Runs, r # c.run, Exists(r), schedule[r] = c.schedule
        PROVE  (start[r]..end[r]) \cap (c.start..c.end) = {}
    <2>1. ~(start[r] <= c.end /\ end[r] >= c.start)
      BY <1>2, <1>4 DEF Overlaps
    <2>2. start[r] \in Int /\ end[r] \in Int /\ c.start \in Int /\ c.end \in Int
      BY <1>1 DEF TypeOK, Days
    <2> QED
      BY <2>1, <2>2
  <1>5. /\ start'[c.run] = c.start /\ end'[c.run] = c.end /\ schedule'[c.run] = c.schedule
        /\ \A r \in Runs \ {c.run} : /\ start'[r] = start[r] /\ end'[r] = end[r]
                                     /\ schedule'[r] = schedule[r]
                                     /\ Exists(r)' <=> Exists(r)
    BY <1>1, <1>3 DEF TypeOK, Exists
  <1>6. ASSUME NEW r \in Runs, NEW o \in Runs, r # o, Exists(r)', Exists(o)',
               schedule'[r] = schedule'[o]
        PROVE  (start'[r]..end'[r]) \cap (start'[o]..end'[o]) = {}
    <2>1. CASE r = c.run
      BY <1>4, <1>5, <1>6, <2>1
    <2>2. CASE o = c.run
      BY <1>4, <1>5, <1>6, <2>2
    <2>3. CASE r # c.run /\ o # c.run
      BY <1>5, <1>6, <2>3 DEF PeriodsInv, NoOverlap
    <2> QED
      BY <2>1, <2>2, <2>3
  <1> QED
    BY <1>6 DEF NoOverlap

\* One request at a time, the periods of a schedule stay apart, and what a
\* request checked holds until it commits. (payroll.create_run)
THEOREM PeriodsCorrect == ASSUME OneAtATime PROVE Spec => []PeriodsInv
<1>1. Init => PeriodsInv
  BY DEF Init, PeriodsInv, NoOverlap, Exists, Current, Doing, Idle
<1>2. TypeOK /\ PeriodsInv /\ [Next]_vars => PeriodsInv'
  <2> SUFFICES ASSUME TypeOK, PeriodsInv, [Next]_vars PROVE PeriodsInv'
    OBVIOUS
  <2>1. ASSUME NEW q \in Handlers, Create(q) PROVE PeriodsInv'
    BY <2>1, CreateKeeps, EndKeeps DEF Create
  <2>2. ASSUME NEW q \in Handlers, NEW r \in Runs, Done(q), UNCHANGED <<start, end, schedule>>,
               NEW s \in RunStates, state' = [state EXCEPT ![r] = s],
               Exists(r) \/ s = "gone"
        PROVE  PeriodsInv'
    <3>1. \A o \in Runs : Exists(o)' => Exists(o)
      BY <2>2 DEF TypeOK, Exists
    <3>2. NoOverlap'
      BY <2>2, <3>1 DEF PeriodsInv, NoOverlap
    <3> QED
      BY <2>2, <3>2, EndKeeps
  <2>3. ASSUME NEW q \in Handlers, Delete(q) \/ Approve(q) \/ MarkPaid(q) PROVE PeriodsInv'
    BY <2>2, <2>3, Loads DEF Delete, Approve, MarkPaid, RunStates
  <2>4. ASSUME NEW q \in Handlers, Done(q), UNCHANGED runVars PROVE PeriodsInv'
    <3>1. NoOverlap'
      BY <2>4 DEF PeriodsInv, NoOverlap, runVars, Exists
    <3> QED
      BY <2>4, <3>1, EndKeeps
  <2>5. ASSUME NEW q \in Handlers, SetAdjustment(q) \/ ClearAdjustment(q) \/ Fail(q)
        PROVE  PeriodsInv'
    BY <2>4, <2>5 DEF SetAdjustment, WriteAdjustment, ClearAdjustment, Fail
  <2>6. CASE UNCHANGED <<runVars, request>>
    <3>1. NoOverlap'
      BY <2>6 DEF PeriodsInv, NoOverlap, runVars, Exists
    <3>2. \A q \in Handlers : Current(q)'
      BY <2>6 DEF PeriodsInv, Current, Doing, Overlaps, Exists, runVars
    <3> QED
      BY <3>1, <3>2 DEF PeriodsInv
  <2>7. CASE Elsewhere \/ UNCHANGED vars
    BY <2>6, <2>7 DEF Elsewhere, Employ, RecordPay, vars
  <2> QED
    BY <2>1, <2>3, <2>5, <2>7, ManageKeeps DEF Next, Commit
<1> QED
  BY <1>1, <1>2, TypeCorrect, PTL DEF Spec

\* "Runs on the same schedule never cover the same day twice", one request at a
\* time: for any number of runs, schedules and days. (payroll._refuse_an_overlap)
THEOREM RunsCorrect == ASSUME OneAtATime PROVE Spec => []RunsSafe
<1>1. TypeOK /\ PeriodsInv => RunsSafe
  BY DEF PeriodsInv, RunsSafe
<1> QED
  BY <1>1, TypeCorrect, PeriodsCorrect, PTL

(***************************************************************************)
(* What a step may do to a run.                                            *)
(***************************************************************************)
\* A step changes the state and the lines of one draft, marks an approved run
\* paid or makes a new one: it leaves the lines of any other alone.
LEMMA StepOfARun ==
    ASSUME TypeOK, PeriodsInv, [Next]_vars, NEW r \in Runs
    PROVE  /\ state[r] \in {"approved", "paid"} => line'[r] = line[r]
           /\ state[r] = "approved" => state'[r] \in {"approved", "paid"}
           /\ state[r] = "paid" => state'[r] = "paid"
  <1>1. ASSUME NEW q \in Handlers, Create(q) PROVE state[request[q].run] = "unborn"
    BY <1>1 DEF Create, PeriodsInv, Current
  <1>2. ASSUME NEW q \in Handlers, \/ Delete(q) \/ Approve(q)
                                   \/ SetAdjustment(q) \/ ClearAdjustment(q)
        PROVE  state[request[q].run] = "draft"
    BY <1>2 DEF Delete, Approve, SetAdjustment, ClearAdjustment, PeriodsInv, Current
  <1>3. ASSUME NEW q \in Handlers, MarkPaid(q) PROVE state[request[q].run] = "approved"
    BY <1>3 DEF MarkPaid, PeriodsInv, Current
  <1>4. ASSUME NEW q \in Handlers, Create(q)
        PROVE  line' = line /\ (r # request[q].run => state'[r] = state[r])
    BY <1>4, Loads DEF Create, TypeOK
  <1>5. ASSUME NEW q \in Handlers, Delete(q) \/ Approve(q), r # request[q].run
        PROVE  line'[r] = line[r] /\ state'[r] = state[r]
    BY <1>5, Loads DEF Delete, Approve, TypeOK
  <1>6. ASSUME NEW q \in Handlers, SetAdjustment(q) \/ ClearAdjustment(q), r # request[q].run
        PROVE  line'[r] = line[r]
    BY <1>6, Loads DEF SetAdjustment, WriteAdjustment, ClearAdjustment, TypeOK
  <1>7. ASSUME NEW q \in Handlers, SetAdjustment(q) \/ ClearAdjustment(q)
        PROVE  state' = state
    BY <1>7 DEF SetAdjustment, WriteAdjustment, ClearAdjustment, runVars
  <1>8. ASSUME NEW q \in Handlers, MarkPaid(q)
        PROVE  line' = line /\ state' = [state EXCEPT ![request[q].run] = "paid"]
    BY <1>8 DEF MarkPaid
  <1>9. CASE UNCHANGED <<state, line>>
    BY <1>9
  <1>10. ASSUME NEW q \in Handlers, Fail(q) \/ \E s \in Runs : Manage(q, s)
         PROVE  UNCHANGED <<state, line>>
    BY <1>10 DEF Fail, Manage, BeginCreate, BeginDelete, BeginApprove, BeginApproveIn,
                 BeginMarkPaid, BeginClear, BeginAdjust, Begin, runVars
  <1>11. ASSUME Elsewhere \/ UNCHANGED vars PROVE UNCHANGED <<state, line>>
    BY <1>11 DEF Elsewhere, Employ, RecordPay, vars, runVars
  <1>12. ASSUME NEW q \in Handlers, MarkPaid(q)
         PROVE  state'[r] \in {state[r], "paid"}
    BY <1>8, <1>12, Loads DEF TypeOK, MarkPaid
  <1>13. ASSUME NEW q \in Handlers, MarkPaid(q), state[r] = "paid" PROVE state'[r] = "paid"
    BY <1>12, <1>13
  <1> QED
    BY <1>1, <1>2, <1>3, <1>4, <1>5, <1>6, <1>7, <1>8, <1>9, <1>10, <1>11, <1>12, <1>13
       DEF Next, Commit

\* "Approval freezes the run", which then only goes on to be paid, one request
\* at a time and whatever happens to pay and people. (payroll.approve)
THEOREM ApprovedStays == ASSUME OneAtATime PROVE Spec => ApprovedIsFinal
<1> DEFINE Frozen == \A r \in Runs : state[r] \in {"approved", "paid"} => line'[r] = line[r]
           Onward == \A r \in Runs :
                        /\ state[r] = "approved" => state'[r] \in {"approved", "paid"}
                        /\ state[r] = "paid" => state'[r] = "paid"
<1>1. TypeOK /\ PeriodsInv /\ [Next]_vars => [Frozen]_vars /\ [Onward]_vars
  BY StepOfARun
<1>2. ApprovedIsFinal <=> [][Frozen]_vars /\ [][Onward]_vars
  BY DEF ApprovedIsFinal, LinesFrozen, ForwardOnly
<1> HIDE DEF Frozen, Onward
<1> QED
  BY <1>1, <1>2, TypeCorrect, PeriodsCorrect, PTL DEF Spec

(***************************************************************************)
(* Who is on a run.                                                        *)
(***************************************************************************)
\* Periods do not end before they start, created or about to be.
InOrder ==
    /\ \A r \in Runs : start[r] <= end[r]
    /\ \A q \in Handlers : Doing(q, "create") => request[q].start <= request[q].end

\* Nothing has changed since it was read: an approval has loaded whom and what a
\* run is due to pay, and what it wrote is that.
AsRead ==
    \A r \in fresh :
        /\ \A q \in Handlers : Doing(q, "approve") /\ request[q].run = r =>
               /\ request[q].due = DraftLines(r)
               /\ \A p \in People : request[q].amounts[p] = pay[p][end[r]].amount
        /\ state[r] \in {"approved", "paid"} => \A p \in People :
               /\ line[r][p].there <=> p \in DraftLines(r)
               /\ p \in DraftLines(r) => line[r][p].amount = pay[p][end[r]].amount

\* The lines of a run being approved are those loaded.
AsLoaded ==
    \A q \in Handlers : Doing(q, "approve") => request[q].rows = line[request[q].run]

\* Together: what the run that pays somebody rests on.
OnRunsInv == InOrder /\ AsRead /\ AsLoaded

\* Who is due depends on people, pay, and the run's period and schedule.
LEMMA DueSame ==
    ASSUME NEW r \in Runs, pay' = pay, onPayroll' = onPayroll, end'[r] = end[r],
           schedule'[r] = schedule[r]
    PROVE  DraftLines(r)' = DraftLines(r)
  BY DEF DraftLines

\* A request that begins has, to approve a run, loaded what there is.
LEMMA BeginReads ==
    ASSUME TypeOK, PeriodsInv, OneAtATime, OnRunsInv, NEW q \in Handlers, NEW loaded \in Request,
           Begin(q, loaded),
           loaded.op = "create" => loaded.start <= loaded.end,
           loaded.op = "approve" => \E r \in Runs : state[r] = "draft" /\ loaded = Loaded("approve", r)
    PROVE  OnRunsInv'
  <1>1. /\ request'[q] = loaded /\ \A o \in Handlers : o = q
        /\ UNCHANGED <<state, start, end, schedule, line, pay, onPayroll>>
        /\ fresh' = IF loaded.op = "approve" THEN fresh \cup {loaded.run} ELSE fresh
    BY DEF Begin, TypeOK, OneAtATime, runVars
  <1>2. InOrder'
    BY <1>1 DEF OnRunsInv, InOrder, Doing
  <1>3. \A r \in Runs : DraftLines(r)' = DraftLines(r)
    BY <1>1, DueSame
  <1>4. CASE loaded.op # "approve"
    <2>1. ~Doing(q, "approve")' /\ fresh' = fresh
      BY <1>1, <1>4 DEF Doing
    <2>2. AsLoaded'
      BY <1>1, <2>1 DEF AsLoaded
    <2>3. AsRead'
      BY <1>1, <1>3, <2>1 DEF OnRunsInv, AsRead, TypeOK
    <2> QED
      BY <1>2, <2>2, <2>3 DEF OnRunsInv
  <1>5. CASE loaded.op = "approve"
    <2>1. PICK r \in Runs : state[r] = "draft" /\ loaded = Loaded("approve", r)
      BY <1>5
    <2>2. /\ loaded.run = r /\ loaded.rows = line[r] /\ loaded.due = DraftLines(r)
          /\ \A p \in People : loaded.amounts[p] = pay[p][end[r]].amount
      BY <2>1 DEF Loaded
    <2>3. AsLoaded'
      BY <1>1, <2>2 DEF AsLoaded
    <2>4. ASSUME NEW s \in fresh'
          PROVE  /\ Doing(q, "approve")' /\ request'[q].run = s =>
                        /\ request'[q].due = DraftLines(s)
                        /\ \A p \in People : request'[q].amounts[p] = pay[p][end[s]].amount
                 /\ state[s] \in {"approved", "paid"} => \A p \in People :
                        /\ line[s][p].there <=> p \in DraftLines(s)
                        /\ p \in DraftLines(s) => line[s][p].amount = pay[p][end[s]].amount
      <3>1. CASE s = r
        BY <1>1, <2>1, <2>2, <3>1
      <3>2. CASE s # r
        <4>1. s \in fresh
          BY <1>1, <2>2, <2>4, <3>2
        <4> QED
          BY <1>1, <2>2, <3>2, <4>1 DEF OnRunsInv, AsRead
      <3> QED
        BY <3>1, <3>2
    <2>5. fresh' \subseteq Runs
      BY <1>1, <2>2 DEF TypeOK
    <2>6. AsRead'
      BY <1>1, <1>3, <2>4, <2>5 DEF AsRead
    <2> QED
      BY <1>2, <2>3, <2>6 DEF OnRunsInv
  <1> QED
    BY <1>4, <1>5

\* Every request begins with what it read.
LEMMA ManageReads ==
    ASSUME TypeOK, PeriodsInv, OneAtATime, OnRunsInv, NEW q \in Handlers, NEW r \in Runs, Manage(q, r)
    PROVE  OnRunsInv'
  <1>1. ASSUME NEW s \in Schedules, NEW from \in Days, NEW to \in Days,
               BeginCreate(q, r, s, from, to)
        PROVE  OnRunsInv'
    <2> DEFINE c == [op |-> "create", run |-> r, schedule |-> s, start |-> from, end |-> to]
    <2>1. c \in Request
      BY DEF Request
    <2>2. Begin(q, c) /\ c.op = "create" /\ c.start <= c.end
      BY <1>1 DEF BeginCreate
    <2> HIDE DEF c
    <2> QED
      BY <2>1, <2>2, BeginReads
  <1>2. CASE BeginDelete(q, r)
    <2>1. Loaded("delete", r) \in Request
      BY LoadedTypes
    <2>2. Begin(q, Loaded("delete", r)) /\ Loaded("delete", r).op = "delete"
      BY <1>2 DEF BeginDelete, Loaded
    <2> QED
      BY <2>1, <2>2, BeginReads
  <1>3. CASE BeginApprove(q, r)
    <2>1. Loaded("approve", r) \in Request
      BY LoadedTypes
    <2>2. /\ Begin(q, Loaded("approve", r)) /\ Loaded("approve", r).op = "approve"
          /\ state[r] = "draft"
      BY <1>3 DEF BeginApprove, BeginApproveIn, Loaded
    <2> QED
      BY <2>1, <2>2, BeginReads
  <1>4. CASE BeginMarkPaid(q, r)
    <2> DEFINE c == [op |-> "pay", run |-> r]
    <2>1. c \in Request /\ c.op = "pay"
      BY DEF Request
    <2>2. Begin(q, c)
      BY <1>4 DEF BeginMarkPaid
    <2> HIDE DEF c
    <2> QED
      BY <2>1, <2>2, BeginReads
  <1>5. ASSUME NEW p \in People, BeginClear(q, r, p) PROVE OnRunsInv'
    <2> DEFINE c == [op |-> "clear", run |-> r, person |-> p, row |-> line[r][p], by |-> 0]
    <2>1. c \in Request /\ c.op = "clear"
      BY PayrollAssumption DEF Request, TypeOK
    <2>2. Begin(q, c)
      BY <1>5 DEF BeginClear
    <2> HIDE DEF c
    <2> QED
      BY <2>1, <2>2, BeginReads
  <1>6. ASSUME NEW p \in People, NEW by \in -MaxPay..MaxPay, BeginAdjust(q, r, p, by)
        PROVE  OnRunsInv'
    <2> DEFINE c == [op |-> "adjust", run |-> r, person |-> p, row |-> line[r][p], by |-> by]
    <2>1. c \in Request /\ c.op = "adjust"
      BY DEF Request, TypeOK
    <2>2. Begin(q, c)
      BY <1>6 DEF BeginAdjust
    <2> HIDE DEF c
    <2> QED
      BY <2>1, <2>2, BeginReads
  <1> QED
    BY <1>1, <1>2, <1>3, <1>4, <1>5, <1>6 DEF Manage

\* An approval writes what it read.
LEMMA ApproveWrites ==
    ASSUME TypeOK, PeriodsInv, OneAtATime, OnRunsInv, NEW q \in Handlers, Approve(q)
    PROVE  OnRunsInv'
  <1> DEFINE c == request[q]
             k == c.run
             Wrote(p) == IF p \in c.due
                         THEN [there |-> TRUE,
                               amount |-> Put(c.rows[p].amount, c.amounts[p], line[k][p].amount),
                               adjustment |-> line[k][p].adjustment]
                         ELSE IF c.rows[p].there THEN NoLine ELSE line[k][p]
  <1>0. Doing(q, "approve") /\ k \in Runs
    BY Loads DEF Approve
  <1>1. /\ line' = [line EXCEPT ![k] = [p \in People |-> Wrote(p)]]
        /\ state' = [state EXCEPT ![k] = "approved"] /\ Done(q)
        /\ UNCHANGED <<start, end, schedule, pay, onPayroll, fresh>>
    BY DEF Approve, peopleVars
  <1>2. request'[q] = Idle /\ \A o \in Handlers : o = q
    BY <1>1 DEF Done, TypeOK, OneAtATime
  <1>3. \A op \in {"create", "approve"} : ~Doing(q, op)'
    BY <1>2 DEF Doing, Idle
  <1>4. InOrder' /\ AsLoaded'
    BY <1>1, <1>2, <1>3 DEF OnRunsInv, InOrder, AsLoaded
  <1>5. c.rows = line[k]
    BY <1>0 DEF OnRunsInv, AsLoaded
  <1>6. ASSUME k \in fresh, NEW p \in People
        PROVE  /\ Wrote(p).there <=> p \in DraftLines(k)
               /\ p \in DraftLines(k) => Wrote(p).amount = pay[p][end[k]].amount
    <2>1. c.due = DraftLines(k) /\ c.amounts[p] = pay[p][end[k]].amount
      BY <1>0, <1>6 DEF OnRunsInv, AsRead
    <2>2. Put(c.rows[p].amount, c.amounts[p], line[k][p].amount) = c.amounts[p]
      BY <1>5 DEF Put
    <2>3. line[k][p].there \in BOOLEAN
      BY <1>0, LineColumns DEF TypeOK
    <2>4. CASE p \in c.due
      BY <2>1, <2>2, <2>4
    <2>5. CASE p \notin c.due
      BY <1>5, <2>1, <2>3, <2>5 DEF NoLine
    <2> QED
      BY <2>4, <2>5
  <1> HIDE DEF Wrote
  <1>7. /\ \A p \in People : line'[k][p] = Wrote(p)
        /\ \A s \in Runs \ {k} : line'[s] = line[s] /\ state'[s] = state[s]
    BY <1>0, <1>1 DEF TypeOK
  <1>8. \A s \in Runs : DraftLines(s)' = DraftLines(s)
    BY <1>1, DueSame
  <1>9. ASSUME NEW s \in fresh, state'[s] \in {"approved", "paid"}, NEW p \in People
        PROVE  /\ line'[s][p].there <=> p \in DraftLines(s)
               /\ p \in DraftLines(s) => line'[s][p].amount = pay[p][end[s]].amount
    <2>1. CASE s = k
      BY <1>6, <1>7, <1>9, <2>1
    <2>2. CASE s # k
      BY <1>7, <1>9, <2>2 DEF TypeOK, OnRunsInv, AsRead
    <2> QED
      BY <2>1, <2>2
  <1>10. AsRead'
    BY <1>1, <1>2, <1>3, <1>8, <1>9 DEF AsRead, TypeOK
  <1> QED
    BY <1>4, <1>10 DEF OnRunsInv

\* Any other commit leaves alone the lines of a run approved.
LEMMA CommitKeeps ==
    ASSUME TypeOK, PeriodsInv, OneAtATime, OnRunsInv, NEW q \in Handlers, Done(q),
           UNCHANGED <<pay, onPayroll, fresh>>,
           \A r \in Runs :
               /\ start'[r] <= end'[r]
               /\ state'[r] \in {"approved", "paid"} =>
                      /\ state[r] \in {"approved", "paid"} /\ line'[r] = line[r]
                      /\ end'[r] = end[r] /\ schedule'[r] = schedule[r]
    PROVE  OnRunsInv'
  <1>1. request'[q] = Idle /\ \A o \in Handlers : o = q
    BY DEF Done, TypeOK, OneAtATime
  <1>2. \A op \in {"create", "approve"} : ~Doing(q, op)'
    BY <1>1 DEF Doing, Idle
  <1>3. InOrder' /\ AsLoaded'
    BY <1>1, <1>2 DEF InOrder, AsLoaded
  <1>4. \A r \in Runs : state'[r] \in {"approved", "paid"} => DraftLines(r)' = DraftLines(r)
    BY DueSame
  <1>5. AsRead'
    BY <1>1, <1>2, <1>4 DEF OnRunsInv, AsRead, TypeOK
  <1> QED
    BY <1>3, <1>5 DEF OnRunsInv

\* Every commit but an approval's.
LEMMA CommitsKeep ==
    ASSUME TypeOK, PeriodsInv, OneAtATime, OnRunsInv, NEW q \in Handlers,
           \/ Create(q) \/ Delete(q) \/ MarkPaid(q) \/ SetAdjustment(q) \/ ClearAdjustment(q)
           \/ Fail(q)
    PROVE  OnRunsInv'
  <1> DEFINE k == request[q].run
             Fine == \A r \in Runs :
               /\ start'[r] <= end'[r]
               /\ state'[r] \in {"approved", "paid"} =>
                      /\ state[r] \in {"approved", "paid"} /\ line'[r] = line[r]
                      /\ end'[r] = end[r] /\ schedule'[r] = schedule[r]
  <1>0. \A r \in Runs : start[r] <= end[r]
    BY DEF OnRunsInv, InOrder
  <1>1. CASE Create(q)
    <2>1. k \in Runs /\ request[q].start <= request[q].end
      BY <1>1, Loads DEF Create, OnRunsInv, InOrder
    <2>2. /\ state' = [state EXCEPT ![k] = "draft"]
          /\ start' = [start EXCEPT ![k] = request[q].start]
          /\ end' = [end EXCEPT ![k] = request[q].end]
          /\ schedule' = [schedule EXCEPT ![k] = request[q].schedule] /\ line' = line
          /\ Done(q) /\ UNCHANGED <<pay, onPayroll, fresh>>
      BY <1>1 DEF Create, peopleVars
    <2>3. Fine
      BY <1>0, <2>1, <2>2 DEF TypeOK
    <2> QED
      BY <2>2, <2>3, CommitKeeps
  <1>2. CASE Delete(q)
    <2>1. k \in Runs
      BY <1>2, Loads DEF Delete
    <2>2. /\ state' = [state EXCEPT ![k] = "gone"] /\ UNCHANGED <<start, end, schedule>>
          /\ line' = [line EXCEPT ![k] = [p \in People |-> NoLine]]
          /\ Done(q) /\ UNCHANGED <<pay, onPayroll, fresh>>
      BY <1>2 DEF Delete, peopleVars
    <2>3. Fine
      BY <1>0, <2>1, <2>2 DEF TypeOK
    <2> QED
      BY <2>2, <2>3, CommitKeeps
  <1>3. CASE MarkPaid(q)
    <2>1. k \in Runs /\ state[k] = "approved"
      BY <1>3, Loads DEF MarkPaid, PeriodsInv, Current
    <2>2. /\ state' = [state EXCEPT ![k] = "paid"] /\ UNCHANGED <<start, end, schedule, line>>
          /\ Done(q) /\ UNCHANGED <<pay, onPayroll, fresh>>
      BY <1>3 DEF MarkPaid, peopleVars
    <2>3. Fine
      BY <1>0, <2>1, <2>2 DEF TypeOK
    <2> QED
      BY <2>2, <2>3, CommitKeeps
  <1>4. CASE SetAdjustment(q) \/ ClearAdjustment(q)
    <2>1. k \in Runs /\ state[k] = "draft"
      BY <1>4, Loads DEF SetAdjustment, ClearAdjustment, PeriodsInv, Current
    <2>2. /\ UNCHANGED <<state, start, end, schedule>> /\ Done(q)
          /\ UNCHANGED <<pay, onPayroll, fresh>>
          /\ \A r \in Runs \ {k} : line'[r] = line[r]
      BY <1>4, <2>1 DEF SetAdjustment, WriteAdjustment, ClearAdjustment, runVars, peopleVars, TypeOK
    <2>3. Fine
      BY <1>0, <2>1, <2>2
    <2> QED
      BY <2>2, <2>3, CommitKeeps
  <1>5. CASE Fail(q)
    <2>1. /\ UNCHANGED <<state, start, end, schedule, line>> /\ Done(q)
          /\ UNCHANGED <<pay, onPayroll, fresh>>
      BY <1>5 DEF Fail, runVars, peopleVars
    <2>2. Fine
      BY <1>0, <2>1
    <2> QED
      BY <2>1, <2>2, CommitKeeps
  <1> QED
    BY <1>1, <1>2, <1>3, <1>4, <1>5

\* One request at a time, an approved run has a line for whom and what it was due
\* to pay, while nothing has changed. (payroll.approve)
THEOREM RunsAsRead == ASSUME OneAtATime PROVE Spec => []OnRunsInv
<1>1. Init => OnRunsInv
  BY PayrollAssumption DEF Init, OnRunsInv, InOrder, AsRead, AsLoaded, Doing, Idle
<1>2. TypeOK /\ PeriodsInv /\ OnRunsInv /\ [Next]_vars => OnRunsInv'
  <2> SUFFICES ASSUME TypeOK, PeriodsInv, OnRunsInv, [Next]_vars PROVE OnRunsInv'
    OBVIOUS
  <2>1. CASE Elsewhere
    <3>1. fresh' = {} /\ UNCHANGED <<state, start, end, schedule, line, request>>
      BY <2>1 DEF Elsewhere, Employ, RecordPay, Change, runVars
    <3> QED
      BY <3>1 DEF OnRunsInv, InOrder, AsRead, AsLoaded, Doing
  <2>2. CASE UNCHANGED vars
    <3>1. UNCHANGED <<state, start, end, schedule, line, request, pay, onPayroll, fresh>>
      BY <2>2 DEF vars, runVars, peopleVars
    <3> QED
      BY <3>1 DEF OnRunsInv, InOrder, AsRead, AsLoaded, Doing, DraftLines
  <2> QED
    BY <2>1, <2>2, ManageReads, ApproveWrites, CommitsKeep DEF Next, Commit
<1> QED
  BY <1>1, <1>2, TypeCorrect, PeriodsCorrect, PTL DEF Spec

\* "Everybody on payroll whose pay in effect on the period's last day is on this
\* schedule, and everybody on payroll with no pay in effect at all", one request
\* at a time: on the runs that end on a day, as long as nothing has changed,
\* everybody is on the one that pays them. (payroll._draft_lines, payroll.approve)
THEOREM EverybodyIsPaidThere == ASSUME OneAtATime PROVE Spec => []OnTheRunThatPays
<1>1. TypeOK /\ PeriodsInv /\ OnRunsInv => OnTheRunThatPays
  <2> SUFFICES ASSUME TypeOK, PeriodsInv, OnRunsInv, NEW d \in Days, NEW p \in People
               PROVE  LET on == {r \in Approved(d) : line[r][p].there}
                      IN  /\ ~onPayroll[p] => on = {}
                          /\ onPayroll[p] /\ pay[p][d] = NoPay => on = Approved(d)
                          /\ onPayroll[p] /\ pay[p][d] # NoPay =>
                                 /\ \A r, o \in on : r = o
                                 /\ \A r \in on : line[r][p].amount = pay[p][d].amount
                                 /\ {schedule[r] : r \in Approved(d)} = Schedules => on # {}
    BY DEF OnTheRunThatPays
  <2> DEFINE on == {r \in Approved(d) : line[r][p].there}
  <2>1. ASSUME NEW r \in Approved(d)
        PROVE  /\ r \in Runs /\ r \in fresh /\ Exists(r) /\ end[r] = d /\ start[r] <= end[r]
               /\ line[r][p].there <=> p \in DraftLines(r)
               /\ p \in DraftLines(r) => line[r][p].amount = pay[p][d].amount
    BY DEF Approved, TypeOK, OnRunsInv, AsRead, InOrder, Exists
  <2>2. \A r \in Approved(d) : r \in on <=>
            onPayroll[p] /\ (pay[p][d] = NoPay \/ pay[p][d].schedule = schedule[r])
    BY <2>1 DEF DraftLines
  <2>3. ASSUME NEW r \in on, NEW o \in on, pay[p][d] # NoPay PROVE r = o
    <3>1. schedule[r] = schedule[o] /\ end[r] = d /\ end[o] = d /\ start[r] <= d /\ start[o] <= d
      BY <2>1, <2>2, <2>3
    <3>2. start[r] \in Int /\ start[o] \in Int /\ d \in Int
      BY <2>1 DEF TypeOK, Days
    <3>3. d \in (start[r]..end[r]) \cap (start[o]..end[o])
      BY <3>1, <3>2
    <3>4. r \in Runs /\ o \in Runs /\ Exists(r) /\ Exists(o)
      BY <2>1
    <3> QED
      BY <3>1, <3>3, <3>4 DEF PeriodsInv, NoOverlap
  <2>4. ASSUME onPayroll[p], pay[p][d] # NoPay, {schedule[r] : r \in Approved(d)} = Schedules
        PROVE  on # {}
    <3>1. pay[p][d].schedule \in Schedules
      BY NoPayIsPay DEF TypeOK, Pay
    <3>2. PICK r \in Approved(d) : schedule[r] = pay[p][d].schedule
      BY <2>4, <3>1
    <3> QED
      BY <2>2, <2>4, <3>2
  <2>5. \A r \in on : line[r][p].amount = pay[p][d].amount
    BY <2>1
  <2>6. on \subseteq Approved(d)
    OBVIOUS
  <2> HIDE DEF on
  <2>7. /\ ~onPayroll[p] => on = {}
        /\ onPayroll[p] /\ pay[p][d] = NoPay => on = Approved(d)
    BY <2>2, <2>6
  <2>8. /\ ~onPayroll[p] => on = {}
        /\ onPayroll[p] /\ pay[p][d] = NoPay => on = Approved(d)
        /\ onPayroll[p] /\ pay[p][d] # NoPay =>
               /\ \A r, o \in on : r = o
               /\ \A r \in on : line[r][p].amount = pay[p][d].amount
               /\ {schedule[r] : r \in Approved(d)} = Schedules => on # {}
    BY <2>3, <2>4, <2>5, <2>7
  <2> QED
    BY <2>8 DEF on
<1> QED
  BY <1>1, TypeCorrect, PeriodsCorrect, RunsAsRead, PTL
=============================================================================
