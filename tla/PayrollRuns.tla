----------------------------- MODULE PayrollRuns -----------------------------
(***************************************************************************)
(* Payroll runs, lib_finance/payroll.py: a pay period generated as a       *)
(* draft, adjusted, approved, which writes a line per person, and paid.    *)
(*                                                                         *)
(* As in ExpenseSettlement a request loads and checks in one step and      *)
(* commits in another.  A person's pay is kept per day: the record in      *)
(* effect on that day, as lib_finance/compensation.py works it out.  The   *)
(* claims a run carries are ExpenseSettlement's.                           *)
(***************************************************************************)
EXTENDS Integers, FiniteSets

CONSTANTS
    Handlers,   \* requests the server works on at once
    Runs,       \* payrollrun rows that may ever exist
    People,     \* accounts
    Schedules,  \* PaySchedule
    LastDay,    \* days are 1..LastDay
    MaxPay,     \* amounts of pay are 1..MaxPay, and adjustments go as far below zero
    PayChanges  \* bound: how often pay is recorded or an account changes

ASSUME PayrollAssumption ==
    /\ LastDay \in Nat \ {0} /\ MaxPay \in Nat \ {0} /\ PayChanges \in Nat
    /\ Schedules # {}

VARIABLES
    state,      \* of each run, with "unborn" and "gone" for no row
    start,      \* period_start
    end,        \* period_end
    schedule,   \* pay_schedule
    line,       \* the payrollline row of a person on a run
    pay,        \* what each person is paid on each day
    onPayroll,  \* who is on payroll at all
    request,    \* what each handler has loaded and not committed
    changes,    \* how often pay or an account has changed
    fresh       \* not in the code: the runs read for approval since the last change

runVars == <<state, start, end, schedule>>
peopleVars == <<pay, onPayroll, changes, fresh>>
vars == <<runVars, line, peopleVars, request>>

Days == 1..LastDay

NoPay == [amount |-> 0, schedule |-> CHOOSE s \in Schedules : TRUE]
Pay == {NoPay} \cup [amount : 1..MaxPay, schedule : Schedules]

\* A row that only holds an adjustment has no amount yet.  A row deleted and
\* inserted again is taken for the same row.
NoLine == [there |-> FALSE, amount |-> 0, adjustment |-> 0]
Line == {NoLine} \cup [there : {TRUE}, amount : 0..MaxPay, adjustment : -MaxPay..MaxPay]

Idle == [op |-> "none"]
Request ==
    {Idle}
    \cup [op : {"create"}, run : Runs, schedule : Schedules, start : Days, end : Days]
    \cup [op : {"delete", "approve"}, run : Runs, rows : [People -> Line],
          due : SUBSET People, amounts : [People -> 0..MaxPay]]
    \cup [op : {"pay"}, run : Runs]
    \cup [op : {"adjust", "clear"}, run : Runs, person : People, row : Line,
          by : -MaxPay..MaxPay]

\* Every run and line keeps its shape; no adjustment passes the amounts allowed.
TypeOK ==
    /\ state \in [Runs -> {"unborn", "draft", "approved", "paid", "gone"}]
    /\ start \in [Runs -> Days] /\ end \in [Runs -> Days]
    /\ schedule \in [Runs -> Schedules]
    /\ line \in [Runs -> [People -> Line]]
    /\ pay \in [People -> [Days -> Pay]]
    /\ onPayroll \in [People -> BOOLEAN]
    /\ request \in [Handlers -> Request]
    /\ changes \in 0..PayChanges /\ fresh \subseteq Runs

Init ==
    /\ state = [r \in Runs |-> "unborn"]
    /\ start = [r \in Runs |-> 1] /\ end = [r \in Runs |-> 1]
    /\ schedule = [r \in Runs |-> NoPay.schedule]
    /\ line = [r \in Runs |-> [p \in People |-> NoLine]]
    /\ pay = [p \in People |-> [d \in Days |-> NoPay]]
    /\ onPayroll = [p \in People |-> TRUE]
    /\ request = [q \in Handlers |-> Idle]
    /\ changes = 0 /\ fresh = {}

Exists(r) == state[r] \in {"draft", "approved", "paid"}

\* SQLAlchemy's UPDATE leaves out a column whose value is the one loaded.
Put(loaded, new, current) == IF new = loaded THEN current ELSE new

\* _draft_lines: everybody on payroll whose pay on the period's last day is on
\* this schedule, and everybody on payroll with none.  Mutant: their pay on its
\* first day.
DraftLinesAtStart(r) ==
    {p \in People :
        /\ onPayroll[p]
        /\ pay[p][start[r]] = NoPay \/ pay[p][start[r]].schedule = schedule[r]}

DraftLines(r) ==
    {p \in People :
        /\ onPayroll[p]
        /\ pay[p][end[r]] = NoPay \/ pay[p][end[r]].schedule = schedule[r]}

(***************************************************************************)
(* Requests                                                                *)
(***************************************************************************)
Begin(q, loaded) ==
    /\ request[q] = Idle
    /\ request' = [request EXCEPT ![q] = loaded]
    /\ fresh' = IF loaded.op = "approve" THEN fresh \cup {loaded.run} ELSE fresh
    /\ UNCHANGED <<runVars, line, pay, onPayroll, changes>>

Doing(q, op) == request[q].op = op
Done(q) == request' = [request EXCEPT ![q] = Idle]

\* The commit is refused, or the process dies first: nothing is written.
Fail(q) ==
    /\ request[q] # Idle
    /\ Done(q)
    /\ UNCHANGED <<runVars, line, peopleVars>>

(***************************************************************************)
(* A run's life                                                            *)
(***************************************************************************)
\* Mutant: two periods sharing only a boundary day let through.
OverlapsInside(r, s, from, to) ==
    Exists(r) /\ schedule[r] = s /\ start[r] < to /\ end[r] > from

Overlaps(r, s, from, to) ==
    Exists(r) /\ schedule[r] = s /\ start[r] <= to /\ end[r] >= from

BeginCreate(q, r, s, from, to) ==
    /\ state[r] = "unborn" /\ \A o \in Handlers : Doing(o, "create") => request[o].run # r
    /\ from <= to
    /\ \A other \in Runs : ~Overlaps(other, s, from, to)
    /\ Begin(q, [op |-> "create", run |-> r, schedule |-> s, start |-> from, end |-> to])

\* uq_payrollrun_schedule_start decides between two of the same start.
Create(q) ==
    LET c == request[q]
    IN  /\ Doing(q, "create")
        /\ \A r \in Runs : Exists(r) => schedule[r] # c.schedule \/ start[r] # c.start
        /\ state' = [state EXCEPT ![c.run] = "draft"]
        /\ start' = [start EXCEPT ![c.run] = c.start]
        /\ end' = [end EXCEPT ![c.run] = c.end]
        /\ schedule' = [schedule EXCEPT ![c.run] = c.schedule]
        /\ Done(q)
        /\ UNCHANGED <<line, peopleVars>>

\* What delete_run and approve load of a draft.
Loaded(op, r) ==
    [op |-> op, run |-> r, rows |-> line[r], due |-> DraftLines(r),
     amounts |-> [p \in People |-> pay[p][end[r]].amount]]

BeginDelete(q, r) == state[r] = "draft" /\ Begin(q, Loaded("delete", r))

\* The rows it loaded go, and the foreign key wants no other left.
Delete(q) ==
    LET c == request[q]
    IN  /\ Doing(q, "delete")
        /\ \A p \in People : line[c.run][p].there => c.rows[p].there
        /\ line' = [line EXCEPT ![c.run] = [p \in People |-> NoLine]]
        /\ state' = [state EXCEPT ![c.run] = "gone"]
        /\ Done(q)
        /\ UNCHANGED <<start, end, schedule, peopleVars>>

BeginApproveIn(q, r, states) == state[r] \in states /\ Begin(q, Loaded("approve", r))

\* Mutant: approve without _draft_or_409.
BeginApproveAgain(q, r) == BeginApproveIn(q, r, {"draft", "approved", "paid"})

BeginApprove(q, r) == BeginApproveIn(q, r, {"draft"})

\* A loaded row is updated and must be there; any other is inserted and must
\* not be.  The adjustment of somebody no longer on the run goes.
Writable(c) == \A p \in c.due : line[c.run][p].there <=> c.rows[p].there

Approve(q) ==
    LET c == request[q]
    IN  /\ Doing(q, "approve")
        /\ Exists(c.run)
        /\ Writable(c)
        /\ line' = [line EXCEPT ![c.run] =
               [p \in People |->
                   IF p \in c.due
                   THEN [there |-> TRUE,
                         amount |-> Put(c.rows[p].amount, c.amounts[p], line[c.run][p].amount),
                         adjustment |-> line[c.run][p].adjustment]
                   ELSE IF c.rows[p].there THEN NoLine ELSE line[c.run][p]]]
        /\ state' = [state EXCEPT ![c.run] = "approved"]
        /\ Done(q)
        /\ UNCHANGED <<start, end, schedule, peopleVars>>

BeginMarkPaid(q, r) ==
    /\ state[r] = "approved"
    /\ Begin(q, [op |-> "pay", run |-> r])

MarkPaid(q) ==
    /\ Doing(q, "pay")
    /\ Exists(request[q].run)
    /\ state' = [state EXCEPT ![request[q].run] = "paid"]
    /\ Done(q)
    /\ UNCHANGED <<start, end, schedule, line, peopleVars>>

(***************************************************************************)
(* A draft's adjustments                                                   *)
(***************************************************************************)
BeginAdjust(q, r, p, by) ==
    /\ state[r] = "draft"
    /\ p \in DraftLines(r) /\ pay[p][end[r]] # NoPay
    /\ by # 0 /\ pay[p][end[r]].amount + by >= 0
    /\ Begin(q, [op |-> "adjust", run |-> r, person |-> p, row |-> line[r][p], by |-> by])

WriteAdjustment(q, new) ==
    LET c == request[q]
        row == line[c.run][c.person]
    IN  /\ Doing(q, "adjust")
        /\ Exists(c.run)
        /\ row.there <=> c.row.there
        /\ line' = [line EXCEPT ![c.run][c.person] =
               [there |-> TRUE, amount |-> row.amount,
                adjustment |-> Put(c.row.adjustment, new, row.adjustment)]]
        /\ Done(q)
        /\ UNCHANGED <<runVars, peopleVars>>

\* The row it loaded, or a new one.
SetAdjustment(q) == Doing(q, "adjust") /\ WriteAdjustment(q, request[q].by)

BeginClear(q, r, p) ==
    /\ state[r] = "draft"
    /\ line[r][p].there
    /\ Begin(q, [op |-> "clear", run |-> r, person |-> p, row |-> line[r][p], by |-> 0])

ClearAdjustment(q) ==
    LET c == request[q]
    IN  /\ Doing(q, "clear")
        /\ line' = [line EXCEPT ![c.run][c.person] = NoLine]
        /\ Done(q)
        /\ UNCHANGED <<runVars, peopleVars>>

(***************************************************************************)
(* Meanwhile, elsewhere                                                    *)
(***************************************************************************)
Change == changes < PayChanges /\ changes' = changes + 1 /\ fresh' = {}

\* compensation.record: a raise, or a correction, in effect until the next.
RecordPay(p, from, to, new) ==
    /\ Change
    /\ pay' = [pay EXCEPT ![p] = [d \in Days |-> IF d \in from..to THEN new ELSE @[d]]]
    /\ UNCHANGED <<runVars, line, onPayroll, request>>

\* An account deactivated or opened, or its type put on payroll or off it.
Employ(p) ==
    /\ Change
    /\ onPayroll' = [onPayroll EXCEPT ![p] = ~@]
    /\ UNCHANGED <<runVars, line, pay, request>>

(***************************************************************************)
(* The specification                                                       *)
(***************************************************************************)
Manage(q, r) ==
    \/ \E s \in Schedules : \E from, to \in Days : BeginCreate(q, r, s, from, to)
    \/ BeginDelete(q, r) \/ BeginApprove(q, r) \/ BeginMarkPaid(q, r)
    \/ \E p \in People : \/ BeginClear(q, r, p)
                         \/ \E by \in -MaxPay..MaxPay : BeginAdjust(q, r, p, by)

Commit(q) ==
    Create(q) \/ Delete(q) \/ Approve(q) \/ MarkPaid(q) \/ SetAdjustment(q) \/ ClearAdjustment(q)

Elsewhere ==
    \E p \in People :
        \/ Employ(p)
        \/ \E from, to \in Days : from <= to /\ \E new \in Pay \ {NoPay} : RecordPay(p, from, to, new)

Next ==
    \/ \E q \in Handlers : (\E r \in Runs : Manage(q, r)) \/ Commit(q) \/ Fail(q)
    \/ Elsewhere

Spec == Init /\ [][Next]_vars

(***************************************************************************)
(* Properties                                                              *)
(***************************************************************************)
\* "Runs on the same schedule never cover the same day twice."
NoOverlap ==
    \A r, o \in Runs : r # o /\ Exists(r) /\ Exists(o) /\ schedule[r] = schedule[o] =>
        (start[r]..end[r]) \cap (start[o]..end[o]) = {}

\* Every row keeps its type, and no two runs a day.
RunsSafe == TypeOK /\ NoOverlap

\* "Approval freezes the run": its lines stay as written, whatever happens to
\* pay, people and adjustments afterwards.
LinesFrozen ==
    [][\A r \in Runs : state[r] \in {"approved", "paid"} => line'[r] = line[r]]_vars

\* "draft -> approved -> paid, forward only", and an approved run stays.
ForwardOnly ==
    [][\A r \in Runs :
          /\ state[r] = "approved" => state'[r] \in {"approved", "paid"}
          /\ state[r] = "paid" => state'[r] = "paid"]_vars

\* Together: what was approved is neither rewritten nor taken back.
ApprovedIsFinal == LinesFrozen /\ ForwardOnly

\* The runs that end on a day and were approved with pay and accounts as they are.
Approved(d) == {r \in fresh : state[r] \in {"approved", "paid"} /\ end[r] = d}

\* A run's lines are "everybody on payroll whose pay in effect on the period's
\* last day is on this schedule, and everybody on payroll with no pay in effect at
\* all -- listed as missing, never skipped".  Of the runs that end on one day and
\* were approved with pay and accounts as they are, whoever has left is on none;
\* whoever has no pay is on all; anybody else is on no two, for what they are paid
\* that day, and on one when every schedule has its run. (payroll.py)
OnTheRunThatPays ==
    \A d \in Days : \A p \in People :
        LET on == {r \in Approved(d) : line[r][p].there}
        IN  /\ ~onPayroll[p] => on = {}
            /\ onPayroll[p] /\ pay[p][d] = NoPay => on = Approved(d)
            /\ onPayroll[p] /\ pay[p][d] # NoPay =>
                   /\ \A r, o \in on : r = o
                   /\ \A r \in on : line[r][p].amount = pay[p][d].amount
                   /\ {schedule[r] : r \in Approved(d)} = Schedules => on # {}
=============================================================================
