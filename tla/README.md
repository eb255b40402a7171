# SoftTrack in TLA+

SoftTrack is a self-hosted tracker: tickets on team boards, sprints, automation,
and a finance side with payroll, expense claims and reimbursements. The backend
is FastAPI over SQLModel (`src/backend`, about 35,000 lines of Python and as many
of tests), the front end a React client of its API. This directory models the
parts of both whose correctness depends on the order things happen in, checks
them with TLC and proves the main invariants with TLAPS.

Contents: [how the program runs](#how-the-program-runs),
[components](#components), [what is hard here](#what-is-hard-here),
[modules](#modules), [runs](#runs), [proofs](#proofs),
[what the models showed](#what-the-models-showed),
[not modelled](#what-is-not-modelled), [plan](#plan).

## How the program runs

- **A request is one database session.** It loads rows, checks them in Python,
  writes and commits. Synchronous handlers run in a thread pool, so requests
  interleave even in one process; several processes may serve one database.
- **The database is PostgreSQL at READ COMMITTED, or SQLite.** A request sees
  what is committed as it reads and holds no lock on what it has read. Nothing
  in the services uses `SELECT ... FOR UPDATE`. What keeps racing requests apart
  is the schema: unique indexes, check constraints and foreign keys, evaluated as
  the rows are written.
- **SQLAlchemy's UPDATE names only changed columns.** A column set to the value
  that was loaded is left to whatever the database holds by then. Every module
  has that rule as `Put(loaded, new, current)`. An UPDATE of a row that is gone
  fails the request, a DELETE of one does not.
- **Five background loops** start with every process (`main.py`): digest,
  webhook, trash, reminder, schedule. Replicas run them side by side and tell
  their work apart by claims written to the database.

- **The browser keeps copies.** React Query caches each answer and refetches it
  when it is invalidated; a drag is drawn before the server has answered; a
  cell, a comment box and the token in `localStorage` are state of the page's
  own. A stream of server-sent events tells a tab what to refetch.

Every request with a check before a write is therefore *two actions*: one that
loads and checks (`BeginUpdate`) and one that commits what was decided then
(`Update`), with any other commit possible in between. The constant `Handlers`
is how many requests the server works on at once. One handler means requests
served one after the other, the reading under which most of the documentation's
sentences are meant; two handlers is the program as it is deployed. Between a
Begin and its commit a request may also die or be refused (`Fail`).

## Components

| Component (source) | State | Operations | What makes it correct | Here |
|---|---|---|---|---|
| Outbound webhooks (`lib_softtrack/outbound.py`) | `outboundwebhook`, `webhookdelivery` | emit in the transaction of the event; tick: select, claim, post, record, prune; settings page | a claim is a lock; every try counted; every delivery settles; the log keeps its newest rows | `WebhookOutbox`, `DeliveryContract` |
| Claims and reimbursements (`lib_finance/expenses.py`, `reimbursements.py`) | `expense`, `reimbursementbatch` | submit, edit, withdraw, decide; gather, approve, pay, release | paid back once, at the agreed amount, only when approved | `ExpenseSettlement`, `Debt` |
| Payroll runs (`lib_finance/payroll.py`) | `payrollrun`, `payrollline` | create, delete, adjust, approve, pay | no day covered twice; an approved run frozen; everybody on the run that pays them | `PayrollRuns` |
| Compensation (`lib_finance/compensation.py`) | `compensation` | record a change; pay on a day | the SQL and the Python reading of a history agree | input of `PayrollRuns` |
| Tickets (`tickets.py`, `subtickets.py`, `wip.py`) | `ticket`, the team's counter | file, change, move, bulk move | numbers never reused, one level of nesting, WIP limits | `TicketBoard` |
| Transfers (`transfers.py`) | the same | plan, carry out | a family moves whole, renumbered | `TicketBoard` |
| Trash (`deleting.py`, `trash.py`) | `deleted_at` | trash, restore, purge | what comes back is in a legal place | `TicketBoard` |
| Sprints (`sprints.py`) | `sprint`, the team's counter | create, start, complete with carry-over | one active sprint, no ticket in a finished one | not modelled, see below |
| Attachments (`attachments.py`, `storage.py`, `CommentsSection.tsx`, `useAttachmentUpload.ts`) | rows, bytes, the comment box's draft | store, claim for a comment, delete, purge | never a row without its bytes; a comment keeps its files | `TicketFiles` |
| Live updates (`realtime.py`, `app_softtrack/events.py`, `frontend/src/realtime`) | queues of open streams, the cached list, the stream of a tab | publish after commit, overflow to resync, close; connect, catch up, refetch, roll back | a stream learns of every change or is told to refetch; a removed member's stream ends | `LiveUpdates` |
| Schedules (`schedules.py`) | `ticketschedule`, `schedulerun` | sweep, claim, create, link; pause, resume, edit | one ticket per occurrence, one per gap, none owed for a pause | `TicketSchedules` |
| Reminders, digest | claim rows | sweep, claim, act | at most once | the pattern of schedules, not modelled |
| Git integrations (`integrations.py`, `webhooks.py`) | `codelink` | receive a delivery: link tickets, fire triggers | a trigger fires once for what happened, in whatever order deliveries come | `CodeLinks` |
| Manual order (`ranks.py`, `lib_utils/ranking.py`, `frontend/src/board`) | `ticket.rank`, the list on screen | drop, file, key between two cards, renumber | the order on screen is the server's; a drop moves one card | `BoardOrder` |
| Time (`worklogs.py`, `timesheet.py`, `time_estimates.py`, `TimesheetPage.tsx`, `TimeSection.tsx`) | `worklog`, what is left of a ticket, the cell | log, change, delete, set a day | a day comes to what was typed, nothing is lost half-way, the cell tells the day | `TimeLog` |
| Sign-in, sessions, second factor, password reset (`lib_identity`, `frontend/src/auth`, `settings`) | `token_version`, `authsession`, `passwordreset`, the token in `localStorage` | sign in, secure the account, revoke, reset, deactivate | ending the sessions ends all but the one that asked; what is over stays over | `SignIn` |
| Automation (`rules.py`, `automations.py`) | rules, run log | match, apply | a rule never sets off a rule | not modelled |
| Teams, invitations, joining | `teammember`, `teaminvite`, `teamjoinrequest` | invite, accept, ask, approve, leave | an admin remains; one membership per person | planned |
| Imports, statuses, fields, reactions, reports, search, accounts, budgets | rows of one request each | | | not modelled, see below |

How they interact: a ticket's change writes its history, notifies, runs rules and
emits webhook deliveries in one transaction (`tickets.update_ticket`); the
delivery loop picks up what was committed. A payroll run carries approved claims:
`reimbursements.carry` puts them on a draft run, and marking the run paid
reimburses them, as marking a batch paid does. A status's WIP limit, a team's
key counter and a parent's place are shared by every request on a board. Whatever
commits on a team is announced to its streams after the commit. Purging a ticket
takes its comments, files, links and time with it. A merged pull request and a
scheduled ticket enter through the same filing and rules as a person's request.

## What is hard here

The hazards are listed line by line in `PROJECT.json`. They fall into six
families:

1. **Check, then act, without a lock**: gather a claim, take a number, count a
   column, nest a ticket, start a sprint. A constraint catches some of the races;
   the question each time is which.
2. **State held across a slow step**: a delivery row loaded before a POST of up
   to ten seconds and written after it, while claims time out and admins edit.
3. **Claims that must outlive a crash**: a process dies between claiming work
   and recording it.
4. **Long sequences of legal calls**: a sub-ticket in the trash while its parent
   is nested, transferred or purged; claims gathered, released and gathered
   again; people changing schedule and leaving between drafts; a schedule paused,
   edited and resumed; links asked for and outrun.
5. **Two systems without a transaction around both**: rows and stored bytes, the
   claim of an occurrence and its ticket, a commit and what is announced of it,
   the raised version and the reissued session.
6. **A copy on screen**: the list a card is dragged on, the figure a cell
   compares with, the token a late refusal takes away; each is stale by the time
   it is used.

## Modules

### WebhookOutbox and DeliveryContract

`WebhookOutbox` has one variable per column the code decides on and the locals of
each delivery loop (`pc`, `picked`, `mine`, `snap`, `floor`). A tick is the code's:

| action | code |
|---|---|
| `Select` | the SELECT of due ids, at most `Batch` (25 in the code), oldest first |
| `Claim` | `_claim`'s UPDATE ... WHERE, committed at once; `sawLapsed` is the `now` the tick read when it started |
| `LoadGone`, `SkipSwitchedOff`, `LoadAndPost` | one claimed delivery: reload it and its webhook; drop it, give it up, or POST |
| `RecordSuccess`, `RecordRetry`, `RecordFailure`, `RecordGone` | `_attempt` after the POST: what is written is computed from what was loaded before |
| `PruneSelect`, `PruneDelete` | `_prune`'s two statements |
| `Emit`, `Ping`, `CreateWebhook`, `BeginUpdate`/`CommitUpdate`, `DeleteWebhook`, `ArchiveTeam` | events and the settings page |
| `Crash`, `RetryComesDue`, `ClaimLapses` | a process dying, and time |

Clock readings become flags: a row is due or not, a claim runs, has lapsed or is
not there. While `Overrun` is FALSE a claim lapses only when nobody works on
it, that is, every batch is done within `CLAIM_FOR`. While it is TRUE it may lapse at any
time: the code allows it, a batch of 25 deliveries of 10 seconds against a claim
of 2 minutes.

`SkipSwitchedOff` reads the webhook and commits the row (outbound.py:375-390) in
one step: the code has no POST between the two, an admin's request that comes
between writes none of the columns the commit does, and a row deleted in between
ends the tick as `LoadGone` does.

`DeliveryContract` is what the table promises a webhook's owner about one
delivery: tried at most `MaxAttempts` times, settled once, failed only when
every try is used or its webhook took no deliveries, and not forgotten before it
settles. `KeepsTheContract` is the refinement, with `status`
mapped to itself and `tries` to `attempts`.

### ExpenseSettlement and Debt

A claim's columns, the state of each batch and run, what each handler has loaded,
and `payments`, which no column holds: the batches and runs whose being marked paid
has covered a claim. (Two requests may mark one batch paid at once; the second writes
the same payment again, with its own time and name, and pays nothing more.) Batches and payroll runs are both boxes; a claim is in a batch
through `reimbursement_batch_id` and on a run through `payroll_run_id`. The two
check constraints of the `expense` table are the guard `Gatherable` and a
conjunct of `Decide`. A claim that leaves the last place in a batch throws the
batch away (`Release`), as the code does.

`Debt` is the claim as its submitter sees it: asked, then closed or owed, then
paid, once, at the amount agreed. `KeepsTheDebt` refines it: the state of the
debt is a function of `state` and `reimbursed`, and `paidOut` is `payments`.

### PayrollRuns

Runs with their periods, the lines written at approval, adjustments held as lines
without an amount, and, changing underneath, each person's pay per day and
whether they are on payroll. `DraftLines` is `_draft_lines`: the people whose pay
on the period's last day is on the run's schedule, and those with no pay at all.
Approval reads them and writes a line each in another step (`Approve`). Not in the
code is `fresh`: the runs read for approval since pay or an account last changed. Of
those that end on one day, `OnTheRunThatPays` says who is on which: a statement about
the runs of all schedules together, where the code looks at one.

### TicketBoard

Tickets with a team, a number, a parent and a column; each team's counter; and
`firstHolder`, which no column holds: the ticket that first had each number.
Filing reads the counter and writes back one more (`_insert_ticket`), a transfer
numbers a whole family, and a commit is refused by the unique index when another
ticket holds the number. `trash.py` hides trashed rows from every query, so
`Live` and `Children` do not see them; foreign keys do.

Each team has one column with a hard limit and one without. The sub-ticket
policy is `MayNest` (`validate_parent`), the limit `Room` (`wip.room`).

### LiveUpdates

A team's tickets are a version number; the board on screen is the version it was
read at with the moves drawn on top. `Commit` counts what it has to announce and
`Publish` announces it, because the bus publishes after the commit; `Deliver` puts
an event in the queue of an open stream, or throws a full queue away for one
RESYNC. `Check` and `Subscribe` are the two halves of the stream endpoint.
`Connect`, `Opened`, `Hear`, `Drop`, `Hide` and `Show` are `keepStreamOpen` and
`useTeamEvents`; `Answered`, `Land`, `FetchFails` are the cached query; `Drag`,
`Accept`, `Refuse`, `Confirmed`, `RollBack` the optimistic move. A rollback puts the
captured list back, whatever was heard since, as the code does: `covered` ends
there unless nothing was lost by it.

### BoardOrder

One rank for each card of a team, columns as each person's filters show them, and the
drop as three pieces of code resolve it: `Neighbours` in the column on screen
(`resolveDrop`), `Placed` in the cached list (`placeTicket`), `Ranked` among the
server's ranks (`move_ticket`). A list is its cards and which is above which. A key is an
integer with `Unit` to each step of its integer part, so halving between neighbours,
meeting a tie and renumbering (`Renumbered`) happen as in `ranking.py`, without the
strings. A string can always be made longer; here every key is a multiple of `Grain[n]`
once `n` moves are made, half of what it was the move before, so that there is always
room for the moves the bound allows (any number of them: `Unit` is then that power of
two). A request reads and then commits, so two drops race. A drop in its own column
sends no column, and the card keeps the one it is in by then.

`FetchBoard` may happen at any time, with a drop of one's own under way: nothing
cancels the refetch a nudge starts, and the list it brings lacks what was drawn. So
`current` tells apart a list as fetched, one with a drop drawn on it that is under way
(`drawing`) or was accepted (`drawn`), and one that is `behind`: a list fetched before
the drop's commit is behind it until the next fetch, and a refusal puts back the list
captured before the drop, over any fetched since. A fetch reads and lands in one step:
a change between the two leaves the list `behind`, just as one after it does. One
person has one drop or filing under way at a time.

### TicketFiles

Rows are in the database, bytes in a storage no transaction covers. A request is
a task of several steps: an upload stores bytes and then inserts the row
(`StoreBytes`, `InsertRow`, or `TakeBytesBack`, or a commit that happened and was
not answered, `CommitUnanswered`); a comment reads the unclaimed files it names and
then claims them (`FindUnclaimed`, `PostComment`); a removal or purge reads what is
doomed, removes the rows and then the bytes (`ReadDoomed`, `RemoveRow`,
`RemoveComment`, `RemoveTicket`, `PurgeBytes`). `Crash` ends every task between any
two steps. The comment box is `draft`: what is picked, sent, refused and taken back.
Until it is sent, a file of it is one of the ticket's own and listed among them, where it
can be deleted (`DiscardListed`); the box is not told.

### TicketSchedules

A schedule, its claimed occurrences, its tickets, and what each worker's sweep has
read. A day of the clock has two halves, before and after the hour of the reminder.
`BeginSweep`, `AskDue`, `AskPrevious`, `Claim`, `CreateScheduled`, `LinkRun` are the
steps of `_run_one` with a commit after each of the last three; `FailSweep` fails or
crashes any of them. People pause, resume, edit and delete the schedule and finish,
trash, restore and purge its tickets meanwhile. An archived team is left out of the sweep
and takes no change (`Edited`) but its own return (`ArchiveTeam`), and the trash loop's
purges; a sweep under way when it is archived goes on. `DueIsClaimed` promises nothing
while the team is archived. A PATCH that changes the form and
the pause at once is modelled as the two steps one after the other.

### CodeLinks

What happens to one pull request (`Happen`), its deliveries on their way, and what a
process has read for the one it handles. `BeginReceive` reads the links of the
tickets named; `Receive` applies them, `Trigger` deciding what fires, and is refused
by the unique constraint where another delivery made the link meanwhile
(`Collides`). The provider redelivers and loses; tickets are binned and erased.

### TimeLog

The entries of one person on one ticket on one day, and the cell that shows their
sum. `set_my_day` is `Load`, then `LogEntry`, or `DeleteNewest` and `Reload` again and
again, then `SetNewest`: a commit each. Minutes are added up by counting them
(`Sum`), which needs no recursion and so can be proved about. `Blur` and `Escape` are the cell's ways out;
`Saved`, `NotSaved`, `ReadWeek`, `ShowWeek`, `WeekFails` what it hears back.
`LogTime`, `AmendEntry`, `DropEntry` are the Time section in another tab, with what
its form says will be left (`RemainingAfter`) beside what the server makes of it
(`AfterLogging`, `RemainingOf`). The form works from `shown`, the estimate the section
read when it appeared or after a save of its own (`ReadEstimate`): a save in the other
tab does not refresh it (`refetchOnWindowFocus` is off, `main.tsx:14`). A form filled in
from one that is no longer the server's counts as `crossed`.

### SignIn

One account, its sessions, the last reset link, and two tabs with a page and a token
each. A request is sent with the token as it is then (`SendOff`), looks (`Look`),
commits, and comes back to the tab. Ending the sessions raises the version
that was found (`MovesOn`), in one commit; `ReadVersion`, `Reissue`, `MakeToken` give
the tab that asked its session back, in another. `Unauthorised` is the client's
interceptor: the token that is there goes, whichever was refused. A site admin ends
sessions, clears the second factor, deactivates and reactivates; a link is sent,
replaced and used. A mishap -- a crash, a refused commit, a lost answer -- comes
between any two steps after the first.

Left out: `last_used_at`, which `authenticate` writes once a minute; the exchange
with a provider; API tokens; the browsers that sign in without a session row.

### Proof modules and MC modules

`...Proofs` modules extend their module and TLAPS; `WorkspaceProofs` holds those of
`LiveUpdates`, `CodeLinks` and `TicketFiles`. `MCWebhookOutbox`,
`MCExpenseSettlement`, `MCPayrollRuns` and `MCTicketBoard` only add the symmetries
TLC uses. `MCWorkspace` and `MCBrowser` check several components in one run: these
share no variable, so a behaviour of the run is a behaviour of the one its `scene`
names, the others resting in their initial state, and the states are the sum of
theirs. Each component's fairness is stated for its own scene.

## Runs

| run | instance | shows | distinct states |
|---|---|---|---|
| `outbox_one_loop` | 1 loop, 2 webhooks, 2 deliveries of 2 tries, batch of 2, log of 1, 1 crash, 2 admin requests, fairness | `KeepsTheContract`, `FailuresAreDeliveries`, `LogKept`, `EverythingSettles` | 259,208 |
| `outbox_two_loops` | 2 loops, 1 webhook, 2 deliveries, 1 crash, 1 admin request | `OutboxSafe`, `ResendsBounded`, `TriesCountedOnce` | 232,448 |
| `outbox_overrun` | the same, batches may overrun their claim | *violates* `NoDoubleHold` | |
| `settlement_serial` | 1 handler, 3 claims, 2 batches, 1 run, 2 amounts | `PaidOnce`, `BoxesSound`, `KeepsTheDebt`, `NothingReopens` | 57,450 |
| `settlement_racing` | 2 handlers, 2 claims, 2 batches, 1 run | `ClaimsSafe`, `OnlyApprovedIsPaid` | 158,588 |
| `settlement_paid_twice` | 2 handlers, 1 claim, 2 batches | *violates* `PaidOnce` | |
| `payroll_serial` | 1 handler, 2 runs, 2 people, 2 schedules, 2 days, 2 changes of pay or account | `RunsSafe`, `ApprovedIsFinal`, `OnTheRunThatPays` | 600,303 |
| `board_serial` | 1 handler, 3 tickets, 2 teams, 3 numbers each, limit 1, sub-tickets counted | `NumbersSafe`, `FamiliesHold`, `LimitKept` | 584,061 |
| `board_renested` | 1 handler, the same | *violates* `OneLevel` | |
| `board_reused` | 2 handlers, 2 tickets, 2 numbers | *violates* `KeysNameOneTicket` | |
| `workspace` | five scenes, below | 9 invariants, 6 action and temporal properties | 287,581 |
| `browser` | two scenes, below | 5 invariants, 1 action property | 1,576,236 |

| scene | instance | properties |
|---|---|---|
| `workspace`, live | 1 move, queue of 1, 1 change, 1 drop, 1 failed refetch | `StreamSafe`, `QuietBoardIsCurrent`, `StreamRecovers` |
| `workspace`, order | 2 people, 4 cards (one to be filed, one hidden from one of them), 2 columns, 2 moves | `OrderSafe`, `CommitsLand` |
| `workspace`, files | 2 files, 2 comments, 2 requests in flight, 3 in all, 1 fault | `RowsAndBytes`, `CommentsKeepFiles`, `AdoptsOnlyInARace`, `DraftCanBeSent` |
| `workspace`, schedules | 2 workers, 2 days, 2 edits, 1 mishap | `SchedulesSafe`, `OwesNothingForThePause`, `DueIsClaimed` |
| `workspace`, links | 1 ticket, 2 processes, 2 events, 1 redelivery, 1 loss | `FiredOnce`, `HeardTruly`, `NeverOpenedAfterMerge` |
| `browser`, time | 2 entries, 2 minutes, 1 save and 1 request of the Time section in flight, 2 in all, 1 failure | `DaySafe`, `CellTellsTheDay` |
| `browser`, sign-in | 2 tabs, 2 requests in flight, 3 requests and mishaps, 3 sessions | `SecuringWorks`, `LinkIsTheLatestWord`, `TabKeepsUp`, `OverForGood` |

What the named conjunctions hold, each conjunct being a definition of its own with
its comment: `OutboxSafe` is `TypeOK` and `LockInv`; `ClaimsSafe` `TypeOK` and
`Constrained`; `BoxesSound` that a claim is reimbursed with its box
(`ReimbursedWithItsBox`) and no batch is empty (`NoEmptyBatch`); `NothingReopens` that decided
claims and locked boxes stay and states only go forward (`DecidedFrozen`,
`LockedStaysFull`, `ForwardOnly`); `RunsSafe` `TypeOK` and `NoOverlap`; `ApprovedIsFinal` `LinesFrozen`
and `ForwardOnly`; `NumbersSafe` `TypeOK`, `KeysNameOneTicket`, `CanFile`; `FamiliesHold`
`FamiliesKept` and `RestoredAtHome`. The other modules' types are conjuncts of
`StreamSafe`, `OrderSafe`, `CommentsKeepFiles`, `SchedulesSafe`, `FiredOnce`, `DaySafe` and
`SecuringWorks`, which are followed by their parts: that a stream ends for those
removed and for nobody else; that the screen shows the server's order, by fetch or by a
drop accepted with no fetch in between, and no drop seen in order is refused; that comments and files come and go together; that no day
gets two tickets, no gap more than one, a waiting schedule no two open copies; that a
trigger fires once, and (`HeardTruly`) for what happened, and none is missed; that
a day comes to what was typed and loses nothing half-way, and that the form and the
server agree on what is left while the form's estimate is the server's; that ending the sessions leaves the one that asked, and
no other. `StreamRecovers` is three temporal formulas, `CommitsLand` three action properties.

**Bounds, and why they are enough.** Two loops are the smallest number that can
race for a row; two deliveries let one batch hold a row of each of two webhooks,
or one be queued while another is pruned, with a log of one. Two tries tell the
first, a retry and the last apart; `DisableAfter = 2` lets a webhook be switched off by its deliveries. Two
requests are all that any of the check-then-act races needs. Three claims let a
batch keep two when one is released, with a third elsewhere; three tickets make
a family with a stranger, or a chain of two levels. Two periods of two days
meet at a boundary day, overlap and are nested. Every budget
(`CrashBudget`, `EditBudget`, `PayChanges`, `MaxNumber`, the sets of rows that may
ever exist) is only a guard: a state space cut there ends quiet, which is why the
configurations turn deadlock checking off.

In the scenes, one drop is enough for a stream to open a second time and a queue of
one to overflow at its second event; four cards with one hidden give a drop a
neighbour the person does not see, and two moves are a race; two events and a
redelivery give every order of two deliveries in two processes. Three requests to sign in let one
race another after the version moved. Larger instances of each scene were run by
hand, for safety, and hold as well: files with 4 requests (200,000 states), schedules with 3
days (441,000) and with 3 edits (404,000), three events of a pull request, three moves of
one person (195,000), two changes of a live board (99,000), three entries of a day
(2.6 million) and mishaps besides three requests to sign in (1.4 million).

**Fairness.** `EverythingSettles`, `StreamRecovers` and `DueIsClaimed` need it. `webhook_loop` ticks for ever and
catches what a tick raises (`outbound.py:469-487`), so each loop's `Tick` is weakly
fair; the clock advances, so retries come due and abandoned claims lapse. Nothing
is assumed of crashes, admins or receivers: a receiver that always fails is
covered, because tries are bounded. A crashed process starts again, which is the
loop going back to `idle`.

In the live scene what a commit has to announce is published (the bus does so from
the commit's own hook), the tab's loop connects and hears (`connect.ts` retries for ever), a
request for the list is answered, and a move gets its answer; nobody has to change,
move, hide or show anything, and drops and failures are bounded. In the schedules'
scene each worker's sweep is weakly fair, as the loop is; days need not pass. `browser` checks
safety only.

**Symmetry** is used in runs without a liveness property, over handlers, rows and
requests the code does not tell apart; a team's tickets are told apart by number, not identity.

## Proofs

TLAPS proves, for every value of the constants -- loops, webhooks, deliveries,
claims, batches, runs, people, days, tickets, teams, handlers, files, comments, requests,
queue limits, workers, forms, processes, events, entries, figures, tabs, sessions,
cards, moves:

| theorem | assumes | says |
|---|---|---|
| `WebhookOutboxProofs!TypeCorrect` | | `[]TypeOK` |
| `LockCorrect`, `OutboxCorrect`, `MutualExclusion` | `~Overrun` | `[]LockInv`, `[]OutboxSafe`, `[]NoDoubleHold` |
| `CountingCorrect` | `~Overrun` | `TriesCountedOnce` |
| `SendsCorrect` | `~Overrun`, finitely many loops | `[]ResendsBounded` |
| `OutboxKeepsTheContract`, `FailuresCorrect` | `~Overrun`, one loop | `KeepsTheContract` (the refinement of `DeliveryContract`), `[]FailuresAreDeliveries` |
| `LogCorrect` | | `LogKept`, for any number of loops, overrunning or not |
| `ExpenseSettlementProofs!TypeCorrect` | | `[]TypeOK` |
| `ConstraintsKept`, `ClaimsCorrect`, `PaysTheApproved` | | `[]Constrained`, `[]ClaimsSafe`, `OnlyApprovedIsPaid`, however requests race |
| `PaidBackOnce`, `NothingReopensSerially`, `BoxesCorrect` | one request at a time | `[]PaidOnce`, `NothingReopens`, `[]BoxesSound` |
| `SettlementKeepsTheDebt` | one request at a time | `KeepsTheDebt` (the refinement of `Debt`) |
| `PayrollRunsProofs!TypeCorrect` | | `[]TypeOK` |
| `RunsCorrect`, `ApprovedStays`, `EverybodyIsPaidThere` | one request at a time | `[]RunsSafe`, `ApprovedIsFinal`, `[]OnTheRunThatPays` |
| `TicketBoardProofs!TypeCorrect` | | `[]TypeOK` |
| `KeysAndCounters`, `KeysNeverReused`, `CounterStaysAhead`, `NumbersCorrect` | one request at a time | `[]KeyInv`, `[]KeysNameOneTicket`, `[]CanFile`, `[]NumbersSafe` |
| `FamiliesCorrect`, `LimitCorrect` | one request at a time | `FamiliesHold`, `LimitKept` |
| `WorkspaceProofs!LiveTypeCorrect`, `StreamCorrect`, `QuietCorrect` | | `[]LiveTypeOK`, `[]StreamSafe`, `[]QuietBoardIsCurrent` |
| `FilesTypeCorrect`, `RowsCorrect`, `CommentsCorrect`, `DraftCorrect` | | `[]FilesTypeOK`, `[]RowsAndBytes`, `[]CommentsKeepFiles` and `AdoptsOnlyInARace`, `[]DraftCanBeSent` |
| `LinksTypeCorrect`, `OpenedCorrect`, `TriggersFireOnce`, `WhatIsToldIsTrue` | | `[]LinksTypeOK`, `[]OpenedOnce` and `NeverOpenedAfterMerge`, `[]FiredOnce`, `[]HeardTruly` |
| `SchedulesAndOrderProofs!SchedulesCorrect`, `PausesCorrect` | | `[]SchedulesSafe`, `OwesNothingForThePause` |
| `OrderIsSafe`, `CommitsLandWhereAsked` | | `[]OrderSafe` (types included), `CommitsLand` |
| `TimeLogProofs!TimeShapeAlways`, `DayCorrect`, `CellCorrect` | | `[]TimeShape` (types included), `[]DaySafe`, `[]CellTellsTheDay` |
| `SignInProofs!SignInTypeCorrect`, `SecuringWorksAlways`, `LinkIsTheLatestWordAlways`, `TabKeepsUpAlways`, `OverForGoodAlways` | | `[]SignInTypeOK`, `[]SecuringWorks`, `[]LinkIsTheLatestWord`, `[]TabKeepsUp`, `OverForGood` |

**The lock.** `NoDoubleHold` is not inductive: from a state where a loop holds a
row whose claim has lapsed, another may claim it. `LockInv` adds that a held
row's claim runs (`ClaimOutlastsWork`), that ids beyond `last` are unwritten
and so unheld (`IdsInOrder`), and that what a loop loaded before its POST is what
the row says (`SnapIsCurrent`). `Claimable` then excludes every held row, and a
result is written to a row nobody else touched. `~Overrun` is used in one place,
`ClaimLapses`. `CountingCorrect` follows: the count written is the one loaded,
plus one, and the one loaded is the row's.

**Sends and the contract.** A row can still be sent by a loop that has selected or
claimed it: its `Holders`. `SendsInv` says that a loop has rows picked only
between its SELECT and its claim (`PickedInTime`), that a pending row has tries left (`TriesLeft`), and that the tries made and the holders together
stay within the bound (`SendsLeft`): a settled row gains no holder, and each send
loses one. Nothing else carries `ResendsBounded` through the step that settles a
row others hold. With one loop a held row is pending or gone (`HeldIsOpen`), so every step
on a row is one of the contract's, and a failure counted is a row that has just used
its last try (`FailInv`, which also bounds the count a POST has loaded). `LogInv` says
that from the floor of any loop about to delete there are `Keep` rows up: of two floors the
higher keeps rows for both.

**Paid once.** The invariant `SerialInv` says that what a handler checked when it
loaded still holds (`Current`) and that a paid claim is in what paid it, and nothing else
has (`PaidInside`). With `Constrained`, a paid claim is in no draft,
so nothing that could pay it again can gather it. `BoxInv` adds that a claim is
reimbursed exactly when it is in something paid, and that no batch is left empty; with
it each commit maps to one step of `Debt`, or to none. Where two handlers
run, `Current` fails, and `settlement_paid_twice` shows the rest.

**Keys.** `KeyInv` says that each ticket's number lies below its team's counter and
was its own from the start (`RowsNumbered`), that no number from the counter on was ever
handed out (`UnusedAhead`), and that the counter a request read is still the
team's (`CounterCurrent`), which is where one request at a time is needed.

**Families and limits.** `CheckInv` says that what was checked as a request loaded is so when it commits
(`Checked`: the parent still takes children, the column still has room, the family is
still the family), and that no row means no team (`RowlessTeamless`) -- with `KeyInv`, a
ticket about to be filed has no live sub-tickets. For limits each commit's newcomers to
the column are a set no larger than the one there was room for (`RoomHolds`).

**The live board.** `StreamInv` adds to `StreamSafe` that a close on its way is true
(`CloseIsTrue`) and that somebody removed will hear of it from the moment the endpoint
has let the stream in (`RemovedWillHear`): removal during the opening is what the bare
property cannot carry. `BoardInv` says that an answer or a board older than the server
has a nudge or a RESYNC coming (`AnswerIsNudged`, `BoardIsNudged`), and that a move drawn on
the board is undecided or newer than the list under it (`MovesAreDrawn`). When nothing is
coming, the board is current. The argument about the queue -- a full one is thrown
away, and the RESYNC left in it stands for everything -- is the lemma `Publishing`.

**Rows and bytes.** `RowsInv`: an upload's file is its own (`UploadIsPrivate`), a row is
inserted after its bytes are stored (`StoredFirst`), bytes go after the row
(`PurgedLast`), and bytes without a row are about to get one or to go
(`BytesAreExpected`). `CommentsInv`: a file a comment claims was unclaimed when it looked or
claimed since (`ClaimedSince`), and a row claimed by a comment was named by it
(`RowsAreNamed`).

**Payroll runs.** `PeriodsInv` adds to `NoOverlap` that what a request checked as it
loaded still holds (`Current`): the period of a run about to be created meets no other, a run
about to be approved, deleted or adjusted is a draft, one about to be paid is approved.
Pay and accounts change under a request without disturbing it. `StepOfARun` gives the
rest: no step that may touch lines finds an approved run. Who is on it is `OnRunsInv`:
while `fresh` holds a run, whom and what an approval of it has read, or has written, is what
pay and accounts still say (`AsRead`); the lines it has loaded are the run's (`AsLoaded`); a
period ends no earlier than it starts (`InOrder`), so two runs of one schedule that end on one
day would share it.

**Schedules.** `SchedInv`, checked by TLC first, has a part for each promise. `OnceInv`: a ticket is
of an occurrence somebody claimed, and only one worker is making it. `GapInv`: while
the form is what it was, no day of it lies between an occurrence found or claimed and the
morning it was -- so an unclaimed occurrence comes after every claimed one (`FoundLast`) and
is found while nobody makes a ticket (`NobodyMakes`). `WaitInv` rests on both: tickets are
made in the order of their days (`MadeInOrder`), one at a time, and a worker about to claim
has no ticket in the way (`MadeWhenClear`), where only the last was looked at
(`NoneInTheWay`). `PauseInv` follows the day the schedule was switched on into the rows workers
hold. That a finite set of days has a latest is derived from well-founded
induction (`LatestOfSome`).

**Links.** `LinksInv`: what a process handles was read from links that at most moved on
(`HandlesNamed`, `OneAtATime`), a merged event is for good (`MergeIsForGood`), a ticket told of
the merge has a link that says so unless an older delivery disturbed it
(`ToldIsMerged`), and a merge delivered was told (`NoneForgotten`, `MergedIsTold`).

**The draft.** A file in the comment box is one a comment can claim, or was deleted from the ticket's own list,
or somebody is about to take it out
(`DraftWaits`). What disturbs that are the other requests: so until its upload is answered
nothing but a purge or such a deletion knows of a file (`UploadIsUnknown`), and a deletion takes only files that a
comment had claimed (`DoomedWasClaimed`).

**The manual order.** First the keys, from nothing but arithmetic: between two multiples of an
even grain that differ there is a third of half the grain (`KeyBetweenFits`, `KeyAtFits`,
`TopKeyFits`), and renumbering, which counts the cards before each, keeps the order and
leaves no ties (`RenumberingKeeps`, from `FewerBefore`). Then the drop: the neighbours it
names have nothing of their column between them but the card (`NeighboursAdjacent`), whatever
the filter hides, and the list it draws is one after the other again (`PlacedInOrder`).
`OrderInv` joins them: a drop under way was drawn on the list it remembers (`DropsDrawn`); a
request nobody overtook has read the ranks as they are (`ReadIsRank`); what a screen shows, and
what it would put back, stands to the server's order as the variables say, fetched since the last
commit or drawn by a drop that was accepted (`ViewsStand`, `OldStands`), and a list put back was
fetched only where nobody has committed since; one filing is under way at a time (`OneFiling`), so
its card is on no board;
and every rank, and every rank a request has read, is a multiple of the grain of the moves
answered so far (`RoomIsLeft`). At the commit of a drop on a fetched list, `CommitIsDrawn`
compares the two orders: others are in the old one in both, and above the card in both are those
above its neighbour above. A drop whose neighbours were seen in order never fails for want of
a key, as renumbering sets them apart.

**A day set entry by entry.** While nobody else writes, what a request has left of the entries it
found is the oldest of them, unchanged, and one is gone only where those before it were enough
(`KeptIn`); what is answered is that with its newest changed to come to the figure (`SetIn`).
The arithmetic -- that taking the newest away leaves the older ones' sum, that an entry
changed by some minutes changes the sum by as many -- is a dozen lemmas on `Sum`, as
cardinalities of disjoint unions. `LeftOf` follows the figure the
form gave, taken from the estimate the tab had loaded, through the server's.

**The cell.** `FigureTold`: the figure on the page, or in an answer on its way, is the day's,
unless a save is under way or the Time section has written. `TypedIsComing`: a cell that shows what was
typed, and not its figure, has something coming that makes the two agree: an undisturbed
save of it, a refusal, or a refetch that reads it. Nothing weaker survives two saves in flight, where the
first answer's refetch reads the day before the second.

**Sign-in.** `SignInInv` says that what a request found still holds if nobody committed since
(`Unmet`); that a session belongs to one tab, which alone has its token or is to be given it
(`OneTabEach`); that a tab's token is the last its session was given, but for reissues under way and
tokens gone astray (`LastGiven`). As long as no two requests have raised the version from one value,
versions only go up (`NoneAhead`), a session is reissued by one request at a time, against outdated
tokens (`OneReissueEach`), and the sessions a request has ended are behind the version
(`OthersOutdated`). Every commit is one of a few shapes (a request sent, begun, ended; a
version raised; a row reissued), so each part is proved once for each shape and not for each
action.

**Only model-checked**: liveness (`EverythingSettles`, `StreamRecovers`, `DueIsClaimed`), which with
ENABLED is outside the prover's reach. Every invariant and every action property the passing
runs check is stated by a theorem; where the table names an assumption, the runs that drop it
are only model-checked.

## What the models showed

Four runs are expected to end in a violation, each of something the repository says:

- `outbox_overrun`: a claim of two minutes covers a batch that may take four, so
  two processes do send one delivery (`tables.py:875` says never).
- `settlement_paid_twice`: two requests gather one approved claim; the first one's batch is
  approved and paid before the second commits, which takes the claim out of it, and the
  second batch pays it again (`finance.md:298`).
- `board_renested`: a sub-ticket is trashed, its parent becomes a sub-ticket, and the
  restore puts it back under it: two levels (`sub-tickets.md:3-4`). No race is needed.
- `board_reused`: a filing that read the counter before another ticket took that number
  and was transferred away hands it out again (`moving-tickets.md:12`).

The other models contain what follows, and their properties except it by name, through
the ghost variables (in brackets) that each module's header describes:

- **Live updates** (`covered`). The first connection does not catch up
  (`useTeamEvents.ts:22`, 34-36), while the list and the stream are asked for side by side
  and the server subscribes only after its check (`events.py:51-64`): a change in between
  is shown to nobody until the next. A refused move puts back the list captured
  before it (`useMoveTicket.ts:83`), with whatever was heard since undone. A `CLOSE` lost to an
  overflow, or published between check and subscription, leaves the stream of somebody
  removed open (`deaf`).
- **Order** (`current`, `overtaken`). A nudge that refetches while a drop is under way takes the
  drop off the screen until the next nudge (`useMoveTicket.ts:62-66` cancels no query). Equal ranks arise in normal use. A second drop before the
  refetch may be shown where the server does not put it; a renumbering that races
  another move overwrites it; neighbours the other way round by then are a `RankError`.
- **Files** (`excused`, `discarded`). A file of a comment being written can be deleted from the
  ticket's own files, where it is listed (`attachments.py:365-387`); the comment is then refused
  for it (`attachments.py:431-443`). Two comments sent at once race to claim a file and the later takes
  it from the earlier. A file that lands while a send is under way leaves the draft with
  it; a send whose answer is lost leaves in the draft a file that will be refused. A commit
  that happened but raised loses the bytes of its row.
- **Schedules** (`quirks`). A schedule paused in the middle of a sweep still gets its ticket. A
  waiting one whose run was never told of its ticket, for a crash, makes a second open
  copy; so do sweeps of two mornings that meet.
- **Code links** (`disturbed`). An old "opened" delivered again after the merge puts the link back to
  open, and the merge delivered again then fires again, where
  `docs/features/git-integrations.md` says that pressing redeliver ten times changes nothing.
- **Time** (`misled`, `outside`, `crossed`). After a save in another tab the Time section's form
  says what would be left from an outdated estimate, where `TimeSection.tsx:287-288` and
  `timeEstimate.ts:17` say it is the server's answer. Escape saves what was typed: the blur it causes reads the text before
  the put-back is rendered (`TimesheetPage.tsx:463` says "Escape puts it back"). The old figure
  typed again while a save is under way is dropped, as equal to the figure the cell still
  has. A cell only passed through after a refetch writes its old figure back. A refused
  save puts back an outdated figure, which nothing corrects if the next refetch brings
  the figure there was; nor is one corrected that a second save, in flight beside the first,
  left behind the same way (the proof of `CellTellsTheDay` found that, TLC's one save had not). On a done ticket the form says time is left where the server
  says none. A week that fails to load takes the grid, and what was being typed, away.
- **Sign-in** (`astray`, `met`, `overlapped`). A 401 that answers a request sent before the password
  changed takes away the token the change just gave (`client.ts:25`), so the person "who just
  secured their account" is thrown out after all (`useAuth.ts:34-36`). A crash
  between the two commits, or a lost answer, does so too. A reissue under way while an admin ends the
  sessions takes its session to the new version; a sign-in whose password was
  checked before a reset commits gets its session afterwards. Two requests that raise the version at
  once raise it once (`identity.py:668` adds one to what it loaded), so the session the first was given
  survives the second, where `users.md:398-401` says every token issued before stops working: with
  four requests, `SecuringWorks` fails without `overlapped`. Logging out while such a request is in flight lets its answer store a
  token again, where `AuthContext.tsx:81-82` says the browser forgets it.

Other races are in the models without a run of their own, because the
serial runs show the intent and the outcome with two handlers follows from the
same stale read: an edit commits over a decision made meanwhile; a
claim is released from a batch approved meanwhile; a batch goes from paid back to
approved; two runs with different starts overlap; a second approval rewrites a run's
lines; two moves fill one last place; two tickets are nested under each other. With
one request at a time: a delivery settled by one loop may be sent again by another
that had selected it (bounded by `ResendsBounded`); an adjustment accepted against
a line leaves it below zero when pay is corrected down before approval; somebody
who changes schedule is on a run of each for one month.

## What is not modelled

- **Parsing, formatting, permissions, rendering.** Requests start at the point where
  the caller may make them. Signatures, payloads, CSV, currencies, filters and
  queries are left out.
- **Fields no property depends on**: a ticket's labels, assignee, custom fields,
  sprint and epic; a claim's receipts, category and currency (`amount` stands for
  every column its submitter edits).
- **Second transactions**: what follows a filing (its history, notifications, and
  rules) is written by a commit of its own and not part of `File`.
- **Sprints.** Considered and left. Their numbers follow the tickets' pattern; what is
  left -- two started at once, a completion carrying over a ticket finished meanwhile -- nothing
  in the code keeps out, and a model would only restate it. (With one request at a time,
  a rule on `sprint_completed` that names the completed sprint puts tickets back in it, as a
  PATCH, a restore or a reopening may, where `sprints.py` says none may point there.)
- **Automation rules.** One change dispatches two triggers, and the second's rules are
  matched after the first's have acted, where `rules.py` says every rule sees the same
  ticket. What rules do is data to the properties here.
- **Reminders, digest**: they claim before they act as the schedules do, with nothing
  afterwards to be told of it.
- **Components of one-request rows**: reactions, links, custom fields, saved views,
  templates, departments, where one transaction writes a few rows nothing else races for.
- **Reports, search, imports**: computations over what the others wrote.
- **Most of the front end**: forms, pages and generated API code. What is modelled of it is where
  the browser keeps state of its own against the server's.
- **The schema migrations, the HTTP layer, the exchange with sign-in providers, API tokens.**

## Plan

Done: `WebhookOutbox` over `DeliveryContract`, `ExpenseSettlement` over `Debt`, `PayrollRuns`,
`TicketBoard`, `LiveUpdates`, `BoardOrder`, `TicketFiles`, `TicketSchedules`, `CodeLinks`, `TimeLog`, `SignIn`.

1. The board's address, selection and bulk edit in the browser: what a selection names
   once the list under it was refetched.
2. `TeamMembers`: an admin remains; an invitation, a request and an open door lead to one
   membership; inviting many at once.
3. `PayHistory`: that the SQL and the Python reading of a pay history agree.
4. `RateLimit`: budgets, lockouts and forgetting beside a lock.

Theorems next: of `TicketBoard` and `PayrollRuns`, what survives when requests race (keys
name one ticket, an approved run stays), where now only their serial runs are proved.
