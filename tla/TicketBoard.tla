----------------------------- MODULE TicketBoard -----------------------------
(***************************************************************************)
(* The tickets of several teams: filed under the team's next number, moved *)
(* between columns and under a parent, transferred to another team with    *)
(* their sub-tickets, deleted into the trash, restored and purged.         *)
(* lib_softtrack's tickets.py, subtickets.py, wip.py, transfers.py and     *)
(* deleting.py.                                                            *)
(*                                                                         *)
(* As in ExpenseSettlement a request loads and checks in one step and      *)
(* commits in another.  The unique index on a team's numbers and the       *)
(* foreign key of parent_id are guards of the commit.                      *)
(*                                                                         *)
(* Every team has one column with a hard WIP limit and one without.  What  *)
(* a change announces is WebhookOutbox's.                                  *)
(***************************************************************************)
EXTENDS Naturals, FiniteSets

CONSTANTS
    Handlers,   \* requests the server works on at once
    Tickets,    \* ticket rows that may ever exist
    Teams,
    NoTicket,   \* a null parent_id
    NoTeam,     \* the team of a ticket that is no row
    MaxNumber,  \* bound: the numbers a team may hand out
    Limit,      \* wip_limit of every team's limited column
    CountSubs   \* wip_counts_subtickets

ASSUME BoardAssumption ==
    /\ NoTicket \notin Tickets /\ IsFiniteSet(Tickets)
    /\ MaxNumber \in Nat /\ Limit \in Nat /\ CountSubs \in BOOLEAN
    /\ NoTeam \notin Teams

Columns == {"limited", "unlimited"}

VARIABLES
    state,      \* live, trashed, and "unborn" and "gone" for no row
    team,       \* team_id
    number,     \* number
    parent,     \* parent_id
    column,     \* status_id
    next,       \* next_ticket_number of each team
    firstHolder,\* the ticket that first had a team's number
    request     \* what each handler has loaded and not committed

ticketVars == <<state, team, number, parent, column>>
vars == <<ticketVars, next, firstHolder, request>>

Numbers == 1..MaxNumber
Idle == [op |-> "none"]

Request ==
    {Idle}
    \cup [op : {"file"}, by : {"person", "schedule"}, ticket : Tickets, team : Teams,
          number : Numbers, parent : Tickets \cup {NoTicket}, column : Columns]
    \cup [op : {"update"}, ticket : Tickets,
          hadParent : Tickets \cup {NoTicket}, parent : Tickets \cup {NoTicket},
          hadColumn : Columns, column : Columns]
    \cup [op : {"move"}, tickets : SUBSET Tickets, hadColumns : [Tickets -> Columns],
          column : Columns]
    \cup [op : {"transfer"}, ticket : Tickets, team : Teams, family : SUBSET Tickets,
          hadParent : Tickets \cup {NoTicket}, first : Numbers,
          counter : 1..(MaxNumber + 1), numbers : [Tickets -> 0..MaxNumber], columns : [Tickets -> Columns]]
    \cup [op : {"trash", "purge"}, tickets : SUBSET Tickets]
    \cup [op : {"restore"}, ticket : Tickets,
          hadParent : Tickets \cup {NoTicket}, parent : Tickets \cup {NoTicket}]

\* Every ticket, counter and loaded request keeps its shape.
TypeOK ==
    /\ state \in [Tickets -> {"unborn", "live", "trashed", "gone"}]
    /\ team \in [Tickets -> Teams \cup {NoTeam}]
    /\ number \in [Tickets -> 0..MaxNumber]
    /\ parent \in [Tickets -> Tickets \cup {NoTicket}]
    /\ column \in [Tickets -> Columns]
    /\ next \in [Teams -> 1..(MaxNumber + 1)]
    /\ firstHolder \in [Teams -> [Numbers -> Tickets \cup {NoTicket}]]
    /\ request \in [Handlers -> Request]

Init ==
    /\ state = [t \in Tickets |-> "unborn"]
    /\ team = [t \in Tickets |-> NoTeam]
    /\ number = [t \in Tickets |-> 0]
    /\ parent = [t \in Tickets |-> NoTicket]
    /\ column = [t \in Tickets |-> "unlimited"]
    /\ next = [tm \in Teams |-> 1]
    /\ firstHolder = [tm \in Teams |-> [n \in Numbers |-> NoTicket]]
    /\ request = [q \in Handlers |-> Idle]

Exists(t) == state[t] \in {"live", "trashed"}

\* What a query sees: trash.py hides the rest.
Live == {t \in Tickets : state[t] = "live"}
Children(t) == {c \in Live : parent[c] = t}

\* SQLAlchemy's UPDATE leaves out a column whose value is the one loaded.
Put(loaded, new, current) == IF new = loaded THEN current ELSE new

(***************************************************************************)
(* The checks                                                              *)
(***************************************************************************)
\* validate_parent.
MayNest(t, tm, p) ==
    /\ p # t /\ p \in Live /\ team[p] = tm
    /\ parent[p] = NoTicket
    /\ Children(t) = {}

Counted(t) == CountSubs \/ parent[t] = NoTicket
Held(tm) == Cardinality({t \in Live : team[t] = tm /\ column[t] = "limited" /\ Counted(t)})

\* wip.room, for so many tickets that count.
Room(tm, col, coming) == col = "limited" /\ coming > 0 => Held(tm) + coming <= Limit
Coming(p) == IF CountSubs \/ p = NoTicket THEN 1 ELSE 0

(***************************************************************************)
(* Requests                                                                *)
(***************************************************************************)
Begin(q, loaded) ==
    /\ request[q] = Idle
    /\ request' = [request EXCEPT ![q] = loaded]
    /\ UNCHANGED <<ticketVars, next, firstHolder>>

Doing(q, op) == request[q].op = op
Done(q) == request' = [request EXCEPT ![q] = Idle]

\* The commit is refused, or the process dies first: nothing is written.
Fail(q) ==
    /\ request[q] # Idle
    /\ Done(q)
    /\ UNCHANGED <<ticketVars, next, firstHolder>>

\* ix_ticket_team_number.
Free(tm, n, movers) ==
    \A t \in Tickets \ movers : Exists(t) => team[t] # tm \/ number[t] # n

\* ticket.parent_id references a row.
Referable(p) == p # NoTicket => Exists(p)

\* What the history variable notes when t is given a number.
Hold(tm, given) ==
    firstHolder' = [firstHolder EXCEPT ![tm] =
        [n \in Numbers |->
            IF @[n] = NoTicket /\ \E t \in Tickets : given[t] = n
            THEN CHOOSE t \in Tickets : given[t] = n
            ELSE @[n]]]

(***************************************************************************)
(* Filing a ticket                                                         *)
(***************************************************************************)
BeginFileBy(q, by, t, tm, p, col) ==
    /\ state[t] = "unborn"
    /\ \A o \in Handlers : Doing(o, "file") => request[o].ticket # t
    /\ next[tm] \in Numbers
    /\ Begin(q, [op |-> "file", by |-> by, ticket |-> t, team |-> tm,
                 number |-> next[tm], parent |-> p, column |-> col])

BeginFile(q, t, tm, p, col) ==
    /\ p # NoTicket => MayNest(t, tm, p)
    /\ Room(tm, col, Coming(p))
    /\ BeginFileBy(q, "person", t, tm, p, col)

\* create_scheduled: at the top level, and no limit holds it back.
BeginSchedule(q, t, tm, col) == BeginFileBy(q, "schedule", t, tm, NoTicket, col)

File(q) ==
    LET r == request[q]
    IN  /\ Doing(q, "file")
        /\ Free(r.team, r.number, {})
        /\ Referable(r.parent)
        /\ state' = [state EXCEPT ![r.ticket] = "live"]
        /\ team' = [team EXCEPT ![r.ticket] = r.team]
        /\ number' = [number EXCEPT ![r.ticket] = r.number]
        /\ parent' = [parent EXCEPT ![r.ticket] = r.parent]
        /\ column' = [column EXCEPT ![r.ticket] = r.column]
        /\ next' = [next EXCEPT ![r.team] = r.number + 1]
        /\ Hold(r.team, [t \in Tickets |-> IF t = r.ticket THEN r.number ELSE 0])
        /\ Done(q)

(***************************************************************************)
(* Updating one                                                            *)
(***************************************************************************)
\* update_ticket, and move_ticket's change of column.  The parent left as it
\* is stands for one not sent.
BeginUpdate(q, t, p, col) ==
    /\ t \in Live
    /\ <<p, col>> # <<parent[t], column[t]>>
    /\ p \notin {NoTicket, parent[t]} => MayNest(t, team[t], p)
    /\ col # column[t] => Room(team[t], col, Coming(p))
    /\ Begin(q, [op |-> "update", ticket |-> t, hadParent |-> parent[t], parent |-> p,
                 hadColumn |-> column[t], column |-> col])

Update(q) ==
    LET r == request[q]
    IN  /\ Doing(q, "update")
        /\ Exists(r.ticket) /\ Referable(r.parent)
        /\ parent' = [parent EXCEPT ![r.ticket] = Put(r.hadParent, r.parent, @)]
        /\ column' = [column EXCEPT ![r.ticket] = Put(r.hadColumn, r.column, @)]
        /\ Done(q)
        /\ UNCHANGED <<state, team, number, next, firstHolder>>

\* bulk_update_tickets: of one team, all of them or none, each checked with
\* the ones before it moved.
BeginBulkMove(q, moved, col) ==
    /\ Cardinality(moved) > 1 /\ moved \subseteq Live
    /\ \A tm \in Teams : \A t \in moved : team[t] = tm =>
           /\ \A u \in moved : team[u] = tm
           /\ Room(tm, col, Cardinality({u \in moved : column[u] # col /\ Counted(u)}))
    /\ Begin(q, [op |-> "move", tickets |-> moved, hadColumns |-> column, column |-> col])

BulkMove(q) ==
    LET r == request[q]
    IN  /\ Doing(q, "move")
        /\ \A t \in r.tickets : Exists(t)
        /\ column' = [t \in Tickets |->
               IF t \in r.tickets THEN Put(r.hadColumns[t], r.column, column[t])
               ELSE column[t]]
        /\ Done(q)
        /\ UNCHANGED <<state, team, number, parent, next, firstHolder>>

(***************************************************************************)
(* Transferring a family to another team                                   *)
(***************************************************************************)
\* The ticket takes the next number, its sub-tickets the ones after it in the
\* order of their own.
Numbering(given, t, family, first) ==
    /\ given[t] = first
    /\ \A f \in Tickets \ family : given[f] = 0
    /\ \A f \in family \ {t} : given[f] \in (first + 1)..(first + Cardinality(family) - 1)
    /\ \A f, g \in family \ {t} : f # g => given[f] # given[g]
    /\ \A f, g \in family \ {t} : number[f] < number[g] => given[f] < given[g]

\* Mutant: the limit asked for the ticket alone.
ArrivingAlone(t, family) == IF column[t] = "limited" THEN 1 ELSE 0

\* Those bound for the limited column of their new team.
Arriving(t, family) ==
    Cardinality({f \in family : column[f] = "limited" /\ (CountSubs \/ f = t)})

BeginTransferOf(q, t, tm, family) ==
    /\ t \in Live /\ tm # team[t]
    /\ next[tm] + Cardinality(family) <= MaxNumber + 1
    /\ Room(tm, "limited", Arriving(t, family))
    /\ \E given \in [Tickets -> 0..MaxNumber] :
          /\ Numbering(given, t, family, next[tm])
          /\ Begin(q, [op |-> "transfer", ticket |-> t, team |-> tm, family |-> family,
                       hadParent |-> parent[t], first |-> next[tm],
                       counter |-> next[tm] + Cardinality(family),
                       numbers |-> given, columns |-> column])

\* Mutant: the sub-tickets left behind.
BeginTransferAlone(q, t, tm) == BeginTransferOf(q, t, tm, {t})

BeginTransfer(q, t, tm) == BeginTransferOf(q, t, tm, {t} \cup Children(t))

CarryOut(q, counter) ==
    LET r == request[q]
    IN  /\ Doing(q, "transfer")
        /\ \A f \in r.family : Exists(f) /\ Free(r.team, r.numbers[f], r.family)
        /\ team' = [t \in Tickets |-> IF t \in r.family THEN r.team ELSE team[t]]
        /\ number' = [t \in Tickets |-> IF t \in r.family THEN r.numbers[t] ELSE number[t]]
        /\ column' = [t \in Tickets |-> IF t \in r.family THEN r.columns[t] ELSE column[t]]
        /\ parent' = [parent EXCEPT ![r.ticket] =
               IF r.hadParent \in r.family THEN @ ELSE Put(r.hadParent, NoTicket, @)]
        /\ next' = [next EXCEPT ![r.team] = counter]
        /\ Hold(r.team, r.numbers)
        /\ Done(q)
        /\ UNCHANGED state

\* Mutant: one number taken for the whole family.
TransferOneNumber(q) == Doing(q, "transfer") /\ CarryOut(q, request[q].first + 1)

Transfer(q) == Doing(q, "transfer") /\ CarryOut(q, request[q].counter)

(***************************************************************************)
(* The trash                                                               *)
(***************************************************************************)
BeginTrash(q, gone) ==
    /\ gone # {} /\ gone \subseteq Live
    /\ \A t, u \in gone : team[t] = team[u]
    /\ Begin(q, [op |-> "trash", tickets |-> gone])

Trash(q) ==
    LET r == request[q]
    IN  /\ Doing(q, "trash")
        /\ \A t \in r.tickets : Exists(t)
        /\ state' = [t \in Tickets |-> IF t \in r.tickets THEN "trashed" ELSE state[t]]
        /\ Done(q)
        /\ UNCHANGED <<team, number, parent, column, next, firstHolder>>

BeginRestoreTo(q, t, p) ==
    /\ state[t] = "trashed"
    /\ Begin(q, [op |-> "restore", ticket |-> t, hadParent |-> parent[t], parent |-> p])

\* A parent purged, or by now on another team, is let go of.
BeginRestore(q, t) ==
    LET p == parent[t]
    IN  BeginRestoreTo(q, t,
            IF p # NoTicket /\ Exists(p) /\ team[p] = team[t] THEN p ELSE NoTicket)

Restore(q) ==
    LET r == request[q]
    IN  /\ Doing(q, "restore")
        /\ Exists(r.ticket)
        /\ state' = [state EXCEPT ![r.ticket] = "live"]
        /\ parent' = [parent EXCEPT ![r.ticket] = Put(r.hadParent, r.parent, @)]
        /\ Done(q)
        /\ UNCHANGED <<team, number, column, next, firstHolder>>

\* purge_ticket, and purge_expired with whatever has been there long enough.
BeginPurge(q, gone) ==
    /\ gone # {} /\ \A t \in gone : state[t] = "trashed"
    /\ Begin(q, [op |-> "purge", tickets |-> gone])

Without(col, gone, null) == [t \in Tickets |-> IF t \in gone THEN null ELSE col[t]]

\* _delete_rows, by id: a ticket restored meanwhile goes too.  Sub-tickets,
\* trashed ones among them, are let go of.
Purge(q) ==
    LET r == request[q]
    IN  /\ Doing(q, "purge")
        /\ state' = Without(state, r.tickets, "gone")
        /\ team' = Without(team, r.tickets, NoTeam)
        /\ number' = Without(number, r.tickets, 0)
        /\ column' = Without(column, r.tickets, "unlimited")
        /\ parent' = [t \in Tickets |->
               IF t \in r.tickets \/ parent[t] \in r.tickets THEN NoTicket ELSE parent[t]]
        /\ Done(q)
        /\ UNCHANGED <<next, firstHolder>>

(***************************************************************************)
(* The specification                                                       *)
(***************************************************************************)
Board(q, t) ==
    \/ \E p \in Tickets \cup {NoTicket}, col \in Columns :
          \/ BeginUpdate(q, t, p, col)
          \/ \E tm \in Teams : BeginFile(q, t, tm, p, col)
    \/ \E tm \in Teams : \/ BeginTransfer(q, t, tm)
                         \/ \E col \in Columns : BeginSchedule(q, t, tm, col)
    \/ BeginRestore(q, t)

Commit(q) ==
    \/ File(q) \/ Update(q) \/ BulkMove(q) \/ Transfer(q)
    \/ Trash(q) \/ Restore(q) \/ Purge(q)

Next ==
    \E q \in Handlers :
        \/ \E t \in Tickets : Board(q, t)
        \/ \E set \in SUBSET Tickets :
              \/ BeginTrash(q, set) \/ BeginPurge(q, set)
              \/ \E col \in Columns : BeginBulkMove(q, set, col)
        \/ Commit(q)
        \/ Fail(q)

Spec == Init /\ [][Next]_vars

(***************************************************************************)
(* Properties                                                              *)
(***************************************************************************)
\* "The old key is not reused": a team's number names one ticket for ever,
\* the ones since transferred and purged included.
KeysNameOneTicket ==
    \A t \in Tickets : Exists(t) => firstHolder[team[t]][number[t]] = t

\* The counter never points at a number in use: the unique index would refuse
\* every filing on the team from then on, and the counter never move again.
CanFile == \A tm \in Teams : Free(tm, next[tm], {})

\* Together, and every row with its type: a team's numbers are given once each
\* and in order, through transfers, the trash and purges.
NumbersSafe == TypeOK /\ KeysNameOneTicket /\ CanFile

\* "A parent may not have a parent, and a child may not have children."
OneLevel == \A t \in Live : Children(t) # {} => parent[t] = NoTicket

\* "A sub-ticket must be on the same team as its parent."
OneTeam == \A t \in Live : parent[t] # NoTicket => team[parent[t]] = team[t]

\* A ticket comes back from the trash.
Restored == \E t \in Tickets : state[t] = "trashed" /\ state'[t] = "live"

\* Every step but a restore keeps families one level deep and on one team,
\* through transfers with trashed sub-tickets left behind.
FamiliesKept == [][OneLevel /\ OneTeam => (OneLevel /\ OneTeam)' \/ Restored]_vars

\* While families are one level deep, a restored sub-ticket is never left
\* under a parent that moved away.
RestoredAtHome == [][OneLevel /\ OneTeam /\ Restored => OneTeam']_vars

\* Together: how a family that is whole can come apart, and how it cannot.
FamiliesHold == FamiliesKept /\ RestoredAtHome

\* A schedule, which a limit does not hold up, files its ticket.
Scheduled == \E q \in Handlers : Doing(q, "file") /\ request[q].by = "schedule"

\* Where sub-tickets count, a full column takes nothing more, however it comes:
\* only a restore or a schedule takes one further over its limit.
LimitKept ==
    [][\A tm \in Teams : Held(tm)' > Limit =>
          Held(tm)' <= Held(tm) \/ Restored \/ Scheduled \/ ~CountSubs]_vars
=============================================================================
