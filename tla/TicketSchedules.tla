-------------------------- MODULE TicketSchedules --------------------------
(***************************************************************************)
(* Recurring tickets: one schedule, and the sweeps that create its tickets *)
(* -- a loop in every API process, safe to run in several, which claims an *)
(* occurrence by inserting its run before it creates the ticket.           *)
(*                                                                         *)
(* The calendar is data: a form names the days it occurs on. Each day of   *)
(* the clock has two halves, before and after REMINDER_HOUR. Two variables *)
(* are not in the code: `quirks` notes what the promises below except, a   *)
(* form edited, and sweeps that overlap those of another morning or a      *)
(* change of the schedule; `backOn` is the day it was last switched on.    *)
(***************************************************************************)
EXTENDS Integers, Sequences, FiniteSets

CONSTANTS Workers,     \* processes running the loop
          LastDay,     \* bound: the clock stops after this day
          Forms,       \* what the settings page may save: [occurs, waits]
          MaxEdits,    \* bound: changes by people, to schedule and tickets
          MaxMishaps   \* bound: sweeps that fail or crash half-way

ASSUME SchedulesAssumption ==
    /\ LastDay \in Nat /\ MaxEdits \in Nat /\ MaxMishaps \in Nat
    /\ Forms \subseteq [occurs : SUBSET (0..LastDay), waits : BOOLEAN]

VARIABLES
    clock,    \* half days
    schedule, \* its row: form, active_since, paused_at
    archived, \* Team.archived_at is set
    claimed,  \* ScheduleRun: the day whose sweep claimed an occurrence
    ticketOf,     \* ScheduleRun.ticket_id
    tickets,  \* the tickets it made, in the order they were made
    sweep,    \* what each worker's sweep has read
    quirks, backOn,
    edits, mishaps

schedVars == <<clock, schedule, archived, claimed, ticketOf, tickets, sweep, quirks, backOn,
              edits, mishaps>>

Days     == 0..LastDay
NoRun    == -1
NoTicket == 0
Rows     == [form : Forms, since : Days, state : {"on", "paused", "deleted"}]
Asleep   == [at |-> "asleep", day |-> 0, row |-> <<>>, occurrence |-> 0, ticket |-> NoTicket]

Today == clock \div 2

(* reminder_day: today once it is past the hour, yesterday before that.    *)
DueDay == IF clock % 2 = 0 THEN Today - 1 ELSE Today

SchedInit ==
    /\ clock = 0
    /\ schedule \in [form : Forms, since : {0}, state : {"on"}] /\ archived = FALSE
    /\ claimed = [d \in Days |-> NoRun] /\ ticketOf = [d \in Days |-> NoTicket]
    /\ tickets = <<>>
    /\ sweep = [w \in Workers |-> Asleep]
    /\ quirks = {} /\ backOn = 0 /\ edits = 0 /\ mishaps = 0

-----------------------------------------------------------------------------
(* When. *)

Runs == {d \in Days : claimed[d] # NoRun}

(* Mutant: only the day itself is looked at, not those the loop was down. *)
OwedToday(row, day) ==
    {d \in row.form.occurs : row.since <= d /\ d = day /\ \A r \in Runs : r < d}

(* The days an occurrence not made yet could be due on, by day `day`.      *)
Owed(row, day) ==
    {d \in row.form.occurs : row.since <= d /\ d <= day /\ \A r \in Runs : r < d}

(* due_occurrence: the latest of them.                                     *)
Latest(S) == CHOOSE d \in S : \A e \in S : e <= d

(* _previous_ticket: of the runs with a ticket not in the trash, the last. *)
OnTheBoard(i) == i # NoTicket /\ tickets[i].place = "board"
Linked == {d \in Days : OnTheBoard(ticketOf[d])}

(* _waiting_on: it is open.                                                *)
WaitingOn(row) ==
    row.form.waits /\ Linked # {} /\ tickets[ticketOf[Latest(Linked)]].open

-----------------------------------------------------------------------------
(* The sweep. *)

To(w, s) == sweep' = [sweep EXCEPT ![w] = s]

(* create_scheduled_tickets: the schedules that are not paused, of teams   *)
(* that are not archived.                                                  *)
BeginSweep(w) ==
    /\ sweep[w].at = "asleep" /\ schedule.state = "on" /\ ~archived
    /\ To(w, [Asleep EXCEPT !.at = "read", !.day = DueDay, !.row = schedule])
    /\ quirks' = IF \E v \in Workers : sweep[v].at # "asleep" /\ sweep[v].day # DueDay
                 THEN quirks \cup {"overlap"} ELSE quirks
    /\ UNCHANGED <<clock, schedule, archived, claimed, ticketOf, tickets, backOn, edits, mishaps>>

(* _run_one asks for the occurrence that is due. The row is as the sweep   *)
(* loaded it, or as it is now: a commit in between expires it.             *)
AskDue(w) ==
    /\ sweep[w].at = "read"
    /\ \E row \in {sweep[w].row, schedule} :
          LET owed == Owed(row, sweep[w].day)
          IN  To(w, IF owed = {} \/ row.state = "deleted" THEN Asleep
                    ELSE [sweep[w] EXCEPT !.at = "due", !.row = row,
                                          !.occurrence = Latest(owed)])
    /\ UNCHANGED <<clock, schedule, archived, claimed, ticketOf, tickets, quirks, backOn, edits, mishaps>>

(* ... and whether it waits for the ticket before.                         *)
AskPrevious(w) ==
    /\ sweep[w].at = "due"
    /\ To(w, IF WaitingOn(sweep[w].row) THEN Asleep ELSE [sweep[w] EXCEPT !.at = "free"])
    /\ UNCHANGED <<clock, schedule, archived, claimed, ticketOf, tickets, quirks, backOn, edits, mishaps>>

(* Mutant: the claim overwrites the one that is there. *)
ClaimAnyway(w) ==
    LET d == sweep[w].occurrence
    IN  /\ sweep[w].at = "free" /\ schedule.state # "deleted"
        /\ claimed' = [claimed EXCEPT ![d] = sweep[w].day]
        /\ To(w, [sweep[w] EXCEPT !.at = "claimed"])
        /\ UNCHANGED <<clock, schedule, archived, ticketOf, tickets, quirks, backOn, edits, mishaps>>

(* The claim, ON CONFLICT DO NOTHING, and its commit. A schedule deleted   *)
(* meanwhile refuses it.                                                   *)
Claim(w) ==
    LET d    == sweep[w].occurrence
        free == d \notin Runs /\ schedule.state # "deleted"
    IN  /\ sweep[w].at = "free"
        /\ claimed' = IF free THEN [claimed EXCEPT ![d] = sweep[w].day] ELSE claimed
        /\ To(w, IF free THEN [sweep[w] EXCEPT !.at = "claimed"] ELSE Asleep)
        /\ UNCHANGED <<clock, schedule, archived, ticketOf, tickets, quirks, backOn, edits, mishaps>>

(* create_scheduled: the ticket is committed first, on its own.            *)
CreateScheduled(w) ==
    /\ sweep[w].at = "claimed"
    /\ IF schedule.state = "deleted"
       THEN To(w, Asleep) /\ UNCHANGED tickets
       ELSE /\ tickets' = Append(tickets,
                [of |-> sweep[w].occurrence, open |-> TRUE, place |-> "board", back |-> FALSE])
            /\ To(w, [sweep[w] EXCEPT !.at = "created", !.ticket = Len(tickets) + 1])
    /\ UNCHANGED <<clock, schedule, archived, claimed, ticketOf, quirks, backOn, edits, mishaps>>

(* Its announcement, and then the run is told which ticket it made. Either *)
(* row can have gone.                                                      *)
LinkRun(w) ==
    LET d == sweep[w].occurrence
        i == sweep[w].ticket
    IN  /\ sweep[w].at = "created"
        /\ ticketOf' = IF d \in Runs /\ tickets[i].place # "gone" THEN [ticketOf EXCEPT ![d] = i] ELSE ticketOf
        /\ To(w, Asleep)
        /\ UNCHANGED <<clock, schedule, archived, claimed, tickets, quirks, backOn, edits, mishaps>>

(* An exception, rolled back and logged, or the process goes down.         *)
FailSweep(w) ==
    /\ sweep[w].at # "asleep" /\ mishaps < MaxMishaps
    /\ To(w, Asleep)
    /\ mishaps' = mishaps + 1
    /\ UNCHANGED <<clock, schedule, archived, claimed, ticketOf, tickets, quirks, backOn, edits>>

-----------------------------------------------------------------------------
(* Time and people. *)

Tick ==
    /\ clock < 2 * LastDay + 1
    /\ clock' = clock + 1
    /\ UNCHANGED <<schedule, archived, claimed, ticketOf, tickets, sweep, quirks, backOn, edits, mishaps>>

Done   == edits < MaxEdits /\ edits' = edits + 1

(* An archived team takes no change of its schedules and tickets.          *)
Edited == ~archived /\ Done

(* A team is archived, or put back.                                        *)
ArchiveTeam ==
    /\ Done /\ archived' = ~archived
    /\ UNCHANGED <<clock, schedule, claimed, ticketOf, tickets, sweep, quirks, backOn, mishaps>>

Midway == IF \E w \in Workers : sweep[w].at # "asleep" THEN {"overlap"} ELSE {}

Pause ==
    /\ Edited /\ schedule.state = "on"
    /\ schedule' = [schedule EXCEPT !.state = "paused"]
    /\ UNCHANGED <<clock, archived, claimed, ticketOf, tickets, sweep, quirks, backOn, mishaps>>

(* Mutant: a schedule comes back from where it was. *)
ResumeAsItWas ==
    /\ Edited /\ schedule.state = "paused"
    /\ schedule' = [schedule EXCEPT !.state = "on"]
    /\ backOn' = Today /\ quirks' = quirks \cup Midway
    /\ UNCHANGED <<clock, archived, claimed, ticketOf, tickets, sweep, mishaps>>

(* Back from today, not from the day it was paused.                        *)
Resume ==
    /\ Edited /\ schedule.state = "paused"
    /\ schedule' = [schedule EXCEPT !.state = "on",
                                    !.since = IF @ < Today THEN Today ELSE @]
    /\ backOn' = Today /\ quirks' = quirks \cup Midway
    /\ UNCHANGED <<clock, archived, claimed, ticketOf, tickets, sweep, mishaps>>

SaveForm(f) ==
    /\ Edited /\ schedule.state # "deleted" /\ f # schedule.form
    /\ schedule' = [schedule EXCEPT !.form = f]
    /\ quirks' = quirks \cup {"edit"} \cup Midway
    /\ UNCHANGED <<clock, archived, claimed, ticketOf, tickets, sweep, backOn, mishaps>>

(* The claims go with the schedule; the tickets stay.                      *)
DeleteSchedule ==
    /\ Edited /\ schedule.state # "deleted"
    /\ schedule' = [schedule EXCEPT !.state = "deleted"]
    /\ claimed' = [d \in Days |-> NoRun] /\ ticketOf' = [d \in Days |-> NoTicket]
    /\ UNCHANGED <<clock, archived, tickets, sweep, quirks, backOn, mishaps>>

(* A ticket is finished, reopened, put in the trash, taken out of it.      *)
Work(i) ==
    /\ Edited /\ tickets[i].place # "gone"
    /\ \/ /\ tickets[i].place = "board"
          /\ tickets' = [tickets EXCEPT ![i].open = ~@, ![i].back = @ \/ ~tickets[i].open]
       \/ /\ tickets[i].place = "board"
          /\ tickets' = [tickets EXCEPT ![i].place = "trash"]
       \/ /\ tickets[i].place = "trash"
          /\ tickets' = [tickets EXCEPT ![i].place = "board", ![i].back = TRUE]
    /\ UNCHANGED <<clock, schedule, archived, claimed, ticketOf, sweep, quirks, backOn, mishaps>>

(* A ticket is purged, by somebody or, archived team or not, by the trash  *)
(* loop: the claim stays, without it.                                      *)
PurgeOne(i) ==
    /\ Done /\ tickets[i].place = "trash"
    /\ tickets' = [tickets EXCEPT ![i].place = "gone"]
    /\ ticketOf' = [d \in Days |-> IF ticketOf[d] = i THEN NoTicket ELSE ticketOf[d]]
    /\ UNCHANGED <<clock, schedule, archived, claimed, sweep, quirks, backOn, mishaps>>

-----------------------------------------------------------------------------
SweepStep(w) == \/ BeginSweep(w) \/ AskDue(w) \/ AskPrevious(w) \/ Claim(w)
                \/ CreateScheduled(w) \/ LinkRun(w)

SchedNext ==
    \/ \E w \in Workers : SweepStep(w) \/ FailSweep(w)
    \/ Tick \/ ArchiveTeam \/ Pause \/ Resume \/ DeleteSchedule
    \/ \E f \in Forms : SaveForm(f)
    \/ \E i \in DOMAIN tickets : Work(i) \/ PurgeOne(i)

(* Every loop goes on; days pass, but nobody has to do anything.           *)
SchedFairness == \A w \in Workers : WF_schedVars(SweepStep(w))

SchedSpec == SchedInit /\ [][SchedNext]_schedVars /\ SchedFairness

-----------------------------------------------------------------------------
SchedTypeOK ==
    /\ clock \in 0..(2 * LastDay + 1) /\ schedule \in Rows /\ backOn \in Days
    /\ archived \in BOOLEAN /\ claimed \in [Days -> Days \cup {NoRun}]
    /\ tickets \in Seq([of : Days, open : BOOLEAN, place : {"board", "trash", "gone"},
                        back : BOOLEAN])
    /\ ticketOf \in [Days -> DOMAIN tickets \cup {NoTicket}]
    /\ \A w \in Workers : \/ sweep[w] = Asleep
                          \/ /\ sweep[w].at \in {"read", "due", "free", "claimed", "created"}
                             /\ sweep[w].row \in Rows /\ sweep[w].day \in Days \cup {-1}
                             /\ sweep[w].occurrence \in Days
                             /\ sweep[w].ticket \in DOMAIN tickets \cup {NoTicket}

(* "Each occurrence once": whatever workers, crashes, pauses and purges do *)
(* to it, no two tickets are for the same day. (schedules.py)              *)
OncePerOccurrence ==
    \A i, j \in DOMAIN tickets : tickets[i].of = tickets[j].of => i = j

(* "One ticket for a gap, not one per missed day": of two occurrences made *)
(* from one form, the later was not due yet when the earlier was claimed.  *)
(* (schedules.py)                                                          *)
OneTicketForAGap ==
    "edit" \notin quirks =>
        \A d, e \in Runs : d < e => claimed[d] < e

(* "The point of waiting for the previous one is that two open copies      *)
(* would be": of two tickets on the board, both open, the earlier was      *)
(* reopened or restored, or its run was never told of it, or sweeps of two *)
(* mornings met. (schedules.py)                                            *)
WaitsForPrevious ==
    quirks = {} /\ schedule.form.waits /\ schedule.state # "deleted" =>
        \A i, j \in DOMAIN tickets :
            /\ i < j /\ OnTheBoard(i) /\ OnTheBoard(j) /\ tickets[i].open /\ tickets[j].open
            => tickets[i].back \/ \A d \in Days : ticketOf[d] # i

(* However often the sweeps fail, meet or come late, no day gets two       *)
(* tickets and no gap more than one, nor a schedule that waits two open    *)
(* copies. (schedules.py)                                                  *)
SchedulesSafe == SchedTypeOK /\ OncePerOccurrence /\ OneTicketForAGap /\ WaitsForPrevious

(* "A schedule that was off for a month does not owe the month a ticket":  *)
(* no step claims a day before the one it was last switched on, unless the *)
(* switch met a sweep half-way. (schedules.py)                             *)
OwesNothingForThePause ==
    [][\A d \in Days :
          claimed[d] = NoRun /\ claimed'[d] # NoRun /\ "overlap" \notin quirks
              => backOn <= d]_schedVars

(* Is there a day whose ticket is due, with none made for it or a later?   *)
Overdue ==
    /\ schedule.state = "on" /\ ~archived
    /\ \E d \in schedule.form.occurs :
          schedule.since <= d /\ d <= DueDay /\ \A r \in Runs : r < d

(* What is due gets its ticket, or one for a later day does, unless the    *)
(* schedule is switched off or waits or its team is archived: a sweep that *)
(* failed before its claim is made up for by the next, and so is what came *)
(* due while the team was archived. (schedules.py)                         *)
DueIsClaimed == Overdue ~> (~Overdue \/ WaitingOn(schedule))

=============================================================================
