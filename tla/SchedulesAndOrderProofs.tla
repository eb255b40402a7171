------------------------ MODULE SchedulesAndOrderProofs ------------------------
(***************************************************************************)
(* Proofs about two components that share nothing. TicketSchedules, for    *)
(* any number of workers and days and any forms, however sweeps fail,      *)
(* crash and meet: an occurrence gets one ticket, a gap one, a schedule    *)
(* that waits no two open copies, and a pause is not owed for. BoardOrder, *)
(* for any cards, users, filters and ranks to begin with: a card lands     *)
(* where it was dropped, no other changes places, what is on screen is     *)
(* what the server orders, and no drop is refused for want of a key.       *)
(***************************************************************************)
EXTENDS TicketSchedules, BoardOrder, SequenceTheorems, FiniteSetTheorems,
        WellFoundedInduction, TLAPS

-----------------------------------------------------------------------------
(* TicketSchedules. *)

Ticket == [of : Days, open : BOOLEAN, place : {"board", "trash", "gone"}, back : BOOLEAN]
Sweep == [at : {"asleep", "read", "due", "free", "claimed", "created"},
          day : Days \cup {-1}, row : Rows \cup {<<>>}, occurrence : Days, ticket : Nat]

Active(w) == sweep[w].at # "asleep"
Dated(w) == sweep[w].at \in {"due", "free", "claimed", "created"}
Making(w) == sweep[w].at \in {"claimed", "created"}
Deleted == schedule.state = "deleted"

\* SchedTypeOK, in the shape the provers need.
TypesInv ==
    /\ clock \in 0..(2 * LastDay + 1) /\ schedule \in Rows /\ backOn \in Days
    /\ archived \in BOOLEAN /\ claimed \in [Days -> Days \cup {NoRun}]
    /\ ticketOf \in [Days -> Nat] /\ \A d \in Days : ticketOf[d] <= Len(tickets)
    /\ tickets \in Seq(Ticket)
    /\ sweep \in [Workers -> Sweep]
    /\ \A w \in Workers :
          /\ ~Active(w) => sweep[w] = Asleep
          /\ Active(w) => sweep[w].row \in Rows
          /\ sweep[w].ticket <= Len(tickets)

\* A worker at work began on a morning there has been, and claims are of days
\* past.
ClockInv ==
    /\ \A w \in Workers : Active(w) => sweep[w].day <= DueDay
    /\ \A w \in Workers : Dated(w) => sweep[w].occurrence <= sweep[w].day
    /\ \A d \in Runs : d <= claimed[d] /\ claimed[d] <= DueDay

\* A ticket is of an occurrence claimed, and one worker is making it.
OnceInv ==
    /\ OncePerOccurrence
    /\ ~Deleted =>
          /\ \A i \in DOMAIN tickets : tickets[i].of \in Runs
          /\ \A w \in Workers : Making(w) => sweep[w].occurrence \in Runs
          /\ \A w \in Workers : sweep[w].at = "claimed" =>
                \A i \in DOMAIN tickets : tickets[i].of # sweep[w].occurrence
          /\ \A v, w \in Workers :
                /\ sweep[v].at = "claimed" /\ sweep[w].at = "claimed"
                /\ sweep[v].occurrence = sweep[w].occurrence
                => v = w

\* While the form is what it was, no occurrence lies between one that is found or
\* claimed and the morning it was.
GapInv ==
    "edit" \notin quirks =>
        /\ \A w \in Workers : Active(w) => sweep[w].row.form = schedule.form
        /\ \A w \in Workers : Dated(w) =>
              /\ sweep[w].occurrence \in schedule.form.occurs
              /\ \A e \in schedule.form.occurs :
                    e > sweep[w].occurrence => sweep[w].day < e
        /\ \A d \in Runs :
              /\ d \in schedule.form.occurs
              /\ \A e \in schedule.form.occurs : e > d => claimed[d] < e

\* A worker works from a row switched on no earlier than the schedule was.
PauseInv ==
    /\ backOn <= schedule.since
    /\ "overlap" \notin quirks =>
          /\ \A w \in Workers : Active(w) => backOn <= sweep[w].row.since
          /\ \A w \in Workers : Dated(w) => backOn <= sweep[w].occurrence

IsLinked(i) == \E d \in Days : ticketOf[d] = i

\* Open though another is asked for, and not because somebody brought it back.
InTheWay(i) == OnTheBoard(i) /\ tickets[i].open /\ ~tickets[i].back /\ IsLinked(i)

Waits == quirks = {} /\ schedule.form.waits /\ ~Deleted

\* Sweeps under way are of one morning, the last that claimed anything.
OneMorning ==
    /\ \A v, w \in Workers : Active(v) /\ Active(w) => sweep[v].day = sweep[w].day
    /\ \A w \in Workers : Active(w) => \A d \in Runs : claimed[d] <= sweep[w].day

\* Tickets are made in the order of their days, each linked to its own.
MadeInOrder ==
    /\ \A i, j \in DOMAIN tickets : i < j => tickets[i].of < tickets[j].of
    /\ \A d \in Days : ticketOf[d] # NoTicket => tickets[ticketOf[d]].of = d
    /\ \A w \in Workers : sweep[w].at = "claimed" =>
          \A i \in DOMAIN tickets : tickets[i].of < sweep[w].occurrence
    /\ \A w \in Workers : sweep[w].at = "created" =>
          /\ sweep[w].ticket = Len(tickets) /\ sweep[w].ticket # NoTicket
          /\ tickets[sweep[w].ticket].of = sweep[w].occurrence

\* One ticket is made at a time, when none is in the way.
MadeWhenClear ==
    /\ \A v, w \in Workers : Making(v) /\ Making(w) => v = w
    /\ \A i, j \in DOMAIN tickets : i < j => ~InTheWay(i)
    /\ \A w \in Workers :
          \/ sweep[w].at = "free" /\ sweep[w].occurrence \notin Runs
          \/ sweep[w].at = "claimed"
          => \A i \in DOMAIN tickets : ~InTheWay(i)

WaitInv == Waits => OneMorning /\ MadeInOrder /\ MadeWhenClear

SchedInv == TypesInv /\ ClockInv /\ OnceInv /\ GapInv /\ PauseInv /\ WaitInv

(***************************************************************************)
(* Days, sequences, and what a step does to one worker.                    *)
(***************************************************************************)
\* A set of days has a latest.
LEMMA LatestOfSome ==
    ASSUME NEW S \in SUBSET Days, S # {}
    PROVE  Latest(S) \in S /\ \A e \in S : e <= Latest(S)
  <1> DEFINE left == {LastDay - d : d \in S}
             less == {ss \in Nat \X Nat : ss[1] < ss[2]}
  <1>1. left \in SUBSET Nat /\ left # {}
    <2>1. \A d \in S : LastDay - d \in Nat
      BY SchedulesAssumption DEF Days
    <2>2. PICK d \in S : TRUE
      OBVIOUS
    <2>3. LastDay - d \in left
      OBVIOUS
    <2> QED
      BY <2>1, <2>3
  <1>2. IsWellFoundedOn(less, Nat)
    BY NatLessThanWellFounded DEF OpToRel
  <1>3. \E x \in left : \A y \in left : ~ (<<y, x>> \in less)
    <2> HIDE DEF left, less
    <2> QED
      BY <1>1, <1>2, WFMin
  <1>4. PICK x \in left : \A y \in left : ~ (y < x)
    BY <1>1, <1>3
  <1>5. PICK d \in S : x = LastDay - d
    BY <1>4
  <1>6. \A e \in S : e <= d
    <2> SUFFICES ASSUME NEW e \in S PROVE e <= d
      OBVIOUS
    <2>1. ~ (LastDay - e < LastDay - d)
      BY <1>4, <1>5
    <2> QED
      BY <2>1, SchedulesAssumption DEF Days
  <1> QED
    BY <1>5, <1>6 DEF Latest

\* Days are numbers, and the clock shows one of them.
LEMMA ClockDays ==
    ASSUME clock \in 0..(2 * LastDay + 1)
    PROVE  /\ Today \in Days /\ DueDay \in Days \cup {-1}
           /\ DueDay <= Today /\ Today <= DueDay + 1
  BY SchedulesAssumption DEF Today, DueDay, Days

\* The clock moves on, or stays.
LEMMA ClockMoves ==
    ASSUME clock \in 0..(2 * LastDay + 1), clock' \in {clock, clock + 1}
    PROVE  /\ DueDay <= DueDay' /\ Today <= Today'
           /\ DueDay \in Int /\ DueDay' \in Int
  <1>1. clock \in Nat
    BY SchedulesAssumption
  <1>2. CASE clock' = clock
    BY <1>1, <1>2 DEF Today, DueDay
  <1>3. CASE clock' = clock + 1
    <2>1. /\ (clock + 1) \div 2 \in Int /\ clock \div 2 \in Int
          /\ clock \div 2 <= (clock + 1) \div 2
          /\ clock % 2 # 0 => (clock + 1) \div 2 = clock \div 2 + 1
      BY <1>1
    <2> QED
      BY <1>3, <2>1 DEF Today, DueDay
  <1> QED
    BY <1>2, <1>3

\* A ticket appended is the last, and those before it stay.
LEMMA Appended ==
    ASSUME NEW S, NEW s \in Seq(S), NEW x \in S
    PROVE  /\ Append(s, x) \in Seq(S) /\ Len(Append(s, x)) = Len(s) + 1
           /\ DOMAIN Append(s, x) = DOMAIN s \cup {Len(s) + 1}
           /\ \A i \in DOMAIN s : Append(s, x)[i] = s[i]
           /\ Append(s, x)[Len(s) + 1] = x
  <1>1. /\ Append(s, x) \in Seq(S) /\ Len(Append(s, x)) = Len(s) + 1
        /\ \A i \in 1..Len(s) : Append(s, x)[i] = s[i]
        /\ Append(s, x)[Len(s) + 1] = x
    BY AppendProperties
  <1>2. DOMAIN s = 1..Len(s) /\ Len(s) \in Nat /\ DOMAIN Append(s, x) = 1..(Len(s) + 1)
    BY <1>1, LenProperties
  <1> QED
    BY <1>1, <1>2

\* A ticket changed stays in its place.
LEMMA Changed ==
    ASSUME NEW S, NEW s \in Seq(S), NEW i \in DOMAIN s, NEW x \in S
    PROVE  /\ [s EXCEPT ![i] = x] \in Seq(S) /\ Len([s EXCEPT ![i] = x]) = Len(s)
           /\ DOMAIN [s EXCEPT ![i] = x] = DOMAIN s
           /\ [s EXCEPT ![i] = x][i] = x
           /\ \A j \in DOMAIN s : j # i => [s EXCEPT ![i] = x][j] = s[j]
  BY ExceptSeq, LenProperties

\* The tickets there are are numbered from one.
LEMMA Numbered ==
    ASSUME TypesInv
    PROVE  /\ DOMAIN tickets = 1..Len(tickets) /\ Len(tickets) \in Nat
           /\ \A i \in DOMAIN tickets : tickets[i] \in Ticket
  BY LenProperties, ElementOfSeq DEF TypesInv

\* A step of a worker changes what that worker has read, and no other.
LEMMA Steps ==
    ASSUME TypesInv, NEW w \in Workers, NEW s, To(w, s)
    PROVE  sweep'[w] = s /\ \A v \in Workers \ {w} : sweep'[v] = sweep[v]
  BY DEF TypesInv, To

\* Something is owed only on a day, in order, and nothing later is.
LEMMA OwedDays ==
    ASSUME TypesInv, NEW row \in Rows, NEW day \in Days \cup {-1}, Owed(row, day) # {}
    PROVE  LET d == Latest(Owed(row, day))
           IN  /\ d \in Days /\ d \in row.form.occurs /\ row.since <= d /\ d <= day
               /\ \A r \in Runs : r < d
               /\ \A e \in row.form.occurs : e > d => day < e
  <1> DEFINE d == Latest(Owed(row, day))
  <1>1. row.form.occurs \in SUBSET Days /\ row.since \in Days
    BY SchedulesAssumption DEF Rows, Days
  <1>2. Owed(row, day) \in SUBSET Days
    BY <1>1 DEF Owed
  <1>3. d \in Owed(row, day) /\ \A e \in Owed(row, day) : e <= d
    BY <1>2, LatestOfSome
  <1> HIDE DEF d
  <1>4. /\ d \in Days /\ d \in row.form.occurs /\ row.since <= d /\ d <= day
        /\ \A r \in Runs : r < d
    BY <1>2, <1>3 DEF Owed
  <1>5. ASSUME NEW e \in row.form.occurs, e > d PROVE day < e
    <2>1. e \in Int /\ d \in Int /\ day \in Int /\ row.since \in Int
      BY <1>1, <1>4, SchedulesAssumption DEF Days
    <2>2. e \notin Owed(row, day)
      BY <1>3, <1>5, <2>1
    <2>3. \A r \in Runs : r < e
      BY <1>4, <1>5, <2>1, SchedulesAssumption DEF Runs, Days
    <2> QED
      BY <1>4, <1>5, <2>1, <2>2, <2>3 DEF Owed
  <1> QED
    BY <1>4, <1>5 DEF d

(***************************************************************************)
(* Types.                                                                  *)
(***************************************************************************)
\* A worker's sweep, in any of its steps, is a sweep.
LEMMA SweepTypes ==
    ASSUME TypesInv, NEW w \in Workers, NEW s \in Sweep, To(w, s), tickets' = tickets,
           s.at = "asleep" => s = Asleep,
           s.at # "asleep" => s.row \in Rows,
           s.ticket <= Len(tickets)
    PROVE  /\ sweep' \in [Workers -> Sweep]
           /\ \A v \in Workers :
                 /\ sweep'[v].at = "asleep" => sweep'[v] = Asleep
                 /\ sweep'[v].at # "asleep" => sweep'[v].row \in Rows
                 /\ sweep'[v].ticket <= Len(tickets')
  BY Steps DEF TypesInv, To, Active

\* So is one asleep.
LEMMA AsleepTypes ==
    Asleep \in Sweep /\ Asleep.at = "asleep" /\ Asleep.ticket = 0
  BY SchedulesAssumption DEF Asleep, Sweep, Days, NoTicket

\* A worker that goes to sleep leaves the others as they were.
LEMMA AsleepAgain ==
    ASSUME TypesInv, NEW w \in Workers, To(w, Asleep), tickets' = tickets
    PROVE  /\ sweep' \in [Workers -> Sweep]
           /\ \A v \in Workers :
                 /\ sweep'[v].at = "asleep" => sweep'[v] = Asleep
                 /\ sweep'[v].at # "asleep" => sweep'[v].row \in Rows
                 /\ sweep'[v].ticket <= Len(tickets')
  BY SweepTypes, AsleepTypes, Numbered

\* What TypesInv says of the tables, without the sweeps.
TablesTyped ==
    /\ clock \in 0..(2 * LastDay + 1) /\ schedule \in Rows /\ backOn \in Days
    /\ archived \in BOOLEAN /\ claimed \in [Days -> Days \cup {NoRun}]
    /\ ticketOf \in [Days -> Nat] /\ \A d \in Days : ticketOf[d] <= Len(tickets)
    /\ tickets \in Seq(Ticket)

\* A sweep keeps every type.
LEMMA SweepStepTypes ==
    ASSUME TypesInv, NEW w \in Workers, SweepStep(w) \/ FailSweep(w)
    PROVE  TypesInv'
  <1> USE DEF NoTicket
  <1>0. /\ sweep[w] \in Sweep /\ Len(tickets) \in Nat /\ DueDay \in Days \cup {-1}
        /\ sweep[w].ticket <= Len(tickets)
    BY Numbered, ClockDays DEF TypesInv
  <1>1. CASE BeginSweep(w)
    <2> DEFINE s == [Asleep EXCEPT !.at = "read", !.day = DueDay, !.row = schedule]
    <2>1. s \in Sweep /\ s.at = "read" /\ s.row = schedule /\ s.ticket = 0
      <3>1. Asleep \in Sweep /\ DueDay \in Days \cup {-1} /\ schedule \in Rows
        BY <1>0, AsleepTypes DEF TypesInv
      <3>2. s = [Asleep EXCEPT !.at = "read", !.day = DueDay, !.row = schedule]
        OBVIOUS
      <3> HIDE DEF s
      <3> QED
        <4>1. s \in Sweep
          BY <3>1, <3>2 DEF Sweep
        <4>2. s.at = "read" /\ s.row = schedule /\ s.ticket = Asleep.ticket
          BY <3>1, <3>2 DEF Sweep
        <4> QED
          BY <4>1, <4>2, AsleepTypes
    <2>2. To(w, s) /\ tickets' = tickets
      BY <1>1 DEF BeginSweep
    <2> HIDE DEF s
    <2> QED
      BY <1>0, <1>1, <2>1, <2>2, SweepTypes DEF BeginSweep, TypesInv, Active
  <1>2. CASE AskDue(w)
    <2>1. PICK row \in {sweep[w].row, schedule} :
            LET owed == Owed(row, sweep[w].day)
            IN  To(w, IF owed = {} \/ row.state = "deleted" THEN Asleep
                      ELSE [sweep[w] EXCEPT !.at = "due", !.row = row,
                                            !.occurrence = Latest(owed)])
      BY <1>2 DEF AskDue
    <2>2. row \in Rows /\ sweep[w].day \in Days \cup {-1}
      BY <1>0, <1>2, <2>1 DEF AskDue, TypesInv, Active, Sweep
    <2> DEFINE owed == Owed(row, sweep[w].day)
               s == [sweep[w] EXCEPT !.at = "due", !.row = row, !.occurrence = Latest(owed)]
    <2>3. CASE To(w, Asleep)
      BY <1>2, <2>3, AsleepAgain DEF AskDue, TypesInv, Active
    <2>4. CASE owed # {} /\ To(w, s)
      <3>1. Latest(owed) \in Days
        BY <2>2, <2>4, OwedDays
      <3>2. s \in Sweep /\ s.at = "due" /\ s.row \in Rows /\ s.ticket = sweep[w].ticket
        BY <1>0, <2>2, <3>1 DEF Sweep
      <3> HIDE DEF s
      <3> QED
        BY <1>0, <1>2, <2>4, <3>2, SweepTypes DEF AskDue, TypesInv, Active
    <2> QED
      BY <2>1, <2>3, <2>4
  <1>3. ASSUME NEW at \in {"free", "claimed"}, Active(w),
               To(w, [sweep[w] EXCEPT !.at = at]), tickets' = tickets, TablesTyped'
        PROVE  TypesInv'
    <2> DEFINE s == [sweep[w] EXCEPT !.at = at]
    <2>1. s \in Sweep /\ s.at # "asleep" /\ s.row \in Rows /\ s.ticket = sweep[w].ticket
      BY <1>0, <1>3 DEF Sweep, TypesInv, Active
    <2> HIDE DEF s
    <2> QED
      BY <1>0, <1>3, <2>1, SweepTypes DEF TypesInv, Active, TablesTyped, s
  <1>4. ASSUME To(w, Asleep), tickets' = tickets, TablesTyped' PROVE TypesInv'
    BY <1>4, AsleepAgain DEF TypesInv, Active, TablesTyped
  <1>5. CASE AskPrevious(w)
    <2>1. TablesTyped' /\ Active(w) /\ tickets' = tickets
      BY <1>5 DEF AskPrevious, TypesInv, TablesTyped, Active
    <2> QED
      BY <1>3, <1>4, <1>5, <2>1 DEF AskPrevious
  <1>6. CASE Claim(w)
    <2>1. TablesTyped' /\ Active(w) /\ tickets' = tickets
      BY <1>0, <1>6 DEF Claim, TypesInv, TablesTyped, Active, Sweep, NoRun
    <2> QED
      BY <1>3, <1>4, <1>6, <2>1 DEF Claim
  <1>7. CASE CreateScheduled(w)
    <2>1. CASE Deleted
      <3>1. To(w, Asleep) /\ tickets' = tickets /\ TablesTyped'
        BY <1>7, <2>1 DEF CreateScheduled, Deleted, TypesInv, TablesTyped
      <3> QED
        BY <1>4, <3>1
    <2>2. CASE ~Deleted
      <3> DEFINE t == [of |-> sweep[w].occurrence, open |-> TRUE, place |-> "board", back |-> FALSE]
                 s == [sweep[w] EXCEPT !.at = "created", !.ticket = Len(tickets) + 1]
      <3>1. tickets' = Append(tickets, t) /\ To(w, s)
        BY <1>7, <2>2 DEF CreateScheduled, Deleted
      <3>2. t \in Ticket
        BY <1>0 DEF Sweep, Ticket
      <3>3. tickets' \in Seq(Ticket) /\ Len(tickets') = Len(tickets) + 1
        <4> HIDE DEF t
        <4> QED
          BY <3>1, <3>2, Appended DEF TypesInv
      <3>4. s \in Sweep /\ s.at = "created" /\ s.row \in Rows /\ s.ticket = Len(tickets) + 1
        <4>1. sweep[w].row \in Rows
          BY <1>7 DEF TypesInv, Active, CreateScheduled
        <4>2. Len(tickets) + 1 \in Nat
          BY <1>0
        <4> QED
          BY <1>0, <4>1, <4>2 DEF Sweep
      <3>5. sweep' \in [Workers -> Sweep]
        BY <3>1, <3>4 DEF To, TypesInv
      <3>6. ASSUME NEW v \in Workers
            PROVE  /\ ~Active(v)' => sweep'[v] = Asleep
                   /\ Active(v)' => sweep'[v].row \in Rows
                   /\ sweep'[v].ticket <= Len(tickets')
        <4> HIDE DEF s, t
        <4>1. CASE v = w
          BY <1>0, <3>1, <3>3, <3>4, <4>1, Steps DEF Active
        <4>2. CASE v # w
          BY <1>0, <3>1, <3>3, <4>2, Steps DEF Active, TypesInv, Sweep
        <4> QED
          BY <4>1, <4>2
      <3>7. TablesTyped'
        BY <1>0, <1>7, <3>3 DEF CreateScheduled, TypesInv, TablesTyped
      <3> QED
        BY <3>5, <3>6, <3>7 DEF TypesInv, TablesTyped
    <2> QED
      BY <2>1, <2>2
  <1>8. CASE LinkRun(w)
    <2>1. TablesTyped' /\ To(w, Asleep) /\ tickets' = tickets
      BY <1>0, <1>8 DEF LinkRun, TypesInv, TablesTyped, Sweep
    <2> QED
      BY <1>4, <2>1
  <1>9. CASE FailSweep(w)
    <2>1. TablesTyped' /\ To(w, Asleep) /\ tickets' = tickets
      BY <1>9 DEF FailSweep, TypesInv, TablesTyped
    <2> QED
      BY <1>4, <2>1
  <1> QED
    BY <1>1, <1>2, <1>5, <1>6, <1>7, <1>8, <1>9 DEF SweepStep

\* What is done to a ticket leaves it one, with its day and in its place.
LEMMA WorkedOn ==
    ASSUME TypesInv, NEW i \in DOMAIN tickets, Work(i) \/ PurgeOne(i)
    PROVE  /\ tickets' \in Seq(Ticket) /\ Len(tickets') = Len(tickets)
           /\ DOMAIN tickets' = DOMAIN tickets
           /\ \A j \in DOMAIN tickets : tickets'[j].of = tickets[j].of
           /\ \A j \in DOMAIN tickets : j # i => tickets'[j] = tickets[j]
           /\ \/ tickets'[i].place # "board" \/ tickets'[i].back
              \/ tickets[i].place = "board" /\ tickets[i].open /\ ~tickets'[i].open
  <1>1. tickets[i] \in Ticket
    BY Numbered
  <1>2. ASSUME NEW t \in Ticket, tickets' = [tickets EXCEPT ![i] = t], t.of = tickets[i].of,
               \/ t.place # "board" \/ t.back
               \/ tickets[i].place = "board" /\ tickets[i].open /\ ~t.open
        PROVE  /\ tickets' \in Seq(Ticket) /\ Len(tickets') = Len(tickets)
               /\ DOMAIN tickets' = DOMAIN tickets
               /\ \A j \in DOMAIN tickets : tickets'[j].of = tickets[j].of
               /\ \A j \in DOMAIN tickets : j # i => tickets'[j] = tickets[j]
               /\ \/ tickets'[i].place # "board" \/ tickets'[i].back
                  \/ tickets[i].place = "board" /\ tickets[i].open /\ ~tickets'[i].open
    <2>1. tickets \in Seq(Ticket)
      BY DEF TypesInv
    <2> QED
      BY <1>2, <2>1, Changed
  <1>3. CASE tickets' = [tickets EXCEPT ![i].open = ~@, ![i].back = @ \/ ~tickets[i].open]
             /\ tickets[i].place = "board"
    <2> DEFINE t == [tickets[i] EXCEPT !.open = ~@, !.back = @ \/ ~tickets[i].open]
    <2>1. t \in Ticket /\ t.of = tickets[i].of /\ (t.back \/ (tickets[i].open /\ ~t.open))
      BY <1>1 DEF Ticket
    <2>2. tickets' = [tickets EXCEPT ![i] = t]
      BY <1>3
    <2> HIDE DEF t
    <2> QED
      BY <1>2, <1>3, <2>1, <2>2
  <1>4. CASE \E p \in {"trash", "gone"} : tickets' = [tickets EXCEPT ![i].place = p]
    <2>1. PICK p \in {"trash", "gone"} : tickets' = [tickets EXCEPT ![i].place = p]
      BY <1>4
    <2> DEFINE t == [tickets[i] EXCEPT !.place = p]
    <2>2. t \in Ticket /\ t.of = tickets[i].of /\ t.place # "board"
      BY <1>1 DEF Ticket
    <2>3. tickets' = [tickets EXCEPT ![i] = t]
      BY <2>1
    <2> HIDE DEF t
    <2> QED
      BY <1>2, <2>2, <2>3
  <1>5. CASE tickets' = [tickets EXCEPT ![i].place = "board", ![i].back = TRUE]
    <2> DEFINE t == [tickets[i] EXCEPT !.place = "board", !.back = TRUE]
    <2>1. t \in Ticket /\ t.of = tickets[i].of /\ t.back
      BY <1>1 DEF Ticket
    <2>2. tickets' = [tickets EXCEPT ![i] = t]
      BY <1>5
    <2> HIDE DEF t
    <2> QED
      BY <1>2, <2>1, <2>2
  <1> QED
    BY <1>3, <1>4, <1>5 DEF Work, PurgeOne

\* Every step keeps every type.
LEMMA TypesKept ==
    ASSUME TypesInv, [SchedNext]_schedVars
    PROVE  TypesInv'
  <1> USE DEF NoTicket
  <1>1. CASE Tick
    BY <1>1, SchedulesAssumption DEF Tick, TypesInv, Active
  <1>2. CASE Pause
    BY <1>2 DEF Pause, TypesInv, Active, Rows
  <1>3. CASE Resume
    <2>1. Today \in Days
      BY ClockDays DEF TypesInv
    <2> QED
      BY <1>3, <2>1 DEF Resume, TypesInv, Active, Rows
  <1>4. ASSUME NEW f \in Forms, SaveForm(f) PROVE TypesInv'
    BY <1>4 DEF SaveForm, TypesInv, Active, Rows
  <1>5. CASE DeleteSchedule
    <2>1. Len(tickets) \in Nat
      BY Numbered
    <2>2. schedule' \in Rows
      BY <1>5 DEF DeleteSchedule, TypesInv, Rows
    <2>3. claimed' \in [Days -> Days \cup {NoRun}] /\ ticketOf' \in [Days -> Nat]
      BY <1>5 DEF DeleteSchedule
    <2>4. \A d \in Days : ticketOf'[d] <= Len(tickets)
      BY <1>5, <2>1 DEF DeleteSchedule
    <2> QED
      BY <1>5, <2>2, <2>3, <2>4 DEF DeleteSchedule, TypesInv, Active
  <1>6. ASSUME NEW i \in DOMAIN tickets, Work(i) \/ PurgeOne(i) PROVE TypesInv'
    <2>1. tickets' \in Seq(Ticket) /\ Len(tickets') = Len(tickets) /\ Len(tickets) \in Nat
      BY <1>6, WorkedOn, Numbered
    <2>2. ticketOf \in [Days -> Nat] /\ \A d \in Days : ticketOf[d] <= Len(tickets)
      BY DEF TypesInv
    <2>3. \/ ticketOf' = ticketOf
          \/ ticketOf' = [d \in Days |-> IF ticketOf[d] = i THEN NoTicket ELSE ticketOf[d]]
      BY <1>6 DEF Work, PurgeOne
    <2>4. ticketOf' \in [Days -> Nat]
      BY <2>2, <2>3
    <2>5. \A d \in Days : ticketOf'[d] <= Len(tickets)
      BY <2>1, <2>2, <2>3
    <2> QED
      BY <1>6, <2>1, <2>4, <2>5 DEF Work, PurgeOne, TypesInv, Active
  <1>7. CASE UNCHANGED schedVars \/ ArchiveTeam
    BY <1>7 DEF schedVars, ArchiveTeam, TypesInv, Active
  <1> QED
    BY <1>1, <1>2, <1>3, <1>4, <1>5, <1>6, <1>7, SweepStepTypes DEF SchedNext

(***************************************************************************)
(* What each step of a sweep does, field by field.                         *)
(***************************************************************************)
Others(w) == \A v \in Workers \ {w} : sweep'[v] = sweep[v]
FallsAsleep(w) == Others(w) /\ sweep'[w].at = "asleep"

\* The same morning, row and occurrence, one step on.
Onward(w, at) ==
    /\ Others(w)
    /\ sweep'[w].at = at /\ sweep'[w].day = sweep[w].day
    /\ sweep'[w].row = sweep[w].row /\ sweep'[w].occurrence = sweep[w].occurrence

\* A sweep begins with today's row.
LEMMA BeginDoes ==
    ASSUME TypesInv, NEW w \in Workers, BeginSweep(w)
    PROVE  /\ Others(w) /\ sweep'[w].at = "read"
           /\ sweep'[w].day = DueDay /\ sweep'[w].row = schedule
  <1> DEFINE s == [Asleep EXCEPT !.at = "read", !.day = DueDay, !.row = schedule]
  <1>1. To(w, s)
    BY DEF BeginSweep
  <1>2. s.at = "read" /\ s.day = DueDay /\ s.row = schedule
    BY AsleepTypes DEF Sweep
  <1> HIDE DEF s
  <1> QED
    BY <1>1, <1>2, Steps DEF Others

\* An occurrence found is owed by the row, old or new, or there is none.
LEMMA AskDoes ==
    ASSUME TypesInv, NEW w \in Workers, AskDue(w)
    PROVE  \/ FallsAsleep(w)
           \/ \E row \in {sweep[w].row, schedule} :
                 /\ Owed(row, sweep[w].day) # {} /\ row \in Rows
                 /\ Others(w) /\ sweep'[w].at = "due" /\ sweep'[w].day = sweep[w].day
                 /\ sweep'[w].row = row
                 /\ sweep'[w].occurrence = Latest(Owed(row, sweep[w].day))
  <1>1. PICK row \in {sweep[w].row, schedule} :
          LET owed == Owed(row, sweep[w].day)
          IN  To(w, IF owed = {} \/ row.state = "deleted" THEN Asleep
                    ELSE [sweep[w] EXCEPT !.at = "due", !.row = row,
                                          !.occurrence = Latest(owed)])
    BY DEF AskDue
  <1>2. row \in Rows /\ sweep[w] \in Sweep
    BY <1>1 DEF AskDue, TypesInv, Active
  <1> DEFINE owed == Owed(row, sweep[w].day)
             s == [sweep[w] EXCEPT !.at = "due", !.row = row, !.occurrence = Latest(owed)]
  <1>3. CASE To(w, Asleep)
    BY <1>3, Steps, AsleepTypes DEF Others, FallsAsleep
  <1>4. CASE owed # {} /\ To(w, s)
    <2>1. /\ s.at = "due" /\ s.day = sweep[w].day /\ s.row = row
          /\ s.occurrence = Latest(owed)
      BY <1>2 DEF Sweep
    <2> HIDE DEF s
    <2> QED
      BY <1>2, <1>4, <2>1, Steps DEF Others
  <1> QED
    BY <1>1, <1>3, <1>4

\* A step that only goes on leaves what was read.
LEMMA GoesOn ==
    ASSUME TypesInv, NEW w \in Workers, NEW at, To(w, [sweep[w] EXCEPT !.at = at])
    PROVE  Onward(w, at)
  <1> DEFINE s == [sweep[w] EXCEPT !.at = at]
  <1>1. /\ s.at = at /\ s.day = sweep[w].day /\ s.row = sweep[w].row
        /\ s.occurrence = sweep[w].occurrence
    BY DEF TypesInv, Sweep
  <1> HIDE DEF s
  <1>2. To(w, s)
    BY DEF s
  <1> QED
    BY <1>1, <1>2, Steps DEF Onward, Others

\* A schedule whose ticket before is open is left for another morning.
LEMMA PreviousDoes ==
    ASSUME TypesInv, NEW w \in Workers, AskPrevious(w)
    PROVE  FallsAsleep(w) \/ (Onward(w, "free") /\ ~WaitingOn(sweep[w].row))
  <1>1. CASE WaitingOn(sweep[w].row)
    BY <1>1, Steps, AsleepTypes DEF AskPrevious, FallsAsleep, Others
  <1>2. CASE ~WaitingOn(sweep[w].row)
    BY <1>2, GoesOn DEF AskPrevious
  <1> QED
    BY <1>1, <1>2

\* A claim is of an occurrence nobody has claimed.
LEMMA ClaimDoes ==
    ASSUME TypesInv, ClockInv, NEW w \in Workers, Claim(w)
    PROVE  \/ FallsAsleep(w) /\ claimed' = claimed
           \/ /\ Onward(w, "claimed") /\ ~Deleted
              /\ sweep[w].occurrence \in Days \ Runs
              /\ sweep[w].day \in Days
              /\ Runs' = Runs \cup {sweep[w].occurrence}
              /\ claimed'[sweep[w].occurrence] = sweep[w].day
              /\ \A d \in Runs : claimed'[d] = claimed[d]
  <1> DEFINE d == sweep[w].occurrence
  <1>1. CASE ~(d \notin Runs /\ schedule.state # "deleted")
    BY <1>1, Steps, AsleepTypes DEF Claim, FallsAsleep, Others
  <1>2. CASE d \notin Runs /\ schedule.state # "deleted"
    <2>1. claimed' = [claimed EXCEPT ![d] = sweep[w].day] /\ Onward(w, "claimed")
      BY <1>2, GoesOn DEF Claim
    <2>2. d \in Days /\ sweep[w].day \in Days \cup {-1} /\ d <= sweep[w].day
      BY DEF TypesInv, Sweep, ClockInv, Dated, Claim
    <2>3. sweep[w].day \in Days /\ sweep[w].day # NoRun
      BY <2>2, SchedulesAssumption DEF Days, NoRun
    <2> QED
      BY <1>2, <2>1, <2>2, <2>3 DEF Runs, TypesInv, Deleted
  <1> QED
    BY <1>1, <1>2

\* A ticket made is the last, on the board and open.
LEMMA CreateDoes ==
    ASSUME TypesInv, NEW w \in Workers, CreateScheduled(w)
    PROVE  \/ FallsAsleep(w) /\ tickets' = tickets
           \/ /\ Onward(w, "created") /\ ~Deleted
              /\ sweep'[w].ticket = Len(tickets) + 1
              /\ Len(tickets') = Len(tickets) + 1
              /\ DOMAIN tickets' = DOMAIN tickets \cup {Len(tickets) + 1}
              /\ \A i \in DOMAIN tickets : tickets'[i] = tickets[i]
              /\ tickets'[Len(tickets) + 1].of = sweep[w].occurrence
  <1>1. CASE schedule.state = "deleted"
    BY <1>1, Steps, AsleepTypes DEF CreateScheduled, FallsAsleep, Others
  <1>2. CASE schedule.state # "deleted"
    <2> DEFINE t == [of |-> sweep[w].occurrence, open |-> TRUE, place |-> "board", back |-> FALSE]
               s == [sweep[w] EXCEPT !.at = "created", !.ticket = Len(tickets) + 1]
    <2>1. tickets' = Append(tickets, t) /\ To(w, s)
      BY <1>2 DEF CreateScheduled
    <2>2. t \in Ticket /\ t.of = sweep[w].occurrence
      BY DEF Ticket, TypesInv, Sweep
    <2>3. /\ s.at = "created" /\ s.day = sweep[w].day /\ s.row = sweep[w].row
          /\ s.occurrence = sweep[w].occurrence /\ s.ticket = Len(tickets) + 1
      BY DEF TypesInv, Sweep
    <2> HIDE DEF s, t
    <2>4. Onward(w, "created") /\ sweep'[w].ticket = Len(tickets) + 1
      BY <2>1, <2>3, Steps DEF Onward, Others
    <2>5. /\ Len(tickets') = Len(tickets) + 1
          /\ DOMAIN tickets' = DOMAIN tickets \cup {Len(tickets) + 1}
          /\ \A i \in DOMAIN tickets : tickets'[i] = tickets[i]
          /\ tickets'[Len(tickets) + 1] = t
      BY <2>1, <2>2, Appended DEF TypesInv
    <2> QED
      BY <1>2, <2>2, <2>4, <2>5 DEF Deleted
  <1> QED
    BY <1>1, <1>2

\* The run is told of the ticket made for it, if both are there.
LEMMA LinkDoes ==
    ASSUME TypesInv, NEW w \in Workers, LinkRun(w)
    PROVE  /\ FallsAsleep(w) /\ sweep[w].at = "created"
           /\ \A d \in Days : \/ ticketOf'[d] = ticketOf[d]
                              \/ d = sweep[w].occurrence /\ ticketOf'[d] = sweep[w].ticket
           /\ claimed' = claimed /\ tickets' = tickets /\ schedule' = schedule
  BY Steps, AsleepTypes DEF LinkRun, FallsAsleep, Others, TypesInv

\* A sweep that fails forgets what it read.
LEMMA FailDoes ==
    ASSUME TypesInv, NEW w \in Workers, FailSweep(w)
    PROVE  /\ FallsAsleep(w)
           /\ UNCHANGED <<clock, schedule, claimed, ticketOf, tickets, quirks, backOn>>
  BY Steps, AsleepTypes DEF FailSweep, FallsAsleep, Others

(***************************************************************************)
(* The clock.                                                              *)
(***************************************************************************)
\* Whoever goes on or falls asleep on a day like this leaves the clock's part.
LEMMA ClockQuiet ==
    ASSUME TypesInv, ClockInv, NEW w \in Workers, NEW at,
           FallsAsleep(w) \/ (Dated(w) /\ Onward(w, at)), UNCHANGED <<clock, claimed>>
    PROVE  ClockInv'
  <1>1. DueDay' = DueDay /\ Runs' = Runs
    BY DEF DueDay, Today, Runs
  <1> QED
    BY <1>1 DEF ClockInv, Onward, FallsAsleep, Others, Dated, Active

\* Days found and claimed are past.
LEMMA ClockKept ==
    ASSUME TypesInv, ClockInv, [SchedNext]_schedVars
    PROVE  ClockInv'
  <1>1. ASSUME NEW w \in Workers, BeginSweep(w) PROVE ClockInv'
    <2>1. DueDay' = DueDay /\ claimed' = claimed /\ Runs' = Runs
      BY <1>1 DEF BeginSweep, DueDay, Today, Runs
    <2>2. DueDay \in Int
      BY ClockDays, SchedulesAssumption DEF TypesInv, Days
    <2> QED
      BY <1>1, <2>1, <2>2, BeginDoes DEF ClockInv, Active, Dated, Others
  <1>2. ASSUME NEW w \in Workers, AskDue(w) PROVE ClockInv'
    <2>1. DueDay' = DueDay /\ claimed' = claimed /\ Runs' = Runs /\ UNCHANGED clock
      BY <1>2 DEF AskDue, DueDay, Today, Runs
    <2>2. CASE FallsAsleep(w)
      BY <2>1, <2>2, ClockQuiet
    <2>3. ASSUME NEW row \in {sweep[w].row, schedule},
                 Owed(row, sweep[w].day) # {}, row \in Rows,
                 Others(w), sweep'[w].at = "due", sweep'[w].day = sweep[w].day,
                 sweep'[w].occurrence = Latest(Owed(row, sweep[w].day))
          PROVE  ClockInv'
      <3>1. sweep[w].day \in Days \cup {-1} /\ Active(w)
        BY <1>2 DEF TypesInv, Sweep, AskDue, Active
      <3>2. sweep'[w].occurrence <= sweep'[w].day
        BY <2>3, <3>1, OwedDays
      <3> QED
        BY <2>1, <2>3, <3>1, <3>2 DEF ClockInv, Active, Dated, Others
    <2> QED
      BY <1>2, <2>2, <2>3, AskDoes
  <1>3. ASSUME NEW w \in Workers, AskPrevious(w) PROVE ClockInv'
    BY <1>3, PreviousDoes, ClockQuiet DEF AskPrevious, Dated
  <1>4. ASSUME NEW w \in Workers, Claim(w) PROVE ClockInv'
    <2>1. DueDay' = DueDay /\ UNCHANGED clock
      BY <1>4 DEF Claim, DueDay, Today
    <2>2. CASE FallsAsleep(w) /\ claimed' = claimed
      BY <2>1, <2>2, ClockQuiet
    <2>3. CASE /\ Onward(w, "claimed") /\ Runs' = Runs \cup {sweep[w].occurrence}
               /\ claimed'[sweep[w].occurrence] = sweep[w].day
               /\ \A d \in Runs : claimed'[d] = claimed[d]
      <3>1. Active(w) /\ Dated(w)
        BY <1>4 DEF Claim, Active, Dated
      <3>2. \A v \in Workers : Active(v)' => sweep'[v].day <= DueDay
        BY <2>3, <3>1 DEF ClockInv, Onward, Others, Active
      <3>3. \A v \in Workers : Dated(v)' => sweep'[v].occurrence <= sweep'[v].day
        BY <2>3, <3>1 DEF ClockInv, Onward, Others, Dated
      <3>4. \A d \in Runs' : d <= claimed'[d] /\ claimed'[d] <= DueDay
        BY <2>3, <3>1 DEF ClockInv
      <3> QED
        BY <2>1, <3>2, <3>3, <3>4 DEF ClockInv
    <2> QED
      BY <1>4, <2>2, <2>3, ClaimDoes
  <1>5. ASSUME NEW w \in Workers, CreateScheduled(w) PROVE ClockInv'
    BY <1>5, CreateDoes, ClockQuiet DEF CreateScheduled, Dated
  <1>6. ASSUME NEW w \in Workers, LinkRun(w) PROVE ClockInv'
    BY <1>6, LinkDoes, ClockQuiet DEF LinkRun
  <1>7. ASSUME NEW w \in Workers, FailSweep(w) PROVE ClockInv'
    BY <1>7, FailDoes, ClockQuiet
  <1>8. CASE Tick
    <2>1. DueDay <= DueDay' /\ Runs' = Runs
      BY <1>8, ClockMoves DEF Tick, TypesInv, Runs
    <2>2. DueDay \in Int /\ DueDay' \in Int
      BY <1>8, ClockMoves DEF Tick, TypesInv
    <2>3. \A w \in Workers : sweep[w].day \in Int
      BY SchedulesAssumption DEF TypesInv, Sweep, Days
    <2>4. \A d \in Runs : claimed[d] \in Int
      BY SchedulesAssumption DEF TypesInv, Days, Runs, NoRun
    <2> QED
      BY <1>8, <2>1, <2>2, <2>3, <2>4 DEF Tick, ClockInv, Active, Dated
  <1>9. CASE DeleteSchedule
    <2>1. Runs' = {}
      BY <1>9 DEF DeleteSchedule, Runs
    <2> QED
      BY <1>9, <2>1 DEF DeleteSchedule, ClockInv, Active, Dated, DueDay, Today
  <1>10. CASE UNCHANGED <<clock, claimed, sweep>>
    <2>1. DueDay' = DueDay /\ Runs' = Runs
      BY <1>10 DEF DueDay, Today, Runs
    <2> QED
      BY <1>10, <2>1 DEF ClockInv, Active, Dated
  <1>11. CASE Pause \/ Resume \/ ArchiveTeam \/ UNCHANGED schedVars
              \/ (\E f \in Forms : SaveForm(f)) \/ \E i \in DOMAIN tickets : Work(i) \/ PurgeOne(i)
    BY <1>10, <1>11 DEF Pause, Resume, ArchiveTeam, SaveForm, Work, PurgeOne, schedVars
  <1> QED
    BY <1>1, <1>2, <1>3, <1>4, <1>5, <1>6, <1>7, <1>8, <1>9, <1>11 DEF SchedNext, SweepStep

(***************************************************************************)
(* Once.                                                                   *)
(***************************************************************************)
\* A worker that falls asleep, or is not one that makes a ticket, leaves the
\* claims and the tickets as they were.
LEMMA OnceQuiet ==
    ASSUME TypesInv, OnceInv, NEW w \in Workers, Others(w),
           sweep'[w].at \in {"asleep", "read", "due", "free"},
           UNCHANGED <<claimed, tickets, schedule>>
    PROVE  OnceInv'
  <1>1. Runs' = Runs /\ (Deleted' <=> Deleted) /\ OncePerOccurrence'
    BY DEF Runs, Deleted, OnceInv, OncePerOccurrence
  <1> QED
    BY <1>1 DEF OnceInv, Others, Making

\* An occurrence is claimed once, and its ticket made once.
LEMMA OnceKept ==
    ASSUME TypesInv, ClockInv, OnceInv, [SchedNext]_schedVars
    PROVE  OnceInv'
  <1>1. ASSUME NEW w \in Workers, BeginSweep(w) \/ AskDue(w) \/ AskPrevious(w) \/ LinkRun(w)
                                  \/ FailSweep(w)
        PROVE  OnceInv'
    <2>1. Others(w) /\ sweep'[w].at \in {"asleep", "read", "due", "free"}
      BY <1>1, BeginDoes, AskDoes, PreviousDoes, LinkDoes, FailDoes DEF FallsAsleep, Onward
    <2>2. UNCHANGED <<claimed, tickets, schedule>>
      BY <1>1 DEF BeginSweep, AskDue, AskPrevious, LinkRun, FailSweep
    <2> QED
      BY <2>1, <2>2, OnceQuiet
  <1>2. ASSUME NEW w \in Workers, Claim(w) PROVE OnceInv'
    <2>1. UNCHANGED <<tickets, schedule>>
      BY <1>2 DEF Claim
    <2>2. CASE FallsAsleep(w) /\ claimed' = claimed
      BY <2>1, <2>2, OnceQuiet DEF FallsAsleep
    <2>3. CASE /\ Onward(w, "claimed") /\ ~Deleted
               /\ sweep[w].occurrence \in Days \ Runs
               /\ Runs' = Runs \cup {sweep[w].occurrence}
      <3>1. OncePerOccurrence' /\ ~Deleted'
        BY <2>1, <2>3 DEF OnceInv, OncePerOccurrence, Deleted
      <3>2. \A i \in DOMAIN tickets : tickets[i].of # sweep[w].occurrence
        BY <2>3 DEF OnceInv
      <3>3. \A v \in Workers \ {w} : Making(v) => sweep[v].occurrence # sweep[w].occurrence
        BY <2>3 DEF OnceInv
      <3> QED
        BY <2>1, <2>3, <3>1, <3>2, <3>3 DEF OnceInv, Onward, Others, Making
    <2> QED
      BY <1>2, <2>2, <2>3, ClaimDoes
  <1>3. ASSUME NEW w \in Workers, CreateScheduled(w) PROVE OnceInv'
    <2>1. UNCHANGED <<claimed, schedule>> /\ sweep[w].at = "claimed"
      BY <1>3 DEF CreateScheduled
    <2>2. CASE FallsAsleep(w) /\ tickets' = tickets
      BY <2>1, <2>2, OnceQuiet DEF FallsAsleep
    <2>3. CASE /\ Onward(w, "created") /\ ~Deleted
               /\ DOMAIN tickets' = DOMAIN tickets \cup {Len(tickets) + 1}
               /\ \A i \in DOMAIN tickets : tickets'[i] = tickets[i]
               /\ tickets'[Len(tickets) + 1].of = sweep[w].occurrence
      <3>1. Runs' = Runs /\ ~Deleted'
        BY <2>1, <2>3 DEF Runs, Deleted
      <3>2. sweep[w].occurrence \in Runs /\ Making(w)
        BY <2>1, <2>3 DEF OnceInv, Making
      <3>3. \A i \in DOMAIN tickets : tickets[i].of # sweep[w].occurrence
        BY <2>1, <2>3 DEF OnceInv
      <3>4. OncePerOccurrence'
        BY <2>3, <3>3 DEF OnceInv, OncePerOccurrence
      <3>5. \A i \in DOMAIN tickets' : tickets'[i].of \in Runs
        BY <2>3, <3>2 DEF OnceInv
      <3>6. \A v \in Workers : sweep'[v].at = "claimed" =>
                /\ v # w /\ sweep[v].at = "claimed"
                /\ sweep'[v].occurrence = sweep[v].occurrence
                /\ sweep[v].occurrence # sweep[w].occurrence
        BY <2>1, <2>3 DEF Onward, Others, OnceInv
      <3>7. \A v \in Workers : sweep'[v].at = "claimed" =>
                \A i \in DOMAIN tickets' : tickets'[i].of # sweep'[v].occurrence
        BY <2>3, <3>6 DEF OnceInv
      <3>8. \A v \in Workers : Making(v)' => sweep'[v].occurrence \in Runs
        BY <2>3, <3>2 DEF OnceInv, Onward, Others, Making
      <3>9. \A u, v \in Workers :
                /\ sweep'[u].at = "claimed" /\ sweep'[v].at = "claimed"
                /\ sweep'[u].occurrence = sweep'[v].occurrence
                => u = v
        BY <2>3, <3>6 DEF OnceInv
      <3> QED
        BY <3>1, <3>4, <3>5, <3>7, <3>8, <3>9 DEF OnceInv
    <2> QED
      BY <1>3, <2>2, <2>3, CreateDoes
  <1>4. CASE UNCHANGED <<claimed, tickets, sweep>> /\ (Deleted => Deleted')
    <2>1. Runs' = Runs
      BY <1>4 DEF Runs
    <2> QED
      BY <1>4, <2>1 DEF OnceInv, OncePerOccurrence, Making
  <1>5. CASE Tick \/ Pause \/ Resume \/ ArchiveTeam \/ UNCHANGED schedVars \/ \E f \in Forms : SaveForm(f)
    BY <1>4, <1>5 DEF Tick, Pause, Resume, ArchiveTeam, SaveForm, schedVars, Deleted
  <1>6. CASE DeleteSchedule
    <2>1. schedule \in Rows
      BY DEF TypesInv
    <2>2. Deleted'
      BY <1>6, <2>1 DEF DeleteSchedule, Deleted, Rows
    <2> QED
      BY <1>6, <2>2 DEF DeleteSchedule, OnceInv, OncePerOccurrence
  <1>7. ASSUME NEW i \in DOMAIN tickets, Work(i) \/ PurgeOne(i) PROVE OnceInv'
    <2>1. /\ DOMAIN tickets' = DOMAIN tickets
          /\ \A j \in DOMAIN tickets : tickets'[j].of = tickets[j].of
      BY <1>7, WorkedOn
    <2>2. UNCHANGED <<claimed, sweep, schedule>>
      BY <1>7 DEF Work, PurgeOne
    <2>3. Runs' = Runs /\ (Deleted' <=> Deleted)
      BY <2>2 DEF Runs, Deleted
    <2> QED
      BY <2>1, <2>2, <2>3 DEF OnceInv, OncePerOccurrence, Making
  <1> QED
    BY <1>1, <1>2, <1>3, <1>5, <1>6, <1>7 DEF SchedNext, SweepStep

(***************************************************************************)
(* Gaps.                                                                   *)
(***************************************************************************)
\* A worker that goes on, or falls asleep, leaves the gaps as they were.
LEMMA GapQuiet ==
    ASSUME TypesInv, GapInv, NEW w \in Workers, NEW at,
           FallsAsleep(w) \/ (Dated(w) /\ Onward(w, at)),
           UNCHANGED <<schedule, claimed, quirks>>
    PROVE  GapInv'
  <1>1. Runs' = Runs
    BY DEF Runs
  <1> QED
    BY <1>1 DEF GapInv, Onward, FallsAsleep, Others, Dated, Active

\* With the form as it was, nothing owed is passed over but for what is later.
LEMMA GapKept ==
    ASSUME TypesInv, ClockInv, GapInv, [SchedNext]_schedVars
    PROVE  GapInv'
  <1>1. ASSUME NEW w \in Workers, BeginSweep(w) PROVE GapInv'
    <2>1. /\ UNCHANGED <<schedule, claimed>> /\ Runs' = Runs
          /\ "edit" \notin quirks' => "edit" \notin quirks
      BY <1>1 DEF BeginSweep, Runs
    <2> QED
      BY <1>1, <2>1, BeginDoes DEF GapInv, Active, Dated, Others
  <1>2. ASSUME NEW w \in Workers, AskDue(w) PROVE GapInv'
    <2>1. UNCHANGED <<schedule, claimed, quirks>> /\ Runs' = Runs /\ Active(w)
      BY <1>2 DEF AskDue, Runs, Active
    <2>2. CASE FallsAsleep(w)
      BY <2>1, <2>2, GapQuiet
    <2>3. ASSUME NEW row \in {sweep[w].row, schedule},
                 Owed(row, sweep[w].day) # {}, row \in Rows,
                 Others(w), sweep'[w].at = "due", sweep'[w].day = sweep[w].day,
                 sweep'[w].row = row,
                 sweep'[w].occurrence = Latest(Owed(row, sweep[w].day)),
                 "edit" \notin quirks
          PROVE  GapInv'
      <3>1. sweep[w].day \in Days \cup {-1} /\ row.form = schedule.form
        BY <2>1, <2>3 DEF TypesInv, Sweep, GapInv
      <3>2. /\ sweep'[w].occurrence \in schedule.form.occurs
            /\ \A e \in schedule.form.occurs : e > sweep'[w].occurrence => sweep'[w].day < e
        BY <2>3, <3>1, OwedDays
      <3>3. \A v \in Workers : Active(v)' => sweep'[v].row.form = schedule.form
        BY <2>3, <3>1 DEF GapInv, Others, Active
      <3>4. \A v \in Workers : Dated(v)' =>
              /\ sweep'[v].occurrence \in schedule.form.occurs
              /\ \A e \in schedule.form.occurs :
                    e > sweep'[v].occurrence => sweep'[v].day < e
        BY <2>3, <3>2 DEF GapInv, Others, Dated
      <3> QED
        BY <2>1, <2>3, <3>3, <3>4 DEF GapInv
    <2>4. CASE "edit" \in quirks
      BY <2>1, <2>4 DEF GapInv
    <2> QED
      BY <1>2, <2>2, <2>3, <2>4, AskDoes
  <1>3. ASSUME NEW w \in Workers, AskPrevious(w) PROVE GapInv'
    BY <1>3, PreviousDoes, GapQuiet DEF AskPrevious, Dated
  <1>4. ASSUME NEW w \in Workers, Claim(w) PROVE GapInv'
    <2>1. UNCHANGED <<schedule, quirks>> /\ Active(w) /\ Dated(w)
      BY <1>4 DEF Claim, Active, Dated
    <2>2. CASE FallsAsleep(w) /\ claimed' = claimed
      BY <2>1, <2>2, GapQuiet
    <2>3. CASE /\ Onward(w, "claimed") /\ Runs' = Runs \cup {sweep[w].occurrence}
               /\ claimed'[sweep[w].occurrence] = sweep[w].day
               /\ \A d \in Runs : claimed'[d] = claimed[d]
               /\ "edit" \notin quirks
      <3>1. \A v \in Workers : /\ Active(v)' => Active(v) /\ sweep'[v].row = sweep[v].row
                               /\ Dated(v)' => /\ Dated(v) /\ sweep'[v].day = sweep[v].day
                                               /\ sweep'[v].occurrence = sweep[v].occurrence
        BY <2>1, <2>3 DEF Onward, Others, Active, Dated
      <3>2. \A d \in Runs' :
              /\ d \in schedule.form.occurs
              /\ \A e \in schedule.form.occurs : e > d => claimed'[d] < e
        BY <2>1, <2>3 DEF GapInv
      <3> QED
        BY <2>1, <2>3, <3>1, <3>2 DEF GapInv
    <2>4. CASE "edit" \in quirks
      BY <2>1, <2>4 DEF GapInv
    <2> QED
      BY <1>4, <2>2, <2>3, <2>4, ClaimDoes
  <1>5. ASSUME NEW w \in Workers, CreateScheduled(w) PROVE GapInv'
    BY <1>5, CreateDoes, GapQuiet DEF CreateScheduled, Dated
  <1>6. ASSUME NEW w \in Workers, LinkRun(w) \/ FailSweep(w) PROVE GapInv'
    BY <1>6, LinkDoes, FailDoes, GapQuiet DEF LinkRun
  <1>7. CASE /\ UNCHANGED <<claimed, sweep>> /\ schedule'.form = schedule.form
             /\ "edit" \notin quirks' => "edit" \notin quirks
    <2>1. Runs' = Runs
      BY <1>7 DEF Runs
    <2> QED
      BY <1>7, <2>1 DEF GapInv, Active, Dated
  <1>8. CASE Tick \/ Pause \/ Resume \/ ArchiveTeam \/ UNCHANGED schedVars
             \/ \E i \in DOMAIN tickets : Work(i) \/ PurgeOne(i)
    BY <1>7, <1>8 DEF Tick, Pause, Resume, ArchiveTeam, schedVars, Work, PurgeOne, TypesInv, Rows
  <1>9. ASSUME NEW f \in Forms, SaveForm(f) PROVE GapInv'
    BY <1>9 DEF SaveForm, GapInv
  <1>10. CASE DeleteSchedule
    <2>1. Runs' = {}
      BY <1>10 DEF DeleteSchedule, Runs
    <2>2. schedule'.form = schedule.form /\ UNCHANGED <<quirks, sweep>>
      BY <1>10 DEF DeleteSchedule, TypesInv, Rows
    <2> QED
      BY <2>1, <2>2 DEF GapInv, Active, Dated
  <1> QED
    BY <1>1, <1>2, <1>3, <1>4, <1>5, <1>6, <1>8, <1>9, <1>10 DEF SchedNext, SweepStep

(***************************************************************************)
(* Pauses.                                                                 *)
(***************************************************************************)
\* A worker that goes on, or falls asleep, keeps to the row it has.
LEMMA PauseQuiet ==
    ASSUME TypesInv, PauseInv, NEW w \in Workers, NEW at,
           FallsAsleep(w) \/ (Dated(w) /\ Onward(w, at)), UNCHANGED <<schedule, quirks, backOn>>
    PROVE  PauseInv'
  BY DEF PauseInv, Onward, FallsAsleep, Others, Dated, Active

\* Nothing before the day it was last switched on is looked at.
LEMMA PauseKept ==
    ASSUME TypesInv, ClockInv, PauseInv, [SchedNext]_schedVars
    PROVE  PauseInv'
  <1>1. ASSUME NEW w \in Workers, BeginSweep(w) PROVE PauseInv'
    <2>1. /\ UNCHANGED <<schedule, backOn>>
          /\ "overlap" \notin quirks' => "overlap" \notin quirks
      BY <1>1 DEF BeginSweep
    <2> QED
      BY <1>1, <2>1, BeginDoes DEF PauseInv, Active, Dated, Others
  <1>2. ASSUME NEW w \in Workers, AskDue(w) PROVE PauseInv'
    <2>1. UNCHANGED <<schedule, quirks, backOn>> /\ Active(w)
      BY <1>2 DEF AskDue, Active
    <2>2. CASE FallsAsleep(w)
      BY <2>1, <2>2, PauseQuiet
    <2>3. ASSUME NEW row \in {sweep[w].row, schedule},
                 Owed(row, sweep[w].day) # {}, row \in Rows,
                 Others(w), sweep'[w].at = "due", sweep'[w].row = row,
                 sweep'[w].occurrence = Latest(Owed(row, sweep[w].day))
          PROVE  PauseInv'
      <3>1. sweep[w].day \in Days \cup {-1}
        BY DEF TypesInv, Sweep
      <3>2. row.since <= sweep'[w].occurrence /\ sweep'[w].occurrence \in Days
        BY <2>3, <3>1, OwedDays
      <3>3. backOn \in Int /\ row.since \in Int /\ sweep'[w].occurrence \in Int
        BY <2>3, <3>2, SchedulesAssumption DEF TypesInv, Rows, Days
      <3>4. "overlap" \notin quirks => backOn <= row.since
        BY <2>1, <2>3 DEF PauseInv
      <3> QED
        BY <2>1, <2>3, <3>2, <3>3, <3>4 DEF PauseInv, Active, Dated, Others
    <2> QED
      BY <1>2, <2>2, <2>3, AskDoes
  <1>3. ASSUME NEW w \in Workers, AskPrevious(w) PROVE PauseInv'
    BY <1>3, PreviousDoes, PauseQuiet DEF AskPrevious, Dated
  <1>4. ASSUME NEW w \in Workers, Claim(w) PROVE PauseInv'
    BY <1>4, ClaimDoes, PauseQuiet DEF Claim, Dated
  <1>5. ASSUME NEW w \in Workers, CreateScheduled(w) PROVE PauseInv'
    BY <1>5, CreateDoes, PauseQuiet DEF CreateScheduled, Dated
  <1>6. ASSUME NEW w \in Workers, LinkRun(w) \/ FailSweep(w) PROVE PauseInv'
    BY <1>6, LinkDoes, FailDoes, PauseQuiet DEF LinkRun
  <1>7. CASE /\ UNCHANGED <<sweep, backOn>> /\ schedule'.since = schedule.since
             /\ "overlap" \notin quirks' => "overlap" \notin quirks
    BY <1>7 DEF PauseInv, Active, Dated
  <1>8. CASE Tick \/ Pause \/ DeleteSchedule \/ ArchiveTeam \/ UNCHANGED schedVars
             \/ (\E f \in Forms : SaveForm(f))
             \/ \E i \in DOMAIN tickets : Work(i) \/ PurgeOne(i)
    BY <1>7, <1>8 DEF Tick, Pause, DeleteSchedule, ArchiveTeam, SaveForm, schedVars, Work, PurgeOne,
                      TypesInv, Rows
  <1>9. CASE Resume
    <2>1. Today \in Int /\ schedule.since \in Int
      BY ClockDays, SchedulesAssumption DEF TypesInv, Rows, Days
    <2>2. backOn' = Today /\ backOn' <= schedule'.since /\ sweep' = sweep
      BY <1>9, <2>1 DEF Resume, TypesInv, Rows
    <2>3. "overlap" \notin quirks' => \A w \in Workers : ~Active(w)
      BY <1>9 DEF Resume, Midway, Active
    <2> QED
      BY <2>2, <2>3 DEF PauseInv, Active, Dated
  <1> QED
    BY <1>1, <1>2, <1>3, <1>4, <1>5, <1>6, <1>8, <1>9 DEF SchedNext, SweepStep

(***************************************************************************)
(* Waiting for the ticket before.                                          *)
(***************************************************************************)
\* An occurrence nobody has claimed comes after every one that was.
LEMMA FoundLast ==
    ASSUME TypesInv, ClockInv, GapInv, Waits, OneMorning,
           NEW w \in Workers, Dated(w), sweep[w].occurrence \notin Runs
    PROVE  \A d \in Runs : d < sweep[w].occurrence
  <1> SUFFICES ASSUME NEW d \in Runs, ~(d < sweep[w].occurrence) PROVE FALSE
    OBVIOUS
  <1>1. /\ sweep[w].occurrence \in Int /\ sweep[w].day \in Int /\ d \in Int
        /\ claimed[d] \in Int
    BY SchedulesAssumption DEF TypesInv, Sweep, Days, Runs, NoRun
  <1>2. d > sweep[w].occurrence /\ Active(w) /\ "edit" \notin quirks
    BY <1>1 DEF Dated, Active, Waits
  <1>3. sweep[w].day < d
    BY <1>2 DEF GapInv
  <1>4. d <= claimed[d] /\ claimed[d] <= sweep[w].day
    BY <1>2 DEF ClockInv, OneMorning
  <1> QED
    BY <1>1, <1>3, <1>4

\* While one has found an occurrence nobody has claimed, nobody makes a ticket.
LEMMA NobodyMakes ==
    ASSUME TypesInv, ClockInv, OnceInv, GapInv, Waits, OneMorning,
           NEW w \in Workers, Dated(w), sweep[w].occurrence \notin Runs,
           NEW v \in Workers, Making(v)
    PROVE  FALSE
  <1>1. /\ sweep[w].occurrence \in Int /\ sweep[w].day \in Int
        /\ sweep[v].occurrence \in Int /\ sweep[v].day \in Int
    BY SchedulesAssumption DEF TypesInv, Sweep, Days
  <1>2. sweep[v].occurrence \in Runs
    BY DEF OnceInv, Waits
  <1>3. sweep[v].occurrence < sweep[w].occurrence
    BY <1>2, FoundLast
  <1>4. sweep[w].occurrence \in schedule.form.occurs
    BY DEF GapInv, Waits
  <1>5. sweep[v].day < sweep[w].occurrence
    BY <1>1, <1>3, <1>4 DEF GapInv, Waits, Making, Dated
  <1>6. sweep[v].day = sweep[w].day /\ sweep[w].occurrence <= sweep[w].day
    BY DEF OneMorning, Making, Dated, Active, ClockInv
  <1> QED
    BY <1>1, <1>5, <1>6

\* What is noted, edited or deleted stays so.
LEMMA WaitsBefore ==
    ASSUME TypesInv, [SchedNext]_schedVars, Waits'
    PROVE  Waits
  <1>1. ASSUME NEW w \in Workers, SweepStep(w) \/ FailSweep(w) PROVE Waits
    BY <1>1 DEF SweepStep, BeginSweep, AskDue, AskPrevious, Claim, CreateScheduled, LinkRun,
                FailSweep, Waits, Deleted
  <1>2. CASE Tick \/ Pause \/ Resume \/ ArchiveTeam \/ UNCHANGED schedVars
             \/ \E i \in DOMAIN tickets : Work(i) \/ PurgeOne(i)
    BY <1>2 DEF Tick, Pause, Resume, ArchiveTeam, schedVars, Work, PurgeOne, Waits, Deleted, TypesInv, Rows
  <1>3. CASE DeleteSchedule \/ \E f \in Forms : SaveForm(f)
    BY <1>3 DEF DeleteSchedule, SaveForm, Waits, Deleted, TypesInv, Rows
  <1> QED
    BY <1>1, <1>2, <1>3 DEF SchedNext

\* One that makes no ticket disturbs nothing, if none is in its way when it is
\* about to claim.
LEMMA WaitQuiet ==
    ASSUME TypesInv, OneMorning, MadeInOrder, MadeWhenClear,
           NEW w \in Workers, Others(w), UNCHANGED <<claimed, tickets, ticketOf>>,
           sweep'[w].at \in {"asleep", "read", "due", "free"},
           Active(w)' => Active(w) /\ sweep'[w].day = sweep[w].day,
           sweep'[w].at = "free" /\ sweep'[w].occurrence \notin Runs
               => \A i \in DOMAIN tickets : ~InTheWay(i)
    PROVE  OneMorning' /\ MadeInOrder' /\ MadeWhenClear'
  <1>1. Runs' = Runs /\ \A i \in DOMAIN tickets : InTheWay(i)' <=> InTheWay(i)
    BY DEF Runs, InTheWay, OnTheBoard, IsLinked
  <1>2. OneMorning'
    BY <1>1 DEF OneMorning, Others, Active
  <1>3. MadeInOrder'
    BY DEF MadeInOrder, Others
  <1>4. MadeWhenClear'
    BY <1>1 DEF MadeWhenClear, Others, Making
  <1> QED
    BY <1>2, <1>3, <1>4

\* A schedule that does not wait for it has no ticket in the way.
LEMMA NoneInTheWay ==
    ASSUME TypesInv, MadeInOrder, MadeWhenClear, NEW row, row.form.waits, ~WaitingOn(row),
           NEW i \in DOMAIN tickets
    PROVE  ~InTheWay(i)
  <1> SUFFICES ASSUME InTheWay(i) PROVE FALSE
    OBVIOUS
  <1>1. PICK d \in Days : ticketOf[d] = i
    BY DEF InTheWay, IsLinked
  <1>2. d \in Linked
    BY <1>1 DEF Linked, InTheWay
  <1> DEFINE l == Latest(Linked)
             j == ticketOf[l]
  <1>3. l \in Linked /\ d <= l
    BY <1>2, LatestOfSome DEF Linked
  <1>4. ~tickets[j].open
    BY <1>2 DEF WaitingOn
  <1> HIDE DEF l
  <1>5. l \in Days /\ j # NoTicket /\ i # j
    BY <1>3, <1>4 DEF Linked, OnTheBoard, InTheWay
  <1>6. j \in DOMAIN tickets
    BY <1>5, Numbered DEF TypesInv, NoTicket
  <1>7. tickets[i].of = d /\ tickets[j].of = l
    BY <1>1, <1>5 DEF MadeInOrder, InTheWay, OnTheBoard
  <1>8. i \in Int /\ j \in Int /\ d \in Int /\ l \in Int
    BY <1>5, <1>6, Numbered, SchedulesAssumption DEF Days
  <1>9. i < j
    <2>1. ~(j < i)
      BY <1>3, <1>6, <1>7, <1>8 DEF MadeInOrder
    <2> QED
      BY <1>5, <1>8, <2>1
  <1> QED
    BY <1>6, <1>9 DEF MadeWhenClear

\* A claim comes after all there were, made by nobody else.
LEMMA ClaimKeeps ==
    ASSUME TypesInv, ClockInv, OnceInv, GapInv, Waits, OneMorning, MadeInOrder, MadeWhenClear,
           NEW w \in Workers, Claim(w)
    PROVE  OneMorning' /\ MadeInOrder' /\ MadeWhenClear'
  <1>1. UNCHANGED <<tickets, ticketOf>> /\ sweep[w].at = "free" /\ Dated(w) /\ Active(w)
    BY DEF Claim, Dated, Active
  <1>2. CASE FallsAsleep(w) /\ claimed' = claimed
    BY <1>1, <1>2, WaitQuiet DEF FallsAsleep, Active
  <1>3. CASE /\ Onward(w, "claimed") /\ sweep[w].occurrence \in Days \ Runs
             /\ Runs' = Runs \cup {sweep[w].occurrence}
             /\ claimed'[sweep[w].occurrence] = sweep[w].day
             /\ \A d \in Runs : claimed'[d] = claimed[d]
    <2>1. \A i \in DOMAIN tickets : InTheWay(i)' <=> InTheWay(i)
      BY <1>1 DEF InTheWay, OnTheBoard, IsLinked
    <2>2. \A v \in Workers : Active(v)' => Active(v) /\ sweep'[v].day = sweep[v].day
      BY <1>1, <1>3 DEF Onward, Others, Active
    <2>3. sweep[w].day \in Int
      BY SchedulesAssumption DEF TypesInv, Sweep, Days
    <2>4. OneMorning'
      BY <1>1, <1>3, <2>2, <2>3 DEF OneMorning
    <2>5. \A i \in DOMAIN tickets : tickets[i].of < sweep[w].occurrence
      BY <1>1, <1>3, FoundLast DEF OnceInv, Waits
    <2>6. MadeInOrder'
      BY <1>1, <1>3, <2>5 DEF MadeInOrder, Onward, Others
    <2>7. \A v \in Workers : ~Making(v)
      BY <1>1, <1>3, NobodyMakes
    <2>8. \A u, v \in Workers : Making(u)' /\ Making(v)' => u = v
      BY <1>3, <2>7 DEF Onward, Others, Making
    <2>9. \A i \in DOMAIN tickets : ~InTheWay(i)
      BY <1>1, <1>3 DEF MadeWhenClear
    <2> QED
      BY <1>1, <2>1, <2>4, <2>6, <2>8, <2>9 DEF MadeWhenClear
  <1> QED
    BY <1>2, <1>3, ClaimDoes

\* A ticket is made after all there are, with none in the way, linked to no run.
LEMMA CreateKeeps ==
    ASSUME TypesInv, Waits, OneMorning, MadeInOrder, MadeWhenClear,
           NEW w \in Workers, CreateScheduled(w)
    PROVE  OneMorning' /\ MadeInOrder' /\ MadeWhenClear'
  <1>1. UNCHANGED <<claimed, ticketOf>> /\ sweep[w].at = "claimed" /\ Making(w) /\ Active(w)
    BY DEF CreateScheduled, Making, Active
  <1>2. CASE FallsAsleep(w) /\ tickets' = tickets
    BY <1>1, <1>2, WaitQuiet DEF FallsAsleep, Active
  <1>3. CASE /\ Onward(w, "created")
             /\ sweep'[w].ticket = Len(tickets) + 1
             /\ Len(tickets') = Len(tickets) + 1
             /\ DOMAIN tickets' = DOMAIN tickets \cup {Len(tickets) + 1}
             /\ \A i \in DOMAIN tickets : tickets'[i] = tickets[i]
             /\ tickets'[Len(tickets) + 1].of = sweep[w].occurrence
    <2>0. /\ DOMAIN tickets = 1..Len(tickets) /\ Len(tickets) \in Nat
          /\ \A d \in Days : ticketOf[d] \in Nat /\ ticketOf[d] <= Len(tickets)
      BY Numbered DEF TypesInv
    <2>n. PICK n \in Nat : n = Len(tickets) + 1
      BY <2>0
    <2>1. \A v \in Workers \ {w} : ~Making(v) /\ sweep'[v] = sweep[v]
      BY <1>1, <1>3 DEF MadeWhenClear, Onward, Others
    <2>2. Runs' = Runs
      BY <1>1 DEF Runs
    <2>3. OneMorning'
      BY <1>1, <1>3, <2>1, <2>2 DEF OneMorning, Onward, Active
    <2>4. \A i \in DOMAIN tickets : InTheWay(i)' <=> InTheWay(i)
      BY <1>1, <1>3 DEF InTheWay, OnTheBoard, IsLinked
    <2>5. ~InTheWay(n)'
      BY <1>1, <2>0, <2>n DEF InTheWay, IsLinked
    <2>6. \A i \in DOMAIN tickets : ~InTheWay(i) /\ tickets[i].of < sweep[w].occurrence
      BY <1>1 DEF MadeWhenClear, MadeInOrder
    <2>7. \A i, j \in DOMAIN tickets' : i < j => tickets'[i].of < tickets'[j].of
      <3> SUFFICES ASSUME NEW i \in DOMAIN tickets', NEW j \in DOMAIN tickets', i < j
                   PROVE  tickets'[i].of < tickets'[j].of
        OBVIOUS
      <3>1. i \in DOMAIN tickets
        BY <1>3, <2>0
      <3>2. CASE j = n
        BY <1>3, <2>6, <2>n, <3>1, <3>2
      <3>3. CASE j \in DOMAIN tickets
        BY <1>3, <3>1, <3>3 DEF MadeInOrder
      <3> QED
        BY <1>3, <2>n, <3>2, <3>3
    <2>8. \A d \in Days : ticketOf'[d] # NoTicket => tickets'[ticketOf'[d]].of = d
      <3> SUFFICES ASSUME NEW d \in Days, ticketOf[d] # NoTicket
                   PROVE  tickets'[ticketOf[d]].of = d
        BY <1>1
      <3>1. ticketOf[d] \in DOMAIN tickets
        BY <2>0 DEF NoTicket
      <3> QED
        BY <1>3, <3>1 DEF MadeInOrder
    <2>9. \A v \in Workers : /\ sweep'[v].at # "claimed"
                             /\ sweep'[v].at = "created" => v = w
                             /\ Making(v)' => v = w
      BY <1>3, <2>1 DEF Onward, Making
    <2>10. MadeInOrder'
      BY <1>3, <2>0, <2>7, <2>8, <2>9 DEF MadeInOrder, Onward, NoTicket
    <2>11. \A i \in DOMAIN tickets' : ~InTheWay(i)'
      BY <1>3, <2>4, <2>5, <2>6, <2>n
    <2>12. MadeWhenClear'
      BY <2>9, <2>11 DEF MadeWhenClear
    <2> QED
      BY <2>3, <2>10, <2>12
  <1> QED
    BY <1>2, <1>3, CreateDoes

\* The run is told of the newest ticket while no other is about to be made.
LEMMA LinkKeeps ==
    ASSUME TypesInv, ClockInv, OnceInv, GapInv, Waits, OneMorning, MadeInOrder, MadeWhenClear,
           NEW w \in Workers, LinkRun(w)
    PROVE  OneMorning' /\ MadeInOrder' /\ MadeWhenClear'
  <1>1. /\ Others(w) /\ sweep'[w].at = "asleep" /\ sweep[w].at = "created"
        /\ \A d \in Days : \/ ticketOf'[d] = ticketOf[d]
                           \/ d = sweep[w].occurrence /\ ticketOf'[d] = sweep[w].ticket
        /\ claimed' = claimed /\ tickets' = tickets
    BY LinkDoes DEF FallsAsleep
  <1>2. Runs' = Runs /\ Making(w)
    BY <1>1 DEF Runs, Making
  <1>3. OneMorning'
    BY <1>1, <1>2 DEF OneMorning, Others, Active
  <1>4. MadeInOrder'
    <2>1. \A d \in Days : ticketOf'[d] # NoTicket => tickets[ticketOf'[d]].of = d
      BY <1>1 DEF MadeInOrder
    <2> QED
      BY <1>1, <2>1 DEF MadeInOrder, Others
  <1>5. \A i \in DOMAIN tickets : InTheWay(i)' => InTheWay(i) \/ i = Len(tickets)
    BY <1>1 DEF InTheWay, OnTheBoard, IsLinked, MadeInOrder
  <1>6. \A i, j \in DOMAIN tickets : i < j => ~InTheWay(i)'
    BY <1>5, Numbered DEF MadeWhenClear
  <1>7. \A v \in Workers : \/ sweep'[v].at = "free" /\ sweep'[v].occurrence \notin Runs
                           \/ sweep'[v].at = "claimed"
                           => FALSE
    <2> SUFFICES ASSUME NEW v \in Workers,
                        \/ sweep'[v].at = "free" /\ sweep'[v].occurrence \notin Runs
                        \/ sweep'[v].at = "claimed"
                 PROVE  FALSE
      OBVIOUS
    <2>1. v # w /\ sweep'[v] = sweep[v]
      BY <1>1 DEF Others
    <2>2. sweep[v].at # "claimed"
      BY <1>2, <2>1 DEF MadeWhenClear, Making
    <2>3. Dated(v) /\ sweep[v].occurrence \notin Runs
      BY <2>1, <2>2 DEF Dated
    <2> QED
      BY <1>2, <2>3, NobodyMakes
  <1>8. MadeWhenClear'
    BY <1>1, <1>2, <1>6, <1>7 DEF MadeWhenClear, Making, Others
  <1> QED
    BY <1>3, <1>4, <1>8

\* Whoever works on a ticket puts none in the way.
LEMMA WorkKeeps ==
    ASSUME TypesInv, OneMorning, MadeInOrder, MadeWhenClear,
           NEW i \in DOMAIN tickets, Work(i) \/ PurgeOne(i)
    PROVE  OneMorning' /\ MadeInOrder' /\ MadeWhenClear'
  <1>1. /\ Len(tickets') = Len(tickets) /\ DOMAIN tickets' = DOMAIN tickets
        /\ \A j \in DOMAIN tickets : tickets'[j].of = tickets[j].of
        /\ \A j \in DOMAIN tickets : j # i => tickets'[j] = tickets[j]
        /\ \/ tickets'[i].place # "board" \/ tickets'[i].back
           \/ tickets[i].place = "board" /\ tickets[i].open /\ ~tickets'[i].open
    BY WorkedOn
  <1>2. UNCHANGED <<claimed, sweep>> /\ Runs' = Runs
    BY DEF Work, PurgeOne, Runs
  <1>3. \A d \in Days : ticketOf'[d] # NoTicket => ticketOf'[d] = ticketOf[d]
    BY DEF Work, PurgeOne
  <1>4. \A j \in DOMAIN tickets : InTheWay(j)' => InTheWay(j)
    <2> SUFFICES ASSUME NEW j \in DOMAIN tickets, InTheWay(j)' PROVE InTheWay(j)
      OBVIOUS
    <2>1. j # i
      BY <1>1 DEF InTheWay, OnTheBoard
    <2>2. IsLinked(j) /\ j # NoTicket
      BY <1>3 DEF InTheWay, IsLinked, OnTheBoard
    <2> QED
      BY <1>1, <2>1, <2>2 DEF InTheWay, OnTheBoard
  <1>5. OneMorning'
    BY <1>2 DEF OneMorning, Active
  <1>6. MadeInOrder'
    <2>1. \A d \in Days : ticketOf[d] # NoTicket => ticketOf[d] \in DOMAIN tickets
      BY Numbered DEF TypesInv, NoTicket
    <2>2. \A d \in Days : ticketOf'[d] # NoTicket => tickets'[ticketOf'[d]].of = d
      BY <1>1, <1>3, <2>1 DEF MadeInOrder
    <2>3. \A w \in Workers : sweep[w].at = "created" =>
             sweep[w].ticket \in DOMAIN tickets
      BY Numbered DEF MadeInOrder, NoTicket, TypesInv
    <2> QED
      BY <1>1, <1>2, <2>2, <2>3 DEF MadeInOrder
  <1>7. MadeWhenClear'
    BY <1>1, <1>2, <1>4 DEF MadeWhenClear, Making
  <1> QED
    BY <1>5, <1>6, <1>7

\* While nothing is excepted, a schedule that waits makes its tickets one by one.
LEMMA WaitKept ==
    ASSUME TypesInv, ClockInv, OnceInv, GapInv, WaitInv, [SchedNext]_schedVars
    PROVE  WaitInv'
  <1> SUFFICES ASSUME Waits' PROVE OneMorning' /\ MadeInOrder' /\ MadeWhenClear'
    BY DEF WaitInv
  <1>0. Waits /\ OneMorning /\ MadeInOrder /\ MadeWhenClear
    BY WaitsBefore DEF WaitInv
  <1>1. ASSUME NEW w \in Workers, BeginSweep(w)
        PROVE  OneMorning' /\ MadeInOrder' /\ MadeWhenClear'
    <2>1. UNCHANGED <<claimed, tickets, ticketOf>> /\ Runs' = Runs
      BY <1>1 DEF BeginSweep, Runs
    <2>2. /\ Others(w) /\ sweep'[w].at = "read" /\ sweep'[w].day = DueDay
      BY <1>1, BeginDoes
    <2>3. \A v \in Workers : Active(v) => sweep[v].day = DueDay
      BY <1>1 DEF BeginSweep, Waits, Active
    <2>4. OneMorning'
      BY <1>0, <2>1, <2>2, <2>3 DEF OneMorning, Others, Active, ClockInv
    <2>5. \A i \in DOMAIN tickets : InTheWay(i)' <=> InTheWay(i)
      BY <2>1 DEF InTheWay, OnTheBoard, IsLinked
    <2>6. MadeInOrder'
      BY <1>0, <2>1, <2>2 DEF MadeInOrder, Others
    <2>7. MadeWhenClear'
      BY <1>0, <2>1, <2>2, <2>5 DEF MadeWhenClear, Others, Making
    <2> QED
      BY <2>4, <2>6, <2>7
  <1>2. ASSUME NEW w \in Workers, AskDue(w)
        PROVE  OneMorning' /\ MadeInOrder' /\ MadeWhenClear'
    <2>1. UNCHANGED <<claimed, tickets, ticketOf>> /\ Active(w)
      BY <1>2 DEF AskDue, Active
    <2>2. /\ Others(w) /\ sweep'[w].at \in {"asleep", "due"}
          /\ Active(w)' => sweep'[w].day = sweep[w].day
      BY <1>2, AskDoes DEF FallsAsleep, Active
    <2> QED
      BY <1>0, <2>1, <2>2, WaitQuiet
  <1>3. ASSUME NEW w \in Workers, AskPrevious(w)
        PROVE  OneMorning' /\ MadeInOrder' /\ MadeWhenClear'
    <2>1. UNCHANGED <<claimed, tickets, ticketOf>> /\ Active(w)
      BY <1>3 DEF AskPrevious, Active
    <2>2. CASE FallsAsleep(w)
      BY <1>0, <2>1, <2>2, WaitQuiet DEF FallsAsleep, Active
    <2>3. CASE Onward(w, "free") /\ ~WaitingOn(sweep[w].row)
      <3>1. sweep[w].row.form.waits
        BY <1>0, <2>1 DEF GapInv, Waits
      <3>2. \A i \in DOMAIN tickets : ~InTheWay(i)
        BY <1>0, <2>3, <3>1, NoneInTheWay
      <3> QED
        BY <1>0, <2>1, <2>3, <3>2, WaitQuiet DEF Onward, Active
    <2> QED
      BY <1>3, <2>2, <2>3, PreviousDoes
  <1>4. ASSUME NEW w \in Workers, Claim(w) \/ CreateScheduled(w) \/ LinkRun(w)
        PROVE  OneMorning' /\ MadeInOrder' /\ MadeWhenClear'
    BY <1>0, <1>4, ClaimKeeps, CreateKeeps, LinkKeeps
  <1>5. ASSUME NEW w \in Workers, FailSweep(w)
        PROVE  OneMorning' /\ MadeInOrder' /\ MadeWhenClear'
    BY <1>0, <1>5, FailDoes, WaitQuiet DEF FallsAsleep, Active
  <1>6. ASSUME NEW i \in DOMAIN tickets, Work(i) \/ PurgeOne(i)
        PROVE  OneMorning' /\ MadeInOrder' /\ MadeWhenClear'
    BY <1>0, <1>6, WorkKeeps
  <1>7. CASE UNCHANGED <<claimed, tickets, ticketOf, sweep>>
    <2>1. Runs' = Runs /\ \A i \in DOMAIN tickets : InTheWay(i)' <=> InTheWay(i)
      BY <1>7 DEF Runs, InTheWay, OnTheBoard, IsLinked
    <2> QED
      BY <1>0, <1>7, <2>1 DEF OneMorning, MadeInOrder, MadeWhenClear, Active, Making
  <1>8. CASE Tick \/ Pause \/ Resume \/ ArchiveTeam \/ UNCHANGED schedVars \/ \E f \in Forms : SaveForm(f)
    BY <1>7, <1>8 DEF Tick, Pause, Resume, ArchiveTeam, SaveForm, schedVars
  <1>9. ~DeleteSchedule
    BY DEF DeleteSchedule, Waits, Deleted, TypesInv, Rows
  <1> QED
    BY <1>1, <1>2, <1>3, <1>4, <1>5, <1>6, <1>8, <1>9 DEF SchedNext, SweepStep

(***************************************************************************)
(* The theorems.                                                           *)
(***************************************************************************)
\* What the sweeps rest on is there at the start and no step takes it away.
LEMMA SchedInductive == SchedSpec => []SchedInv
<1>1. SchedInit => SchedInv
  <2> SUFFICES ASSUME SchedInit PROVE SchedInv
    OBVIOUS
  <2>1. /\ schedule \in Rows /\ 0 \in Days /\ Runs = {}
        /\ \A w \in Workers : sweep[w] = Asleep
    BY SchedulesAssumption DEF SchedInit, Rows, Days, Runs
  <2>2. tickets = <<>> /\ tickets \in Seq(Ticket) /\ Len(tickets) = 0 /\ DOMAIN tickets = {}
    BY EmptySeq DEF SchedInit
  <2>3. \A w \in Workers : ~Active(w) /\ ~Dated(w) /\ ~Making(w) /\ sweep[w].at = "asleep"
    BY <2>1, AsleepTypes DEF Active, Dated, Making
  <2>0. archived \in BOOLEAN
    BY DEF SchedInit
  <2>4. TypesInv
    BY <2>0, <2>1, <2>2, AsleepTypes, SchedulesAssumption DEF SchedInit, TypesInv, Active, NoTicket
  <2>5. ClockInv /\ OnceInv /\ GapInv
    BY <2>1, <2>2, <2>3 DEF ClockInv, OnceInv, GapInv, OncePerOccurrence
  <2>6. PauseInv
    BY <2>3 DEF SchedInit, PauseInv
  <2>7. WaitInv
    BY <2>1, <2>2, <2>3 DEF SchedInit, WaitInv, OneMorning, MadeInOrder, MadeWhenClear
  <2> QED
    BY <2>4, <2>5, <2>6, <2>7 DEF SchedInv
<1>2. SchedInv /\ [SchedNext]_schedVars => SchedInv'
  BY TypesKept, ClockKept, OnceKept, GapKept, PauseKept, WaitKept DEF SchedInv
<1> QED
  BY <1>1, <1>2, PTL DEF SchedSpec

\* However many workers sweep, whatever fails, and whatever people do to it: an
\* occurrence gets one ticket, a gap one, and a schedule that waits no two open
\* copies but for those excepted. (schedules.py)
THEOREM SchedulesCorrect == SchedSpec => []SchedulesSafe
<1>1. SchedInv => SchedulesSafe
  <2> SUFFICES ASSUME SchedInv PROVE SchedulesSafe
    OBVIOUS
  <2>1. TypesInv
    BY DEF SchedInv
  <2>2. SchedTypeOK
    <3>1. DOMAIN tickets = 1..Len(tickets) /\ Len(tickets) \in Nat
      BY <2>1, Numbered
    <3>2. ticketOf \in [Days -> DOMAIN tickets \cup {NoTicket}]
      BY <2>1, <3>1 DEF TypesInv, NoTicket
    <3>3. ASSUME NEW w \in Workers, sweep[w] # Asleep
          PROVE  /\ sweep[w].at \in {"read", "due", "free", "claimed", "created"}
                 /\ sweep[w].row \in Rows /\ sweep[w].day \in Days \cup {-1}
                 /\ sweep[w].occurrence \in Days
                 /\ sweep[w].ticket \in DOMAIN tickets \cup {NoTicket}
      <4>1. /\ sweep[w] \in Sweep /\ Active(w) /\ sweep[w].row \in Rows
            /\ sweep[w].ticket <= Len(tickets)
        BY <2>1, <3>3 DEF TypesInv
      <4> QED
        BY <3>1, <4>1 DEF Sweep, Active, NoTicket
    <3> QED
      BY <2>1, <3>2, <3>3 DEF TypesInv, SchedTypeOK, Ticket
  <2>3. OncePerOccurrence
    BY DEF SchedInv, OnceInv
  <2>4. OneTicketForAGap
    BY <2>1 DEF SchedInv, GapInv, OneTicketForAGap, TypesInv, Runs
  <2>5. WaitsForPrevious
    BY DEF SchedInv, WaitInv, Waits, Deleted, WaitsForPrevious, MadeWhenClear, InTheWay, IsLinked
  <2> QED
    BY <2>2, <2>3, <2>4, <2>5 DEF SchedulesSafe
<1> QED
  BY <1>1, SchedInductive, PTL

\* "A schedule that was off for a month does not owe the month a ticket", however
\* many workers sweep. (schedules.py)
THEOREM PausesCorrect == SchedSpec => OwesNothingForThePause
<1> DEFINE Owes == \A d \in Days :
                      claimed[d] = NoRun /\ claimed'[d] # NoRun /\ "overlap" \notin quirks
                          => backOn <= d
<1>1. SchedInv /\ [SchedNext]_schedVars => [Owes]_schedVars
  <2> SUFFICES ASSUME SchedInv, SchedNext, NEW d \in Days, claimed[d] = NoRun,
                      claimed'[d] # NoRun, "overlap" \notin quirks
               PROVE  backOn <= d
    OBVIOUS
  <2>1. TypesInv /\ ClockInv /\ PauseInv
    BY DEF SchedInv
  <2>2. PICK w \in Workers : Claim(w)
    BY DEF SchedNext, SweepStep, BeginSweep, AskDue, AskPrevious, CreateScheduled, LinkRun,
           FailSweep, Tick, ArchiveTeam, Pause, Resume, SaveForm, DeleteSchedule, Work, PurgeOne
  <2>3. d \in Runs' /\ d \notin Runs
    BY DEF Runs
  <2>4. d = sweep[w].occurrence
    BY <2>1, <2>2, <2>3, ClaimDoes DEF Runs
  <2> QED
    BY <2>1, <2>2, <2>4 DEF PauseInv, Dated, Claim
<1>2. OwesNothingForThePause <=> [][Owes]_schedVars
  BY DEF OwesNothingForThePause
<1> HIDE DEF Owes
<1> QED
  BY <1>1, <1>2, SchedInductive, PTL DEF SchedSpec

-----------------------------------------------------------------------------
(* BoardOrder: keys. *)

Multiples(g) == {k * g : k \in Int}

(* What is a multiple of g is twice a multiple of its half.                *)
LEMMA Halving ==
    ASSUME NEW h \in Nat \ {0}, NEW a \in Multiples(2 * h)
    PROVE  /\ a \in Multiples(h) /\ a \in Int
           /\ \E x \in Multiples(h) : x \in Int /\ a = 2 * x
<1>1. PICK k \in Int : a = k * (2 * h)
  BY DEF Multiples
<1>2. k * h \in Int /\ k * (2 * h) = 2 * (k * h) /\ k * (2 * h) = (2 * k) * h /\ 2 * k \in Int
  OBVIOUS
<1>3. k * h \in Multiples(h) /\ (2 * k) * h \in Multiples(h)
  BY <1>2 DEF Multiples
<1> QED
  BY <1>1, <1>2, <1>3

(* Multiples add up.                                                       *)
LEMMA Adding ==
    ASSUME NEW h \in Nat \ {0}, NEW a \in Multiples(h), NEW b \in Multiples(h)
    PROVE  a + b \in Multiples(h) /\ a - b \in Multiples(h) /\ a \in Int /\ b \in Int
<1>1. PICK k \in Int : a = k * h
  BY DEF Multiples
<1>2. PICK l \in Int : b = l * h
  BY DEF Multiples
<1>3. /\ k * h \in Int /\ l * h \in Int /\ k + l \in Int /\ k - l \in Int
      /\ (k + l) * h = k * h + l * h /\ (k - l) * h = k * h - l * h
  OBVIOUS
<1> QED
  BY <1>1, <1>2, <1>3 DEF Multiples

(* A multiple of a multiple.                                               *)
LEMMA Finer ==
    ASSUME NEW h \in Nat \ {0}, NEW g \in Multiples(h), NEW a \in Multiples(g)
    PROVE  a \in Multiples(h)
<1>1. PICK k \in Int : g = k * h
  BY DEF Multiples
<1>2. PICK l \in Int : a = l * g
  BY DEF Multiples
<1>3. a = (l * k) * h /\ l * k \in Int
  BY <1>1, <1>2
<1> QED
  BY <1>3 DEF Multiples

(* A unit is something.                                                    *)
LEMMA UnitIsPositive == Unit \in Nat \ {0}
BY BoardOrderAssumption DEF Unit

(* The integer part of a key is the last whole key not above it.           *)
LEMMA WholeBelow ==
    ASSUME NEW a \in Int
    PROVE  /\ Whole(a) \in Int /\ Whole(a) <= a /\ a < Whole(a) + Unit
           /\ Whole(a) \in Multiples(Unit)
<1> DEFINE U == Unit
<1>0. U \in Nat \ {0}
  BY UnitIsPositive
<1> HIDE DEF U
<1>1. a \div U \in Int
  BY <1>0
<1>2. (a \div U) * U \in Int
  BY <1>0, <1>1
<1>3. (a \div U) * U <= a /\ a < (a \div U) * U + U
  BY <1>0
<1>4. (a \div U) * U \in Multiples(U)
  BY <1>1 DEF Multiples
<1> QED
  BY <1>2, <1>3, <1>4 DEF Whole, U

(* Of two whole keys the greater is a unit or more above.                  *)
LEMMA WholesApart ==
    ASSUME NEW a \in Int, NEW b \in Int, Whole(a) < Whole(b)
    PROVE  Whole(a) + Unit <= Whole(b)
<1> DEFINE U == Unit  x == a \div U  y == b \div U
<1>0. U \in Nat \ {0} /\ x \in Int /\ y \in Int
  BY UnitIsPositive
<1>1. x * U < y * U
  BY DEF Whole
<1> HIDE DEF U, x, y
<1>2. ~(y <= x)
  <2> SUFFICES ASSUME y <= x PROVE FALSE
    OBVIOUS
  <2>1. (x - y) * U >= 0 /\ (x - y) * U = x * U - y * U
    BY <1>0
  <2> QED
    BY <1>0, <1>1, <2>1
<1>3. (y - x - 1) * U >= 0 /\ (y - x - 1) * U = y * U - x * U - U
  BY <1>0, <1>2
<1>4. x * U + U <= y * U
  BY <1>0, <1>3
<1> QED
  BY <1>4 DEF Whole, x, y, U

(* A key before one.                                                       *)
LEMMA KeyBeforeFits ==
    ASSUME NEW h \in Nat \ {0}, Unit \in Multiples(h), NEW b \in Int
    PROVE  KeyBefore(b) \in Int /\ KeyBefore(b) < b
           /\ (b \in Multiples(h) => KeyBefore(b) \in Multiples(h))
<1>1. Unit \in Nat \ {0} /\ Whole(b) \in Int /\ Whole(b) <= b
  BY UnitIsPositive, WholeBelow
<1>2. Whole(b) \in Multiples(h)
  BY WholeBelow, Finer
<1>3. b \in Multiples(h) => b - Unit \in Multiples(h)
  BY Adding
<1> QED
  BY <1>1, <1>2, <1>3 DEF KeyBefore

(* And a key after one.                                                    *)
LEMMA KeyAfterFits ==
    ASSUME NEW h \in Nat \ {0}, Unit \in Multiples(h), NEW a \in Int
    PROVE  KeyAfter(a) \in Int /\ a < KeyAfter(a) /\ KeyAfter(a) \in Multiples(h)
<1>1. Unit \in Nat \ {0} /\ Whole(a) \in Int /\ a < Whole(a) + Unit
  BY UnitIsPositive, WholeBelow
<1>2. Whole(a) \in Multiples(h)
  BY WholeBelow, Finer
<1>3. Whole(a) + Unit \in Multiples(h)
  BY <1>2, Adding
<1> QED
  BY <1>1, <1>3 DEF KeyAfter

(* Half-way between two keys.                                              *)
LEMMA MiddleFits ==
    ASSUME NEW h \in Nat \ {0}, NEW a \in Multiples(2 * h), NEW b \in Multiples(2 * h), a < b
    PROVE  LET m == (a + b) \div 2 IN m \in Multiples(h) /\ m \in Int /\ a < m /\ m < b
<1>1. PICK x \in Multiples(h) : x \in Int /\ a = 2 * x
  BY Halving
<1>2. PICK y \in Multiples(h) : y \in Int /\ b = 2 * y
  BY Halving
<1>3. (a + b) \div 2 = x + y
  BY <1>1, <1>2
<1>4. x + y \in Multiples(h)
  BY Adding
<1> QED
  BY <1>1, <1>2, <1>3, <1>4

(* Between two keys there is room for one, as long as both are multiples   *)
(* of what can be halved.                                                  *)
LEMMA KeyBetweenFits ==
    ASSUME NEW h \in Nat \ {0}, Unit \in Multiples(2 * h),
           NEW a \in Multiples(2 * h), NEW b \in Multiples(2 * h), a < b
    PROVE  LET m == KeyBetween(a, b) IN m \in Multiples(h) /\ m \in Int /\ a < m /\ m < b
<1>1. a \in Int /\ b \in Int /\ Unit \in Multiples(h)
  BY Halving
<1>2. KeyAfter(a) \in Int /\ a < KeyAfter(a) /\ KeyAfter(a) \in Multiples(h)
  BY <1>1, KeyAfterFits
<1>3. CASE Whole(a) # Whole(b) /\ KeyAfter(a) < b
  BY <1>2, <1>3 DEF KeyBetween
<1>4. CASE Whole(a) = Whole(b)
  <2>1. KeyBetween(a, b) = (a + b) \div 2
    BY <1>4 DEF KeyBetween
  <2> QED
    BY <2>1, MiddleFits
<1>5. CASE Whole(a) # Whole(b) /\ ~(KeyAfter(a) < b)
  <2>1. /\ Whole(a) \in Int /\ Whole(b) \in Int /\ Unit \in Nat
        /\ Whole(a) <= a /\ Whole(b) <= b /\ b < Whole(b) + Unit
    BY <1>1, WholeBelow, UnitIsPositive
  <2>2. Whole(a) < Whole(b)
    <3> SUFFICES ASSUME Whole(b) < Whole(a)
                 PROVE  FALSE
      BY <1>5, <2>1
    <3>1. Whole(b) + Unit <= Whole(a)
      BY <1>1, WholesApart
    <3> QED
      BY <1>1, <2>1, <3>1
  <2>3. Whole(a) + Unit <= Whole(b)
    BY <1>1, <2>2, WholesApart
  <2>4. KeyAfter(a) = b
    BY <1>1, <1>5, <2>1, <2>3 DEF KeyAfter
  <2>5. KeyBetween(a, b) = (a + b) \div 2
    BY <1>5, <2>4 DEF KeyBetween
  <2> QED
    BY <2>5, MiddleFits
<1> QED
  BY <1>3, <1>4, <1>5

(* Where neighbours are in order there is a key between them.              *)
LEMMA KeyAtFits ==
    ASSUME NEW h \in Nat \ {0}, Unit \in Multiples(2 * h),
           NEW r \in [Cards -> Multiples(2 * h)],
           NEW above \in Cards \cup {None}, NEW below \in Cards \cup {None},
           above # None \/ below # None, Fits(r, above, below)
    PROVE  LET k == KeyAt(r, above, below) IN
           /\ k \in Multiples(h) /\ k \in Int
           /\ above # None => r[above] < k
           /\ below # None => k < r[below]
<1>1. \A c \in Cards : r[c] \in Multiples(2 * h) /\ r[c] \in Multiples(h) /\ r[c] \in Int
  BY Halving
<1>2. Unit \in Multiples(h)
  BY Halving
<1>3. CASE above = None
  BY <1>1, <1>2, <1>3, KeyBeforeFits DEF KeyAt
<1>4. CASE above # None /\ below = None
  BY <1>1, <1>2, <1>4, KeyAfterFits DEF KeyAt
<1>5. CASE above # None /\ below # None
  <2>1. r[above] < r[below] /\ KeyAt(r, above, below) = KeyBetween(r[above], r[below])
    BY <1>5 DEF Fits, KeyAt
  <2> QED
    BY <1>1, <1>5, <2>1, KeyBetweenFits
<1> QED
  BY <1>3, <1>4, <1>5

-----------------------------------------------------------------------------
(* BoardOrder: orders. *)

(* Is R an order of the members of S, one after the other?                 *)
Orders(R, S) ==
    /\ \A a, b \in S : a # b => (<<a, b>> \in R <=> <<b, a>> \notin R)
    /\ \A a, b, c \in S : <<a, b>> \in R /\ <<b, c>> \in R => <<a, c>> \in R
    /\ \A a \in S : <<a, a>> \notin R

(* What comes before another has fewer before it.                          *)
LEMMA FewerBefore ==
    ASSUME NEW S, IsFiniteSet(S), NEW R, Orders(R, S),
           NEW a \in S, NEW b \in S, <<a, b>> \in R
    PROVE  LET m == Cardinality({c \in S : <<c, a>> \in R})
               n == Cardinality({c \in S : <<c, b>> \in R})
           IN  m \in Nat /\ n \in Nat /\ m < n
<1> DEFINE A == {c \in S : <<c, a>> \in R}  B == {c \in S : <<c, b>> \in R}
<1>1. A \in SUBSET B /\ a \in B /\ a \notin A
  BY DEF Orders
<1>2. IsFiniteSet(B)
  BY FS_Subset
<1> HIDE DEF A, B
<1>3. Cardinality(A) <= Cardinality(B) /\ Cardinality(A) # Cardinality(B) /\ IsFiniteSet(A)
  BY <1>1, <1>2, FS_Subset
<1>4. Cardinality(A) \in Nat /\ Cardinality(B) \in Nat
  BY <1>2, <1>3, FS_CardinalityType
<1> QED
  BY <1>3, <1>4 DEF A, B

(* Some member comes first.                                                *)
LEMMA SomeFirst ==
    ASSUME NEW S, IsFiniteSet(S), S # {}, NEW R, Orders(R, S)
    PROVE  \E d \in S : \A e \in S \ {d} : <<d, e>> \in R
<1> DEFINE n(d) == Cardinality({c \in S : <<c, d>> \in R})
           N == {n(d) : d \in S}
<1>1. \A d \in S : n(d) \in Nat
  <2> TAKE d \in S
  <2>1. IsFiniteSet({c \in S : <<c, d>> \in R})
    BY FS_Subset
  <2> QED
    BY <2>1, FS_CardinalityType
<1>2. \A d, e \in S : <<e, d>> \in R => n(e) < n(d)
  BY FewerBefore
<1> HIDE DEF n
<1>3. N \subseteq Nat /\ N # {}
  BY <1>1
<1>4. PICK m \in N : \A k \in N : ~(<<k, m>> \in OpToRel(<, Nat))
  BY <1>3, NatLessThanWellFounded, WFMin
<1>5. PICK d \in S : m = n(d)
  OBVIOUS
<1>6. \A e \in S : ~(n(e) < n(d))
  BY <1>1, <1>4, <1>5 DEF OpToRel
<1>7. \A e \in S : <<e, d>> \notin R
  BY <1>2, <1>6
<1> QED
  BY <1>7 DEF Orders

(* And some member last.                                                   *)
LEMMA SomeLast ==
    ASSUME NEW S, IsFiniteSet(S), S # {}, NEW R, Orders(R, S)
    PROVE  \E d \in S : \A e \in S \ {d} : <<e, d>> \in R
<1> DEFINE Q == {p \in S \X S : <<p[2], p[1]>> \in R}
<1>1. \A a, b \in S : <<a, b>> \in Q <=> <<b, a>> \in R
  OBVIOUS
<1> HIDE DEF Q
<1>2. Orders(Q, S)
  BY <1>1 DEF Orders
<1>3. PICK d \in S : \A e \in S \ {d} : <<d, e>> \in Q
  BY <1>2, SomeFirst
<1> QED
  BY <1>1, <1>3

(* Cards are in order by rank, and of equal ranks by number.               *)
LEMMA RanksOrder ==
    ASSUME NEW r \in [Cards -> Int], NEW S \in SUBSET Cards
    PROVE  /\ Orders(InOrder(r, S), S) /\ InOrder(r, S) \subseteq S \X S
           /\ \A a, b \in S : <<a, b>> \in InOrder(r, S) <=> Before(r, a, b)
<1>1. \A c \in S : c \in Int /\ r[c] \in Int
  BY BoardOrderAssumption
<1>2. \A a, b \in S : <<a, b>> \in InOrder(r, S) <=> Before(r, a, b)
  BY DEF InOrder
<1>3. /\ \A a, b \in S : a # b => (Before(r, a, b) <=> ~Before(r, b, a))
      /\ \A a, b, c \in S : Before(r, a, b) /\ Before(r, b, c) => Before(r, a, c)
      /\ \A a \in S : ~Before(r, a, a)
  BY <1>1 DEF Before
<1> QED
  BY <1>2, <1>3 DEF Orders, InOrder

(* Numbering them afresh keeps the order, and leaves no ties.              *)
LEMMA RenumberingKeeps ==
    ASSUME NEW r \in [Cards -> Int], NEW S \in SUBSET Cards
    PROVE  /\ Renumbered(r, S) \in [Cards -> Int]
           /\ \A c \in S : Renumbered(r, S)[c] \in Multiples(Unit)
           /\ \A c \in Cards \ S : Renumbered(r, S)[c] = r[c]
           /\ \A a, b \in S : Before(r, a, b) => Renumbered(r, S)[a] < Renumbered(r, S)[b]
<1> DEFINE n(c) == Cardinality({d \in S : Before(r, d, c)})
           U == Unit
<1>0. IsFiniteSet(S) /\ U \in Nat \ {0}
  BY BoardOrderAssumption, FS_Subset, UnitIsPositive
<1>1. \A c \in S : n(c) \in Nat
  <2> TAKE c \in S
  <2>1. IsFiniteSet({d \in S : Before(r, d, c)})
    BY <1>0, FS_Subset
  <2> QED
    BY <2>1, FS_CardinalityType
<1>2. \A a, b \in S : Before(r, a, b) => n(a) < n(b)
  <2> TAKE a, b \in S
  <2> HAVE Before(r, a, b)
  <2>1. \A c \in S : {d \in S : Before(r, d, c)} = {d \in S : <<d, c>> \in InOrder(r, S)}
    BY RanksOrder
  <2>2. <<a, b>> \in InOrder(r, S) /\ Orders(InOrder(r, S), S)
    BY RanksOrder
  <2> QED
    BY <1>0, <2>1, <2>2, FewerBefore
<1>3. /\ \A c \in S : Renumbered(r, S)[c] = U * n(c)
      /\ \A c \in Cards \ S : Renumbered(r, S)[c] = r[c]
      /\ DOMAIN Renumbered(r, S) = Cards
  BY DEF Renumbered
<1> HIDE DEF n, U
<1>4. \A c \in S : U * n(c) \in Int /\ U * n(c) = n(c) * U /\ n(c) \in Int
  BY <1>0, <1>1
<1>5. \A c \in S : U * n(c) \in Multiples(Unit)
  BY <1>4 DEF Multiples, U
<1>6. \A a, b \in S : n(a) < n(b) => U * n(a) < U * n(b)
  <2> TAKE a, b \in S
  <2> HAVE n(a) < n(b)
  <2>1. PICK k \in Nat : n(b) = n(a) + 1 + k
    <3>1. n(b) - n(a) - 1 \in Nat /\ n(b) = n(a) + 1 + (n(b) - n(a) - 1)
      BY <1>1
    <3> QED
      BY <3>1
  <2>2. /\ \A x \in Nat : U * (x + 1 + k) = U * x + U + U * k
        /\ U * k >= 0 /\ U * k \in Int
    BY <1>0
  <2>3. U * n(b) = U * n(a) + U + U * k
    BY <1>1, <2>1, <2>2
  <2> QED
    BY <1>0, <1>4, <2>2, <2>3
<1>7. Renumbered(r, S) \in [Cards -> Int]
  <2>1. \A c \in Cards : Renumbered(r, S)[c] \in Int
    BY <1>3, <1>4
  <2> QED
    BY <2>1 DEF Renumbered
<1> QED
  BY <1>2, <1>3, <1>5, <1>6, <1>7

-----------------------------------------------------------------------------
(* BoardOrder: the drop, on a list. *)

(* Of some cards of a list there is a first and a last.                    *)
LEMMA EndsOf ==
    ASSUME NEW v, v.on \in SUBSET Cards, Orders(v.before, v.on), NEW T \in SUBSET v.on
    PROVE  /\ T = {} => First(v, T) = None /\ Last(v, T) = None
           /\ T # {} => /\ First(v, T) \in T /\ Last(v, T) \in T
                        /\ \A e \in T \ {First(v, T)} : <<First(v, T), e>> \in v.before
                        /\ \A e \in T \ {Last(v, T)} : <<e, Last(v, T)>> \in v.before
<1>1. IsFiniteSet(T) /\ Orders(v.before, T)
  BY BoardOrderAssumption, FS_Subset DEF Orders
<1>2. T # {} => First(v, T) \in T /\ \A e \in T \ {First(v, T)} : <<First(v, T), e>> \in v.before
  BY <1>1, SomeFirst DEF First
<1>3. T # {} => Last(v, T) \in T /\ \A e \in T \ {Last(v, T)} : <<e, Last(v, T)>> \in v.before
  BY <1>1, SomeLast DEF Last
<1> QED
  BY <1>2, <1>3 DEF First, Last

(* Nothing of the column is between the two but the card.                  *)
Adjacent(v, c, above, below, to) ==
    /\ above # None \/ below # None
    /\ above # None => above \in Column(v, to) \ {c}
    /\ below # None => below \in Column(v, to) \ {c}
    /\ above # None /\ below # None => <<above, below>> \in v.before
    /\ \A d \in Column(v, to) \ {c} :
           \/ above # None /\ (d = above \/ <<d, above>> \in v.before)
           \/ below # None /\ (d = below \/ <<below, d>> \in v.before)

(* The neighbours a drop names are such.                                   *)
LEMMA NeighboursAdjacent ==
    ASSUME NEW v, v.on \in SUBSET Cards, Orders(v.before, v.on),
           NEW c \in v.on, NEW over \in v.on, c # over
    PROVE  Adjacent(v, c, Neighbours(v, c, over).above, Neighbours(v, c, over).below, v.at[over])
<1> DEFINE others == Column(v, v.at[over]) \ {c}
           later == {d \in others : <<over, d>> \in v.before}
           earlier == {d \in others : <<d, over>> \in v.before}
<1>1. over \in others /\ others \in SUBSET v.on /\ None \notin v.on
  BY BoardOrderAssumption DEF Column
<1>2. later \in SUBSET v.on /\ earlier \in SUBSET v.on /\ over # None
  BY <1>1
<1>3. \A d \in others : d = over \/ d \in later \/ d \in earlier
  BY <1>1 DEF Orders
<1>4. CASE v.at[c] = v.at[over] /\ <<c, over>> \in v.before
  <2>1. Neighbours(v, c, over) = [above |-> over, below |-> First(v, later)]
    BY <1>4 DEF Neighbours
  <2>2. later = {} => First(v, later) = None
    BY <1>2, EndsOf
  <2>3. later # {} => First(v, later) \in later /\ First(v, later) # None
                      /\ \A e \in later \ {First(v, later)} : <<First(v, later), e>> \in v.before
    BY <1>1, <1>2, EndsOf
  <2> HIDE DEF later
  <2>4. Adjacent(v, c, over, First(v, later), v.at[over])
    <3>1. First(v, later) # None => First(v, later) \in later
      BY <2>2, <2>3
    <3>2. \A d \in others : \/ d = over \/ <<d, over>> \in v.before
                            \/ First(v, later) # None
                               /\ (d = First(v, later) \/ <<First(v, later), d>> \in v.before)
      BY <1>3, <2>2, <2>3
    <3>3. First(v, later) # None =>
              First(v, later) \in others /\ <<over, First(v, later)>> \in v.before
      BY <3>1 DEF later
    <3> QED
      BY <1>1, <1>2, <3>2, <3>3 DEF Adjacent
  <2> QED
    BY <2>1, <2>4
<1>5. CASE ~(v.at[c] = v.at[over] /\ <<c, over>> \in v.before)
  <2>1. Neighbours(v, c, over) = [above |-> Last(v, earlier), below |-> over]
    BY <1>5 DEF Neighbours
  <2>2. earlier = {} => Last(v, earlier) = None
    BY <1>2, EndsOf
  <2>3. earlier # {} => Last(v, earlier) \in earlier /\ Last(v, earlier) # None
                        /\ \A e \in earlier \ {Last(v, earlier)} : <<e, Last(v, earlier)>> \in v.before
    BY <1>1, <1>2, EndsOf
  <2> HIDE DEF earlier
  <2>4. Adjacent(v, c, Last(v, earlier), over, v.at[over])
    <3>1. Last(v, earlier) # None => Last(v, earlier) \in earlier
      BY <2>2, <2>3
    <3>2. \A d \in others : \/ d = over \/ <<over, d>> \in v.before
                            \/ Last(v, earlier) # None
                               /\ (d = Last(v, earlier) \/ <<d, Last(v, earlier)>> \in v.before)
      BY <1>3, <2>2, <2>3
    <3>3. Last(v, earlier) # None =>
              Last(v, earlier) \in others /\ <<Last(v, earlier), over>> \in v.before
      BY <3>1 DEF earlier
    <3> QED
      BY <1>1, <1>2, <3>2, <3>3 DEF Adjacent
  <2> QED
    BY <2>1, <2>4
<1> QED
  BY <1>4, <1>5

(* Above whom a card is drawn.                                             *)
Over(v, c, above, below) ==
    {d \in v.on \ {c} : IF below # None THEN <<d, below>> \in v.before
                        ELSE d = above \/ <<d, above>> \in v.before}

(* A card put elsewhere leaves the others as they were.                    *)
LEMMA PlacedOthers ==
    ASSUME NEW v \in ListType, NEW c \in v.on, NEW to \in Columns,
           NEW above \in Cards \cup {None}, NEW below \in Cards \cup {None}
    PROVE  \A d, e \in v.on \ {c} :
               <<d, e>> \in Placed(v, c, above, below, to).before <=> <<d, e>> \in v.before
<1> DEFINE w == Placed(v, c, above, below, to)
           up == Over(v, c, above, below)
<1>1. w = [on |-> v.on,
           before |-> {p \in v.before : c \notin {p[1], p[2]}}
                      \cup (up \X {c}) \cup ({c} \X (v.on \ (up \cup {c}))),
           at |-> [v.at EXCEPT ![c] = to]]
  BY DEF Placed, Under, Over
<1>2. up \in SUBSET (v.on \ {c})
  BY DEF Over
<1> HIDE DEF up
<1> QED
  BY <1>1, <1>2

(* It is under those it was put under, and over the rest.                  *)
LEMMA PlacedUnder ==
    ASSUME NEW v \in ListType, NEW c \in v.on, NEW to \in Columns,
           NEW above \in Cards \cup {None}, NEW below \in Cards \cup {None}
    PROVE  \A d \in v.on \ {c} :
               /\ <<d, c>> \in Placed(v, c, above, below, to).before
                      <=> d \in Over(v, c, above, below)
               /\ <<c, d>> \in Placed(v, c, above, below, to).before
                      <=> d \notin Over(v, c, above, below)
<1> DEFINE w == Placed(v, c, above, below, to)
           up == Over(v, c, above, below)
<1>1. w = [on |-> v.on,
           before |-> {p \in v.before : c \notin {p[1], p[2]}}
                      \cup (up \X {c}) \cup ({c} \X (v.on \ (up \cup {c}))),
           at |-> [v.at EXCEPT ![c] = to]]
  BY DEF Placed, Under, Over
<1>2. up \in SUBSET (v.on \ {c})
  BY DEF Over
<1> HIDE DEF up
<1>3. \A d \in v.on \ {c} : (<<d, c>> \in w.before <=> d \in up)
                           /\ (<<c, d>> \in w.before <=> d \notin up)
  BY <1>1, <1>2
<1> QED
  BY <1>3 DEF up

(* And the list is one after the other again.                              *)
LEMMA PlacedInOrder ==
    ASSUME NEW v \in ListType, OneByOne(v), NEW c \in v.on, NEW to \in Columns,
           NEW above \in Cards \cup {None}, NEW below \in Cards \cup {None},
           Adjacent(v, c, above, below, to)
    PROVE  /\ Placed(v, c, above, below, to) \in ListType
           /\ OneByOne(Placed(v, c, above, below, to))
           /\ Placed(v, c, above, below, to).on = v.on
           /\ Placed(v, c, above, below, to).at = [v.at EXCEPT ![c] = to]
<1> DEFINE w == Placed(v, c, above, below, to)
           up == Over(v, c, above, below)
<1>1. /\ v.on \in SUBSET Cards /\ v.at \in [Cards -> Columns \cup {Nowhere}]
      /\ v.before \in SUBSET (v.on \X v.on) /\ Orders(v.before, v.on)
  BY DEF ListType, OneByOne, Orders
<1>2. w = [on |-> v.on,
           before |-> {p \in v.before : c \notin {p[1], p[2]}}
                      \cup (up \X {c}) \cup ({c} \X (v.on \ (up \cup {c}))),
           at |-> [v.at EXCEPT ![c] = to]]
  BY DEF Placed, Under, Over
<1>3. up \in SUBSET (v.on \ {c})
  BY DEF Over
<1>4. \A x \in up, y \in v.on \ {c} : <<y, x>> \in v.before => y \in up
  <2> TAKE x \in up, y \in v.on \ {c}
  <2> HAVE <<y, x>> \in v.before
  <2>1. /\ below # None => below \in v.on
        /\ below = None => above \in v.on
    BY DEF Adjacent, Column
  <2> QED
    BY <1>1, <1>3, <2>1 DEF Over, Orders
<1> HIDE DEF up, w
<1>5. /\ w.on = v.on /\ w.at = [v.at EXCEPT ![c] = to]
      /\ w.before = {p \in v.before : c \notin {p[1], p[2]}}
                    \cup (up \X {c}) \cup ({c} \X (v.on \ (up \cup {c})))
  BY <1>2
<1>6. \A d, e \in v.on \ {c} : <<d, e>> \in w.before <=> <<d, e>> \in v.before
  BY PlacedOthers DEF w
<1>7. \A d \in v.on \ {c} : (<<d, c>> \in w.before <=> d \in up)
                           /\ (<<c, d>> \in w.before <=> d \notin up)
  BY PlacedUnder DEF w, up
<1>8. <<c, c>> \notin w.before
  BY <1>3, <1>5
<1>9. w.before \in SUBSET (v.on \X v.on)
  BY <1>1, <1>3, <1>5
<1>10. w \in ListType
  <2>1. /\ w.on \in SUBSET Cards /\ w.before \in SUBSET (Cards \X Cards)
        /\ w.at \in [Cards -> Columns \cup {Nowhere}]
    BY <1>1, <1>5, <1>9
  <2>2. w = [on |-> w.on, before |-> w.before, at |-> w.at]
    BY <1>2
  <2> QED
    BY <2>1, <2>2 DEF ListType
<1>11. /\ \A a, b \in v.on \ {c} : a # b => (<<a, b>> \in w.before <=> <<b, a>> \notin w.before)
       /\ \A a \in v.on \ {c} : <<a, a>> \notin w.before
       /\ \A a, b, d \in v.on \ {c} :
              <<a, b>> \in w.before /\ <<b, d>> \in w.before => <<a, d>> \in w.before
  BY <1>1, <1>6 DEF Orders
<1>12. \A x \in up, y \in v.on \ {c} : <<y, x>> \in w.before => y \in up
  BY <1>3, <1>4, <1>6
<1>13. OneByOne(w)
  <2>1. \A a, b \in v.on : a # b => (<<a, b>> \in w.before <=> <<b, a>> \notin w.before)
    <3> TAKE a, b \in v.on
    <3> HAVE a # b
    <3>1. CASE a = c
      BY <1>7, <3>1
    <3>2. CASE b = c
      BY <1>7, <3>2
    <3> QED
      BY <1>11, <3>1, <3>2
  <2>2. \A a \in v.on : <<a, a>> \notin w.before
    BY <1>8, <1>11
  <2>3. \A a, b, d \in v.on :
            <<a, b>> \in w.before /\ <<b, d>> \in w.before => <<a, d>> \in w.before
    <3> TAKE a, b, d \in v.on
    <3> HAVE <<a, b>> \in w.before /\ <<b, d>> \in w.before
    <3>1. CASE a # c /\ b # c /\ d # c
      BY <1>11, <3>1
    <3>2. CASE a = c
      <4>1. b # c /\ b \notin up
        BY <1>7, <1>8, <3>2
      <4>2. d # c
        BY <1>7, <3>2, <4>1
      <4>3. d \notin up
        BY <1>12, <4>1, <4>2
      <4> QED
        BY <1>7, <3>2, <4>2, <4>3
    <3>3. CASE a # c /\ b = c
      <4>1. a \in up /\ d # c /\ d \notin up
        BY <1>7, <1>8, <3>3
      <4>2. a # d /\ <<d, a>> \notin w.before
        BY <1>12, <3>3, <4>1
      <4> QED
        BY <1>11, <3>3, <4>1, <4>2
    <3>4. CASE a # c /\ b # c /\ d = c
      <4>1. b \in up
        BY <1>7, <3>4
      <4>2. a \in up
        BY <1>12, <3>4, <4>1
      <4> QED
        BY <1>7, <3>4, <4>2
    <3> QED
      BY <3>1, <3>2, <3>3, <3>4
  <2> QED
    BY <1>5, <1>9, <2>1, <2>2, <2>3 DEF OneByOne
<1> QED
  BY <1>5, <1>10, <1>13 DEF w

-----------------------------------------------------------------------------
(* BoardOrder: what a commit writes. *)

(* A key before every other, and one that fits.                            *)
LEMMA TopKeyFits ==
    ASSUME NEW h \in Nat \ {0}, Unit \in Multiples(h), NEW r \in [Cards -> Int],
           \A c \in Cards : r[c] \in Multiples(h), NEW S \in SUBSET Cards
    PROVE  /\ TopKey(r, S) \in Int /\ TopKey(r, S) \in Multiples(h)
           /\ \A c \in S : TopKey(r, S) < r[c]
<1>1. CASE S = {}
  <2>1. 0 \in Multiples(h)
    <3>1. 0 = 0 * h
      OBVIOUS
    <3> QED
      BY <3>1 DEF Multiples
  <2> QED
    BY <1>1, <2>1 DEF TopKey
<1>2. CASE S # {}
  <2> DEFINE k == CHOOSE k \in {r[c] : c \in S} : \A c \in S : k <= r[c]
  <2>1. IsFiniteSet(S)
    BY BoardOrderAssumption, FS_Subset
  <2>2. PICK d \in S : \A e \in S \ {d} : <<d, e>> \in InOrder(r, S)
    BY <1>2, <2>1, RanksOrder, SomeFirst
  <2>3. \A e \in S : r[d] <= r[e]
    <3> TAKE e \in S
    <3>0. r[d] \in Int /\ r[e] \in Int
      OBVIOUS
    <3>1. CASE e = d
      BY <3>0, <3>1
    <3>2. CASE e # d
      <4>1. Before(r, d, e)
        BY <2>2, <3>2, RanksOrder
      <4> QED
        BY <3>0, <4>1 DEF Before
    <3> QED
      BY <3>1, <3>2
  <2>4. k \in {r[c] : c \in S} /\ \A c \in S : k <= r[c]
    BY <2>3
  <2>5. TopKey(r, S) = KeyBefore(k)
    BY <1>2 DEF TopKey
  <2> HIDE DEF k
  <2>6. k \in Int /\ k \in Multiples(h)
    BY <2>4
  <2>7. KeyBefore(k) \in Int /\ KeyBefore(k) < k /\ KeyBefore(k) \in Multiples(h)
    BY <2>6, KeyBeforeFits
  <2> QED
    BY <2>4, <2>5, <2>6, <2>7
<1> QED
  BY <1>1, <1>2

Fresh(q) == IF Fits(q.read, q.above, q.below) THEN q.read ELSE Renumbered(q.read, q.on)

(* What is asked of the server can be: one neighbour at least, on the      *)
(* board, and not the card itself.                                         *)
Asked(q) ==
    /\ q \in RequestType /\ q.card \in Cards
    /\ q.kind = "move" => /\ q.above # None \/ q.below # None
                          /\ q.above # q.card /\ q.below # q.card
    /\ q.kind # "move" => q.above = None /\ q.below = None

(* Ranks a request goes by are as fine as those it read.                   *)
LEMMA FreshIsFine ==
    ASSUME NEW h \in Nat \ {0}, Unit \in Multiples(h), NEW q, Asked(q), ~OutOfOrder(q),
           \A c \in Cards : q.read[c] \in Multiples(h)
    PROVE  /\ Fresh(q) \in [Cards -> Int] /\ \A c \in Cards : Fresh(q)[c] \in Multiples(h)
           /\ q.kind = "move" => Fits(Fresh(q), q.above, q.below)
           /\ q.kind # "move" => Fresh(q) = q.read
           /\ \A c \in Cards \ q.on : Fresh(q)[c] = q.read[c]
           /\ \A a, b \in q.on : Before(q.read, a, b) => Before(Fresh(q), a, b)
<1>1. q.read \in [Cards -> Int] /\ q.on \in SUBSET Cards
  BY DEF Asked, RequestType
<1>2. CASE Fits(q.read, q.above, q.below)
  BY <1>1, <1>2 DEF Fresh
<1>3. CASE ~Fits(q.read, q.above, q.below)
  <2> DEFINE r == Renumbered(q.read, q.on)
  <2>1. /\ r \in [Cards -> Int]
        /\ \A c \in q.on : r[c] \in Multiples(Unit)
        /\ \A c \in Cards \ q.on : r[c] = q.read[c]
        /\ \A a, b \in q.on : Before(q.read, a, b) => r[a] < r[b]
    BY <1>1, RenumberingKeeps
  <2>2. Fresh(q) = r
    BY <1>3 DEF Fresh
  <2>3. q.kind = "move" /\ Fits(r, q.above, q.below)
    BY <1>3 DEF Asked, Fits, OutOfOrder
  <2> HIDE DEF r
  <2>4. \A c \in q.on : r[c] \in Multiples(h)
    BY <2>1, Finer
  <2> QED
    BY <1>1, <2>1, <2>2, <2>3, <2>4 DEF Before
<1> QED
  BY <1>2, <1>3

(* What is written, when nobody wrote since the ranks were read: the card  *)
(* where it was to go, and the others in the order they were in.           *)
LEMMA RankedFits ==
    ASSUME NEW h \in Nat \ {0}, Unit \in Multiples(2 * h), NEW q, Asked(q), ~OutOfOrder(q),
           rank \in [Cards -> Int], \A c \in Cards : rank[c] \in Multiples(2 * h),
           \A c \in Cards : q.read[c] \in Multiples(2 * h)
    PROVE  /\ Ranked(q) \in [Cards -> Int] /\ \A c \in Cards : Ranked(q)[c] \in Multiples(h)
           /\ q.kind = "status" => Ranked(q) = rank
           /\ q.read = rank =>
                  /\ \A a, b \in q.on \ {q.card} : Before(rank, a, b) => Before(Ranked(q), a, b)
                  /\ q.kind = "move" /\ q.above # None => Ranked(q)[q.above] < Ranked(q)[q.card]
                  /\ q.kind = "move" /\ q.below # None => Ranked(q)[q.card] < Ranked(q)[q.below]
                  /\ q.kind = "file" => \A c \in q.on \ {q.card} : Ranked(q)[q.card] < Ranked(q)[c]
<1> DEFINE f == Fresh(q)  new == Ranked(q)
<1>0. /\ q.read \in [Cards -> Int] /\ q.on \in SUBSET Cards /\ q.card \in Cards
      /\ q.above \in Cards \cup {None} /\ q.below \in Cards \cup {None}
      /\ q.kind \in {"move", "status", "file"}
  BY DEF Asked, RequestType
<1>1. 2 * h \in Nat \ {0} /\ Unit \in Multiples(h)
  BY Halving
<1>2. /\ f \in [Cards -> Int] /\ \A c \in Cards : f[c] \in Multiples(2 * h)
      /\ q.kind = "move" => Fits(f, q.above, q.below)
      /\ q.kind # "move" => f = q.read
      /\ \A a, b \in q.on : Before(q.read, a, b) => Before(f, a, b)
  BY <1>1, FreshIsFine
<1>3. /\ new = [c \in Cards |->
                    IF c = q.card
                    THEN CASE q.kind = "status" -> rank[c]
                           [] q.kind = "file"   -> TopKey(q.read, q.on)
                           [] q.kind = "move"   -> KeyAt(f, q.above, q.below)
                    ELSE IF f[c] # q.read[c] THEN f[c] ELSE rank[c]]
  BY DEF Ranked, Fresh
<1> HIDE DEF f, new
<1>4. \A c \in Cards \ {q.card} : new[c] = IF f[c] # q.read[c] THEN f[c] ELSE rank[c]
  BY <1>3
<1>5. /\ q.kind = "status" => new[q.card] = rank[q.card]
      /\ q.kind = "file" => new[q.card] = TopKey(q.read, q.on)
      /\ q.kind = "move" => new[q.card] = KeyAt(f, q.above, q.below)
  BY <1>0, <1>3
<1>6. q.kind = "move" => LET k == KeyAt(f, q.above, q.below) IN
          /\ k \in Multiples(h) /\ k \in Int
          /\ q.above # None => f[q.above] < k
          /\ q.below # None => k < f[q.below]
  <2>1. f \in [Cards -> Multiples(2 * h)]
    BY <1>2
  <2> QED
    BY <1>0, <1>2, <2>1, KeyAtFits DEF Asked
<1>7. \A c \in Cards : q.read[c] \in Multiples(h) /\ rank[c] \in Multiples(h) /\ f[c] \in Multiples(h)
  BY <1>2, Halving
<1>8. q.kind = "file" => LET k == TopKey(q.read, q.on) IN
          k \in Int /\ k \in Multiples(h) /\ \A c \in q.on : k < q.read[c]
  BY <1>0, <1>1, <1>7, TopKeyFits
<1>9. \A c \in Cards : new[c] \in Int /\ new[c] \in Multiples(h)
  BY <1>0, <1>2, <1>4, <1>5, <1>6, <1>7, <1>8
<1>10. new \in [Cards -> Int]
  BY <1>3, <1>9
<1>11. q.kind = "status" => new = rank
  <2> SUFFICES ASSUME q.kind = "status" PROVE new = rank
    OBVIOUS
  <2>1. \A c \in Cards : new[c] = rank[c]
    BY <1>2, <1>4, <1>5
  <2> QED
    BY <1>10, <2>1
<1>12. ASSUME q.read = rank
       PROVE  /\ \A c \in Cards \ {q.card} : new[c] = f[c]
              /\ \A a, b \in q.on \ {q.card} : Before(rank, a, b) => Before(new, a, b)
              /\ q.kind = "move" /\ q.above # None => new[q.above] < new[q.card]
              /\ q.kind = "move" /\ q.below # None => new[q.card] < new[q.below]
              /\ q.kind = "file" => \A c \in q.on \ {q.card} : new[q.card] < new[c]
  <2>1. \A c \in Cards \ {q.card} : new[c] = f[c]
    BY <1>4, <1>12
  <2>2. \A a, b \in q.on \ {q.card} : Before(rank, a, b) => Before(new, a, b)
    BY <1>0, <1>2, <1>12, <2>1 DEF Before
  <2>3. /\ q.kind = "move" /\ q.above # None => new[q.above] < new[q.card]
        /\ q.kind = "move" /\ q.below # None => new[q.card] < new[q.below]
    BY <1>0, <1>5, <1>6, <2>1 DEF Asked
  <2>4. q.kind = "file" => \A c \in q.on \ {q.card} : new[q.card] < new[c]
    BY <1>0, <1>2, <1>5, <1>8, <1>12, <2>1
  <2> QED
    BY <2>1, <2>2, <2>3, <2>4
<1> QED
  BY <1>9, <1>10, <1>11, <1>12 DEF new

-----------------------------------------------------------------------------
(* BoardOrder: the invariant. *)

Pending == {u \in Users : request[u].at # "none"}
Spent   == made - Cardinality(Pending)

(* Every card of a list has been filed.                                    *)
Known(v) == \A c \in v.on : v.at[c] \in Columns /\ column[c] # Nowhere

(* The column a card is drawn in.                                          *)
Into(q) == IF q.to = Nowhere THEN q.old.at[q.card] ELSE q.to

(* What a user may ask for, and the list it was asked on.                  *)
Posed(q, at) ==
    /\ q.card \in Cards /\ Into(q) \in Columns /\ OneByOne(q.old)
    /\ \A c \in q.old.on : q.old.at[c] \in Columns /\ at[c] # Nowhere
    /\ q.kind = "file" => at[q.card] = Nowhere
    /\ q.kind # "file" => q.card \in q.old.on
    /\ q.kind = "move" => Adjacent(q.old, q.card, q.above, q.below, Into(q))
    /\ q.kind # "move" => q.above = None /\ q.below = None /\ q.to # Nowhere

(* That list with the drop drawn on it.                                    *)
Drawn(q, v) ==
    /\ q.kind = "status" => v = [q.old EXCEPT !.at[q.card] = q.to]
    /\ q.kind = "move" => v = Placed(q.old, q.card, q.above, q.below, Into(q))

Alike(v, w) == \A col \in Columns : InColumn(v, col) = InColumn(w, col)

(* How a list stands to the server's order.                                *)
Stands(state, v, u) ==
    /\ state = "fetched" => v = Listed(u, rank, column)
    /\ state = "drawn" => Alike(v, Listed(u, rank, column))

ListsKnown  == \A u \in Users : Known(view[u])
AllPosed    == \A u \in Users : request[u].at # "none" => Posed(request[u], column)
Filing(u)   == request[u].kind = "file" /\ request[u].at # "none"
OneFiling   == \A u, w \in Users : Filing(u) /\ Filing(w) => u = w
ReadIsRank  == \A u \in Users : LET q == request[u] IN
                   /\ q.at = "read" /\ ~q.overtaken => q.read = rank /\ q.on = OnBoard(column)
                   /\ q.at # "read" => ~q.overtaken
ViewsStand  == \A u \in Users : Stands(current[u], view[u], u)
OldStands   == \A u \in Users : LET q == request[u] IN q.at # "none" =>
                   /\ Stands(q.was, q.old, u)
                   /\ q.was = "fetched" => ~q.overtaken
DropsDrawn  == \A u \in Users : LET q == request[u] IN current[u] = "drawing" =>
                   q.at # "none" /\ q.kind # "file" /\ q.was = "fetched" /\ Drawn(q, view[u])
RoomIsLeft ==
    /\ IsFiniteSet(Pending) /\ Cardinality(Pending) <= made
    /\ Unit \in Multiples(Grain[Spent])
    /\ \A c \in Cards : rank[c] \in Multiples(Grain[Spent])
    /\ \A u \in Users, c \in Cards : request[u].read[c] \in Multiples(Grain[Spent])

OrderInv == /\ OrderTypeOK /\ ListsKnown /\ AllPosed /\ OneFiling /\ ReadIsRank
            /\ ViewsStand /\ OldStands /\ DropsDrawn /\ RoomIsLeft

(* What the server lists is a list, of cards that are filed.               *)
LEMMA ListedIsList ==
    ASSUME NEW r \in [Cards -> Int], NEW at \in [Cards -> Columns \cup {Nowhere}], NEW u \in Users
    PROVE  LET v == Listed(u, r, at) IN
           /\ v \in ListType /\ OneByOne(v) /\ v.at = at /\ v.on = OnBoard(at) \cap Shown[u]
           /\ v.before = InOrder(r, v.on)
           /\ \A c \in v.on : v.at[c] \in Columns /\ at[c] # Nowhere
<1> DEFINE S == OnBoard(at) \cap Shown[u]
<1>1. S \in SUBSET Cards /\ \A c \in S : at[c] # Nowhere
  BY DEF OnBoard
<1> HIDE DEF S
<1>2. Orders(InOrder(r, S), S) /\ InOrder(r, S) \subseteq S \X S
  BY <1>1, RanksOrder
<1>3. InOrder(r, S) \subseteq Cards \X Cards
  BY <1>1, <1>2
<1>4. Listed(u, r, at) = [on |-> S, before |-> InOrder(r, S), at |-> at]
  BY DEF Listed, S
<1>5. OneByOne(Listed(u, r, at))
  BY <1>2, <1>4 DEF OneByOne, Orders
<1> QED
  BY <1>1, <1>3, <1>4, <1>5 DEF ListType, S

(* No request, and nothing read.                                           *)
LEMMA NoRequestIsOne ==
    /\ NoRequest \in RequestType /\ NoRequest.at = "none" /\ ~NoRequest.overtaken
    /\ NoRequest.kind = "move" /\ NoRequest.read = [c \in Cards |-> 0]
<1>1. NoList \in ListType
  BY DEF NoList, ListType
<1> QED
  BY <1>1 DEF NoRequest, RequestType

(* Nought is a multiple of anything.                                       *)
LEMMA ZeroIsMultiple == \A h \in Nat \ {0} : 0 \in Multiples(h)
<1> TAKE h \in Nat \ {0}
<1>1. 0 = 0 * h
  OBVIOUS
<1> QED
  BY <1>1 DEF Multiples

(* Boards just opened.                                                     *)
LEMMA OrderInvInit ==
    ASSUME OrderInit
    PROVE  OrderInv
<1>1. /\ rank \in [Cards -> Int] /\ column \in [Cards -> Columns \cup {Nowhere}]
      /\ \A c \in Cards : rank[c] = Whole(rank[c])
  BY BoardOrderAssumption DEF OrderInit
<1>2. /\ \A u \in Users : view[u] = Listed(u, rank, column) /\ request[u] = NoRequest
                          /\ current[u] = "fetched"
      /\ made = 0
  BY DEF OrderInit
<1>3. \A u \in Users : request[u].at = "none" /\ ~request[u].overtaken
                       /\ request[u].read = [c \in Cards |-> 0]
  BY <1>2, NoRequestIsOne
<1>4. \A u \in Users : view[u] \in ListType /\ OneByOne(view[u]) /\ Known(view[u])
  BY <1>1, <1>2, ListedIsList DEF Known
<1>5. OrderTypeOK
  <2>1. view \in [Users -> ListType] /\ request \in [Users -> RequestType]
    BY <1>2, <1>4, NoRequestIsOne DEF OrderInit
  <2>2. current \in [Users -> {"fetched", "drawing", "drawn", "behind"}] /\ made \in 0..MaxMoves
    BY BoardOrderAssumption DEF OrderInit
  <2> QED
    BY <1>1, <1>4, <2>1, <2>2 DEF OrderTypeOK
<1>6. ListsKnown /\ AllPosed /\ OneFiling /\ ReadIsRank
  BY <1>3, <1>4 DEF ListsKnown, AllPosed, OneFiling, Filing, ReadIsRank
<1>7. ViewsStand /\ OldStands /\ DropsDrawn
  BY <1>2, <1>3 DEF ViewsStand, OldStands, DropsDrawn, Stands
<1>8. RoomIsLeft
  <2>1. Pending = {}
    BY <1>3 DEF Pending
  <2>2. IsFiniteSet(Pending) /\ Cardinality(Pending) = 0
    BY <2>1, FS_EmptySet
  <2>3. Spent = 0 /\ Grain[Spent] = Unit
    BY <1>2, <2>2 DEF Spent, Unit
  <2>4. \A c \in Cards : rank[c] \in Multiples(Unit)
    <3> TAKE c \in Cards
    <3>1. rank[c] \in Int
      BY <1>1
    <3>2. Whole(rank[c]) \in Multiples(Unit)
      BY <3>1, WholeBelow
    <3> QED
      BY <1>1, <3>2
  <2>5. Unit \in Multiples(Unit) /\ 0 \in Multiples(Unit)
    <3>1. Unit = 1 * Unit
      BY UnitIsPositive
    <3> QED
      BY <3>1, UnitIsPositive, ZeroIsMultiple DEF Multiples
  <2> QED
    BY <1>2, <1>3, <2>2, <2>3, <2>4, <2>5 DEF RoomIsLeft
<1> QED
  BY <1>5, <1>6, <1>7, <1>8 DEF OrderInv

-----------------------------------------------------------------------------
(* BoardOrder: every step keeps the invariant. *)

(* A request is sent.                                                      *)
LEMMA SendingKeeps ==
    ASSUME OrderInv, NEW u \in Users, Begin(u), NEW q \in RequestType, NEW v \in ListType,
           NEW k \in {"fetched", "drawing", "drawn", "behind"},
           OneByOne(v), \A c \in v.on : v.at[c] \in Columns /\ column[c] # Nowhere,
           q.at = "sent", ~q.overtaken, q.old = view[u], q.was = current[u],
           q.read = [c \in Cards |-> 0],
           Posed(q, column), q.kind = "file" => \A w \in Users : ~Filing(w),
           k = "drawing" => q.was = "fetched" /\ q.kind # "file" /\ Drawn(q, v),
           Stands(k, v, u),
           view' = [view EXCEPT ![u] = v], request' = [request EXCEPT ![u] = q],
           current' = [current EXCEPT ![u] = k], made' = made + 1, UNCHANGED <<rank, column>>
    PROVE  OrderInv'
<1>0. /\ request[u].at = "none" /\ made < MaxMoves /\ MaxMoves \in Nat
      /\ view \in [Users -> ListType] /\ request \in [Users -> RequestType]
      /\ current \in [Users -> {"fetched", "drawing", "drawn", "behind"}]
      /\ made \in 0..MaxMoves
  BY BoardOrderAssumption DEF Begin, OrderInv, OrderTypeOK
<1>1. /\ view'[u] = v /\ request'[u] = q /\ current'[u] = k
      /\ \A w \in Users \ {u} : /\ view'[w] = view[w] /\ request'[w] = request[w]
                                /\ current'[w] = current[w]
      /\ view' \in [Users -> ListType] /\ request' \in [Users -> RequestType]
      /\ current' \in [Users -> {"fetched", "drawing", "drawn", "behind"}]
      /\ made' \in 0..MaxMoves
  BY <1>0
<1>2. OrderTypeOK'
  <2>1. \A w \in Users : OneByOne(view'[w])
    BY <1>1 DEF OrderInv, OrderTypeOK
  <2> QED
    BY <1>1, <2>1 DEF OrderInv, OrderTypeOK
<1>3. ListsKnown'
  BY <1>1 DEF OrderInv, ListsKnown, Known
<1>4. AllPosed'
  BY <1>1 DEF OrderInv, AllPosed
<1>5. OneFiling'
  BY <1>1 DEF OrderInv, OneFiling, Filing
<1>6. ReadIsRank'
  <2>1. OnBoard(column)' = OnBoard(column)
    BY DEF OnBoard
  <2> QED
    BY <1>1, <2>1 DEF OrderInv, ReadIsRank
<1>7. \A w \in Users : Listed(w, rank, column)' = Listed(w, rank, column)
  BY DEF Listed, InOrder, Before, OnBoard
<1>8. ViewsStand'
  BY <1>1, <1>7 DEF OrderInv, ViewsStand, Stands, Alike, InColumn, Column
<1>10. OldStands'
  <2>1. Stands(q.was, q.old, u)
    BY DEF OrderInv, ViewsStand
  <2> QED
    BY <1>1, <1>7, <2>1 DEF OrderInv, OldStands, Stands, Alike, InColumn, Column
<1>11. DropsDrawn'
  BY <1>1 DEF OrderInv, DropsDrawn
<1>9. RoomIsLeft'
  <2>1. Pending' = Pending \cup {u} /\ u \notin Pending
    BY <1>0, <1>1 DEF Pending
  <2>2. /\ IsFiniteSet(Pending) /\ Cardinality(Pending) <= made /\ Cardinality(Pending) \in Nat
    BY FS_CardinalityType DEF OrderInv, RoomIsLeft
  <2>3. IsFiniteSet(Pending') /\ Cardinality(Pending') = Cardinality(Pending) + 1
    BY <2>1, <2>2, FS_AddElement
  <2>4. Spent' = Spent /\ Spent \in 0..MaxMoves
    BY <1>0, <2>2, <2>3 DEF Spent
  <2>5. Grain[Spent] \in Nat \ {0}
    BY <2>4, BoardOrderAssumption
  <2>6. \A w \in Users, c \in Cards : request'[w].read[c] \in Multiples(Grain[Spent])
    BY <1>1, <2>5, ZeroIsMultiple DEF OrderInv, RoomIsLeft
  <2> QED
    BY <1>0, <2>2, <2>3, <2>4, <2>6 DEF OrderInv, RoomIsLeft, Unit
<1> QED
  BY <1>2, <1>3, <1>4, <1>5, <1>6, <1>8, <1>9, <1>10, <1>11 DEF OrderInv

(* No drop is drawn on a list when none is under way.                      *)
LEMMA NoneDrawn ==
    ASSUME OrderInv, NEW u \in Users, Begin(u)
    PROVE  view[u] \in ListType /\ current[u] \in {"fetched", "drawn", "behind"}
<1>1. view[u] \in ListType /\ current[u] \in {"fetched", "drawing", "drawn", "behind"}
  BY DEF OrderInv, OrderTypeOK
<1>2. current[u] # "drawing"
  BY DEF OrderInv, DropsDrawn, Begin
<1> QED
  BY <1>1, <1>2

(* A list with a drop drawn on it is behind, or was fetched.               *)
LEMMA DrawnOnIs ==
    ASSUME NEW at, NEW v, NEW u
    PROVE  /\ DrawnOn(at) \in {"fetched", "drawing", "drawn", "behind"}
           /\ DrawnOn(at) = "drawing" => at = "fetched"
           /\ Stands(DrawnOn(at), v, u)
  BY DEF DrawnOn, Stands

(* A card dropped on a card, on a column, and a card filed.                *)
LEMMA DropOnCardKeeps ==
    ASSUME OrderInv, NEW u \in Users, NEW c \in Cards, NEW over \in Cards, DropOnCard(u, c, over)
    PROVE  OrderInv'
<1> DEFINE n == Neighbours(view[u], c, over)
           above == n.above  below == n.below
           to == view[u].at[over]
           by == IF view[u].at[c] = to THEN Nowhere ELSE to
           q == Sent(u, "move", c, above, below, by)
           v == Placed(view[u], c, above, below, to)
           k == DrawnOn(current[u])
<1>1. /\ view[u] \in ListType /\ OneByOne(view[u]) /\ Known(view[u])
      /\ c \in view[u].on /\ over \in view[u].on /\ c # over
  BY DEF DropOnCard, OrderInv, OrderTypeOK, ListsKnown
<1>2. view[u].on \in SUBSET Cards /\ Orders(view[u].before, view[u].on)
  BY <1>1 DEF ListType, OneByOne, Orders
<1>3. Adjacent(view[u], c, above, below, to)
  BY <1>1, <1>2, NeighboursAdjacent
<1>4. to \in Columns /\ by \in Columns \cup {Nowhere}
  BY <1>1 DEF Known
<1>5. above \in Cards \cup {None} /\ below \in Cards \cup {None}
  BY <1>2, <1>3 DEF Adjacent, Column
<1>6. /\ Begin(u) /\ made' = made + 1 /\ UNCHANGED <<rank, column>>
      /\ view' = [view EXCEPT ![u] = v]
      /\ request' = [request EXCEPT ![u] = q]
      /\ current' = [current EXCEPT ![u] = k]
  <2>1. Begin(u) /\ made' = made + 1 /\ UNCHANGED <<rank, column>>
    BY DEF DropOnCard
  <2>2. view' = [view EXCEPT ![u] = v]
    BY Zenon DEF DropOnCard
  <2>3. request' = [request EXCEPT ![u] = q]
    BY Zenon DEF DropOnCard
  <2>4. current' = [current EXCEPT ![u] = k]
    BY DEF DropOnCard
  <2> QED
    BY <2>1, <2>2, <2>3, <2>4
<1>7. by = IF view[u].at[c] = to THEN Nowhere ELSE to
  OBVIOUS
<1> HIDE DEF n, above, below, to, by
<1>8. v \in ListType /\ OneByOne(v) /\ v.on = view[u].on /\ v.at = [view[u].at EXCEPT ![c] = to]
  <2> DEFINE o == view[u]
  <2>1. o \in ListType /\ OneByOne(o) /\ c \in o.on /\ Adjacent(o, c, above, below, to)
    BY <1>1, <1>3
  <2> HIDE DEF o
  <2>2. LET w == Placed(o, c, above, below, to) IN
        w \in ListType /\ OneByOne(w) /\ w.on = o.on /\ w.at = [o.at EXCEPT ![c] = to]
    BY <1>4, <1>5, <2>1, PlacedInOrder
  <2> QED
    BY <2>2 DEF o
<1>9. /\ q \in RequestType /\ q.at = "sent" /\ ~q.overtaken /\ q.old = view[u]
      /\ q.was = current[u]
      /\ q.kind = "move" /\ q.card = c /\ q.above = above /\ q.below = below /\ q.to = by
      /\ q.read = [d \in Cards |-> 0]
  <2>1. view[u] \in ListType /\ current[u] \in {"fetched", "drawn", "behind"}
    BY <1>6, NoneDrawn
  <2> QED
    BY <1>4, <1>5, <2>1, NoRequestIsOne DEF Sent, RequestType
<1>10. \A d \in view[u].on : view[u].at[d] \in Columns /\ column[d] # Nowhere
  BY <1>1 DEF Known
<1> HIDE DEF q
<1>11. Into(q) = to
  <2>1. to # Nowhere
    BY <1>4, BoardOrderAssumption
  <2> QED
    BY <1>7, <1>9, <2>1 DEF Into
<1>12. Drawn(q, v)
  BY <1>9, <1>11 DEF Drawn
<1>13. Posed(q, column)
  BY <1>1, <1>3, <1>4, <1>9, <1>10, <1>11 DEF Posed
<1>14. /\ k \in {"fetched", "drawing", "drawn", "behind"} /\ Stands(k, v, u)
       /\ k = "drawing" => q.was = "fetched" /\ q.kind # "file" /\ Drawn(q, v)
  BY <1>9, <1>12, DrawnOnIs
<1> HIDE DEF v, k
<1>15. \A d \in v.on : v.at[d] \in Columns /\ column[d] # Nowhere
  BY <1>1, <1>2, <1>4, <1>8, <1>10 DEF ListType
<1> QED
  BY <1>6, <1>8, <1>9, <1>13, <1>14, <1>15, SendingKeeps

LEMMA DropOnColumnKeeps ==
    ASSUME OrderInv, NEW u \in Users, NEW c \in Cards, NEW to \in Columns, DropOnColumn(u, c, to)
    PROVE  OrderInv'
<1> DEFINE q == Sent(u, "status", c, None, None, to)
           v == [view[u] EXCEPT !.at[c] = to]
           k == DrawnOn(current[u])
<1>1. /\ view[u] \in ListType /\ OneByOne(view[u]) /\ Known(view[u]) /\ c \in view[u].on
      /\ view \in [Users -> ListType]
  BY DEF DropOnColumn, OrderInv, OrderTypeOK, ListsKnown
<1>2. /\ Begin(u) /\ made' = made + 1 /\ UNCHANGED <<rank, column>>
      /\ view' = [view EXCEPT ![u] = v]
      /\ request' = [request EXCEPT ![u] = q]
      /\ current' = [current EXCEPT ![u] = k]
  BY <1>1 DEF DropOnColumn
<1>3. /\ v \in ListType /\ v.on = view[u].on /\ v.before = view[u].before
      /\ v.at = [view[u].at EXCEPT ![c] = to]
  BY <1>1 DEF ListType
<1>4. /\ q \in RequestType /\ q.at = "sent" /\ ~q.overtaken /\ q.old = view[u]
      /\ q.was = current[u]
      /\ q.kind = "status" /\ q.card = c /\ q.above = None /\ q.below = None /\ q.to = to
      /\ q.read = [d \in Cards |-> 0]
  <2>1. view[u] \in ListType /\ current[u] \in {"fetched", "drawn", "behind"}
    BY <1>2, NoneDrawn
  <2> QED
    BY <2>1, NoRequestIsOne DEF Sent, RequestType
<1>5. \A d \in view[u].on : view[u].at[d] \in Columns /\ column[d] # Nowhere
  BY <1>1 DEF Known
<1>6. v = [q.old EXCEPT !.at[q.card] = q.to]
  BY <1>4
<1> HIDE DEF q
<1>7. Drawn(q, v) /\ Into(q) = to
  <2>1. to # Nowhere
    BY BoardOrderAssumption
  <2> QED
    BY <1>4, <1>6, <2>1 DEF Drawn, Into
<1>8. /\ k \in {"fetched", "drawing", "drawn", "behind"} /\ Stands(k, v, u)
      /\ k = "drawing" => q.was = "fetched" /\ q.kind # "file" /\ Drawn(q, v)
  BY <1>4, <1>7, DrawnOnIs
<1> HIDE DEF v, k
<1>9. OneByOne(v)
  BY <1>1, <1>3 DEF OneByOne
<1>10. \A d \in v.on : v.at[d] \in Columns /\ column[d] # Nowhere
  BY <1>1, <1>3, <1>5 DEF ListType
<1>11. Posed(q, column)
  <2>1. q.to # Nowhere
    BY <1>4, BoardOrderAssumption
  <2> QED
    BY <1>1, <1>4, <1>5, <1>7, <2>1 DEF Posed
<1> QED
  BY <1>2, <1>3, <1>4, <1>8, <1>9, <1>10, <1>11, SendingKeeps

LEMMA FileCardKeeps ==
    ASSUME OrderInv, NEW u \in Users, NEW c \in Cards, NEW to \in Columns, FileCard(u, c, to)
    PROVE  OrderInv'
<1> DEFINE q == Sent(u, "file", c, None, None, to)
           v == view[u]  k == current[u]
<1>1. /\ v \in ListType /\ OneByOne(v) /\ Known(v) /\ view = [view EXCEPT ![u] = v]
      /\ k \in {"fetched", "drawing", "drawn", "behind"} /\ current = [current EXCEPT ![u] = k]
  BY DEF OrderInv, OrderTypeOK, ListsKnown
<1>2. /\ Begin(u) /\ made' = made + 1 /\ UNCHANGED <<rank, column, current, view>>
      /\ request' = [request EXCEPT ![u] = q] /\ column[c] = Nowhere
      /\ \A w \in Users : ~Filing(w)
  BY DEF FileCard, Filing
<1>3. /\ q \in RequestType /\ q.at = "sent" /\ ~q.overtaken /\ q.old = v /\ q.was = k
      /\ q.was # "drawing"
      /\ q.kind = "file" /\ q.card = c /\ q.above = None /\ q.below = None /\ q.to = to
      /\ q.read = [d \in Cards |-> 0]
  <2>1. view[u] \in ListType /\ current[u] \in {"fetched", "drawn", "behind"}
    BY <1>2, NoneDrawn
  <2> QED
    BY <2>1, NoRequestIsOne DEF Sent, RequestType
<1> HIDE DEF q
<1>4. \A d \in v.on : v.at[d] \in Columns /\ column[d] # Nowhere
  BY <1>1 DEF Known
<1>5. Posed(q, column)
  <2>1. q.to # Nowhere
    BY <1>3, BoardOrderAssumption
  <2> QED
    BY <1>1, <1>2, <1>3, <1>4, <2>1 DEF Posed, Into
<1>6. /\ view' = [view EXCEPT ![u] = v] /\ current' = [current EXCEPT ![u] = k]
      /\ Stands(k, v, u)
  BY <1>1, <1>2 DEF OrderInv, ViewsStand
<1> HIDE DEF v, k
<1>7. k = "drawing" => q.was = "fetched" /\ q.kind # "file" /\ Drawn(q, v)
  BY <1>3
<1>8. v \in ListType /\ OneByOne(v) /\ k \in {"fetched", "drawing", "drawn", "behind"}
  BY <1>1
<1>9. q.was = current[u] /\ q.old = view[u]
  BY <1>3 DEF v, k
<1> QED
  BY <1>2, <1>3, <1>4, <1>5, <1>6, <1>7, <1>8, <1>9, SendingKeeps

(* The ranks are read.                                                     *)
LEMMA ReadRanksKeeps ==
    ASSUME OrderInv, NEW u \in Users, ReadRanks(u)
    PROVE  OrderInv'
<1> DEFINE q == [request[u] EXCEPT !.at = "read", !.read = rank, !.on = OnBoard(column)]
<1>0. /\ request \in [Users -> RequestType] /\ request[u] \in RequestType
      /\ rank \in [Cards -> Int] /\ OnBoard(column) \in SUBSET Cards
      /\ request[u].at = "sent" /\ request' = [request EXCEPT ![u] = q]
      /\ UNCHANGED <<rank, column, view, current, made>>
  BY DEF ReadRanks, OrderInv, OrderTypeOK, OnBoard
<1>1. /\ q \in RequestType /\ q.at = "read" /\ q.read = rank /\ q.on = OnBoard(column)
      /\ q.overtaken = request[u].overtaken /\ q.old = request[u].old /\ q.kind = request[u].kind
      /\ q.card = request[u].card /\ q.to = request[u].to /\ q.was = request[u].was
      /\ q.above = request[u].above /\ q.below = request[u].below
  BY <1>0 DEF RequestType
<1> HIDE DEF q
<1>2. /\ request'[u] = q /\ \A w \in Users \ {u} : request'[w] = request[w]
      /\ request' \in [Users -> RequestType]
  BY <1>0, <1>1
<1>3. OrderTypeOK'
  BY <1>0, <1>2 DEF OrderInv, OrderTypeOK
<1>4. ListsKnown'
  BY <1>0 DEF OrderInv, ListsKnown, Known
<1>5. AllPosed'
  <2>1. Posed(request[u], column)
    BY <1>0 DEF OrderInv, AllPosed
  <2>2. Posed(q, column)
    BY <1>1, <2>1 DEF Posed, Into
  <2> QED
    BY <1>0, <1>2, <2>2 DEF OrderInv, AllPosed
<1>6. OneFiling'
  BY <1>0, <1>1, <1>2 DEF OrderInv, OneFiling, Filing
<1>7. OnBoard(column)' = OnBoard(column)
  BY <1>0 DEF OnBoard
<1>8. ReadIsRank'
  BY <1>0, <1>1, <1>2, <1>7 DEF OrderInv, ReadIsRank
<1>9. \A w \in Users : Listed(w, rank, column)' = Listed(w, rank, column)
  BY <1>0, <1>7 DEF Listed, InOrder, Before
<1>10. ViewsStand' /\ OldStands'
  <2>1. \A w \in Users : /\ request'[w].at # "none" => request[w].at # "none"
                         /\ request'[w].was = request[w].was /\ request'[w].old = request[w].old
                         /\ request'[w].overtaken = request[w].overtaken
    BY <1>0, <1>1, <1>2
  <2> QED
    BY <1>0, <1>9, <2>1 DEF OrderInv, ViewsStand, OldStands, Stands, Alike, InColumn, Column
<1>12. DropsDrawn'
  <2>1. ASSUME current[u] = "drawing" PROVE Drawn(q, view[u]) /\ q.kind # "file" /\ q.was = "fetched"
    BY <1>1, <2>1 DEF OrderInv, DropsDrawn, Drawn, Into
  <2> QED
    BY <1>0, <1>1, <1>2, <2>1 DEF OrderInv, DropsDrawn
<1>11. RoomIsLeft'
  <2>1. Pending' = Pending /\ Spent' = Spent
    BY <1>0, <1>1, <1>2 DEF Pending, Spent
  <2>2. \A w \in Users, c \in Cards : request'[w].read[c] \in Multiples(Grain[Spent])
    BY <1>1, <1>2 DEF OrderInv, RoomIsLeft
  <2> QED
    BY <1>0, <2>1, <2>2 DEF OrderInv, RoomIsLeft, Unit
<1> QED
  BY <1>3, <1>4, <1>5, <1>6, <1>8, <1>10, <1>11, <1>12 DEF OrderInv

(* One request fewer under way: what is left to halve is as fine, or finer *)
(* by one.                                                                 *)
LEMMA OneAnswered ==
    ASSUME OrderInv, NEW u \in Users, request[u].at # "none",
           Pending' = Pending \ {u}, made' = made
    PROVE  /\ IsFiniteSet(Pending') /\ Cardinality(Pending') <= made'
           /\ Grain[Spent'] \in Nat \ {0} /\ Grain[Spent] = 2 * Grain[Spent']
<1>1. /\ IsFiniteSet(Pending) /\ Cardinality(Pending) <= made /\ Cardinality(Pending) \in Nat
      /\ made \in 0..MaxMoves /\ MaxMoves \in Nat
  BY FS_CardinalityType, BoardOrderAssumption DEF OrderInv, OrderTypeOK, RoomIsLeft
<1>2. u \in Pending
  BY DEF Pending
<1>3. IsFiniteSet(Pending') /\ Cardinality(Pending') = Cardinality(Pending) - 1
  BY <1>1, <1>2, FS_RemoveElement
<1>4. Cardinality(Pending') \in Nat
  BY <1>3, FS_CardinalityType
<1>5. Spent' = Spent + 1 /\ Spent' \in 1..MaxMoves
  BY <1>1, <1>3, <1>4 DEF Spent
<1>6. Grain[Spent' - 1] = 2 * Grain[Spent'] /\ Spent' - 1 = Spent
  BY <1>1, <1>5, BoardOrderAssumption DEF Spent
<1> QED
  BY <1>1, <1>3, <1>5, <1>6, BoardOrderAssumption

(* The list from before the drop is put back.                              *)
LEMMA RefuseOrderKeeps ==
    ASSUME OrderInv, NEW u \in Users, RefuseOrder(u)
    PROVE  OrderInv'
<1> DEFINE q == request[u]
           v == IF q.kind = "file" THEN view[u] ELSE q.old
           k == IF q.kind = "file" THEN current[u] ELSE q.was
<1>0. /\ request \in [Users -> RequestType] /\ view \in [Users -> ListType]
      /\ current \in [Users -> {"fetched", "drawing", "drawn", "behind"}]
      /\ request[u] \in RequestType /\ request[u].at # "none"
      /\ view' = [view EXCEPT ![u] = v] /\ current' = [current EXCEPT ![u] = k]
      /\ request' = [request EXCEPT ![u] = NoRequest]
      /\ UNCHANGED <<rank, column, made>>
  BY DEF RefuseOrder, OrderInv, OrderTypeOK
<1>1. Posed(q, column) /\ q.old \in ListType /\ q.was \in {"fetched", "drawn", "behind"}
  BY <1>0 DEF OrderInv, AllPosed, RequestType
<1>2. /\ v \in ListType /\ OneByOne(v) /\ \A c \in v.on : v.at[c] \in Columns /\ column[c] # Nowhere
      /\ k \in {"fetched", "drawn", "behind"} /\ Stands(k, v, u)
  <2>1. CASE q.kind = "file"
    <3>1. current[u] # "drawing"
      BY <2>1 DEF OrderInv, DropsDrawn
    <3> QED
      BY <1>0, <2>1, <3>1 DEF OrderInv, OrderTypeOK, ListsKnown, Known, ViewsStand
  <2>2. CASE q.kind # "file"
    <3>1. Stands(q.was, q.old, u)
      BY <1>0 DEF OrderInv, OldStands
    <3> QED
      BY <1>1, <2>2, <3>1 DEF Posed
  <2> QED
    BY <2>1, <2>2
<1> HIDE DEF q, v, k
<1>3. /\ request'[u] = NoRequest /\ view'[u] = v /\ current'[u] = k
      /\ \A w \in Users \ {u} : /\ request'[w] = request[w] /\ view'[w] = view[w]
                                /\ current'[w] = current[w]
  BY <1>0
<1>4. request'[u].at = "none" /\ ~request'[u].overtaken
  BY <1>3, NoRequestIsOne
<1>5. OrderTypeOK'
  <2>1. /\ view' \in [Users -> ListType] /\ request' \in [Users -> RequestType]
        /\ current' \in [Users -> {"fetched", "drawing", "drawn", "behind"}]
    BY <1>0, <1>2, NoRequestIsOne
  <2>2. \A w \in Users : OneByOne(view'[w])
    BY <1>2, <1>3 DEF OrderInv, OrderTypeOK
  <2> QED
    BY <1>0, <2>1, <2>2 DEF OrderInv, OrderTypeOK
<1>6. ListsKnown'
  BY <1>0, <1>2, <1>3 DEF OrderInv, ListsKnown, Known
<1>7. AllPosed' /\ OneFiling'
  BY <1>0, <1>3, <1>4 DEF OrderInv, AllPosed, OneFiling, Filing
<1>8. OnBoard(column)' = OnBoard(column)
  BY <1>0 DEF OnBoard
<1>9. ReadIsRank'
  BY <1>0, <1>3, <1>4, <1>8 DEF OrderInv, ReadIsRank
<1>10. \A w \in Users : Listed(w, rank, column)' = Listed(w, rank, column)
  BY <1>0, <1>8 DEF Listed, InOrder, Before
<1>11. ViewsStand'
  BY <1>2, <1>3, <1>10 DEF OrderInv, ViewsStand, Stands, Alike, InColumn, Column
<1>12. OldStands'
  BY <1>3, <1>4, <1>10 DEF OrderInv, OldStands, Stands, Alike, InColumn, Column
<1>13. DropsDrawn'
  BY <1>2, <1>3 DEF OrderInv, DropsDrawn
<1>14. RoomIsLeft'
  <2>1. Pending' = Pending \ {u}
    BY <1>0, <1>3, <1>4 DEF Pending
  <2> DEFINE h == Grain[Spent']
  <2>2. /\ IsFiniteSet(Pending') /\ Cardinality(Pending') <= made'
        /\ h \in Nat \ {0} /\ Grain[Spent] = 2 * h
    BY <1>0, <2>1, OneAnswered
  <2> HIDE DEF h
  <2>3. Unit \in Multiples(h) /\ \A c \in Cards : rank[c] \in Multiples(h)
    BY <2>2, Halving DEF OrderInv, RoomIsLeft
  <2>4. \A w \in Users, c \in Cards : request'[w].read[c] \in Multiples(h)
    BY <1>3, <2>2, Halving, NoRequestIsOne, ZeroIsMultiple DEF OrderInv, RoomIsLeft
  <2> QED
    BY <1>0, <2>2, <2>3, <2>4 DEF RoomIsLeft, Unit, h
<1> QED
  BY <1>5, <1>6, <1>7, <1>9, <1>11, <1>12, <1>13, <1>14 DEF OrderInv

(* The list is read again.                                                 *)
LEMMA FetchBoardKeeps ==
    ASSUME OrderInv, NEW u \in Users, FetchBoard(u)
    PROVE  OrderInv'
<1>0. /\ view \in [Users -> ListType]
      /\ view' = [view EXCEPT ![u] = Listed(u, rank, column)]
      /\ current' = [current EXCEPT ![u] = "fetched"]
      /\ current \in [Users -> {"fetched", "drawing", "drawn", "behind"}]
      /\ rank \in [Cards -> Int] /\ column \in [Cards -> Columns \cup {Nowhere}]
      /\ UNCHANGED <<rank, column, request, made>>
  BY DEF FetchBoard, OrderInv, OrderTypeOK
<1>1. LET v == Listed(u, rank, column) IN
          v \in ListType /\ OneByOne(v) /\ \A c \in v.on : v.at[c] \in Columns /\ column[c] # Nowhere
  BY <1>0, ListedIsList
<1>2. /\ view'[u] = Listed(u, rank, column) /\ current'[u] = "fetched"
      /\ \A w \in Users \ {u} : view'[w] = view[w] /\ current'[w] = current[w]
      /\ view' \in [Users -> ListType]
      /\ current' \in [Users -> {"fetched", "drawing", "drawn", "behind"}]
  BY <1>0, <1>1
<1>3. OrderTypeOK'
  BY <1>0, <1>1, <1>2 DEF OrderInv, OrderTypeOK
<1>4. ListsKnown'
  BY <1>0, <1>1, <1>2 DEF OrderInv, ListsKnown, Known
<1>5. AllPosed' /\ OneFiling'
  BY <1>0 DEF OrderInv, AllPosed, OneFiling, Filing
<1>6. OnBoard(column)' = OnBoard(column)
  BY <1>0 DEF OnBoard
<1>7. ReadIsRank'
  BY <1>0, <1>6 DEF OrderInv, ReadIsRank
<1>8. \A w \in Users : Listed(w, rank, column)' = Listed(w, rank, column)
  BY <1>0, <1>6 DEF Listed, InOrder, Before
<1>9. ViewsStand'
  BY <1>2, <1>8 DEF OrderInv, ViewsStand, Stands, Alike, InColumn, Column
<1>10. OldStands'
  BY <1>0, <1>8 DEF OrderInv, OldStands, Stands, Alike, InColumn, Column
<1>11. DropsDrawn'
  BY <1>0, <1>2 DEF OrderInv, DropsDrawn
<1>12. RoomIsLeft'
  <2>1. Pending' = Pending /\ Spent' = Spent
    BY <1>0 DEF Pending, Spent
  <2> QED
    BY <1>0, <2>1 DEF OrderInv, RoomIsLeft, Unit
<1> QED
  BY <1>3, <1>4, <1>5, <1>7, <1>9, <1>10, <1>11, <1>12 DEF OrderInv

(* A request under way asks for what can be asked.                         *)
LEMMA RequestsAreAsked ==
    ASSUME OrderInv, NEW u \in Users, request[u].at # "none"
    PROVE  /\ Asked(request[u]) /\ Posed(request[u], column)
           /\ request[u].old \in ListType
<1>1. request[u] \in RequestType /\ Posed(request[u], column)
  BY DEF OrderInv, OrderTypeOK, AllPosed
<1> DEFINE q == request[u]
<1> HIDE DEF q
<1>2. /\ q.card \in Cards
      /\ q.kind # "move" => q.above = None /\ q.below = None
  BY <1>1 DEF Posed, q
<1>3. q.kind = "move" => /\ q.above # None \/ q.below # None
                         /\ q.above # None => q.above # q.card
                         /\ q.below # None => q.below # q.card
  BY <1>1 DEF Posed, Adjacent, q
<1>4. q.card # None
  BY <1>2, BoardOrderAssumption
<1>5. Asked(q)
  BY <1>1, <1>2, <1>3, <1>4 DEF Asked, q
<1> QED
  BY <1>1, <1>5 DEF RequestType, q

(* What a commit writes, in terms of the step.                             *)
LEMMA CommitWrites ==
    ASSUME OrderInv, NEW u \in Users, CommitOrder(u)
    PROVE  LET q == request[u]
               h == Grain[Spent'] IN
           /\ IsFiniteSet(Pending') /\ Cardinality(Pending') <= made'
           /\ h \in Nat \ {0} /\ Grain[Spent] = 2 * h
           /\ rank' \in [Cards -> Int] /\ \A c \in Cards : rank'[c] \in Multiples(h)
           /\ q.kind = "status" => rank' = rank
           /\ ~q.overtaken =>
                  /\ q.read = rank /\ q.on = OnBoard(column)
                  /\ \A a, b \in q.on \ {q.card} : Before(rank, a, b) => Before(rank', a, b)
                  /\ q.kind = "move" /\ q.above # None => rank'[q.above] < rank'[q.card]
                  /\ q.kind = "move" /\ q.below # None => rank'[q.card] < rank'[q.below]
                  /\ q.kind = "file" => \A c \in q.on \ {q.card} : rank'[q.card] < rank'[c]
<1> DEFINE q == request[u]  h == Grain[Spent']
<1>0. /\ request \in [Users -> RequestType] /\ q.at = "read" /\ ~OutOfOrder(q)
      /\ rank' = Ranked(q) /\ made' = made
      /\ request' = [w \in Users |-> IF w = u THEN NoRequest
                                     ELSE [request[w] EXCEPT !.was = "behind",
                                              !.overtaken = @ \/ request[w].at = "read"]]
  BY DEF CommitOrder, OrderInv, OrderTypeOK
<1>1. request'[u].at = "none" /\ \A w \in Users \ {u} : request'[w].at = request[w].at
  BY <1>0, NoRequestIsOne DEF RequestType
<1>2. Pending' = Pending \ {u}
  BY <1>1 DEF Pending
<1>3. Asked(q)
  BY <1>0, RequestsAreAsked
<1>4. ~q.overtaken => q.read = rank /\ q.on = OnBoard(column)
  BY <1>0 DEF OrderInv, ReadIsRank
<1> HIDE DEF q
<1>5. q.at # "none"
  BY <1>0
<1>6. /\ IsFiniteSet(Pending') /\ Cardinality(Pending') <= made'
      /\ h \in Nat \ {0} /\ Grain[Spent] = 2 * h
  BY <1>0, <1>2, <1>5, OneAnswered DEF q
<1>7. /\ Unit \in Multiples(2 * h) /\ rank \in [Cards -> Int]
      /\ \A c \in Cards : rank[c] \in Multiples(2 * h)
      /\ \A c \in Cards : q.read[c] \in Multiples(2 * h)
  BY <1>6 DEF OrderInv, OrderTypeOK, RoomIsLeft, q
<1> HIDE DEF h
<1>8. /\ Ranked(q) \in [Cards -> Int] /\ \A c \in Cards : Ranked(q)[c] \in Multiples(h)
      /\ q.kind = "status" => Ranked(q) = rank
      /\ q.read = rank =>
             /\ \A a, b \in q.on \ {q.card} : Before(rank, a, b) => Before(Ranked(q), a, b)
             /\ q.kind = "move" /\ q.above # None => Ranked(q)[q.above] < Ranked(q)[q.card]
             /\ q.kind = "move" /\ q.below # None => Ranked(q)[q.card] < Ranked(q)[q.below]
             /\ q.kind = "file" => \A c \in q.on \ {q.card} : Ranked(q)[q.card] < Ranked(q)[c]
  BY <1>0, <1>3, <1>6, <1>7, RankedFits
<1> QED
  BY <1>0, <1>4, <1>6, <1>8 DEF q, h

(* A drop on the list as it is draws every column as the commit leaves it. *)
LEMMA CommitIsDrawn ==
    ASSUME OrderInv, NEW u \in Users, CommitOrder(u), current[u] = "drawing"
    PROVE  Alike(view[u], Listed(u, rank', column'))
<1> DEFINE q == request[u]  c == q.card  to == Into(q)  old == q.old  S == old.on
           new == Listed(u, rank', column')
<1>00. /\ q.at = "read" /\ Asked(q) /\ Posed(q, column) /\ Drawn(q, view[u]) /\ q.kind # "file"
       /\ old \in ListType /\ rank \in [Cards -> Int] /\ column \in [Cards -> Columns \cup {Nowhere}]
       /\ column' = IF q.to = Nowhere THEN column ELSE [column EXCEPT ![c] = q.to]
  BY RequestsAreAsked DEF CommitOrder, OrderInv, OrderTypeOK, DropsDrawn
<1>1. ~q.overtaken /\ old = Listed(u, rank, column)
  BY <1>00 DEF OrderInv, DropsDrawn, OldStands, Stands
<1>0. /\ q.at = "read" /\ Asked(q) /\ Posed(q, column) /\ Drawn(q, view[u]) /\ q.kind # "file"
      /\ old \in ListType /\ rank \in [Cards -> Int] /\ column \in [Cards -> Columns \cup {Nowhere}]
      /\ column' = [column EXCEPT ![c] = to]
  <2>1. old.at = column
    BY <1>1, <1>00, ListedIsList
  <2>2. q.to = Nowhere => column = [column EXCEPT ![c] = to]
    BY <1>00, <2>1 DEF Into
  <2> QED
    BY <1>00, <2>2 DEF Into
<1>2. /\ old.at = column /\ S = OnBoard(column) \cap Shown[u] /\ old.before = InOrder(rank, S)
      /\ S \in SUBSET Cards
  BY <1>0, <1>1, ListedIsList DEF ListType
<1>3. c \in S /\ to \in Columns /\ c \in Cards /\ q.kind \in {"move", "status"}
  BY <1>0 DEF Posed, Asked, RequestType
<1>4. OnBoard(column') = OnBoard(column) /\ column' \in [Cards -> Columns \cup {Nowhere}]
  <2>1. column[c] # Nowhere /\ to # Nowhere
    BY <1>2, <1>3, BoardOrderAssumption DEF OnBoard
  <2>2. \A d \in Cards : column'[d] # Nowhere <=> column[d] # Nowhere
    BY <1>0, <1>3, <2>1
  <2> QED
    BY <1>0, <1>3, <2>2 DEF OnBoard
<1>5. /\ rank' \in [Cards -> Int]
      /\ q.kind = "status" => rank' = rank
      /\ q.on = OnBoard(column)
      /\ \A a, b \in q.on \ {c} : Before(rank, a, b) => Before(rank', a, b)
      /\ q.kind = "move" /\ q.above # None => rank'[q.above] < rank'[c]
      /\ q.kind = "move" /\ q.below # None => rank'[c] < rank'[q.below]
  <2>1. ~q.overtaken
    BY <1>1
  <2> HIDE DEF q
  <2>2. /\ rank' \in [Cards -> Int]
        /\ q.kind = "status" => rank' = rank
    BY CommitWrites DEF q
  <2>3. q.on = OnBoard(column) /\ \A a, b \in q.on \ {c} : Before(rank, a, b) => Before(rank', a, b)
    BY <2>1, CommitWrites DEF q
  <2>4. /\ q.kind = "move" /\ q.above # None => rank'[q.above] < rank'[c]
        /\ q.kind = "move" /\ q.below # None => rank'[c] < rank'[q.below]
    BY <2>1, CommitWrites DEF q
  <2> QED
    BY <2>2, <2>3, <2>4
<1>6. new.on = S /\ new.at = column' /\ new.before = InOrder(rank', S)
  <2> HIDE DEF S
  <2>1. OnBoard(column') \cap Shown[u] = S
    BY <1>2, <1>4
  <2>2. new = [on |-> S, before |-> InOrder(rank', S), at |-> column']
    BY <2>1 DEF Listed
  <2> QED
    BY <2>2
<1>7. /\ Orders(InOrder(rank, S), S) /\ InOrder(rank, S) \subseteq S \X S
      /\ \A a, b \in S : <<a, b>> \in InOrder(rank, S) <=> Before(rank, a, b)
      /\ Orders(InOrder(rank', S), S) /\ InOrder(rank', S) \subseteq S \X S
      /\ \A a, b \in S : <<a, b>> \in InOrder(rank', S) <=> Before(rank', a, b)
  <2> HIDE DEF S
  <2>1. /\ Orders(InOrder(rank, S), S) /\ InOrder(rank, S) \subseteq S \X S
        /\ \A a, b \in S : <<a, b>> \in InOrder(rank, S) <=> Before(rank, a, b)
    BY <1>0, <1>2, RanksOrder
  <2>2. /\ Orders(InOrder(rank', S), S) /\ InOrder(rank', S) \subseteq S \X S
        /\ \A a, b \in S : <<a, b>> \in InOrder(rank', S) <=> Before(rank', a, b)
    BY <1>2, <1>5, RanksOrder
  <2> QED
    BY <2>1, <2>2
<1> HIDE DEF q, c, to, old, S, new
<1>8. CASE q.kind = "status"
  <2>1. view[u] = [old EXCEPT !.at[c] = to]
    BY <1>0, <1>8 DEF Drawn, Posed, Into, c, to, old
  <2>2. view[u].on = S /\ view[u].at = column' /\ view[u].before = InOrder(rank, S)
    <3>1. /\ view[u].on = old.on /\ view[u].before = old.before
          /\ view[u].at = [old.at EXCEPT ![c] = to]
      BY <1>0, <2>1 DEF ListType
    <3> QED
      BY <1>0, <1>2, <3>1 DEF S
  <2> QED
    BY <1>5, <1>6, <1>8, <2>2 DEF Alike, InColumn, Column, new
<1>9. CASE q.kind = "move"
  <2> DEFINE v == view[u]  above == q.above  below == q.below
  <2>1. /\ Adjacent(old, c, above, below, to) /\ v = Placed(old, c, above, below, to)
        /\ OneByOne(old) /\ above \in Cards \cup {None} /\ below \in Cards \cup {None}
    BY <1>0, <1>9 DEF Drawn, Posed, Asked, RequestType, c, to, old
  <2>2. /\ c \in old.on /\ S = old.on /\ old \in ListType /\ to \in Columns
        /\ column' = [column EXCEPT ![c] = to] /\ old.at = column
        /\ old.before = InOrder(rank, S) /\ Orders(old.before, S)
    BY <1>0, <1>2, <1>3, <1>7 DEF S
  <2> HIDE DEF v, above, below
  <2>3. v \in ListType /\ OneByOne(v) /\ v.on = S /\ v.at = column'
    <3>1. /\ Placed(old, c, above, below, to) \in ListType
          /\ OneByOne(Placed(old, c, above, below, to))
          /\ Placed(old, c, above, below, to).on = old.on
          /\ Placed(old, c, above, below, to).at = [old.at EXCEPT ![c] = to]
      <4>1. /\ Adjacent(old, c, above, below, to) /\ OneByOne(old) /\ c \in old.on
            /\ above \in Cards \cup {None} /\ below \in Cards \cup {None}
            /\ old \in ListType /\ to \in Columns
        BY <2>1, <2>2
      <4> QED
        BY <4>1, PlacedInOrder
    <3> QED
      BY <2>1, <2>2, <3>1
  <2>4. \A d, e \in S \ {c} : <<d, e>> \in v.before <=> <<d, e>> \in InOrder(rank, S)
    <3>1. /\ c \in old.on /\ old \in ListType /\ to \in Columns
          /\ above \in Cards \cup {None} /\ below \in Cards \cup {None}
      BY <2>1, <2>2
    <3>2. \A d, e \in old.on \ {c} :
              <<d, e>> \in Placed(old, c, above, below, to).before <=> <<d, e>> \in old.before
      BY <3>1, PlacedOthers
    <3> QED
      BY <2>1, <2>2, <3>2
  <2>5. \A d \in S \ {c} : /\ <<d, c>> \in v.before <=> d \in Over(old, c, above, below)
                           /\ <<c, d>> \in v.before <=> d \notin Over(old, c, above, below)
    BY <2>1, <2>2, PlacedUnder
  <2>6. \A d, e \in S \ {c} : <<d, e>> \in v.before <=> <<d, e>> \in InOrder(rank', S)
    <3>1. S \ {c} \subseteq q.on \ {c}
      BY <1>2, <1>5
    <3>2. \A d, e \in S \ {c} : Before(rank, d, e) => Before(rank', d, e)
      BY <1>5, <3>1
    <3> QED
      BY <1>7, <2>4, <3>2 DEF Orders
  <2>7. \A d \in S \ {c} : column'[d] = to =>
            /\ <<d, c>> \in v.before <=> <<d, c>> \in InOrder(rank', S)
            /\ <<c, d>> \in v.before <=> <<c, d>> \in InOrder(rank', S)
    <3> TAKE d \in S \ {c}
    <3> HAVE column'[d] = to
    <3>1. d \in Column(old, to) \ {c} /\ column[d] = to
      BY <1>0, <1>2, <1>3, <2>2 DEF Column
    <3>2. \/ above # None /\ (d = above \/ <<d, above>> \in old.before)
          \/ below # None /\ (d = below \/ <<below, d>> \in old.before)
      BY <2>1, <3>1 DEF Adjacent
    <3>3. /\ above # None => above \in S \ {c} /\ rank'[above] < rank'[c]
          /\ below # None => below \in S \ {c} /\ rank'[c] < rank'[below]
      <4>1. /\ above # None => above \in S \ {c}
            /\ below # None => below \in S \ {c}
        BY <2>1, <2>2 DEF Adjacent, Column
      <4>2. /\ above # None => rank'[above] < rank'[c]
            /\ below # None => rank'[c] < rank'[below]
        BY <1>5, <1>9 DEF above, below
      <4> QED
        BY <4>1, <4>2
    <3>4. \A e \in S : rank'[e] \in Int
      BY <1>2, <1>5
    <3>5. CASE above # None /\ (d = above \/ <<d, above>> \in old.before)
      <4>1. d = above \/ Before(rank', d, above)
        BY <1>2, <1>7, <2>4, <2>6, <3>3, <3>5
      <4>2. Before(rank', d, c)
        BY <3>3, <3>4, <3>5, <4>1, <1>3 DEF Before
      <4>3. d \in Over(old, c, above, below)
        <5>1. below # None => below \in S /\ <<above, below>> \in old.before
          BY <2>1, <3>3, <3>5 DEF Adjacent
        <5>2. below # None => <<d, below>> \in old.before
          BY <2>2, <3>3, <3>5, <5>1 DEF Orders
        <5> QED
          BY <2>2, <3>5, <5>2 DEF Over
      <4> QED
        BY <1>3, <1>7, <2>5, <4>2, <4>3 DEF Orders
    <3>6. CASE below # None /\ (d = below \/ <<below, d>> \in old.before)
      <4>1. d = below \/ Before(rank', below, d)
        BY <1>2, <1>7, <2>4, <2>6, <3>3, <3>6
      <4>2. Before(rank', c, d)
        BY <3>3, <3>4, <3>6, <4>1, <1>3 DEF Before
      <4>3. d \notin Over(old, c, above, below)
        <5>1. <<d, below>> \notin old.before
          BY <2>2, <3>3, <3>6 DEF Orders
        <5> QED
          BY <3>6, <5>1 DEF Over
      <4> QED
        BY <1>3, <1>7, <2>5, <4>2, <4>3 DEF Orders
    <3> QED
      BY <3>2, <3>5, <3>6
  <2>8. \A d, e \in S : column'[d] = column'[e] =>
            (<<d, e>> \in v.before <=> <<d, e>> \in InOrder(rank', S))
    <3>1. column'[c] = to
      BY <1>0, <1>3
    <3>2. <<c, c>> \notin v.before /\ <<c, c>> \notin InOrder(rank', S)
      BY <1>3, <1>7, <2>3 DEF OneByOne, Orders
    <3> QED
      BY <2>6, <2>7, <3>1, <3>2
  <2>9. ASSUME NEW col \in Columns
        PROVE  InColumn(v, col) = InColumn(new, col)
    <3> DEFINE C == {d \in S : column'[d] = col}
    <3>1. Column(v, col) = C /\ Column(new, col) = C
      BY <1>6, <2>3 DEF Column
    <3>2. \A d, e \in C : <<d, e>> \in v.before <=> <<d, e>> \in new.before
      BY <1>6, <2>8
    <3> HIDE DEF C
    <3>3. v.before \cap (C \X C) = new.before \cap (C \X C)
      BY <3>2
    <3> QED
      BY <3>1, <3>3 DEF InColumn
  <2> QED
    BY <2>9 DEF Alike, v, new
<1> QED
  BY <1>3, <1>8, <1>9 DEF q

(* A commit.                                                               *)
LEMMA CommitOrderKeeps ==
    ASSUME OrderInv, NEW u \in Users, CommitOrder(u)
    PROVE  OrderInv'
<1> DEFINE q == request[u]  over(w) == [request[w] EXCEPT !.was = "behind",
                                                              !.overtaken = @ \/ request[w].at = "read"]
<1>0. /\ request \in [Users -> RequestType] /\ q.at = "read" /\ q \in RequestType
      /\ column' = IF q.to = Nowhere THEN column ELSE [column EXCEPT ![q.card] = q.to]
      /\ current' = [w \in Users |-> IF w = u /\ current[w] = "drawing" THEN "drawn" ELSE "behind"]
      /\ request' = [w \in Users |-> IF w = u THEN NoRequest ELSE over(w)]
      /\ UNCHANGED <<view, made>>
      /\ column \in [Cards -> Columns \cup {Nowhere}]
  BY DEF CommitOrder, OrderInv, OrderTypeOK
<1>1. /\ Asked(q) /\ Posed(q, column) /\ q.card \in Cards /\ q.to \in Columns \cup {Nowhere}
  BY <1>0, RequestsAreAsked DEF Asked, RequestType
<1>2. request'[u].at = "none" /\ ~request'[u].overtaken /\ request'[u].kind = "move"
      /\ \A c \in Cards : request'[u].read[c] = 0
  BY <1>0, NoRequestIsOne
<1>3. \A w \in Users \ {u} : LET p == request[w]  n == request'[w] IN
          /\ n \in RequestType /\ n.at = p.at /\ n.kind = p.kind /\ n.card = p.card
          /\ n.above = p.above /\ n.below = p.below /\ n.to = p.to /\ n.old = p.old
          /\ n.read = p.read /\ n.on = p.on /\ n.was = "behind"
          /\ n.overtaken = (p.overtaken \/ p.at = "read")
  <2> TAKE w \in Users \ {u}
  <2>1. request[w] \in RequestType /\ request'[w] = over(w)
    BY <1>0
  <2> QED
    BY <2>1 DEF RequestType
<1>4. /\ \A c \in Cards : column[c] # Nowhere => column'[c] # Nowhere
      /\ \A c \in Cards \ {q.card} : column'[c] = column[c]
  BY <1>0, <1>1
<1>5. request' \in [Users -> RequestType]
  <2>1. \A w \in Users : request'[w] \in RequestType
    BY <1>0, <1>3, NoRequestIsOne
  <2> QED
    BY <1>0, <2>1
<1>6. /\ IsFiniteSet(Pending') /\ Cardinality(Pending') <= made'
      /\ Grain[Spent'] \in Nat \ {0} /\ Grain[Spent] = 2 * Grain[Spent']
      /\ rank' \in [Cards -> Int] /\ \A c \in Cards : rank'[c] \in Multiples(Grain[Spent'])
  BY CommitWrites
<1>7. OrderTypeOK'
  <2>1. column' \in [Cards -> Columns \cup {Nowhere}]
    BY <1>0, <1>1
  <2>2. current' \in [Users -> {"fetched", "drawing", "drawn", "behind"}]
    BY <1>0
  <2> QED
    BY <1>0, <1>5, <1>6, <2>1, <2>2 DEF OrderInv, OrderTypeOK
<1>8. ListsKnown'
  <2>1. \A w \in Users : view[w].on \in SUBSET Cards
    BY DEF OrderInv, OrderTypeOK, ListType
  <2> QED
    BY <1>0, <1>4, <2>1 DEF OrderInv, ListsKnown, Known
<1>9. AllPosed'
  <2> SUFFICES ASSUME NEW w \in Users, request'[w].at # "none"
               PROVE  Posed(request'[w], column')
    BY <1>0 DEF AllPosed
  <2> DEFINE p == request[w]  n == request'[w]
  <2>1. w # u /\ p.at # "none"
    BY <1>2, <1>3
  <2>2. Posed(p, column) /\ p \in RequestType
    BY <2>1, <1>0 DEF OrderInv, AllPosed
  <2>3. /\ n.kind = p.kind /\ n.card = p.card /\ n.above = p.above /\ n.below = p.below
        /\ n.to = p.to /\ n.old = p.old
    BY <1>3, <2>1
  <2>4. p.kind = "file" => column'[p.card] = Nowhere
    <3> SUFFICES ASSUME p.kind = "file" PROVE column'[p.card] = Nowhere
      OBVIOUS
    <3>1. q.kind # "file"
      BY <1>0, <2>1 DEF OrderInv, OneFiling, Filing
    <3>2. q.card \in q.old.on
      BY <1>1, <3>1 DEF Posed
    <3>3. column[q.card] # Nowhere
      BY <1>1, <3>2 DEF Posed
    <3>4. column[p.card] = Nowhere /\ p.card \in Cards
      BY <2>2 DEF Posed
    <3> QED
      BY <1>4, <3>3, <3>4
  <2>5. \A c \in p.old.on : p.old.at[c] \in Columns /\ column'[c] # Nowhere
    <3>1. p.old.on \in SUBSET Cards
      BY <2>2 DEF RequestType, ListType
    <3> QED
      BY <1>4, <2>2, <3>1 DEF Posed
  <2> HIDE DEF p, n
  <2>6. Posed(n, column')
    BY <2>2, <2>3, <2>4, <2>5 DEF Posed, Into
  <2> QED
    BY <2>6 DEF n
<1>10. OneFiling'
  BY <1>2, <1>3 DEF OrderInv, OneFiling, Filing
<1>11. ReadIsRank'
  <2> SUFFICES ASSUME NEW w \in Users
               PROVE  LET n == request'[w] IN
                      (n.at = "read" => n.overtaken) /\ (n.at # "read" => ~n.overtaken)
    BY DEF ReadIsRank
  <2>1. CASE w = u
    BY <1>2, <2>1
  <2>2. CASE w # u
    <3>1. request[w].at # "read" => ~request[w].overtaken
      BY DEF OrderInv, ReadIsRank
    <3>2. /\ request'[w].at = request[w].at
          /\ request'[w].overtaken = (request[w].overtaken \/ request[w].at = "read")
      BY <1>3, <2>2
    <3> QED
      BY <3>1, <3>2
  <2> QED
    BY <2>1, <2>2
<1>12. OldStands' /\ DropsDrawn'
  BY <1>0, <1>2, <1>3 DEF OldStands, Stands, DropsDrawn
<1>13. ViewsStand'
  <2> SUFFICES ASSUME NEW w \in Users, current'[w] \in {"fetched", "drawn"}
               PROVE  current'[w] = "drawn" /\ Alike(view'[w], Listed(w, rank, column)')
    BY DEF ViewsStand, Stands, Alike, InColumn, Column
  <2>1. w = u /\ current[u] = "drawing" /\ current'[w] = "drawn"
    BY <1>0
  <2>2. Alike(view[u], Listed(u, rank', column'))
    BY <2>1, CommitIsDrawn
  <2>3. Listed(w, rank, column)' = Listed(u, rank', column')
    BY <2>1 DEF Listed, OnBoard, InOrder, Before
  <2> QED
    BY <1>0, <2>1, <2>2, <2>3
<1>14. RoomIsLeft'
  <2> DEFINE h == Grain[Spent']
  <2>1. h \in Nat \ {0} /\ Grain[Spent] = 2 * h
    BY <1>6
  <2> HIDE DEF h
  <2>2. Unit \in Multiples(h)
    BY <2>1, Halving DEF OrderInv, RoomIsLeft
  <2>3. \A w \in Users, c \in Cards : request'[w].read[c] \in Multiples(h)
    <3> TAKE w \in Users, c \in Cards
    <3>1. request[w].read[c] \in Multiples(h)
      BY <2>1, Halving DEF OrderInv, RoomIsLeft
    <3> QED
      BY <1>2, <1>3, <2>1, <3>1, ZeroIsMultiple
  <2> QED
    BY <1>6, <2>2, <2>3 DEF RoomIsLeft, Unit, h
<1> QED
  BY <1>7, <1>8, <1>9, <1>10, <1>11, <1>12, <1>13, <1>14 DEF OrderInv

(* Every step.                                                             *)
LEMMA OrderInvKept == OrderInv /\ [OrderNext]_orderVars => OrderInv'
<1> SUFFICES ASSUME OrderInv, [OrderNext]_orderVars PROVE OrderInv'
  OBVIOUS
<1>1. ASSUME NEW u \in Users, NEW c \in Cards, NEW d \in Cards, DropOnCard(u, c, d)
      PROVE  OrderInv'
  BY <1>1, DropOnCardKeeps
<1>2. ASSUME NEW u \in Users, NEW c \in Cards, NEW to \in Columns,
             DropOnColumn(u, c, to) \/ FileCard(u, c, to)
      PROVE  OrderInv'
  BY <1>2, DropOnColumnKeeps, FileCardKeeps
<1>3. ASSUME NEW u \in Users,
             ReadRanks(u) \/ CommitOrder(u) \/ RefuseOrder(u) \/ FetchBoard(u)
      PROVE  OrderInv'
  BY <1>3, ReadRanksKeeps, CommitOrderKeeps, RefuseOrderKeeps, FetchBoardKeeps
<1>4. CASE UNCHANGED orderVars
  <2>1. UNCHANGED <<rank, column, view, request, current, made>>
    BY <1>4 DEF orderVars
  <2>2. OrderTypeOK' /\ ListsKnown' /\ AllPosed' /\ OneFiling' /\ ReadIsRank'
    BY <2>1 DEF OrderInv, OrderTypeOK, ListsKnown, Known, AllPosed, OneFiling, Filing, ReadIsRank,
                OnBoard
  <2>3. \A w \in Users : Listed(w, rank, column)' = Listed(w, rank, column)
    BY <2>1 DEF Listed, InOrder, Before, OnBoard
  <2>4. ViewsStand' /\ OldStands' /\ DropsDrawn'
    BY <2>1, <2>3 DEF OrderInv, ViewsStand, OldStands, Stands, DropsDrawn, Alike, InColumn, Column
  <2>5. RoomIsLeft'
    BY <2>1 DEF OrderInv, RoomIsLeft, Pending, Spent, Unit
  <2> QED
    BY <2>2, <2>4, <2>5 DEF OrderInv
<1> QED
  BY <1>1, <1>2, <1>3, <1>4 DEF OrderNext

-----------------------------------------------------------------------------
(* BoardOrder: what it is for. *)

(* What the invariant is for.                                              *)
LEMMA OrderInvSafe == OrderInv => OrderSafe
<1> SUFFICES ASSUME OrderInv PROVE SeenIsTrue /\ RefusedOnlyIfStale
  BY DEF OrderInv, OrderSafe
<1>1. SeenIsTrue
  BY DEF SeenIsTrue, OrderInv, ViewsStand, Stands, Alike
<1>2. RefusedOnlyIfStale
  <2> SUFFICES ASSUME NEW u \in Users, request[u].at = "read", OutOfOrder(request[u]),
                      request[u].was = "fetched"
               PROVE  FALSE
    BY DEF RefusedOnlyIfStale
  <2> DEFINE q == request[u]
  <2>1. Asked(q) /\ Posed(q, column)
    BY RequestsAreAsked
  <2>2. ~q.overtaken /\ q.old = Listed(u, rank, column)
    BY DEF OrderInv, OldStands, Stands
  <2>3. q.read = rank /\ q.on = OnBoard(column)
    BY <2>2 DEF OrderInv, ReadIsRank
  <2>4. rank \in [Cards -> Int] /\ q.on \in SUBSET Cards
    BY <2>3 DEF OrderInv, OrderTypeOK, OnBoard
  <2>5. /\ q.kind = "move" /\ ~Fits(rank, q.above, q.below)
        /\ ~Fits(Renumbered(rank, q.on), q.above, q.below)
    BY <2>3 DEF OutOfOrder
  <2> HIDE DEF q
  <2>6. q.above # None /\ q.below # None
    BY <2>5 DEF Fits
  <2>7. <<q.above, q.below>> \in q.old.before
    BY <2>1, <2>5, <2>6 DEF Posed, Adjacent
  <2>8. <<q.above, q.below>> \in InOrder(rank, q.on \cap Shown[u])
    BY <2>2, <2>3, <2>7 DEF Listed
  <2>9. Before(rank, q.above, q.below) /\ q.above \in q.on /\ q.below \in q.on
    BY <2>8 DEF InOrder
  <2>10. Renumbered(rank, q.on)[q.above] < Renumbered(rank, q.on)[q.below]
    BY <2>4, <2>9, RenumberingKeeps
  <2> QED
    BY <2>5, <2>10 DEF Fits
<1> QED
  BY <1>1, <1>2

(* Cards, columns, lists and requests stay what they are, whoever drops    *)
(* what and whenever the list is fetched; what is on screen over a list    *)
(* that was up to date is, once the drop is accepted, the order the server *)
(* keeps, and so is what a refusal puts back if nothing else happened; and *)
(* a drop between cards seen in their order is never refused for want of a *)
(* key. (ranks.py, ranking.py, useMoveTicket.ts)                           *)
THEOREM OrderIsSafe == OrderSpec => []OrderSafe
<1>1. OrderInit => OrderInv
  BY OrderInvInit
<1> QED
  BY <1>1, OrderInvKept, OrderInvSafe, PTL DEF OrderSpec

(* And what a commit does from it.                                         *)
LEMMA CommitsLandStep ==
    ASSUME OrderInv, NEW u \in Users, CommitOrder(u)
    PROVE  LET q == request[u] IN ~q.overtaken =>
           /\ \A a, b \in OnBoard(column) \ {q.card} : Before(rank, a, b) => Before(rank', a, b)
           /\ q.kind = "move" => /\ q.above # None => rank'[q.above] < rank'[q.card]
                                 /\ q.below # None => rank'[q.card] < rank'[q.below]
           /\ q.kind = "file" => \A c \in OnBoard(column) : Before(rank', q.card, c)
<1> DEFINE q == request[u]
<1> SUFFICES ASSUME ~q.overtaken
    PROVE  /\ \A a, b \in OnBoard(column) \ {q.card} : Before(rank, a, b) => Before(rank', a, b)
           /\ q.kind = "move" => /\ q.above # None => rank'[q.above] < rank'[q.card]
                                 /\ q.below # None => rank'[q.card] < rank'[q.below]
           /\ q.kind = "file" => \A c \in OnBoard(column) : Before(rank', q.card, c)
  OBVIOUS
<1>1. /\ q.on = OnBoard(column)
      /\ \A a, b \in q.on \ {q.card} : Before(rank, a, b) => Before(rank', a, b)
      /\ q.kind = "move" /\ q.above # None => rank'[q.above] < rank'[q.card]
      /\ q.kind = "move" /\ q.below # None => rank'[q.card] < rank'[q.below]
      /\ q.kind = "file" => \A c \in q.on \ {q.card} : rank'[q.card] < rank'[c]
  BY CommitWrites
<1>2. Posed(q, column)
  BY RequestsAreAsked DEF CommitOrder
<1> HIDE DEF q
<1>3. q.kind = "file" => q.card \notin OnBoard(column)
  BY <1>2 DEF Posed, OnBoard
<1> QED
  BY <1>1, <1>3 DEF Before

(* A commit that nobody overtook leaves the other cards in the order they  *)
(* were in, puts a dropped card between the two it was dropped between,    *)
(* and a new one above every card of the board, whatever was renumbered    *)
(* to make room. (ranks.py, ranking.py)                                    *)
THEOREM CommitsLandWhereAsked == OrderSpec => CommitsLand
<1> DEFINE Step == \A u \in Users : CommitOrder(u) =>
                       LET q == request[u] IN ~q.overtaken =>
           /\ \A a, b \in OnBoard(column) \ {q.card} : Before(rank, a, b) => Before(rank', a, b)
           /\ q.kind = "move" => /\ q.above # None => rank'[q.above] < rank'[q.card]
                                 /\ q.below # None => rank'[q.card] < rank'[q.below]
           /\ q.kind = "file" => \A c \in OnBoard(column) : Before(rank', q.card, c)
<1>1. OrderInv => Step
  BY CommitsLandStep
<1>2. Step => \A u \in Users : CommitOrder(u) /\ ~request[u].overtaken =>
                  \A a, b \in OnBoard(column) \ {request[u].card} :
                      Before(rank, a, b) => Before(rank', a, b)
  OBVIOUS
<1>3. Step => \A u \in Users : LET q == request[u] IN
                  CommitOrder(u) /\ q.kind = "move" /\ ~q.overtaken =>
                      /\ q.above # None => rank'[q.above] < rank'[q.card]
                      /\ q.below # None => rank'[q.card] < rank'[q.below]
  OBVIOUS
<1>4. Step => \A u \in Users : LET q == request[u] IN
                  CommitOrder(u) /\ q.kind = "file" /\ ~q.overtaken =>
                      \A c \in OnBoard(column) : Before(rank', q.card, c)
  OBVIOUS
<1>5. OrderInit => OrderInv
  BY OrderInvInit
<1> HIDE DEF Step
<1> QED
  BY <1>1, <1>2, <1>3, <1>4, <1>5, OrderInvKept, PTL
     DEF OrderSpec, CommitsLand, OnlyTheCardMoves, LandsWhereDropped, NewOnTop

================================================================================
