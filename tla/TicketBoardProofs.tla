-------------------------- MODULE TicketBoardProofs --------------------------
(***************************************************************************)
(* For any number of tickets, teams and concurrent requests the board is   *)
(* well typed; and while one request is served at a time, a team's number  *)
(* names one ticket for ever, its counter never points at one in use, only *)
(* a restore breaks up a family that is whole, and only a restore or a     *)
(* schedule takes a full column further over its limit.                    *)
(***************************************************************************)
EXTENDS TicketBoard, FiniteSetTheorems, TLAPS

NullableTicket == Tickets \cup {NoTicket}

\* What a handler has loaded, by what it is doing.
LEMMA Loaded ==
    ASSUME TypeOK, NEW q \in Handlers
    PROVE  /\ Doing(q, "file") => /\ request[q].by \in {"person", "schedule"}
                                  /\ request[q].ticket \in Tickets
                                  /\ request[q].team \in Teams
                                  /\ request[q].number \in Numbers
                                  /\ request[q].parent \in NullableTicket
                                  /\ request[q].column \in Columns
           /\ Doing(q, "update") => /\ request[q].ticket \in Tickets
                                    /\ request[q].parent \in NullableTicket
                                    /\ request[q].column \in Columns
           /\ Doing(q, "move") => /\ request[q].tickets \subseteq Tickets
                                  /\ request[q].column \in Columns
           /\ Doing(q, "transfer") => /\ request[q].ticket \in Tickets
                                      /\ request[q].team \in Teams
                                      /\ request[q].family \subseteq Tickets
                                      /\ request[q].first \in Numbers
                                      /\ request[q].counter \in 1..(MaxNumber + 1)
                                      /\ request[q].numbers \in [Tickets -> 0..MaxNumber]
                                      /\ request[q].columns \in [Tickets -> Columns]
           /\ Doing(q, "trash") => request[q].tickets \subseteq Tickets
           /\ Doing(q, "purge") => request[q].tickets \subseteq Tickets
           /\ Doing(q, "restore") => /\ request[q].ticket \in Tickets
                                     /\ request[q].parent \in NullableTicket
  <1>1. request[q] \in Request
    BY DEF TypeOK
  <1> QED
    BY <1>1 DEF Request, Idle, Doing, NullableTicket

\* A request that begins leaves every table alone.
LEMMA BeginTypes ==
    ASSUME TypeOK, NEW q \in Handlers, NEW loaded \in Request, Begin(q, loaded)
    PROVE  TypeOK'
  BY DEF TypeOK, Begin, ticketVars

\* One that ends leaves its handler idle and the others as they were.
LEMMA DoneTypes ==
    ASSUME TypeOK, NEW q \in Handlers, Done(q)
    PROVE  request' \in [Handlers -> Request]
  BY DEF TypeOK, Done, Request

\* What is noted of who first had a number keeps its shape.
LEMMA HoldTypes ==
    ASSUME TypeOK, NEW tm \in Teams, NEW given, Hold(tm, given)
    PROVE  firstHolder' \in [Teams -> [Numbers -> Tickets \cup {NoTicket}]]
  <1> DEFINE held == [n \in Numbers |->
                 IF firstHolder[tm][n] = NoTicket /\ \E t \in Tickets : given[t] = n
                 THEN CHOOSE t \in Tickets : given[t] = n
                 ELSE firstHolder[tm][n]]
  <1>1. ASSUME NEW n \in Numbers PROVE held[n] \in Tickets \cup {NoTicket}
    BY DEF TypeOK
  <1>2. held \in [Numbers -> Tickets \cup {NoTicket}]
    BY <1>1
  <1>3. firstHolder' = [firstHolder EXCEPT ![tm] = held]
    BY DEF Hold
  <1> QED
    BY <1>2, <1>3 DEF TypeOK

\* A family is finite, so the counter moves past it by a number.
LEMMA FamilySize ==
    ASSUME NEW family \in SUBSET Tickets
    PROVE  Cardinality(family) \in Nat
  BY BoardAssumption, FS_Subset, FS_CardinalityType

\* What a request has loaded as it begins has the shape of a request.
LEMMA BeginsTyped ==
    ASSUME TypeOK, NEW q \in Handlers,
           \/ \E t \in Tickets : Board(q, t)
           \/ \E set \in SUBSET Tickets :
                 \/ BeginTrash(q, set) \/ BeginPurge(q, set)
                 \/ \E col \in Columns : BeginBulkMove(q, set, col)
    PROVE  TypeOK'
  <1>1. ASSUME NEW t \in Tickets, NEW p \in NullableTicket, NEW col \in Columns,
               BeginUpdate(q, t, p, col)
        PROVE TypeOK'
    <2> DEFINE loaded == [op |-> "update", ticket |-> t, hadParent |-> parent[t],
                          parent |-> p, hadColumn |-> column[t], column |-> col]
    <2>1. loaded \in Request
      BY DEF Request, TypeOK, NullableTicket
    <2>2. Begin(q, loaded)
      BY <1>1 DEF BeginUpdate
    <2> QED
      BY <2>1, <2>2, BeginTypes
  <1>2. ASSUME NEW t \in Tickets, NEW tm \in Teams, NEW p \in NullableTicket,
               NEW col \in Columns, NEW by \in {"person", "schedule"},
               BeginFileBy(q, by, t, tm, p, col)
        PROVE TypeOK'
    <2> DEFINE loaded == [op |-> "file", by |-> by, ticket |-> t, team |-> tm,
                          number |-> next[tm], parent |-> p, column |-> col]
    <2>1. loaded \in Request
      BY <1>2 DEF Request, BeginFileBy, NullableTicket
    <2>2. Begin(q, loaded)
      BY <1>2 DEF BeginFileBy
    <2> QED
      BY <2>1, <2>2, BeginTypes
  <1>3. ASSUME NEW t \in Tickets, NEW tm \in Teams, BeginTransfer(q, t, tm) PROVE TypeOK'
    <2> DEFINE family == {t} \cup Children(t)
    <2>1. PICK given \in [Tickets -> 0..MaxNumber] :
            /\ Numbering(given, t, family, next[tm])
            /\ Begin(q, [op |-> "transfer", ticket |-> t, team |-> tm, family |-> family,
                         hadParent |-> parent[t], first |-> next[tm],
                         counter |-> next[tm] + Cardinality(family),
                         numbers |-> given, columns |-> column])
      BY <1>3 DEF BeginTransfer, BeginTransferOf
    <2>2. family \subseteq Tickets
      BY DEF Children, Live
    <2>3. given[t] = next[tm] /\ next[tm] \in 1..(MaxNumber + 1)
      BY <2>1 DEF Numbering, TypeOK
    <2>4. next[tm] \in Numbers
      BY <2>3, BoardAssumption DEF Numbers
    <2>5. next[tm] + Cardinality(family) \in 1..(MaxNumber + 1)
      BY <1>3, <2>2, <2>3, FamilySize, BoardAssumption DEF BeginTransfer, BeginTransferOf
    <2>6. [op |-> "transfer", ticket |-> t, team |-> tm, family |-> family,
           hadParent |-> parent[t], first |-> next[tm],
           counter |-> next[tm] + Cardinality(family),
           numbers |-> given, columns |-> column] \in Request
      BY <2>2, <2>4, <2>5 DEF Request, TypeOK
    <2> QED
      BY <2>1, <2>6, BeginTypes
  <1>4. ASSUME NEW t \in Tickets, BeginRestore(q, t) PROVE TypeOK'
    <2>1. PICK p \in NullableTicket :
            Begin(q, [op |-> "restore", ticket |-> t, hadParent |-> parent[t], parent |-> p])
      BY <1>4 DEF BeginRestore, BeginRestoreTo, TypeOK, NullableTicket
    <2>2. [op |-> "restore", ticket |-> t, hadParent |-> parent[t], parent |-> p] \in Request
      BY DEF Request, TypeOK, NullableTicket
    <2> QED
      BY <2>1, <2>2, BeginTypes
  <1>5. ASSUME NEW set \in SUBSET Tickets, BeginTrash(q, set) \/ BeginPurge(q, set)
        PROVE TypeOK'
    <2>1. PICK o \in {"trash", "purge"} : Begin(q, [op |-> o, tickets |-> set])
      BY <1>5 DEF BeginTrash, BeginPurge
    <2>2. [op |-> o, tickets |-> set] \in Request
      BY DEF Request
    <2> QED
      BY <2>1, <2>2, BeginTypes
  <1>6. ASSUME NEW set \in SUBSET Tickets, NEW col \in Columns, BeginBulkMove(q, set, col)
        PROVE TypeOK'
    <2> DEFINE loaded == [op |-> "move", tickets |-> set, hadColumns |-> column, column |-> col]
    <2>1. loaded \in Request
      BY DEF Request, TypeOK
    <2>2. Begin(q, loaded)
      BY <1>6 DEF BeginBulkMove
    <2> QED
      BY <2>1, <2>2, BeginTypes
  <1> QED
    BY <1>1, <1>2, <1>3, <1>4, <1>5, <1>6
       DEF Board, BeginFile, BeginSchedule, NullableTicket

\* The type invariant: every row, counter and loaded copy keeps its shape.
THEOREM TypeCorrect == Spec => []TypeOK
<1> USE DEF NullableTicket
<1>1. Init => TypeOK
  BY BoardAssumption DEF Init, TypeOK, Request, Columns, Numbers
<1>2. TypeOK /\ [Next]_vars => TypeOK'
  <2> SUFFICES ASSUME TypeOK, [Next]_vars PROVE TypeOK'
    OBVIOUS
  <2>1. ASSUME NEW q \in Handlers, File(q) PROVE TypeOK'
    <3>1. firstHolder' \in [Teams -> [Numbers -> Tickets \cup {NoTicket}]]
      BY <2>1, Loaded, HoldTypes DEF File
    <3>2. request[q].number + 1 \in 1..(MaxNumber + 1)
      BY <2>1, Loaded, BoardAssumption DEF File, Numbers
    <3>3. request[q].number \in 0..MaxNumber
      BY <2>1, Loaded, BoardAssumption DEF File, Numbers
    <3>4. request' \in [Handlers -> Request]
      BY <2>1, DoneTypes DEF File
    <3>5. /\ team' \in [Tickets -> Teams \cup {NoTeam}] /\ number' \in [Tickets -> 0..MaxNumber]
          /\ next' \in [Teams -> 1..(MaxNumber + 1)]
      BY <2>1, <3>2, <3>3, Loaded DEF TypeOK, File
    <3> QED
      BY <2>1, <3>1, <3>4, <3>5, Loaded DEF TypeOK, File
  <2>2. ASSUME NEW q \in Handlers, Update(q) PROVE TypeOK'
    BY <2>2, Loaded, DoneTypes DEF TypeOK, Update, Put
  <2>3. ASSUME NEW q \in Handlers, BulkMove(q) PROVE TypeOK'
    BY <2>3, Loaded, DoneTypes DEF TypeOK, BulkMove, Put
  <2>4. ASSUME NEW q \in Handlers, Transfer(q) PROVE TypeOK'
    <3> DEFINE r == request[q]
    <3>1. /\ r.ticket \in Tickets /\ r.team \in Teams /\ r.family \subseteq Tickets
          /\ r.counter \in 1..(MaxNumber + 1) /\ r.numbers \in [Tickets -> 0..MaxNumber]
          /\ r.columns \in [Tickets -> Columns]
      BY <2>4, Loaded DEF Transfer
    <3>2. firstHolder' \in [Teams -> [Numbers -> Tickets \cup {NoTicket}]]
      BY <2>4, <3>1, HoldTypes DEF Transfer, CarryOut
    <3> QED
      BY <2>4, <3>1, <3>2, DoneTypes DEF TypeOK, Transfer, CarryOut, Put
  <2>5. ASSUME NEW q \in Handlers, Trash(q) PROVE TypeOK'
    BY <2>5, Loaded, DoneTypes DEF TypeOK, Trash
  <2>6. ASSUME NEW q \in Handlers, Restore(q) PROVE TypeOK'
    BY <2>6, Loaded, DoneTypes DEF TypeOK, Restore, Put
  <2>7. ASSUME NEW q \in Handlers, Purge(q) PROVE TypeOK'
    BY <2>7, Loaded, DoneTypes, BoardAssumption DEF TypeOK, Purge, Without, Columns
  <2>8. ASSUME NEW q \in Handlers, Fail(q) PROVE TypeOK'
    BY <2>8, DoneTypes DEF TypeOK, Fail, ticketVars
  <2>9. CASE UNCHANGED vars
    BY <2>9 DEF TypeOK, vars, ticketVars
  <2> QED
    BY <2>1, <2>2, <2>3, <2>4, <2>5, <2>6, <2>7, <2>8, <2>9, BeginsTyped DEF Next, Commit
<1> QED
  BY <1>1, <1>2, PTL DEF Spec

(***************************************************************************)
(* One request at a time: what the keys and the counter rest on.           *)
(***************************************************************************)
OneAtATime == \A p, q \in Handlers : p = q

\* A row's number is below its team's counter, and it was the first to have it.
RowsNumbered ==
    \A t \in Tickets : Exists(t) =>
        /\ team[t] \in Teams /\ number[t] \in Numbers
        /\ number[t] < next[team[t]]
        /\ firstHolder[team[t]][number[t]] = t

\* Nobody ever had a number the counter has not passed.
UnusedAhead ==
    \A tm \in Teams, n \in Numbers : n >= next[tm] => firstHolder[tm][n] = NoTicket

\* The numbers of a transfer: one for each of the family, between the counter
\* it read and the one it leaves.
NumbersApart(r) ==
    /\ \A f \in r.family : r.numbers[f] \in r.first..(r.counter - 1)
    /\ \A f, g \in r.family : r.numbers[f] = r.numbers[g] => f = g
    /\ \A f \in Tickets \ r.family : r.numbers[f] = 0

\* The counter a request read is still the team's.
CounterCurrent(q) ==
    LET r == request[q]
    IN  /\ Doing(q, "file") => r.number = next[r.team]
        /\ Doing(q, "transfer") => /\ r.first = next[r.team] /\ r.first <= r.counter
                                   /\ NumbersApart(r)

KeyInv == RowsNumbered /\ UnusedAhead /\ \A q \in Handlers : CounterCurrent(q)

\* Numbering gives a family numbers of their own from the counter on.
LEMMA NumberedApart ==
    ASSUME TypeOK, NEW t \in Tickets, NEW tm \in Teams, NEW family \in SUBSET Tickets,
           t \in family, NEW given \in [Tickets -> 0..MaxNumber],
           Numbering(given, t, family, next[tm]),
           NEW r, r.family = family, r.numbers = given, r.first = next[tm],
           r.counter = next[tm] + Cardinality(family)
    PROVE  r.first <= r.counter /\ NumbersApart(r)
  <1>1. IsFiniteSet(family)
    BY BoardAssumption, FS_Subset
  <1>2. Cardinality(family) \in Nat /\ Cardinality(family) # 0
    BY <1>1, FS_CardinalityType, FS_EmptySet
  <1>3. next[tm] \in Nat
    BY BoardAssumption DEF TypeOK
  <1>4. \A f \in Tickets : given[f] \in Nat
    BY BoardAssumption
  <1>5. ASSUME NEW f \in family PROVE given[f] \in next[tm]..(next[tm] + Cardinality(family) - 1)
    <2>1. CASE f = t
      BY <2>1, <1>2, <1>3 DEF Numbering
    <2>2. CASE f # t
      BY <2>2, <1>2, <1>3, <1>4 DEF Numbering
    <2> QED
      BY <2>1, <2>2
  <1>6. ASSUME NEW f \in family, NEW g \in family, given[f] = given[g] PROVE f = g
    <2>1. ASSUME NEW h \in family \ {t} PROVE given[h] # given[t]
      BY <1>2, <1>3, <1>4 DEF Numbering
    <2> QED
      BY <1>6, <2>1 DEF Numbering
  <1>7. \A f \in Tickets \ family : given[f] = 0
    BY DEF Numbering
  <1> QED
    BY <1>2, <1>3, <1>5, <1>6, <1>7 DEF NumbersApart

\* A request that begins with the counters as they are keeps the invariant.
LEMMA BeginKeeps ==
    ASSUME TypeOK, KeyInv, OneAtATime, NEW q \in Handlers, NEW loaded, Begin(q, loaded),
           CounterCurrent(q)'
    PROVE  KeyInv'
  <1>1. RowsNumbered' /\ UnusedAhead'
    BY DEF KeyInv, RowsNumbered, UnusedAhead, Begin, ticketVars, Exists
  <1>2. \A p \in Handlers : CounterCurrent(p)'
    BY DEF OneAtATime
  <1> QED
    BY <1>1, <1>2 DEF KeyInv

\* After a request ends nothing is loaded.
LEMMA EndKeeps ==
    ASSUME TypeOK, OneAtATime, NEW q \in Handlers, Done(q), RowsNumbered', UnusedAhead'
    PROVE  KeyInv'
  <1>1. request'[q] = Idle
    BY DEF Done, TypeOK
  <1>2. \A p \in Handlers : CounterCurrent(p)'
    BY <1>1 DEF OneAtATime, CounterCurrent, Doing, Idle
  <1> QED
    BY <1>2 DEF KeyInv

\* Every request begins with the counters as they are.
LEMMA BeginsKeep ==
    ASSUME TypeOK, KeyInv, OneAtATime, NEW q \in Handlers,
           \/ \E t \in Tickets : Board(q, t)
           \/ \E set \in SUBSET Tickets :
                 \/ BeginTrash(q, set) \/ BeginPurge(q, set)
                 \/ \E col \in Columns : BeginBulkMove(q, set, col)
    PROVE  KeyInv'
  <1>1. ASSUME NEW loaded, Begin(q, loaded), loaded.op \notin {"file", "transfer"} PROVE KeyInv'
    <2>1. request'[q] = loaded
      BY <1>1 DEF Begin, TypeOK
    <2>2. CounterCurrent(q)'
      BY <1>1, <2>1 DEF CounterCurrent, Doing
    <2> QED
      BY <1>1, <2>2, BeginKeeps
  <1>2. ASSUME NEW t \in Tickets, NEW tm \in Teams, NEW p \in NullableTicket,
               NEW col \in Columns, NEW by \in {"person", "schedule"},
               BeginFileBy(q, by, t, tm, p, col)
        PROVE KeyInv'
    <2> DEFINE loaded == [op |-> "file", by |-> by, ticket |-> t, team |-> tm,
                          number |-> next[tm], parent |-> p, column |-> col]
    <2>1. Begin(q, loaded)
      BY <1>2 DEF BeginFileBy
    <2>2. request'[q] = loaded /\ next' = next
      BY <2>1 DEF Begin, TypeOK
    <2>3. CounterCurrent(q)'
      BY <2>2 DEF CounterCurrent, Doing
    <2> QED
      BY <2>1, <2>3, BeginKeeps
  <1>3. ASSUME NEW t \in Tickets, NEW tm \in Teams, BeginTransfer(q, t, tm) PROVE KeyInv'
    <2> DEFINE family == {t} \cup Children(t)
    <2>1. PICK given \in [Tickets -> 0..MaxNumber] :
            /\ Numbering(given, t, family, next[tm])
            /\ Begin(q, [op |-> "transfer", ticket |-> t, team |-> tm, family |-> family,
                         hadParent |-> parent[t], first |-> next[tm],
                         counter |-> next[tm] + Cardinality(family),
                         numbers |-> given, columns |-> column])
      BY <1>3 DEF BeginTransfer, BeginTransferOf
    <2> DEFINE loaded == [op |-> "transfer", ticket |-> t, team |-> tm, family |-> family,
                          hadParent |-> parent[t], first |-> next[tm],
                          counter |-> next[tm] + Cardinality(family),
                          numbers |-> given, columns |-> column]
    <2>2. request'[q] = loaded /\ next' = next
      BY <2>1 DEF Begin, TypeOK
    <2>3. loaded.first <= loaded.counter /\ NumbersApart(loaded)
      <3>1. family \in SUBSET Tickets /\ t \in family
        BY DEF Children, Live
      <3> HIDE DEF family
      <3> QED
        BY <2>1, <3>1, NumberedApart
    <2>4. CounterCurrent(q)'
      <3>1. NumbersApart(request'[q]) /\ request'[q].first <= request'[q].counter
        <4> HIDE DEF loaded
        <4> QED
          BY <2>2, <2>3
      <3>2. /\ request'[q].op = "transfer"
            /\ request'[q].first = next'[request'[q].team]
        BY <2>2
      <3> QED
        BY <3>1, <3>2 DEF CounterCurrent, Doing, NumbersApart
    <2> QED
      BY <2>1, <2>4, BeginKeeps
  <1>4. ASSUME NEW t \in Tickets, NEW p \in NullableTicket, NEW col \in Columns,
               BeginUpdate(q, t, p, col)
        PROVE KeyInv'
    BY <1>1, <1>4 DEF BeginUpdate
  <1>5. ASSUME NEW t \in Tickets, BeginRestore(q, t) PROVE KeyInv'
    BY <1>1, <1>5 DEF BeginRestore, BeginRestoreTo
  <1>6. ASSUME NEW set \in SUBSET Tickets,
               \/ BeginTrash(q, set) \/ BeginPurge(q, set)
               \/ \E col \in Columns : BeginBulkMove(q, set, col)
        PROVE KeyInv'
    BY <1>1, <1>6 DEF BeginTrash, BeginPurge, BeginBulkMove
  <1> QED
    BY <1>2, <1>3, <1>4, <1>5, <1>6 DEF Board, BeginFile, BeginSchedule, NullableTicket

\* A ticket filed takes the number the counter was at.
LEMMA FileKeeps ==
    ASSUME TypeOK, KeyInv, NEW q \in Handlers, File(q)
    PROVE  RowsNumbered' /\ UnusedAhead'
  <1> DEFINE r == request[q]
             given == [t \in Tickets |-> IF t = r.ticket THEN r.number ELSE 0]
  <1>1. /\ r.ticket \in Tickets /\ r.team \in Teams /\ r.number \in Numbers
        /\ r.number = next[r.team]
    BY Loaded DEF File, KeyInv, CounterCurrent
  <1>2. /\ state' = [state EXCEPT ![r.ticket] = "live"]
        /\ team' = [team EXCEPT ![r.ticket] = r.team]
        /\ number' = [number EXCEPT ![r.ticket] = r.number]
        /\ next' = [next EXCEPT ![r.team] = r.number + 1]
        /\ Hold(r.team, given)
    BY DEF File
  <1>3. /\ \A n \in Numbers : n \in Nat /\ n # 0
        /\ \A tm \in Teams : next[tm] \in Nat
    BY BoardAssumption DEF Numbers, TypeOK
  <1>4. ASSUME NEW n \in Numbers, n # r.number
        PROVE  firstHolder'[r.team][n] = firstHolder[r.team][n]
    <2>1. \A t \in Tickets : given[t] # n
      BY <1>3, <1>4
    <2> QED
      BY <1>1, <1>2, <2>1 DEF Hold, TypeOK
  <1>5. firstHolder'[r.team][r.number] = r.ticket
    <2>1. \A t \in Tickets : given[t] = r.number <=> t = r.ticket
      BY <1>1, <1>3
    <2>2. firstHolder[r.team][r.number] = NoTicket
      BY <1>1, <1>3 DEF KeyInv, UnusedAhead
    <2>3. (CHOOSE t \in Tickets : given[t] = r.number) = r.ticket
      BY <1>1, <2>1
    <2> QED
      BY <1>1, <1>2, <2>1, <2>2, <2>3 DEF Hold, TypeOK
  <1>6. \A tm \in Teams \ {r.team} : firstHolder'[tm] = firstHolder[tm] /\ next'[tm] = next[tm]
    BY <1>1, <1>2 DEF Hold, TypeOK
  <1>7. next'[r.team] = r.number + 1
    BY <1>1, <1>2 DEF TypeOK
  <1>8. RowsNumbered'
    <2> SUFFICES ASSUME NEW t \in Tickets, Exists(t)'
                 PROVE  /\ team'[t] \in Teams /\ number'[t] \in Numbers
                        /\ number'[t] < next'[team'[t]]
                        /\ firstHolder'[team'[t]][number'[t]] = t
      BY DEF RowsNumbered
    <2>1. CASE t = r.ticket
      <3>1. team'[t] = r.team /\ number'[t] = r.number
        BY <1>2, <2>1 DEF TypeOK
      <3> QED
        BY <1>1, <1>3, <1>5, <1>7, <2>1, <3>1
    <2>2. CASE t # r.ticket
      <3>1. team'[t] = team[t] /\ number'[t] = number[t] /\ Exists(t)
        BY <1>2, <2>2 DEF TypeOK, Exists
      <3>2. /\ team[t] \in Teams /\ number[t] \in Numbers
            /\ number[t] < next[team[t]]
            /\ firstHolder[team[t]][number[t]] = t
        BY <3>1 DEF KeyInv, RowsNumbered
      <3>3. CASE team[t] = r.team
        <4>1. number[t] # r.number
          BY <1>1, <1>3, <3>2, <3>3
        <4> QED
          BY <1>1, <1>3, <1>4, <1>7, <3>1, <3>2, <3>3, <4>1
      <3>4. CASE team[t] # r.team
        BY <1>6, <3>1, <3>2, <3>4
      <3> QED
        BY <3>3, <3>4
    <2> QED
      BY <2>1, <2>2
  <1>9. UnusedAhead'
    <2> SUFFICES ASSUME NEW tm \in Teams, NEW n \in Numbers, n >= next'[tm]
                 PROVE  firstHolder'[tm][n] = NoTicket
      BY DEF UnusedAhead
    <2>1. CASE tm = r.team
      <3>1. n # r.number /\ n >= next[tm]
        BY <1>1, <1>3, <1>7, <2>1
      <3> QED
        BY <1>4, <2>1, <3>1 DEF KeyInv, UnusedAhead
    <2>2. CASE tm # r.team
      BY <1>6, <2>2 DEF KeyInv, UnusedAhead
    <2> QED
      BY <2>1, <2>2
  <1> QED
    BY <1>8, <1>9

\* A family transferred takes numbers nobody on its new team ever had.
LEMMA TransferKeeps ==
    ASSUME TypeOK, KeyInv, NEW q \in Handlers, Transfer(q)
    PROVE  RowsNumbered' /\ UnusedAhead'
  <1> DEFINE r == request[q]
  <1>1. /\ r.team \in Teams /\ r.family \subseteq Tickets
        /\ r.counter \in 1..(MaxNumber + 1) /\ r.numbers \in [Tickets -> 0..MaxNumber]
    BY Loaded DEF Transfer
  <1>2. r.first = next[r.team] /\ r.first <= r.counter /\ NumbersApart(r)
    BY DEF Transfer, KeyInv, CounterCurrent
  <1>3. /\ \A f \in r.family : Exists(f)
        /\ team' = [t \in Tickets |-> IF t \in r.family THEN r.team ELSE team[t]]
        /\ number' = [t \in Tickets |-> IF t \in r.family THEN r.numbers[t] ELSE number[t]]
        /\ next' = [next EXCEPT ![r.team] = r.counter]
        /\ Hold(r.team, r.numbers)
        /\ state' = state
    BY DEF Transfer, CarryOut
  <1>4. /\ \A n \in Numbers : n \in Nat /\ n # 0
        /\ r.counter \in Nat
        /\ \A tm \in Teams : next[tm] \in Nat /\ next[tm] >= 1
        /\ \A t \in Tickets : r.numbers[t] \in Nat
    BY <1>1, BoardAssumption DEF Numbers, TypeOK
  <1>5. \A f \in r.family : /\ r.numbers[f] \in Numbers
                            /\ r.numbers[f] >= next[r.team] /\ r.numbers[f] < r.counter
    <2> SUFFICES ASSUME NEW f \in r.family
                 PROVE  /\ r.numbers[f] \in Numbers
                        /\ r.numbers[f] >= next[r.team] /\ r.numbers[f] < r.counter
      OBVIOUS
    <2>1. r.numbers[f] \in 0..MaxNumber /\ r.numbers[f] \in r.first..(r.counter - 1)
      BY <1>1, <1>2 DEF NumbersApart
    <2> QED
      BY <1>1, <1>2, <1>4, <2>1, BoardAssumption DEF Numbers
  <1>6. ASSUME NEW n \in Numbers, n < next[r.team] \/ n >= r.counter
        PROVE  firstHolder'[r.team][n] = firstHolder[r.team][n]
    <2>1. ASSUME NEW t \in Tickets PROVE r.numbers[t] # n
      <3>1. CASE t \in r.family
        BY <1>1, <1>4, <1>5, <1>6, <3>1
      <3>2. CASE t \notin r.family
        BY <1>2, <1>4, <1>6, <3>2 DEF NumbersApart
      <3> QED
        BY <3>1, <3>2
    <2> QED
      BY <1>1, <1>3, <2>1 DEF Hold, TypeOK
  <1>7. ASSUME NEW f \in r.family PROVE firstHolder'[r.team][r.numbers[f]] = f
    <2> DEFINE n == r.numbers[f]
    <2>1. n \in Numbers /\ n # 0 /\ f \in Tickets
      BY <1>1, <1>4, <1>5
    <2>2. \A t \in Tickets : r.numbers[t] = n <=> t = f
      BY <1>2, <2>1 DEF NumbersApart
    <2>3. firstHolder[r.team][n] = NoTicket
      BY <1>1, <1>5 DEF KeyInv, UnusedAhead
    <2>4. (CHOOSE t \in Tickets : r.numbers[t] = n) = f
      BY <2>1, <2>2
    <2> HIDE DEF n
    <2>5. firstHolder'[r.team][n] = f
      BY <1>1, <1>3, <2>1, <2>2, <2>3, <2>4 DEF Hold, TypeOK
    <2> QED
      BY <2>5 DEF n
  <1>8. \A tm \in Teams \ {r.team} : firstHolder'[tm] = firstHolder[tm] /\ next'[tm] = next[tm]
    BY <1>1, <1>3 DEF Hold, TypeOK
  <1>9. next'[r.team] = r.counter
    BY <1>1, <1>3 DEF TypeOK
  <1>10. RowsNumbered'
    <2> SUFFICES ASSUME NEW t \in Tickets, Exists(t)'
                 PROVE  /\ team'[t] \in Teams /\ number'[t] \in Numbers
                        /\ number'[t] < next'[team'[t]]
                        /\ firstHolder'[team'[t]][number'[t]] = t
      BY DEF RowsNumbered
    <2>1. CASE t \in r.family
      <3>1. team'[t] = r.team /\ number'[t] = r.numbers[t]
        BY <1>3, <2>1
      <3> QED
        BY <1>1, <1>5, <1>7, <1>9, <2>1, <3>1
    <2>2. CASE t \notin r.family
      <3>1. team'[t] = team[t] /\ number'[t] = number[t] /\ Exists(t)
        BY <1>3, <2>2 DEF Exists
      <3>2. /\ team[t] \in Teams /\ number[t] \in Numbers
            /\ number[t] < next[team[t]]
            /\ firstHolder[team[t]][number[t]] = t
        BY <3>1 DEF KeyInv, RowsNumbered
      <3>3. CASE team[t] = r.team
        BY <1>2, <1>4, <1>6, <1>9, <3>1, <3>2, <3>3
      <3>4. CASE team[t] # r.team
        BY <1>8, <3>1, <3>2, <3>4
      <3> QED
        BY <3>3, <3>4
    <2> QED
      BY <2>1, <2>2
  <1>11. UnusedAhead'
    <2> SUFFICES ASSUME NEW tm \in Teams, NEW n \in Numbers, n >= next'[tm]
                 PROVE  firstHolder'[tm][n] = NoTicket
      BY DEF UnusedAhead
    <2>1. CASE tm = r.team
      <3>1. n >= r.counter /\ n >= next[tm]
        BY <1>1, <1>2, <1>4, <1>9, <2>1
      <3> QED
        BY <1>6, <2>1, <3>1 DEF KeyInv, UnusedAhead
    <2>2. CASE tm # r.team
      BY <1>8, <2>2 DEF KeyInv, UnusedAhead
    <2> QED
      BY <2>1, <2>2
  <1> QED
    BY <1>10, <1>11

\* The invariant holds of every state while one request is served at a time.
THEOREM KeysAndCounters == ASSUME OneAtATime PROVE Spec => []KeyInv
<1>1. Init => KeyInv
  BY DEF Init, KeyInv, RowsNumbered, UnusedAhead, CounterCurrent, Exists, Doing, Idle
<1>2. TypeOK /\ KeyInv /\ [Next]_vars => KeyInv'
  <2> SUFFICES ASSUME TypeOK, KeyInv, [Next]_vars PROVE KeyInv'
    OBVIOUS
  <2>1. ASSUME NEW q \in Handlers, File(q) PROVE KeyInv'
    BY <2>1, FileKeeps, EndKeeps DEF File
  <2>2. ASSUME NEW q \in Handlers, Transfer(q) PROVE KeyInv'
    BY <2>2, TransferKeeps, EndKeeps DEF Transfer, CarryOut
  <2>3. ASSUME NEW q \in Handlers, Update(q) \/ BulkMove(q) \/ Fail(q) PROVE KeyInv'
    <3>1. RowsNumbered' /\ UnusedAhead' /\ Done(q)
      BY <2>3 DEF KeyInv, RowsNumbered, UnusedAhead, Exists, Update, BulkMove, Fail, ticketVars
    <3> QED
      BY <3>1, EndKeeps
  <2>4. ASSUME NEW q \in Handlers, Trash(q) PROVE KeyInv'
    <3>1. RowsNumbered' /\ UnusedAhead' /\ Done(q)
      BY <2>4, Loaded DEF KeyInv, RowsNumbered, UnusedAhead, Exists, Trash
    <3> QED
      BY <3>1, EndKeeps
  <2>5. ASSUME NEW q \in Handlers, Restore(q) PROVE KeyInv'
    <3>1. RowsNumbered' /\ UnusedAhead' /\ Done(q)
      BY <2>5, Loaded DEF KeyInv, RowsNumbered, UnusedAhead, Exists, Restore, TypeOK
    <3> QED
      BY <3>1, EndKeeps
  <2>6. ASSUME NEW q \in Handlers, Purge(q) PROVE KeyInv'
    <3>1. RowsNumbered' /\ UnusedAhead' /\ Done(q)
      BY <2>6, Loaded DEF KeyInv, RowsNumbered, UnusedAhead, Exists, Purge, Without
    <3> QED
      BY <3>1, EndKeeps
  <2>7. CASE UNCHANGED vars
    BY <2>7 DEF KeyInv, RowsNumbered, UnusedAhead, CounterCurrent, NumbersApart, Exists, Doing,
                vars, ticketVars
  <2> QED
    BY <2>1, <2>2, <2>3, <2>4, <2>5, <2>6, <2>7, BeginsKeep DEF Next, Commit
<1> QED
  BY <1>1, <1>2, TypeCorrect, PTL DEF Spec

\* One request at a time, a team's number names one ticket for ever.
THEOREM KeysNeverReused == ASSUME OneAtATime PROVE Spec => []KeysNameOneTicket
<1>1. KeyInv => KeysNameOneTicket
  BY DEF KeyInv, RowsNumbered, KeysNameOneTicket
<1> QED
  BY <1>1, KeysAndCounters, PTL

\* One request at a time, the counter never points at a number in use.
THEOREM CounterStaysAhead == ASSUME OneAtATime PROVE Spec => []CanFile
<1>1. TypeOK /\ KeyInv => CanFile
  BY BoardAssumption DEF TypeOK, KeyInv, RowsNumbered, CanFile, Free, Numbers
<1> QED
  BY <1>1, KeysAndCounters, TypeCorrect, PTL

\* One request at a time, numbers are given once each and in order.
THEOREM NumbersCorrect == ASSUME OneAtATime PROVE Spec => []NumbersSafe
<1>1. TypeOK /\ KeysNameOneTicket /\ CanFile => NumbersSafe
  BY DEF NumbersSafe
<1> QED
  BY <1>1, TypeCorrect, KeysNeverReused, CounterStaysAhead, PTL

(***************************************************************************)
(* One request at a time: what was checked as a request began.             *)
(***************************************************************************)
\* What a handler found when it loaded is still so.
Checked(q) ==
    LET r == request[q]
    IN  /\ Doing(q, "file") =>
               /\ state[r.ticket] = "unborn"
               /\ r.parent # NoTicket => MayNest(r.ticket, r.team, r.parent)
               /\ r.by = "person" => Room(r.team, r.column, Coming(r.parent))
        /\ Doing(q, "update") =>
               /\ r.ticket \in Live
               /\ r.hadParent = parent[r.ticket] /\ r.hadColumn = column[r.ticket]
               /\ r.parent \notin {NoTicket, r.hadParent} =>
                      MayNest(r.ticket, team[r.ticket], r.parent)
               /\ r.column # r.hadColumn => Room(team[r.ticket], r.column, Coming(r.parent))
        /\ Doing(q, "move") =>
               /\ r.tickets \subseteq Live /\ r.hadColumns = column
               /\ \A tm \in Teams : \A t \in r.tickets : team[t] = tm =>
                      /\ \A u \in r.tickets : team[u] = tm
                      /\ Room(tm, r.column,
                              Cardinality({u \in r.tickets : column[u] # r.column /\ Counted(u)}))
        /\ Doing(q, "transfer") =>
               /\ r.ticket \in Live /\ r.family = {r.ticket} \cup Children(r.ticket)
               /\ r.hadParent = parent[r.ticket] /\ r.columns = column
               /\ Room(r.team, "limited", Arriving(r.ticket, r.family))
        /\ Doing(q, "trash") => r.tickets \subseteq Live
        /\ Doing(q, "purge") => \A t \in r.tickets : state[t] = "trashed"
        /\ Doing(q, "restore") =>
               /\ state[r.ticket] = "trashed" /\ r.hadParent = parent[r.ticket]
               /\ r.parent \in {NoTicket, r.hadParent}
               /\ r.parent # NoTicket => Exists(r.parent) /\ team[r.parent] = team[r.ticket]

\* No row, no team.
RowlessTeamless == \A t \in Tickets : ~Exists(t) => team[t] = NoTeam

CheckInv == RowlessTeamless /\ \A q \in Handlers : Checked(q)

\* While the tables stand still, what was checked does too.
LEMMA TablesStill ==
    ASSUME UNCHANGED ticketVars
    PROVE  /\ Live' = Live
           /\ \A t : Children(t)' = Children(t)
           /\ \A t, tm, p : MayNest(t, tm, p)' <=> MayNest(t, tm, p)
           /\ \A t : Counted(t)' <=> Counted(t)
           /\ \A tm : Held(tm)' = Held(tm)
           /\ \A tm, col, n : Room(tm, col, n)' <=> Room(tm, col, n)
           /\ \A t, family : Arriving(t, family)' = Arriving(t, family)
  <1>1. state' = state /\ team' = team /\ number' = number /\ parent' = parent
        /\ column' = column
    BY DEF ticketVars
  <1>2. Live' = Live
    BY <1>1 DEF Live
  <1>3. \A t : Children(t)' = Children(t)
    BY <1>1, <1>2 DEF Children
  <1>4. \A t, tm, p : MayNest(t, tm, p)' <=> MayNest(t, tm, p)
    BY <1>1, <1>2, <1>3 DEF MayNest
  <1>5. \A t : Counted(t)' <=> Counted(t)
    BY <1>1 DEF Counted
  <1>6. \A tm : Held(tm)' = Held(tm)
    BY <1>1, <1>2, <1>5 DEF Held
  <1>7. \A tm, col, n : Room(tm, col, n)' <=> Room(tm, col, n)
    BY <1>6 DEF Room
  <1>8. \A t, family : Arriving(t, family)' = Arriving(t, family)
    BY <1>1 DEF Arriving
  <1> QED
    BY <1>2, <1>3, <1>4, <1>5, <1>6, <1>7, <1>8

\* A request begins with what it has just found.
LEMMA BeginsChecked ==
    ASSUME TypeOK, NEW q \in Handlers,
           \/ \E t \in Tickets : Board(q, t)
           \/ \E set \in SUBSET Tickets :
                 \/ BeginTrash(q, set) \/ BeginPurge(q, set)
                 \/ \E col \in Columns : BeginBulkMove(q, set, col)
    PROVE  Checked(q)' /\ UNCHANGED ticketVars
  <1>0. UNCHANGED ticketVars
    <2>1. \A t, p, col : BeginUpdate(q, t, p, col) => UNCHANGED ticketVars
      BY DEF BeginUpdate, Begin
    <2>2. \A by, t, tm, p, col : BeginFileBy(q, by, t, tm, p, col) => UNCHANGED ticketVars
      BY DEF BeginFileBy, Begin
    <2>3. \A t, tm : BeginTransfer(q, t, tm) => UNCHANGED ticketVars
      BY DEF BeginTransfer, BeginTransferOf, Begin
    <2>4. \A t : BeginRestore(q, t) => UNCHANGED ticketVars
      BY DEF BeginRestore, BeginRestoreTo, Begin
    <2>5. \A set : BeginTrash(q, set) \/ BeginPurge(q, set) => UNCHANGED ticketVars
      BY DEF BeginTrash, BeginPurge, Begin
    <2>6. \A set, col : BeginBulkMove(q, set, col) => UNCHANGED ticketVars
      BY DEF BeginBulkMove, Begin
    <2> QED
      BY <2>1, <2>2, <2>3, <2>4, <2>5, <2>6 DEF Board, BeginFile, BeginSchedule
  <1>1. state' = state /\ team' = team /\ parent' = parent /\ column' = column
    BY <1>0 DEF ticketVars
  <1>2. ASSUME NEW t \in Tickets, NEW p \in NullableTicket, NEW col \in Columns,
               BeginUpdate(q, t, p, col)
        PROVE Checked(q)'
    <2>1. request'[q] = [op |-> "update", ticket |-> t, hadParent |-> parent[t], parent |-> p,
                         hadColumn |-> column[t], column |-> col]
      BY <1>2 DEF BeginUpdate, Begin, TypeOK
    <2>2. /\ t \in Live
          /\ p \notin {NoTicket, parent[t]} => MayNest(t, team[t], p)
          /\ col # column[t] => Room(team[t], col, Coming(p))
      BY <1>2 DEF BeginUpdate
    <2> QED
      BY <1>0, <1>1, <2>1, <2>2, TablesStill DEF Checked, Doing, Coming
  <1>3. ASSUME NEW t \in Tickets, NEW tm \in Teams, NEW p \in NullableTicket,
               NEW col \in Columns, NEW by \in {"person", "schedule"},
               BeginFileBy(q, by, t, tm, p, col), p # NoTicket => MayNest(t, tm, p),
               by = "person" => Room(tm, col, Coming(p))
        PROVE Checked(q)'
    <2>1. request'[q] = [op |-> "file", by |-> by, ticket |-> t, team |-> tm,
                         number |-> next[tm], parent |-> p, column |-> col]
      BY <1>3 DEF BeginFileBy, Begin, TypeOK
    <2>2. state[t] = "unborn"
      BY <1>3 DEF BeginFileBy
    <2> QED
      BY <1>0, <1>1, <1>3, <2>1, <2>2, TablesStill DEF Checked, Doing, Coming
  <1>4. ASSUME NEW t \in Tickets, NEW tm \in Teams, BeginTransfer(q, t, tm) PROVE Checked(q)'
    <2>1. /\ request'[q].op = "transfer" /\ request'[q].ticket = t /\ request'[q].team = tm
          /\ request'[q].family = {t} \cup Children(t)
          /\ request'[q].hadParent = parent[t] /\ request'[q].columns = column
      BY <1>4 DEF BeginTransfer, BeginTransferOf, Begin, TypeOK
    <2>2. t \in Live /\ Room(tm, "limited", Arriving(t, {t} \cup Children(t)))
      BY <1>4 DEF BeginTransfer, BeginTransferOf
    <2> QED
      BY <1>0, <1>1, <2>1, <2>2, TablesStill DEF Checked, Doing
  <1>5. ASSUME NEW t \in Tickets, BeginRestore(q, t) PROVE Checked(q)'
    <2>1. PICK p \in NullableTicket :
            /\ request'[q] = [op |-> "restore", ticket |-> t, hadParent |-> parent[t],
                              parent |-> p]
            /\ p \in {NoTicket, parent[t]}
            /\ p # NoTicket => Exists(p) /\ team[p] = team[t]
      BY <1>5 DEF BeginRestore, BeginRestoreTo, Begin, TypeOK, NullableTicket
    <2>2. state[t] = "trashed"
      BY <1>5 DEF BeginRestore, BeginRestoreTo
    <2> QED
      BY <1>1, <2>1, <2>2 DEF Checked, Doing, Exists
  <1>6. ASSUME NEW set \in SUBSET Tickets, BeginTrash(q, set) PROVE Checked(q)'
    BY <1>0, <1>6, TablesStill DEF BeginTrash, Begin, TypeOK, Checked, Doing
  <1>7. ASSUME NEW set \in SUBSET Tickets, BeginPurge(q, set) PROVE Checked(q)'
    BY <1>1, <1>7 DEF BeginPurge, Begin, TypeOK, Checked, Doing
  <1>8. ASSUME NEW set \in SUBSET Tickets, NEW col \in Columns, BeginBulkMove(q, set, col)
        PROVE Checked(q)'
    <2>1. request'[q] = [op |-> "move", tickets |-> set, hadColumns |-> column, column |-> col]
      BY <1>8 DEF BeginBulkMove, Begin, TypeOK
    <2>2. /\ set \subseteq Live
          /\ \A tm \in Teams : \A t \in set : team[t] = tm =>
                 /\ \A u \in set : team[u] = tm
                 /\ Room(tm, col, Cardinality({u \in set : column[u] # col /\ Counted(u)}))
      BY <1>8 DEF BeginBulkMove
    <2>3. {u \in set : column'[u] # col /\ Counted(u)'}
            = {u \in set : column[u] # col /\ Counted(u)}
      BY <1>0, <1>1, TablesStill
    <2> QED
      BY <1>0, <1>1, <2>1, <2>2, <2>3, TablesStill DEF Checked, Doing
  <1> QED
    BY <1>0, <1>2, <1>3, <1>4, <1>5, <1>6, <1>7, <1>8
       DEF Board, BeginFile, BeginSchedule, NullableTicket

\* Rows come with a team and go with it.
LEMMA RowlessStep ==
    ASSUME TypeOK, RowlessTeamless, NEW q \in Handlers, Commit(q)
    PROVE  RowlessTeamless'
  <1>1. CASE File(q)
    BY <1>1, Loaded DEF File, RowlessTeamless, Exists, TypeOK
  <1>2. CASE Update(q) \/ BulkMove(q)
    BY <1>2 DEF Update, BulkMove, RowlessTeamless, Exists
  <1>3. CASE Transfer(q)
    BY <1>3 DEF Transfer, CarryOut, RowlessTeamless, Exists
  <1>4. CASE Trash(q)
    BY <1>4 DEF Trash, RowlessTeamless, Exists
  <1>5. CASE Restore(q)
    BY <1>5, Loaded DEF Restore, RowlessTeamless, Exists, TypeOK
  <1>6. CASE Purge(q)
    BY <1>6 DEF Purge, Without, RowlessTeamless, Exists
  <1> QED
    BY <1>1, <1>2, <1>3, <1>4, <1>5, <1>6 DEF Commit

\* One request at a time, what was checked holds as it is committed.
LEMMA ChecksHold == ASSUME OneAtATime PROVE Spec => []CheckInv
<1>1. Init => CheckInv
  BY DEF Init, CheckInv, RowlessTeamless, Checked, Doing, Idle
<1>2. TypeOK /\ CheckInv /\ [Next]_vars => CheckInv'
  <2> SUFFICES ASSUME TypeOK, CheckInv, [Next]_vars PROVE CheckInv'
    OBVIOUS
  <2>1. ASSUME NEW q \in Handlers,
               \/ \E t \in Tickets : Board(q, t)
               \/ \E set \in SUBSET Tickets :
                     \/ BeginTrash(q, set) \/ BeginPurge(q, set)
                     \/ \E col \in Columns : BeginBulkMove(q, set, col)
        PROVE CheckInv'
    <3>1. Checked(q)' /\ UNCHANGED ticketVars
      BY <2>1, BeginsChecked
    <3>2. RowlessTeamless'
      BY <3>1 DEF CheckInv, RowlessTeamless, Exists, ticketVars
    <3> QED
      BY <3>1, <3>2 DEF CheckInv, OneAtATime
  <2>2. ASSUME NEW q \in Handlers, Done(q), RowlessTeamless' PROVE CheckInv'
    <3>1. request'[q] = Idle
      BY <2>2 DEF Done, TypeOK
    <3> QED
      BY <2>2, <3>1 DEF OneAtATime, CheckInv, Checked, Doing, Idle
  <2>3. ASSUME NEW q \in Handlers, Commit(q) PROVE CheckInv'
    <3>1. Done(q)
      BY <2>3 DEF Commit, File, Update, BulkMove, Transfer, CarryOut, Trash, Restore, Purge
    <3> QED
      BY <2>2, <2>3, <3>1, RowlessStep DEF CheckInv
  <2>4. ASSUME NEW q \in Handlers, Fail(q) PROVE CheckInv'
    <3>1. RowlessTeamless'
      BY <2>4 DEF Fail, CheckInv, RowlessTeamless, Exists, ticketVars
    <3> QED
      BY <2>2, <2>4, <3>1 DEF Fail
  <2>5. CASE UNCHANGED vars
    <3>1. UNCHANGED ticketVars /\ request' = request
      BY <2>5 DEF vars
    <3>2. state' = state /\ team' = team /\ parent' = parent /\ column' = column
      BY <3>1 DEF ticketVars
    <3>3. ASSUME NEW q \in Handlers PROVE Checked(q)'
      <4>1. {u \in request[q].tickets : column'[u] # request[q].column /\ Counted(u)'}
              = {u \in request[q].tickets : column[u] # request[q].column /\ Counted(u)}
        BY <3>1, <3>2, TablesStill
      <4> QED
        BY <3>1, <3>2, <4>1, TablesStill DEF CheckInv, Checked, Doing, Coming, Exists
    <3> QED
      BY <3>2, <3>3 DEF CheckInv, RowlessTeamless, Exists
  <2> QED
    BY <2>1, <2>3, <2>4, <2>5 DEF Next
<1> QED
  BY <1>1, <1>2, TypeCorrect, PTL DEF Spec

(***************************************************************************)
(* One request at a time: families and limits.                             *)
(***************************************************************************)
\* A ticket of no row has no live sub-tickets: they would be on a team it is
\* not on.
LEMMA RowlessChildless ==
    ASSUME TypeOK, KeyInv, RowlessTeamless, OneTeam, NEW t \in Tickets, ~Exists(t)
    PROVE  \A c \in Live : parent[c] # t
  <1> SUFFICES ASSUME NEW c \in Live, parent[c] = t PROVE FALSE
    OBVIOUS
  <1>1. c \in Tickets /\ Exists(c) /\ t # NoTicket
    BY BoardAssumption DEF Live, Exists
  <1>2. team[c] \in Teams
    BY <1>1 DEF KeyInv, RowsNumbered
  <1>3. team[t] = NoTeam /\ team[t] = team[c]
    BY <1>1 DEF RowlessTeamless, OneTeam
  <1> QED
    BY <1>2, <1>3, BoardAssumption

\* A ticket filed under a parent finds it on its team and at the top.
LEMMA FileFamily ==
    ASSUME TypeOK, KeyInv, CheckInv, OneLevel, OneTeam, NEW q \in Handlers, File(q)
    PROVE  OneLevel' /\ OneTeam'
  <1> DEFINE r == request[q]
  <1>1. r.ticket \in Tickets /\ r.parent \in NullableTicket
    BY Loaded DEF File
  <1>2. state[r.ticket] = "unborn" /\ (r.parent # NoTicket => MayNest(r.ticket, r.team, r.parent))
    BY DEF File, CheckInv, Checked
  <1>3. \A c \in Live : parent[c] # r.ticket
    BY <1>1, <1>2, RowlessChildless DEF CheckInv, Exists
  <1>4. /\ Live' = Live \cup {r.ticket}
        /\ team'[r.ticket] = r.team /\ parent'[r.ticket] = r.parent
        /\ \A u \in Tickets \ {r.ticket} : team'[u] = team[u] /\ parent'[u] = parent[u]
    BY <1>1 DEF File, Live, TypeOK
  <1>5. r.ticket \notin Live /\ \A u \in Live : parent[u] \in NullableTicket
    BY <1>2 DEF Live, TypeOK, NullableTicket
  <1>6. r.parent # NoTicket =>
           /\ r.parent \in Live \ {r.ticket} /\ team[r.parent] = r.team
           /\ parent[r.parent] = NoTicket
    BY <1>2 DEF MayNest
  <1> HIDE DEF r
  <1>7. OneLevel'
    <2> SUFFICES ASSUME NEW u \in Live', NEW c \in Live', parent'[c] = u
                 PROVE  parent'[u] = NoTicket
      BY DEF OneLevel, Children
    <2>1. u \in Tickets /\ c \in Tickets /\ u # NoTicket
      BY BoardAssumption DEF Live
    <2>2. CASE c = r.ticket
      BY <1>1, <1>4, <1>6, <2>1, <2>2 DEF Live
    <2>3. CASE c # r.ticket
      <3>1. c \in Live /\ parent[c] = u /\ u # r.ticket
        BY <1>3, <1>4, <2>1, <2>3
      <3> QED
        BY <1>4, <2>1, <3>1 DEF OneLevel, Children
    <2> QED
      BY <2>2, <2>3
  <1>8. OneTeam'
    <2> SUFFICES ASSUME NEW u \in Live', parent'[u] # NoTicket
                 PROVE  team'[parent'[u]] = team'[u]
      BY DEF OneTeam
    <2>1. u \in Tickets
      BY DEF Live
    <2>2. CASE u = r.ticket
      BY <1>4, <1>6, <2>2 DEF Live
    <2>3. CASE u # r.ticket
      <3>1. u \in Live /\ parent'[u] = parent[u] /\ parent[u] \in Tickets \ {r.ticket}
        BY <1>3, <1>4, <1>5, <2>1, <2>3 DEF NullableTicket
      <3> QED
        BY <1>4, <2>1, <2>3, <3>1 DEF OneTeam
    <2> QED
      BY <2>2, <2>3
  <1> QED
    BY <1>7, <1>8

\* So does one moved under a parent.
LEMMA UpdateFamily ==
    ASSUME TypeOK, CheckInv, OneLevel, OneTeam, NEW q \in Handlers, Update(q)
    PROVE  OneLevel' /\ OneTeam'
  <1> DEFINE r == request[q]
  <1>1. r.ticket \in Live /\ r.hadParent = parent[r.ticket]
        /\ (r.parent \notin {NoTicket, r.hadParent} =>
               MayNest(r.ticket, team[r.ticket], r.parent))
    BY DEF Update, CheckInv, Checked
  <1>2. /\ Live' = Live /\ team' = team
        /\ parent' = [parent EXCEPT ![r.ticket] = r.parent]
    BY <1>1 DEF Update, Live, Put, TypeOK
  <1>3. r.parent \notin {NoTicket, parent[r.ticket]} =>
           /\ r.parent \in Live \ {r.ticket} /\ team[r.parent] = team[r.ticket]
           /\ parent[r.parent] = NoTicket
           /\ \A c \in Live : parent[c] # r.ticket
    BY <1>1 DEF MayNest, Children
  <1>4. /\ r.ticket \in Tickets /\ parent'[r.ticket] = r.parent
        /\ \A u \in Tickets \ {r.ticket} : parent'[u] = parent[u]
    BY <1>1, <1>2 DEF Live, TypeOK
  <1> HIDE DEF r
  <1>5. CASE r.parent = parent[r.ticket]
    BY <1>2, <1>4, <1>5 DEF OneLevel, OneTeam, Children, Live
  <1>6. CASE r.parent = NoTicket
    <2>1. OneTeam'
      BY <1>2, <1>4, <1>6 DEF OneTeam, Live
    <2>2. OneLevel'
      <3> SUFFICES ASSUME NEW u \in Live, NEW c \in Live, parent'[c] = u
                   PROVE  parent'[u] = NoTicket
        BY <1>2 DEF OneLevel, Children
      <3>1. u \in Tickets /\ c \in Tickets /\ u # NoTicket
        BY BoardAssumption DEF Live
      <3>2. c # r.ticket /\ parent[c] = u
        BY <1>4, <1>6, <3>1
      <3>3. parent[u] = NoTicket
        BY <3>2 DEF OneLevel, Children
      <3> QED
        BY <1>4, <1>6, <3>1, <3>3
    <2> QED
      BY <2>1, <2>2
  <1>7. CASE r.parent \notin {NoTicket, parent[r.ticket]}
    <2>1. OneTeam'
      BY <1>2, <1>3, <1>4, <1>7 DEF OneTeam, Live
    <2>2. OneLevel'
      <3> SUFFICES ASSUME NEW u \in Live, NEW c \in Live, parent'[c] = u
                   PROVE  parent'[u] = NoTicket
        BY <1>2 DEF OneLevel, Children
      <3>1. u \in Tickets /\ c \in Tickets
        BY DEF Live
      <3>2. u # r.ticket
        BY <1>3, <1>4, <1>7, <3>1
      <3>3. parent[u] = NoTicket
        BY <1>3, <1>4, <1>7, <3>1 DEF OneLevel, Children
      <3> QED
        BY <1>4, <3>1, <3>2, <3>3
    <2> QED
      BY <2>1, <2>2
  <1> QED
    BY <1>5, <1>6, <1>7

\* A family leaves whole, and nothing of another team's is left with it.
LEMMA TransferFamily ==
    ASSUME TypeOK, CheckInv, OneLevel, OneTeam, NEW q \in Handlers, Transfer(q)
    PROVE  OneLevel' /\ OneTeam'
  <1> DEFINE r == request[q]
  <1>1. /\ r.ticket \in Live /\ r.family = {r.ticket} \cup Children(r.ticket)
        /\ r.hadParent = parent[r.ticket]
    BY DEF Transfer, CheckInv, Checked
  <1>2. parent[r.ticket] \notin r.family
    <2>1. CASE parent[r.ticket] = r.ticket
      BY <1>1, <2>1, BoardAssumption DEF OneLevel, Children, Live
    <2>2. CASE parent[r.ticket] \in Children(r.ticket)
      BY <1>1, <2>2, BoardAssumption DEF OneLevel, Children, Live
    <2> QED
      BY <1>1, <2>1, <2>2
  <1>3. /\ Live' = Live
        /\ team' = [t \in Tickets |-> IF t \in r.family THEN r.team ELSE team[t]]
        /\ parent' = [parent EXCEPT ![r.ticket] = NoTicket]
    BY <1>1, <1>2 DEF Transfer, CarryOut, Put, Live, TypeOK
  <1>4. /\ r.ticket \in Tickets /\ parent'[r.ticket] = NoTicket
        /\ \A u \in Tickets \ {r.ticket} : parent'[u] = parent[u]
        /\ \A u \in Tickets : team'[u] = IF u \in r.family THEN r.team ELSE team[u]
    BY <1>1, <1>3 DEF Live, TypeOK
  <1> HIDE DEF r
  <1>5. OneLevel'
    <2> SUFFICES ASSUME NEW u \in Live, NEW c \in Live, parent'[c] = u
                 PROVE  parent'[u] = NoTicket
      BY <1>3 DEF OneLevel, Children
    <2>1. u \in Tickets /\ c \in Tickets /\ u # NoTicket
      BY BoardAssumption DEF Live
    <2>2. c # r.ticket /\ parent[c] = u
      BY <1>4, <2>1
    <2>3. parent[u] = NoTicket
      BY <2>2 DEF OneLevel, Children
    <2> QED
      BY <1>4, <2>1, <2>3
  <1>6. OneTeam'
    <2> SUFFICES ASSUME NEW u \in Live, parent'[u] # NoTicket
                 PROVE  team'[parent'[u]] = team'[u]
      BY <1>3 DEF OneTeam
    <2>1. u \in Tickets \ {r.ticket}
      BY <1>4 DEF Live
    <2>2. parent'[u] = parent[u] /\ parent[u] \in Tickets
      BY <1>4, <2>1 DEF TypeOK
    <2>3. team[parent[u]] = team[u]
      BY <2>2 DEF OneTeam
    <2>4. CASE u \in r.family
      BY <1>1, <1>4, <2>1, <2>2, <2>4 DEF Children
    <2>5. CASE u \notin r.family
      <3>1. parent[u] # r.ticket
        BY <1>1, <2>5 DEF Children
      <3>2. parent[u] \notin Children(r.ticket)
        BY <1>4, BoardAssumption DEF OneLevel, Children
      <3> QED
        BY <1>1, <1>4, <2>1, <2>2, <2>3, <2>5, <3>1, <3>2
    <2> QED
      BY <2>4, <2>5
  <1> QED
    BY <1>5, <1>6

\* What comes back from the trash comes back under a parent of its team, if any.
LEMMA RestoreFamily ==
    ASSUME TypeOK, CheckInv, OneTeam, NEW q \in Handlers, Restore(q)
    PROVE  OneTeam' /\ Restored
  <1> DEFINE r == request[q]
  <1>1. /\ r.ticket \in Tickets /\ state[r.ticket] = "trashed"
        /\ r.hadParent = parent[r.ticket]
        /\ r.parent # NoTicket => team[r.parent] = team[r.ticket]
    BY Loaded DEF Restore, CheckInv, Checked
  <1>2. /\ team' = team /\ state' = [state EXCEPT ![r.ticket] = "live"]
        /\ parent' = [parent EXCEPT ![r.ticket] = r.parent]
    BY <1>1 DEF Restore, Put, TypeOK
  <1>3. /\ state'[r.ticket] = "live" /\ parent'[r.ticket] = r.parent
        /\ \A u \in Tickets \ {r.ticket} : state'[u] = state[u] /\ parent'[u] = parent[u]
    BY <1>1, <1>2 DEF TypeOK
  <1> HIDE DEF r
  <1>4. Restored
    BY <1>1, <1>3 DEF Restored
  <1>5. OneTeam'
    BY <1>1, <1>2, <1>3 DEF OneTeam, Live
  <1> QED
    BY <1>4, <1>5

\* Whatever is committed, families stay on one team, and one level deep
\* unless it is a restore.
LEMMA FamilyStep ==
    ASSUME TypeOK, KeyInv, CheckInv, OneLevel, OneTeam, NEW q \in Handlers, Commit(q)
    PROVE  OneTeam' /\ (OneLevel' \/ Restored)
  <1>1. CASE File(q)
    BY <1>1, FileFamily
  <1>2. CASE Update(q)
    BY <1>2, UpdateFamily
  <1>3. CASE BulkMove(q)
    BY <1>3 DEF BulkMove, OneLevel, OneTeam, Children, Live
  <1>4. CASE Transfer(q)
    BY <1>4, TransferFamily
  <1>5. CASE Trash(q)
    BY <1>5 DEF Trash, OneLevel, OneTeam, Children, Live
  <1>6. CASE Restore(q)
    BY <1>6, RestoreFamily
  <1>7. CASE Purge(q)
    <2>1. \A t \in request[q].tickets : state[t] = "trashed"
      BY <1>7 DEF Purge, CheckInv, Checked
    <2>2. Live' = Live
      BY <1>7, <2>1 DEF Purge, Without, Live
    <2>3. \A t \in Live : parent'[t] # NoTicket =>
             /\ parent'[t] = parent[t] /\ parent[t] \in Tickets
             /\ team'[t] = team[t] /\ team'[parent[t]] = team[parent[t]]
      BY <1>7, <2>1 DEF Purge, Without, Live, TypeOK
    <2>4. OneTeam'
      BY <2>2, <2>3 DEF OneTeam
    <2>5. OneLevel'
      <3> SUFFICES ASSUME NEW u \in Live, NEW c \in Live, parent'[c] = u
                   PROVE  parent'[u] = NoTicket
        BY <2>2 DEF OneLevel, Children
      <3>1. u # NoTicket
        BY BoardAssumption DEF Live
      <3>2. parent[c] = u
        BY <2>3, <3>1
      <3>3. parent[u] = NoTicket
        BY <3>2 DEF OneLevel, Children
      <3> QED
        BY <2>3, <3>3
    <2> QED
      BY <2>4, <2>5
  <1> QED
    BY <1>1, <1>2, <1>3, <1>4, <1>5, <1>6, <1>7 DEF Commit

\* Only a commit writes to the tables.
LEMMA OnlyCommits ==
    ASSUME TypeOK, [Next]_vars
    PROVE  UNCHANGED ticketVars \/ \E q \in Handlers : Commit(q)
  <1>1. CASE UNCHANGED vars
    BY <1>1 DEF vars
  <1>2. ASSUME NEW q \in Handlers, Fail(q) PROVE UNCHANGED ticketVars
    BY <1>2 DEF Fail
  <1> QED
    BY <1>1, <1>2, BeginsChecked DEF Next

\* One request at a time, a family that is whole comes apart by a restore
\* only, and not even then over two teams.
THEOREM FamiliesCorrect == ASSUME OneAtATime PROVE Spec => FamiliesHold
<1>1. TypeOK /\ KeyInv /\ CheckInv /\ OneLevel /\ OneTeam /\ [Next]_vars
        => OneTeam' /\ (OneLevel' \/ Restored)
  <2> SUFFICES ASSUME TypeOK, KeyInv, CheckInv, OneLevel, OneTeam, [Next]_vars
               PROVE  OneTeam' /\ (OneLevel' \/ Restored)
    OBVIOUS
  <2>1. CASE UNCHANGED ticketVars
    BY <2>1 DEF ticketVars, OneLevel, OneTeam, Children, Live
  <2> QED
    BY <2>1, FamilyStep, OnlyCommits
<1>2. TypeOK /\ KeyInv /\ CheckInv /\ [Next]_vars
        => [OneLevel /\ OneTeam => (OneLevel /\ OneTeam)' \/ Restored]_vars
           /\ [OneLevel /\ OneTeam /\ Restored => OneTeam']_vars
  BY <1>1
<1> QED
  BY <1>2, TypeCorrect, KeysAndCounters, ChecksHold, PTL
     DEF Spec, FamiliesHold, FamiliesKept, RestoredAtHome

\* The tickets that count in a team's limited column.
InColumn(tm) == {t \in Live : team[t] = tm /\ column[t] = "limited" /\ Counted(t)}

\* A column that takes in what there was room for does not pass its limit.
LEMMA RoomHolds ==
    ASSUME TypeOK, NEW tm, NEW coming \in SUBSET Tickets,
           InColumn(tm)' \subseteq InColumn(tm) \cup coming,
           Room(tm, "limited", Cardinality(coming))
    PROVE  Held(tm)' > Limit => Held(tm)' <= Held(tm)
  <1>1. Held(tm) = Cardinality(InColumn(tm)) /\ Held(tm)' = Cardinality(InColumn(tm)')
    BY DEF Held, InColumn
  <1>2. IsFiniteSet(InColumn(tm)) /\ IsFiniteSet(coming)
    BY BoardAssumption, FS_Subset DEF InColumn, Live
  <1>3. /\ IsFiniteSet(InColumn(tm) \cup coming)
        /\ Cardinality(InColumn(tm) \cup coming)
             = Cardinality(InColumn(tm)) + Cardinality(coming)
                 - Cardinality(InColumn(tm) \cap coming)
    BY <1>2, FS_Union
  <1>4. IsFiniteSet(InColumn(tm) \cap coming)
    BY <1>2, FS_Intersection
  <1>5. /\ Cardinality(InColumn(tm)) \in Nat /\ Cardinality(coming) \in Nat
        /\ Cardinality(InColumn(tm) \cap coming) \in Nat
    BY <1>2, <1>4, FS_CardinalityType
  <1>6. /\ IsFiniteSet(InColumn(tm)')
        /\ Cardinality(InColumn(tm)') <= Cardinality(InColumn(tm) \cup coming)
    BY <1>3, FS_Subset
  <1>7. Cardinality(InColumn(tm)') \in Nat
    BY <1>6, FS_CardinalityType
  <1>8. Held(tm)' <= Held(tm) + Cardinality(coming)
    BY <1>1, <1>3, <1>5, <1>6, <1>7
  <1>9. CASE Cardinality(coming) = 0
    BY <1>1, <1>5, <1>7, <1>8, <1>9
  <1>10. CASE Cardinality(coming) > 0
    <2>1. Held(tm) + Cardinality(coming) <= Limit
      BY <1>10 DEF Room
    <2> QED
      BY <1>1, <1>5, <1>7, <1>8, <2>1, BoardAssumption
  <1> QED
    BY <1>5, <1>9, <1>10

\* One that takes in nothing holds no more than it did.
LEMMA NothingComes ==
    ASSUME TypeOK, NEW tm, InColumn(tm)' \subseteq InColumn(tm)
    PROVE  Held(tm)' <= Held(tm)
  <1>1. Held(tm) = Cardinality(InColumn(tm)) /\ Held(tm)' = Cardinality(InColumn(tm)')
    BY DEF Held, InColumn
  <1>2. IsFiniteSet(InColumn(tm))
    BY BoardAssumption, FS_Subset DEF InColumn, Live
  <1> QED
    BY <1>1, <1>2, FS_Subset

\* A person's ticket is filed where there is room for it.
LEMMA FileRoom ==
    ASSUME TypeOK, CheckInv, CountSubs, NEW q \in Handlers, File(q), ~Scheduled,
           NEW tm \in Teams
    PROVE  Held(tm)' > Limit => Held(tm)' <= Held(tm)
  <1> DEFINE r == request[q]
  <1>1. r.ticket \in Tickets /\ Room(r.team, r.column, 1)
    BY Loaded DEF File, CheckInv, Checked, Scheduled, Coming
  <1>2. /\ Live' = Live \cup {r.ticket}
        /\ team'[r.ticket] = r.team /\ column'[r.ticket] = r.column
        /\ \A u \in Tickets \ {r.ticket} : team'[u] = team[u] /\ column'[u] = column[u]
    BY <1>1 DEF File, Live, TypeOK
  <1> HIDE DEF r
  <1>3. CASE tm = r.team /\ r.column = "limited"
    <2>1. InColumn(tm)' \subseteq InColumn(tm) \cup {r.ticket}
      BY <1>2, <1>3 DEF InColumn, Counted, Live
    <2>2. Room(tm, "limited", Cardinality({r.ticket}))
      BY <1>1, <1>3, FS_Singleton
    <2> QED
      BY <1>1, <2>1, <2>2, RoomHolds
  <1>4. CASE ~(tm = r.team /\ r.column = "limited")
    <2>1. InColumn(tm)' \subseteq InColumn(tm)
      BY <1>2, <1>4 DEF InColumn, Counted, Live
    <2> QED
      BY <2>1, NothingComes
  <1> QED
    BY <1>3, <1>4

\* So is one moved to another column.
LEMMA UpdateRoom ==
    ASSUME TypeOK, CheckInv, CountSubs, NEW q \in Handlers, Update(q), NEW tm \in Teams
    PROVE  Held(tm)' > Limit => Held(tm)' <= Held(tm)
  <1> DEFINE r == request[q]
  <1>1. /\ r.ticket \in Live /\ r.hadColumn = column[r.ticket]
        /\ r.column # r.hadColumn => Room(team[r.ticket], r.column, 1)
    BY DEF Update, CheckInv, Checked, Coming
  <1>2. /\ Live' = Live /\ team' = team
        /\ column' = [column EXCEPT ![r.ticket] = r.column]
    BY <1>1 DEF Update, Live, Put, TypeOK
  <1>3. /\ r.ticket \in Tickets /\ column'[r.ticket] = r.column
        /\ \A u \in Tickets \ {r.ticket} : column'[u] = column[u]
    BY <1>1, <1>2 DEF Live, TypeOK
  <1> HIDE DEF r
  <1>4. CASE tm = team[r.ticket] /\ r.column = "limited" /\ r.column # r.hadColumn
    <2>1. InColumn(tm)' \subseteq InColumn(tm) \cup {r.ticket}
      BY <1>2, <1>3 DEF InColumn, Counted, Live
    <2>2. Room(tm, "limited", Cardinality({r.ticket}))
      BY <1>1, <1>4, FS_Singleton
    <2> QED
      BY <1>3, <2>1, <2>2, RoomHolds
  <1>5. CASE ~(tm = team[r.ticket] /\ r.column = "limited" /\ r.column # r.hadColumn)
    <2>1. InColumn(tm)' \subseteq InColumn(tm)
      BY <1>1, <1>2, <1>3, <1>5 DEF InColumn, Counted, Live
    <2> QED
      BY <2>1, NothingComes
  <1> QED
    BY <1>4, <1>5

\* And those moved together.
LEMMA MoveRoom ==
    ASSUME TypeOK, CheckInv, CountSubs, NEW q \in Handlers, BulkMove(q), NEW tm \in Teams
    PROVE  Held(tm)' > Limit => Held(tm)' <= Held(tm)
  <1> DEFINE r == request[q]
             coming == {u \in r.tickets : column[u] # r.column /\ Counted(u)}
  <1>1. /\ r.tickets \subseteq Tickets /\ r.tickets \subseteq Live /\ r.hadColumns = column
        /\ \A t \in r.tickets : team[t] = tm => Room(tm, r.column, Cardinality(coming))
    BY Loaded DEF BulkMove, CheckInv, Checked
  <1>2. /\ Live' = Live /\ team' = team
        /\ column' = [t \in Tickets |-> IF t \in r.tickets THEN r.column ELSE column[t]]
    BY <1>1 DEF BulkMove, Live, Put
  <1>3. coming \subseteq Tickets /\ \A u \in Tickets : Counted(u) /\ Counted(u)'
    BY <1>1 DEF Counted
  <1>4. \A u \in r.tickets : column[u] = r.column \/ u \in coming
    BY <1>1, <1>3
  <1> HIDE DEF r, coming
  <1>5. CASE r.column = "limited" /\ \E t \in r.tickets : team[t] = tm
    <2>1. InColumn(tm)' \subseteq InColumn(tm) \cup coming
      BY <1>2, <1>3, <1>4, <1>5 DEF InColumn, Live
    <2>2. Room(tm, "limited", Cardinality(coming))
      BY <1>1, <1>5
    <2> QED
      BY <1>3, <2>1, <2>2, RoomHolds
  <1>6. CASE ~(r.column = "limited" /\ \E t \in r.tickets : team[t] = tm)
    <2>1. InColumn(tm)' \subseteq InColumn(tm)
      BY <1>2, <1>3, <1>6 DEF InColumn, Live
    <2> QED
      BY <2>1, NothingComes
  <1> QED
    BY <1>5, <1>6

\* And a family that comes from another team.
LEMMA TransferRoom ==
    ASSUME TypeOK, CheckInv, CountSubs, NEW q \in Handlers, Transfer(q), NEW tm \in Teams
    PROVE  Held(tm)' > Limit => Held(tm)' <= Held(tm)
  <1> DEFINE r == request[q]
             coming == {f \in r.family : column[f] = "limited" /\ (CountSubs \/ f = r.ticket)}
  <1>1. /\ r.family \subseteq Tickets /\ r.columns = column
        /\ Room(r.team, "limited", Cardinality(coming))
    BY Loaded DEF Transfer, CheckInv, Checked, Arriving
  <1>2. /\ Live' = Live
        /\ \A t \in Tickets : /\ team'[t] = IF t \in r.family THEN r.team ELSE team[t]
                              /\ column'[t] = column[t]
    BY <1>1 DEF Transfer, CarryOut, Live
  <1>3. coming \subseteq Tickets
        /\ \A u \in r.family : column[u] = "limited" => u \in coming
    BY <1>1
  <1> HIDE DEF r, coming
  <1>4. CASE tm = r.team
    <2>1. InColumn(tm)' \subseteq InColumn(tm) \cup coming
      BY <1>2, <1>3, <1>4 DEF InColumn, Counted, Live
    <2> QED
      BY <1>1, <1>3, <1>4, <2>1, RoomHolds
  <1>5. CASE tm # r.team
    <2>1. InColumn(tm)' \subseteq InColumn(tm)
      BY <1>2, <1>5 DEF InColumn, Counted, Live
    <2> QED
      BY <2>1, NothingComes
  <1> QED
    BY <1>4, <1>5

\* What leaves the board only makes room.
LEMMA LeavingRoom ==
    ASSUME TypeOK, CheckInv, CountSubs, NEW q \in Handlers, Trash(q) \/ Purge(q),
           NEW tm \in Teams
    PROVE  Held(tm)' <= Held(tm)
  <1>1. CASE Trash(q)
    <2>1. InColumn(tm)' \subseteq InColumn(tm)
      BY <1>1 DEF Trash, InColumn, Counted, Live
    <2> QED
      BY <2>1, NothingComes
  <1>2. CASE Purge(q)
    <2>1. \A t \in request[q].tickets : state[t] = "trashed"
      BY <1>2 DEF Purge, CheckInv, Checked
    <2>2. InColumn(tm)' \subseteq InColumn(tm)
      BY <1>2, <2>1 DEF Purge, Without, InColumn, Counted, Live
    <2> QED
      BY <2>2, NothingComes
  <1> QED
    BY <1>1, <1>2

\* One request at a time, and where sub-tickets count, only a restore or a
\* schedule takes a column further over its limit.
THEOREM LimitCorrect == ASSUME OneAtATime PROVE Spec => LimitKept
<1>1. TypeOK /\ CheckInv /\ [Next]_vars
        => \A tm \in Teams : Held(tm)' > Limit =>
               Held(tm)' <= Held(tm) \/ Restored \/ Scheduled \/ ~CountSubs
  <2> SUFFICES ASSUME TypeOK, CheckInv, [Next]_vars, CountSubs, ~Restored, ~Scheduled,
                      NEW tm \in Teams, Held(tm)' > Limit
               PROVE  Held(tm)' <= Held(tm)
    OBVIOUS
  <2>1. CASE UNCHANGED ticketVars
    <3>1. InColumn(tm)' \subseteq InColumn(tm)
      BY <2>1 DEF ticketVars, InColumn, Counted, Live
    <3> QED
      BY <3>1, NothingComes
  <2>2. ASSUME NEW q \in Handlers, Commit(q) PROVE Held(tm)' <= Held(tm)
    <3>1. CASE File(q) \/ Update(q) \/ BulkMove(q) \/ Transfer(q)
      BY <3>1, FileRoom, UpdateRoom, MoveRoom, TransferRoom
    <3>2. CASE Trash(q) \/ Purge(q)
      BY <3>2, LeavingRoom
    <3>3. CASE Restore(q)
      <4>1. /\ request[q].ticket \in Tickets /\ state[request[q].ticket] = "trashed"
            /\ state' = [state EXCEPT ![request[q].ticket] = "live"]
        BY <3>3, Loaded DEF Restore, CheckInv, Checked
      <4> QED
        BY <4>1 DEF Restored, TypeOK
    <3> QED
      BY <2>2, <3>1, <3>2, <3>3 DEF Commit
  <2> QED
    BY <2>1, <2>2, OnlyCommits
<1>2. TypeOK /\ CheckInv /\ [Next]_vars
        => [\A tm \in Teams : Held(tm)' > Limit =>
               Held(tm)' <= Held(tm) \/ Restored \/ Scheduled \/ ~CountSubs]_vars
  BY <1>1
<1> QED
  BY <1>2, TypeCorrect, ChecksHold, PTL DEF Spec, LimitKept
=============================================================================
