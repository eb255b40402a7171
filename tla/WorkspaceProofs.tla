---------------------------- MODULE WorkspaceProofs ----------------------------
(***************************************************************************)
(* Proofs about three components of the workspace that share nothing.      *)
(* LiveUpdates, for every number of moves, changes, drops and failures and *)
(* every length of a queue: its types, that a stream ends for those who    *)
(* left and for nobody else, and that a board with nothing under way is    *)
(* what the server has. CodeLinks, for every number of tickets, processes, *)
(* events, redeliveries and losses: its types, that a trigger fires once,  *)
(* that what is told of a pull request happened, and all of it is told.    *)
(* TicketFiles, for every number of files, comments, requests and faults:  *)
(* its types, that rows and bytes agree, that comments keep their files,   *)
(* and that a draft can be sent.                                           *)
(***************************************************************************)
EXTENDS LiveUpdates, CodeLinks, TicketFiles, SequenceTheorems, TLAPS

-----------------------------------------------------------------------------
(* LiveUpdates. *)

Queued(q, e) == \E i \in DOMAIN q : q[i] = e

(* What a queue holds after an event was delivered to it ...               *)
LEMMA Delivered ==
    ASSUME NEW q \in Seq(Events), Len(q) <= QueueLimit, NEW e \in Events
    PROVE  /\ Deliver(q, e) \in Seq(Events) /\ Len(Deliver(q, e)) <= QueueLimit
           /\ \A d : Queued(Deliver(q, e), d) <=>
                  IF Len(q) < QueueLimit THEN Queued(q, d) \/ d = e ELSE d = "resync"
<1>1. Len(q) \in Nat /\ DOMAIN q = 1..Len(q) /\ QueueLimit \in Nat /\ QueueLimit > 0
  BY LenProperties, LiveAssumption
<1>2. CASE Len(q) < QueueLimit
  <2>1. /\ Append(q, e) \in Seq(Events) /\ Len(Append(q, e)) = Len(q) + 1
        /\ \A i \in 1..Len(q) : Append(q, e)[i] = q[i]
        /\ Append(q, e)[Len(q) + 1] = e
    BY AppendProperties
  <2>2. DOMAIN Append(q, e) = 1..(Len(q) + 1)
    BY <2>1, LenProperties
  <2>3. \A d : Queued(Append(q, e), d) <=> Queued(q, d) \/ d = e
    <3>1. 1..(Len(q) + 1) = 1..Len(q) \cup {Len(q) + 1}
      BY <1>1
    <3> QED
      BY <1>1, <2>1, <2>2, <3>1 DEF Queued
  <2> QED
    BY <1>1, <1>2, <2>1, <2>3 DEF Deliver
<1>3. CASE ~ (Len(q) < QueueLimit)
  <2>1. Deliver(q, e) = <<"resync">>
    BY <1>3 DEF Deliver
  <2>2. <<"resync">> \in Seq(Events) /\ Len(<<"resync">>) = 1
    BY DEF Events
  <2>3. \A d : Queued(<<"resync">>, d) <=> d = "resync"
    BY DEF Queued
  <2> QED
    BY <1>1, <1>3, <2>1, <2>2, <2>3
<1> QED
  BY <1>2, <1>3

(* ... and after its first was taken.                                      *)
LEMMA Taken ==
    ASSUME NEW q \in Seq(Events), q # <<>>
    PROVE  /\ Head(q) \in Events /\ Tail(q) \in Seq(Events) /\ Len(Tail(q)) <= Len(q)
           /\ \A d : Queued(q, d) <=> Queued(Tail(q), d) \/ d = Head(q)
<1>1. /\ Head(q) \in Events /\ Tail(q) \in Seq(Events) /\ Len(Tail(q)) = Len(q) - 1
      /\ \A i \in 1..Len(Tail(q)) : Tail(q)[i] = q[i + 1]
  BY HeadTailProperties
<1>2. /\ Len(q) \in Nat \ {0} /\ DOMAIN q = 1..Len(q)
      /\ DOMAIN Tail(q) = 1..Len(Tail(q)) /\ Head(q) = q[1]
  BY <1>1, LenProperties, EmptySeq
<1>3. ASSUME NEW d PROVE Queued(q, d) <=> Queued(Tail(q), d) \/ d = Head(q)
  <2>1. ASSUME NEW i \in DOMAIN q, q[i] = d PROVE Queued(Tail(q), d) \/ d = Head(q)
    <3>1. CASE i = 1
      BY <1>2, <2>1, <3>1
    <3>2. CASE i # 1
      <4>1. i - 1 \in DOMAIN Tail(q) /\ Tail(q)[i - 1] = q[i]
        BY <1>1, <1>2, <3>2
      <4> QED
        BY <2>1, <4>1 DEF Queued
    <3> QED
      BY <3>1, <3>2
  <2>2. ASSUME NEW i \in DOMAIN Tail(q), Tail(q)[i] = d PROVE Queued(q, d)
    <3>1. i + 1 \in DOMAIN q /\ q[i + 1] = d
      BY <1>1, <1>2, <2>2
    <3> QED
      BY <3>1 DEF Queued
  <2>3. d = Head(q) => Queued(q, d)
    BY <1>2 DEF Queued
  <2> QED
    BY <2>1, <2>2, <2>3 DEF Queued
<1> QED
  BY <1>1, <1>2, <1>3

-----------------------------------------------------------------------------
(* The values every variable holds, throughout. (realtime.py, useTeamEvents.ts) *)
THEOREM LiveTypeCorrect == LiveSpec => []LiveTypeOK
<1>1. LiveInit => LiveTypeOK
  <2> SUFFICES ASSUME LiveInit PROVE LiveTypeOK
    OBVIOUS
  <2>1. queue \in Seq(Events) /\ Len(queue) <= QueueLimit
    BY EmptySeq, LiveAssumption DEF LiveInit
  <2>2. unsent \in [Written -> Nat]
    BY DEF LiveInit
  <2>3. board \in Boards /\ previous \in [Moves -> Boards]
    BY DEF LiveInit, Boards, NoBoard
  <2>4. fetch \in [at : {"none", "asked", "read"}, ver : Nat, live : BOOLEAN]
    BY DEF LiveInit, Asked
  <2>5. move \in [Moves -> {"none", "sent", "accepted", "refused", "done"}]
    BY DEF LiveInit
  <2> QED
    BY <2>1, <2>2, <2>3, <2>4, <2>5 DEF LiveInit, LiveTypeOK
<1>2. LiveTypeOK /\ [LiveNext]_liveVars => LiveTypeOK'
  <2> SUFFICES ASSUME LiveTypeOK, [LiveNext]_liveVars PROVE LiveTypeOK'
    OBVIOUS
  <2>0. /\ NoFetch \in [at : {"none", "asked", "read"}, ver : Nat, live : BOOLEAN]
        /\ Asked \in [at : {"none", "asked", "read"}, ver : Nat, live : BOOLEAN]
    BY DEF NoFetch, Asked
  <2> USE DEF changeVars, streamVars, tabVars, moveVars, boundVars
  <2>1. CASE Commit
    BY <2>1 DEF LiveTypeOK, Commit, Announce, Written
  <2>12. CASE RemoveMember
    <3>1. unsent' \in [Written -> Nat]
      BY <2>12 DEF LiveTypeOK, RemoveMember, Announce, Written
    <3>2. member' \in BOOLEAN /\ elsewhere' \in BOOLEAN
      BY <2>12 DEF LiveTypeOK, RemoveMember
    <3>3. UNCHANGED <<version, streamVars, tabVars, moveVars, deaf, boundVars>>
      BY <2>12 DEF RemoveMember
    <3> QED
      BY <3>1, <3>2, <3>3 DEF LiveTypeOK
  <2>13. CASE LeaveAnother
    <3>1. unsent' \in [Written -> Nat]
      BY <2>13 DEF LiveTypeOK, LeaveAnother, Announce, Written
    <3>2. member' \in BOOLEAN /\ elsewhere' \in BOOLEAN
      BY <2>13 DEF LiveTypeOK, LeaveAnother
    <3>3. UNCHANGED <<version, streamVars, tabVars, moveVars, deaf, boundVars>>
      BY <2>13 DEF LeaveAnother
    <3> QED
      BY <3>1, <3>2, <3>3 DEF LiveTypeOK
  <2>2. ASSUME NEW e \in Written, Publish(e) PROVE LiveTypeOK'
    <3>1. unsent' \in [Written -> Nat]
      BY <2>2 DEF LiveTypeOK, Publish
    <3>2. Deliver(queue, e) \in Seq(Events) /\ Len(Deliver(queue, e)) <= QueueLimit
      BY Delivered DEF LiveTypeOK, Events
    <3>3. queue' \in Seq(Events) /\ Len(queue') <= QueueLimit
      BY <2>2, <3>2 DEF LiveTypeOK, Publish
    <3> QED
      BY <2>2, <3>1, <3>3 DEF LiveTypeOK, Publish
  <2>3. CASE Check
    BY <2>3 DEF LiveTypeOK, Check
  <2>14. CASE Subscribe
    BY <2>14, EmptySeq, LiveAssumption DEF LiveTypeOK, Subscribe
  <2>4. CASE Answered
    <3>1. Subscribed \in BOOLEAN
      BY DEF Subscribed
    <3>2. fetch' \in [at : {"none", "asked", "read"}, ver : Nat, live : BOOLEAN]
      <4>1. CASE member
        <5>1. fetch' = [at |-> "read", ver |-> version, live |-> Subscribed]
          BY <2>4, <4>1 DEF Answered
        <5>2. version \in Nat
          BY DEF LiveTypeOK
        <5> QED
          BY <3>1, <5>1, <5>2
      <4>2. CASE ~ member
        <5>1. fetch' = NoFetch
          BY <2>4, <4>2 DEF Answered
        <5> QED
          BY <2>0, <5>1
      <4> QED
        BY <4>1, <4>2
    <3>3. covered' \in BOOLEAN
      BY <2>4 DEF Answered
    <3>4. UNCHANGED <<changeVars, unsent, streamVars, board, owing, moveVars, deaf, boundVars>>
      BY <2>4 DEF Answered
    <3> QED
      BY <3>2, <3>3, <3>4 DEF LiveTypeOK
  <2>15. CASE Land
    BY <2>15 DEF LiveTypeOK, Land, NoFetch, Boards
  <2>16. CASE FetchFails
    <3>1. fetch' \in [at : {"none", "asked", "read"}, ver : Nat, live : BOOLEAN]
      <4>1. fetch' = NoFetch
        BY <2>16 DEF FetchFails
      <4> QED
        BY <2>0, <4>1
    <3>2. failures' \in Nat /\ covered' \in BOOLEAN /\ owing' \in BOOLEAN
      <4>1. failures' = failures + 1 /\ covered' = FALSE /\ owing' = FALSE
        BY <2>16 DEF FetchFails
      <4>2. failures' \in Nat
        BY <4>1 DEF LiveTypeOK
      <4>3. covered' \in BOOLEAN /\ owing' \in BOOLEAN
        BY <4>1
      <4> QED
        BY <4>2, <4>3
    <3>3. UNCHANGED <<changeVars, unsent, streamVars, board, moveVars, deaf, drops>>
      BY <2>16 DEF FetchFails
    <3> QED
      BY <3>1, <3>2, <3>3 DEF LiveTypeOK
  <2>5. CASE Connect
    BY <2>5 DEF LiveTypeOK, Connect
  <2>17. CASE Opened
    BY <2>17 DEF LiveTypeOK, Opened, Refetch, Asked, Boards
  <2>6. CASE Hear
    <3>1. Head(queue) \in Events /\ Tail(queue) \in Seq(Events) /\ Len(Tail(queue)) <= Len(queue)
      BY <2>6, Taken DEF LiveTypeOK, Hear
    <3>2. queue' \in Seq(Events) /\ Len(queue') <= QueueLimit
      <4>1. queue' = Tail(queue)
        BY <2>6 DEF Hear
      <4>2. Len(queue) \in Nat /\ Len(queue') \in Nat
        BY <3>1, <4>1, LenProperties DEF LiveTypeOK
      <4> QED
        BY <3>1, <4>1, <4>2, LiveAssumption DEF LiveTypeOK
    <3>3. fetch' \in [at : {"none", "asked", "read"}, ver : Nat, live : BOOLEAN]
      BY <2>6 DEF LiveTypeOK, Hear, Refetch, Asked
    <3> QED
      BY <2>6, <3>2, <3>3 DEF LiveTypeOK, Hear
  <2>22. Disconnect =>
           /\ queue' \in Seq(Events) /\ Len(queue') <= QueueLimit /\ stream' = "off"
           /\ owing' \in BOOLEAN /\ covered' \in BOOLEAN
           /\ fetch' \in [at : {"none", "asked", "read"}, ver : Nat, live : BOOLEAN]
    <3> SUFFICES ASSUME Disconnect
                 PROVE  /\ queue' \in Seq(Events) /\ Len(queue') <= QueueLimit
                        /\ fetch' \in [at : {"none", "asked", "read"}, ver : Nat, live : BOOLEAN]
      BY DEF Disconnect
    <3>1. queue' \in Seq(Events) /\ Len(queue') <= QueueLimit
      BY EmptySeq, LiveAssumption DEF Disconnect
    <3>2. fetch' = [fetch EXCEPT !.live = FALSE]
      BY DEF Disconnect
    <3> QED
      BY <3>1, <3>2 DEF LiveTypeOK
  <2>7. CASE Drop
    <3>1. Disconnect /\ drops' \in Nat
      BY <2>7 DEF LiveTypeOK, Drop
    <3>2. UNCHANGED <<changeVars, unsent, visible, connectedBefore, board, moveVars, deaf, failures>>
      BY <2>7 DEF Drop
    <3> QED
      BY <2>22, <3>1, <3>2 DEF LiveTypeOK
  <2>18. CASE Hide
    <3>1. Disconnect /\ drops' \in Nat /\ visible' = FALSE
      BY <2>18 DEF LiveTypeOK, Hide
    <3>2. UNCHANGED <<changeVars, unsent, connectedBefore, board, moveVars, deaf, failures>>
      BY <2>18 DEF Hide
    <3> QED
      BY <2>22, <3>1, <3>2 DEF LiveTypeOK
  <2>19. CASE Show
    BY <2>19 DEF LiveTypeOK, Show
  <2>8. ASSUME NEW m \in Moves, Drag(m) PROVE LiveTypeOK'
    BY <2>8 DEF LiveTypeOK, Drag, Boards
  <2>9. ASSUME NEW m \in Moves, Accept(m) PROVE LiveTypeOK'
    BY <2>9 DEF LiveTypeOK, Accept, Announce, Written
  <2>20. ASSUME NEW m \in Moves, Refuse(m) PROVE LiveTypeOK'
    BY <2>20 DEF LiveTypeOK, Refuse
  <2>10. ASSUME NEW m \in Moves, Confirmed(m) PROVE LiveTypeOK'
    BY <2>10 DEF LiveTypeOK, Confirmed, NoBoard, Boards
  <2>21. ASSUME NEW m \in Moves, RollBack(m) PROVE LiveTypeOK'
    BY <2>21 DEF LiveTypeOK, RollBack, NoBoard, Boards
  <2>11. CASE UNCHANGED liveVars
    BY <2>11 DEF LiveTypeOK, liveVars
  <2> QED
    BY <2>1, <2>2, <2>3, <2>4, <2>5, <2>6, <2>7, <2>8, <2>9, <2>10, <2>11, <2>12, <2>13, <2>14,
       <2>15, <2>16, <2>17, <2>18, <2>19, <2>20, <2>21
    DEF LiveNext, ServerStep, TabStep, MoveStep
<1> QED
  BY <1>1, <1>2, PTL DEF LiveSpec

-----------------------------------------------------------------------------
(* A close is only ever sent to somebody who left.                         *)
CloseIsTrue == unsent["close"] > 0 \/ InQueue("close") => ~ member

(* Somebody who left will hear of it, from the moment the endpoint has let *)
(* the stream in.                                                          *)
RemovedWillHear ==
    stream \in {"checked", "subscribed", "open"} /\ ~ member /\ ~ deaf =>
        unsent["close"] > 0 \/ (Subscribed /\ InQueue("close"))

StreamInv == CloseIsTrue /\ OverOnlyWhenRemoved /\ RemovedWillHear

(* What publishing and hearing do to the queue.                            *)
LEMMA Publishing ==
    ASSUME LiveTypeOK, NEW e \in Written, Publish(e)
    PROVE  /\ unsent[e] > 0 /\ unsent'[e] = unsent[e] - 1
           /\ \A d \in Written : d # e => unsent'[d] = unsent[d]
           /\ ~ Subscribed => queue' = queue
           /\ Subscribed /\ Len(queue) < QueueLimit => \A d : InQueue(d)' <=> InQueue(d) \/ d = e
           /\ Subscribed /\ ~ (Len(queue) < QueueLimit) => \A d : InQueue(d)' <=> d = "resync"
<1>1. unsent[e] > 0 /\ unsent' = [unsent EXCEPT ![e] = @ - 1]
  BY DEF Publish
<1>2. queue' = IF Subscribed THEN Deliver(queue, e) ELSE queue
  BY DEF Publish
<1>3. \A d : /\ InQueue(d) <=> Queued(queue, d)
             /\ InQueue(d)' <=> Queued(queue', d)
  BY DEF InQueue, Queued
<1>4. \A d : Queued(Deliver(queue, e), d) <=>
            IF Len(queue) < QueueLimit THEN Queued(queue, d) \/ d = e ELSE d = "resync"
  BY Delivered DEF LiveTypeOK, Events
<1>5. /\ unsent'[e] = unsent[e] - 1
      /\ \A d \in Written : d # e => unsent'[d] = unsent[d]
  BY <1>1 DEF LiveTypeOK
<1> QED
  BY <1>1, <1>2, <1>3, <1>4, <1>5

(* A stream hears the event at the head of its queue, which leaves the     *)
(* queue; every other event in it stays (connect.ts, Subscription.queue).  *)
LEMMA Hearing ==
    ASSUME LiveTypeOK, Hear
    PROVE  /\ Head(queue) \in Events
           /\ \A d : InQueue(d) <=> InQueue(d)' \/ d = Head(queue)
<1>1. queue # <<>> /\ queue' = Tail(queue)
  BY DEF Hear
<1>2. /\ Head(queue) \in Events
      /\ \A d : Queued(queue, d) <=> Queued(Tail(queue), d) \/ d = Head(queue)
  BY <1>1, Taken DEF LiveTypeOK
<1> QED
  BY <1>1, <1>2 DEF InQueue, Queued

(* The other steps leave the queue alone, or a stream without one.         *)
LEMMA StreamStep ==
    ASSUME LiveTypeOK, StreamInv, LiveNext \/ UNCHANGED liveVars
    PROVE  StreamInv'
<1> USE DEF changeVars, streamVars, tabVars, moveVars, boundVars
<1>1. \A e \in Written : unsent[e] \in Nat
  BY DEF LiveTypeOK
<1>2. ASSUME queue' = queue, UNCHANGED <<member, stream, deaf>>, unsent'["close"] = unsent["close"]
      PROVE  StreamInv'
  BY <1>2 DEF StreamInv, CloseIsTrue, OverOnlyWhenRemoved, RemovedWillHear, InQueue, Subscribed
<1>3. CASE Commit
  BY <1>2, <1>3 DEF LiveTypeOK, Commit, Announce, Written
<1>4. CASE RemoveMember
  <2>1. member' = FALSE /\ unsent'["close"] = unsent["close"] + 1
    BY <1>4 DEF LiveTypeOK, RemoveMember, Announce, Written
  <2> QED
    BY <1>1, <2>1 DEF StreamInv, CloseIsTrue, OverOnlyWhenRemoved, RemovedWillHear, Written
<1>5. CASE LeaveAnother
  BY <1>2, <1>5 DEF LiveTypeOK, LeaveAnother, Announce, Written
<1>6. ASSUME NEW e \in Written, Publish(e)
      PROVE  StreamInv'
  <2>1. UNCHANGED <<member, stream>> /\ (Subscribed' <=> Subscribed)
    BY <1>6 DEF Publish, Subscribed
  <2>2. /\ ~ deaf' => ~ deaf
        /\ ~ deaf' => ~ (e = "close" /\ stream = "checked")
        /\ ~ deaf' => ~ (Subscribed /\ ~ (Len(queue) < QueueLimit) /\ (e = "close" \/ InQueue("close")))
    <3>1. Len(queue) >= QueueLimit <=> ~ (Len(queue) < QueueLimit)
      BY LenProperties, LiveAssumption DEF LiveTypeOK
    <3> QED
      BY <1>6, <3>1 DEF Publish
  <2>3. CloseIsTrue'
    BY <1>1, <1>6, <2>1, Publishing DEF StreamInv, CloseIsTrue, InQueue, Written
  <2>4. RemovedWillHear'
    <3> SUFFICES ASSUME stream \in {"checked", "subscribed", "open"}, ~ member, ~ deaf'
                 PROVE  unsent'["close"] > 0 \/ (Subscribed /\ InQueue("close")')
      BY <2>1 DEF RemovedWillHear
    <3>1. unsent["close"] > 0 \/ (Subscribed /\ InQueue("close"))
      BY <2>2 DEF StreamInv, RemovedWillHear
    <3>2. CASE e = "close"
      <4>1. Subscribed /\ Len(queue) < QueueLimit
        BY <2>2, <3>2 DEF Subscribed
      <4> QED
        BY <1>6, <3>2, <4>1, Publishing
    <3>3. CASE e # "close"
      <4>1. unsent'["close"] = unsent["close"]
        BY <1>6, <3>3, Publishing DEF Written
      <4>2. CASE Subscribed /\ InQueue("close")
        BY <1>6, <2>2, <4>2, Publishing
      <4> QED
        BY <3>1, <4>1, <4>2
    <3> QED
      BY <3>2, <3>3
  <2>5. OverOnlyWhenRemoved'
    BY <2>1 DEF StreamInv, OverOnlyWhenRemoved
  <2> QED
    BY <2>3, <2>4, <2>5 DEF StreamInv
<1>7. CASE Check
  BY <1>7 DEF Check, StreamInv, CloseIsTrue, OverOnlyWhenRemoved, RemovedWillHear, InQueue, Subscribed
<1>8. CASE Subscribe
  <2>1. queue' = <<>> /\ stream' = "subscribed" /\ stream = "checked" /\ UNCHANGED <<member, unsent, deaf>>
    BY <1>8 DEF Subscribe
  <2>2. ~ InQueue("close")'
    BY <2>1 DEF InQueue
  <2> QED
    BY <2>1, <2>2 DEF StreamInv, CloseIsTrue, OverOnlyWhenRemoved, RemovedWillHear, Subscribed
<1>9. CASE Answered \/ Land \/ FetchFails
  BY <1>2, <1>9 DEF Answered, Land, FetchFails
<1>10. CASE Connect
  BY <1>10 DEF Connect, StreamInv, CloseIsTrue, OverOnlyWhenRemoved, RemovedWillHear, InQueue
<1>11. CASE Opened
  BY <1>11 DEF Opened, StreamInv, CloseIsTrue, OverOnlyWhenRemoved, RemovedWillHear, InQueue, Subscribed
<1>12. CASE Hear
  <2>1. /\ stream = "open" /\ stream' = IF Head(queue) = "close" THEN "over" ELSE "open"
        /\ UNCHANGED <<member, unsent, deaf>>
    BY <1>12 DEF Hear, Ends
  <2>2. \A d : InQueue(d) <=> InQueue(d)' \/ d = Head(queue)
    BY <1>12, Hearing
  <2>3. CloseIsTrue'
    BY <2>1, <2>2 DEF StreamInv, CloseIsTrue
  <2>4. OverOnlyWhenRemoved'
    BY <2>1, <2>2 DEF StreamInv, CloseIsTrue, OverOnlyWhenRemoved
  <2>5. RemovedWillHear'
    BY <2>1, <2>2 DEF StreamInv, RemovedWillHear, Subscribed
  <2> QED
    BY <2>3, <2>4, <2>5 DEF StreamInv
<1>13. CASE Drop \/ Hide
  <2>1. queue' = <<>> /\ stream' = "off" /\ UNCHANGED <<member, unsent>>
    BY <1>13 DEF Drop, Hide, Disconnect
  <2>2. ~ InQueue("close")'
    BY <2>1 DEF InQueue
  <2> QED
    BY <2>1, <2>2 DEF StreamInv, CloseIsTrue, OverOnlyWhenRemoved, RemovedWillHear
<1>14. CASE Show
  BY <1>2, <1>14 DEF Show
<1>15. ASSUME NEW m \in Moves, Drag(m) \/ Refuse(m) \/ Confirmed(m) \/ RollBack(m)
      PROVE  StreamInv'
  BY <1>2, <1>15 DEF Drag, Refuse, Confirmed, RollBack
<1>16. ASSUME NEW m \in Moves, Accept(m)
      PROVE  StreamInv'
  BY <1>2, <1>16 DEF LiveTypeOK, Accept, Announce, Written
<1>17. CASE UNCHANGED liveVars
  BY <1>2, <1>17 DEF liveVars
<1> QED
  BY <1>3, <1>4, <1>5, <1>6, <1>7, <1>8, <1>9, <1>10, <1>11, <1>12, <1>13, <1>14, <1>15, <1>16, <1>17
  DEF LiveNext, ServerStep, TabStep, MoveStep

(* A stream ends for those who left, and for nobody else. (realtime.py,    *)
(* events.py)                                                              *)
THEOREM StreamCorrect == LiveSpec => []StreamSafe
<1>1. LiveInit => StreamInv
  BY DEF LiveInit, StreamInv, CloseIsTrue, OverOnlyWhenRemoved, RemovedWillHear, InQueue, Written
<1>2. LiveTypeOK /\ StreamInv /\ [LiveNext]_liveVars => StreamInv'
  BY StreamStep
<1>3. LiveTypeOK /\ StreamInv => StreamSafe
  BY DEF StreamInv, RemovedWillHear, StreamSafe, RemovedIsHangingUp
<1> QED
  BY <1>1, <1>2, <1>3, LiveTypeCorrect, PTL DEF LiveSpec

-----------------------------------------------------------------------------
(* Something will tell the tab that its board is stale.                    *)
NudgeComing ==
    unsent["ticket_changed"] > 0 \/ InQueue("ticket_changed") \/ InQueue("resync")

(* Nothing on screen is newer than the server.                             *)
VersionsAreSeen ==
    /\ board.ver <= version /\ fetch.ver <= version
    /\ \A m \in Moves : previous[m].ver <= version

(* What was read under a stream is known to have been.                     *)
UnderItsStream ==
    /\ fetch.live => fetch.at = "read"
    /\ fetch.live \/ covered => stream \in {"subscribed", "open", "over"}
    /\ covered => board.loaded

(* An answer that is stale, and a board that is, are about to be replaced. *)
AnswerIsNudged == fetch.live /\ Subscribed /\ fetch.ver < version => NudgeComing
BoardIsNudged  == covered /\ Subscribed /\ board.ver < version => NudgeComing \/ fetch.at # "none"

(* A move is drawn from when it is made, on no list kept for it, and is    *)
(* undecided or newer than the list it is drawn on.                        *)
MovesAreDrawn ==
    \A m \in Moves :
        /\ m \notin previous[m].guesses
        /\ move[m] = "none" => m \notin board.guesses /\ \A k \in Moves : m \notin previous[k].guesses
        /\ covered /\ m \in board.guesses => move[m] \in {"sent", "refused"} \/ board.ver < version

BoardInv == VersionsAreSeen /\ UnderItsStream /\ AnswerIsNudged /\ BoardIsNudged /\ MovesAreDrawn

(* What a step of the server, of the stream, of the tab or of a move does. *)
LEMMA BoardStep ==
    ASSUME LiveTypeOK, BoardInv, LiveNext \/ UNCHANGED liveVars
    PROVE  BoardInv'
<1> USE DEF changeVars, streamVars, tabVars, moveVars, boundVars
<1>1. /\ \A e \in Written : unsent[e] \in Nat
      /\ version \in Nat /\ board.ver \in Nat /\ fetch.ver \in Nat
      /\ \A m \in Moves : previous[m].ver \in Nat
  BY DEF LiveTypeOK, Boards
<1>2. ASSUME UNCHANGED <<version, unsent, queue, stream, tabVars, moveVars>>
      PROVE  BoardInv'
  BY <1>2 DEF BoardInv, VersionsAreSeen, UnderItsStream, AnswerIsNudged, BoardIsNudged, MovesAreDrawn,
     NudgeComing, InQueue, Subscribed
<1>3. ASSUME version' = version + 1, unsent'["ticket_changed"] = unsent["ticket_changed"] + 1,
             UNCHANGED <<tabVars, previous, stream>>,
             \A m \in Moves : move'[m] = move[m] \/ (move[m] # "none" /\ move'[m] # "none")
      PROVE  BoardInv'
  <2>1. NudgeComing'
    BY <1>1, <1>3 DEF NudgeComing, Written
  <2>2. VersionsAreSeen' /\ UnderItsStream'
    BY <1>1, <1>3 DEF BoardInv, VersionsAreSeen, UnderItsStream
  <2>3. MovesAreDrawn'
    BY <1>1, <1>3 DEF BoardInv, VersionsAreSeen, MovesAreDrawn
  <2> QED
    BY <2>1, <2>2, <2>3 DEF BoardInv, AnswerIsNudged, BoardIsNudged
<1>4. CASE Commit
  <2>1. /\ version' = version + 1 /\ UNCHANGED <<tabVars, moveVars, stream>>
        /\ unsent' = [unsent EXCEPT !["ticket_changed"] = @ + 1]
    BY <1>4 DEF Commit, Announce
  <2>2. unsent'["ticket_changed"] = unsent["ticket_changed"] + 1
    <3>1. unsent \in [Written -> Nat] /\ "ticket_changed" \in Written
      BY DEF LiveTypeOK, Written
    <3> QED
      BY <2>1, <3>1
  <2>3. /\ UNCHANGED <<tabVars, previous, stream>>
        /\ \A m \in Moves : move'[m] = move[m] \/ (move[m] # "none" /\ move'[m] # "none")
    BY <2>1
  <2>4. version' = version + 1
    BY <2>1
  <2> QED
    BY <1>3, <2>2, <2>3, <2>4
<1>5. CASE RemoveMember \/ LeaveAnother
  <2>1. /\ UNCHANGED <<version, queue, stream, tabVars, moveVars>>
        /\ unsent'["ticket_changed"] = unsent["ticket_changed"]
    BY <1>5 DEF LiveTypeOK, RemoveMember, LeaveAnother, Announce, Written
  <2> QED
    BY <2>1 DEF BoardInv, VersionsAreSeen, UnderItsStream, AnswerIsNudged, BoardIsNudged, MovesAreDrawn,
       NudgeComing, InQueue, Subscribed
<1>6. ASSUME NEW e \in Written, Publish(e)
      PROVE  BoardInv'
  <2>1. UNCHANGED <<version, stream, tabVars, moveVars>> /\ (Subscribed' <=> Subscribed)
    BY <1>6 DEF Publish, Subscribed
  <2>2. Subscribed /\ NudgeComing => NudgeComing'
    <3>1. CASE Subscribed /\ Len(queue) < QueueLimit
      BY <1>6, <3>1, Publishing DEF NudgeComing, Written
    <3>2. CASE Subscribed /\ ~ (Len(queue) < QueueLimit)
      BY <1>6, <3>2, Publishing DEF NudgeComing
    <3> QED
      BY <3>1, <3>2
  <2> QED
    BY <2>1, <2>2 DEF BoardInv, VersionsAreSeen, UnderItsStream, AnswerIsNudged, BoardIsNudged, MovesAreDrawn
<1>7. CASE Check
  BY <1>7 DEF Check, BoardInv, VersionsAreSeen, UnderItsStream, AnswerIsNudged, BoardIsNudged,
     MovesAreDrawn, NudgeComing, InQueue, Subscribed
<1>8. CASE Subscribe
  <2>1. stream = "checked" /\ stream' = "subscribed" /\ UNCHANGED <<version, tabVars, moveVars>>
    BY <1>8 DEF Subscribe
  <2>2. ~ covered /\ ~ fetch.live
    BY <2>1 DEF BoardInv, UnderItsStream
  <2> QED
    BY <2>1, <2>2 DEF BoardInv, VersionsAreSeen, UnderItsStream, AnswerIsNudged, BoardIsNudged, MovesAreDrawn
<1>9. CASE Answered
  <2>1. CASE member
    <3>1. /\ fetch.at = "asked" /\ fetch'.at = "read" /\ fetch'.ver = version
          /\ fetch'.live <=> Subscribed
          /\ covered' <=> covered
          /\ UNCHANGED <<version, unsent, queue, stream, board, moveVars>>
      <4>1. fetch' = [at |-> "read", ver |-> version, live |-> Subscribed] /\ fetch.at = "asked"
        BY <1>9, <2>1 DEF Answered
      <4>2. fetch'.at = "read" /\ fetch'.ver = version /\ (fetch'.live <=> Subscribed)
        BY <4>1
      <4>3. covered' <=> covered
        BY <1>9, <2>1 DEF Answered
      <4>4. UNCHANGED <<version, unsent, queue, stream, board, moveVars>>
        BY <1>9 DEF Answered
      <4> QED
        BY <4>1, <4>2, <4>3, <4>4
    <3> QED
      BY <1>1, <3>1 DEF BoardInv, VersionsAreSeen, UnderItsStream, AnswerIsNudged, BoardIsNudged,
         MovesAreDrawn, Subscribed
  <2>2. CASE ~ member
    <3>1. /\ fetch'.ver = 0 /\ ~ fetch'.live /\ ~ covered'
          /\ UNCHANGED <<version, stream, board, moveVars>>
      <4>1. fetch' = NoFetch
        BY <1>9, <2>2 DEF Answered
      <4>2. fetch'.ver = 0 /\ ~ fetch'.live
        BY <4>1 DEF NoFetch
      <4>3. ~ covered'
        BY <1>9, <2>2 DEF Answered
      <4>4. UNCHANGED <<version, stream, board, moveVars>>
        BY <1>9 DEF Answered
      <4> QED
        BY <4>2, <4>3, <4>4
    <3> QED
      BY <1>1, <3>1 DEF BoardInv, VersionsAreSeen, UnderItsStream, AnswerIsNudged, BoardIsNudged, MovesAreDrawn
  <2> QED
    BY <2>1, <2>2
<1>10. CASE Land
  <2>1. /\ board'.ver = fetch.ver /\ board'.guesses = {} /\ board'.loaded
        /\ covered' <=> fetch.live
        /\ fetch'.ver = 0 /\ ~ fetch'.live
        /\ UNCHANGED <<version, unsent, queue, stream, moveVars>>
    BY <1>10 DEF Land, NoFetch
  <2> QED
    BY <1>1, <2>1 DEF BoardInv, VersionsAreSeen, UnderItsStream, AnswerIsNudged, BoardIsNudged,
       MovesAreDrawn, NudgeComing, InQueue, Subscribed
<1>11. CASE FetchFails
  <2>1. /\ fetch'.ver = 0 /\ ~ fetch'.live /\ ~ covered'
        /\ UNCHANGED <<version, stream, board, moveVars>>
    BY <1>11 DEF FetchFails, NoFetch
  <2> QED
    BY <1>1, <2>1 DEF BoardInv, VersionsAreSeen, UnderItsStream, AnswerIsNudged, BoardIsNudged, MovesAreDrawn
<1>12. CASE Connect
  <2>1. stream = "off" /\ stream' = "asked" /\ UNCHANGED <<version, tabVars, moveVars>>
    BY <1>12 DEF Connect
  <2>2. ~ covered /\ ~ fetch.live
    BY <2>1 DEF BoardInv, UnderItsStream
  <2> QED
    BY <2>1, <2>2 DEF BoardInv, VersionsAreSeen, UnderItsStream, AnswerIsNudged, BoardIsNudged, MovesAreDrawn
<1>13. /\ Refetch(fetch).ver \in Nat /\ Refetch(fetch).ver <= version
       /\ ~ Refetch(fetch).live /\ Refetch(fetch).at # "none"
  BY <1>1 DEF LiveTypeOK, BoardInv, VersionsAreSeen, Refetch, Asked
<1>14. CASE Opened
  <2>1. /\ stream = "subscribed" /\ stream' = "open"
        /\ fetch' = fetch \/ fetch' = Refetch(fetch)
        /\ UNCHANGED <<version, unsent, queue, board, covered, moveVars>>
    BY <1>14 DEF Opened
  <2> QED
    BY <1>13, <2>1 DEF BoardInv, VersionsAreSeen, UnderItsStream, AnswerIsNudged, BoardIsNudged,
       MovesAreDrawn, NudgeComing, InQueue, Subscribed
<1>15. CASE Hear
  <2>1. /\ stream = "open" /\ stream' \in {"open", "over"}
        /\ fetch' = IF Head(queue) \in {"ticket_changed", "resync"} THEN Refetch(fetch) ELSE fetch
        /\ covered' => covered
        /\ UNCHANGED <<version, unsent, board, moveVars>>
    BY <1>15 DEF Hear, Invalidates
  <2>2. \A d : InQueue(d) <=> InQueue(d)' \/ d = Head(queue)
    BY <1>15, Hearing
  <2>3. CASE Head(queue) \in {"ticket_changed", "resync"}
    BY <1>1, <1>13, <2>1, <2>3 DEF BoardInv, VersionsAreSeen, UnderItsStream, AnswerIsNudged,
       BoardIsNudged, MovesAreDrawn
  <2>4. CASE Head(queue) \notin {"ticket_changed", "resync"}
    <3>1. NudgeComing => NudgeComing'
      BY <2>1, <2>2, <2>4 DEF NudgeComing
    <3> QED
      BY <2>1, <2>4, <3>1 DEF BoardInv, VersionsAreSeen, UnderItsStream, AnswerIsNudged,
         BoardIsNudged, MovesAreDrawn, Subscribed
  <2> QED
    BY <2>3, <2>4
<1>16. CASE Drop \/ Hide
  <2>1. /\ ~ covered' /\ fetch' = [fetch EXCEPT !.live = FALSE]
        /\ UNCHANGED <<version, board, moveVars>>
    BY <1>16 DEF Drop, Hide, Disconnect
  <2>2. fetch'.ver = fetch.ver /\ ~ fetch'.live
    BY <2>1 DEF LiveTypeOK
  <2> QED
    BY <2>1, <2>2 DEF BoardInv, VersionsAreSeen, UnderItsStream, AnswerIsNudged, BoardIsNudged, MovesAreDrawn
<1>17. CASE Show
  BY <1>2, <1>17 DEF Show
<1>18. ASSUME NEW m \in Moves, Drag(m)
       PROVE  BoardInv'
  <2>1. /\ move[m] = "none" /\ move'[m] = "sent" /\ previous'[m] = board
        /\ board'.ver = board.ver /\ board'.loaded = board.loaded
        /\ board'.guesses = board.guesses \cup {m}
        /\ \A k \in Moves : k # m => move'[k] = move[k] /\ previous'[k] = previous[k]
        /\ UNCHANGED <<version, unsent, queue, stream, fetch, covered>>
    BY <1>18 DEF LiveTypeOK, Drag, Boards
  <2>2. VersionsAreSeen' /\ UnderItsStream' /\ AnswerIsNudged' /\ BoardIsNudged'
    BY <2>1 DEF BoardInv, VersionsAreSeen, UnderItsStream, AnswerIsNudged, BoardIsNudged,
       NudgeComing, InQueue, Subscribed
  <2>3. MovesAreDrawn'
    BY <2>1 DEF BoardInv, MovesAreDrawn
  <2> QED
    BY <2>2, <2>3 DEF BoardInv
<1>19. ASSUME NEW m \in Moves, Accept(m)
       PROVE  BoardInv'
  <2>1. /\ move[m] = "sent" /\ move' = [move EXCEPT ![m] = "accepted"]
        /\ version' = version + 1
        /\ unsent' = [unsent EXCEPT !["ticket_changed"] = @ + 1]
        /\ UNCHANGED <<tabVars, previous, stream>>
    BY <1>19 DEF Accept, Announce
  <2>2. /\ unsent'["ticket_changed"] = unsent["ticket_changed"] + 1
        /\ \A k \in Moves : move'[k] = move[k] \/ (move[k] # "none" /\ move'[k] # "none")
    <3>1. unsent'["ticket_changed"] = unsent["ticket_changed"] + 1
      <4>1. unsent \in [Written -> Nat] /\ "ticket_changed" \in Written
        BY DEF LiveTypeOK, Written
      <4> QED
        BY <2>1, <4>1
    <3>2. \A k \in Moves : move'[k] = move[k] \/ (move[k] # "none" /\ move'[k] # "none")
      <4>1. DOMAIN move = Moves
        BY DEF LiveTypeOK
      <4>2. \A k \in Moves : k # m => move'[k] = move[k]
        BY <2>1, <4>1
      <4>3. move'[m] # "none" /\ move[m] # "none"
        BY <2>1, <4>1
      <4> QED
        BY <4>2, <4>3
    <3> QED
      BY <3>1, <3>2
  <2>3. version' = version + 1 /\ UNCHANGED <<tabVars, previous, stream>>
    BY <2>1
  <2> QED
    BY <1>3, <2>2, <2>3
<1>20. ASSUME NEW m \in Moves, Refuse(m)
       PROVE  BoardInv'
  <2>1. /\ move[m] = "sent" /\ move'[m] = "refused"
        /\ \A k \in Moves : k # m => move'[k] = move[k]
        /\ UNCHANGED <<version, unsent, queue, stream, tabVars, previous>>
    BY <1>20 DEF LiveTypeOK, Refuse
  <2> QED
    BY <2>1 DEF BoardInv, VersionsAreSeen, UnderItsStream, AnswerIsNudged, BoardIsNudged, MovesAreDrawn,
       NudgeComing, InQueue, Subscribed
<1>21. ASSUME NEW m \in Moves, Confirmed(m)
       PROVE  BoardInv'
  <2>1. /\ move[m] = "accepted" /\ move'[m] = "done" /\ previous'[m] = NoBoard
        /\ \A k \in Moves : k # m => move'[k] = move[k] /\ previous'[k] = previous[k]
        /\ UNCHANGED <<version, unsent, queue, stream, tabVars>>
    BY <1>21 DEF LiveTypeOK, Confirmed
  <2> QED
    BY <1>1, <2>1 DEF BoardInv, VersionsAreSeen, UnderItsStream, AnswerIsNudged, BoardIsNudged, MovesAreDrawn,
       NudgeComing, InQueue, Subscribed, NoBoard
<1>22. ASSUME NEW m \in Moves, RollBack(m)
       PROVE  BoardInv'
  <2>1. /\ move[m] = "refused" /\ move'[m] = "done" /\ previous'[m] = NoBoard
        /\ board' = previous[m]
        /\ \A k \in Moves : k # m => move'[k] = move[k] /\ previous'[k] = previous[k]
        /\ covered' <=> covered /\ UndoesOnly(m)
        /\ UNCHANGED <<version, unsent, queue, stream, fetch>>
    BY <1>22 DEF LiveTypeOK, RollBack
  <2>2. covered' => /\ covered /\ board.ver = previous[m].ver /\ board.loaded = previous[m].loaded
                    /\ previous[m].guesses \subseteq board.guesses
    BY <2>1 DEF UndoesOnly, LiveTypeOK, Boards
  <2>3. VersionsAreSeen' /\ UnderItsStream' /\ AnswerIsNudged' /\ BoardIsNudged'
    BY <1>1, <2>1, <2>2 DEF BoardInv, VersionsAreSeen, UnderItsStream, AnswerIsNudged, BoardIsNudged,
       NudgeComing, InQueue, Subscribed, NoBoard
  <2>4. MovesAreDrawn'
    BY <2>1, <2>2 DEF BoardInv, MovesAreDrawn, NoBoard
  <2> QED
    BY <2>3, <2>4 DEF BoardInv
<1>23. CASE UNCHANGED liveVars
  BY <1>2, <1>23 DEF liveVars
<1> QED
  BY <1>4, <1>5, <1>6, <1>7, <1>8, <1>9, <1>10, <1>11, <1>12, <1>14, <1>15, <1>16, <1>17, <1>18,
     <1>19, <1>20, <1>21, <1>22, <1>23
  DEF LiveNext, ServerStep, TabStep, MoveStep

(* A board read under the stream that is open is what the server has once  *)
(* nothing is under way, whatever was moved, refused, dropped or thrown    *)
(* away. (realtime.py, invalidation.ts)                                    *)
THEOREM QuietCorrect == LiveSpec => []QuietBoardIsCurrent
<1>1. LiveInit => BoardInv
  BY DEF LiveInit, BoardInv, VersionsAreSeen, UnderItsStream, AnswerIsNudged, BoardIsNudged, MovesAreDrawn,
     NoBoard, Asked
<1>2. LiveTypeOK /\ BoardInv /\ [LiveNext]_liveVars => BoardInv'
  BY BoardStep
<1>3. LiveTypeOK /\ BoardInv => QuietBoardIsCurrent
  <2> SUFFICES ASSUME LiveTypeOK, BoardInv, stream = "open", covered, Quiet
               PROVE  board = [ver |-> version, guesses |-> {}, loaded |-> TRUE]
    BY DEF QuietBoardIsCurrent
  <2>1. ~ NudgeComing /\ fetch.at = "none"
    BY DEF LiveTypeOK, Quiet, NudgeComing
  <2>2. ~ (board.ver < version)
    BY <2>1 DEF BoardInv, BoardIsNudged, Subscribed
  <2>3. board.ver = version
    BY <2>2 DEF LiveTypeOK, Boards, BoardInv, VersionsAreSeen
  <2>4. board.guesses = {}
    BY <2>2 DEF LiveTypeOK, Boards, BoardInv, MovesAreDrawn, Quiet
  <2>5. board.loaded
    BY DEF BoardInv, UnderItsStream
  <2>6. board \in Boards /\ board.loaded = TRUE
    BY <2>5 DEF LiveTypeOK, Boards
  <2> QED
    BY <2>3, <2>4, <2>6 DEF Boards
<1> QED
  BY <1>1, <1>2, <1>3, LiveTypeCorrect, PTL DEF LiveSpec

-----------------------------------------------------------------------------
(* CodeLinks. *)

PullEvents == [state : PullStates, names : SUBSET Named]

(* An event is a state and the tickets its text names.                     *)
LEMMA EventsAreEvents ==
    ASSUME LinksTypeOK
    PROVE  /\ Len(events) \in Nat /\ DOMAIN events = 1..Len(events)
           /\ \A e \in DOMAIN events : /\ e \in 1..MaxEvents /\ e <= Len(events)
                                      /\ events[e].state \in PullStates
                                      /\ events[e].names \subseteq Named
<1>1. events \in Seq(PullEvents) /\ Len(events) <= MaxEvents
  BY DEF LinksTypeOK, PullEvents
<1>2. Len(events) \in Nat /\ DOMAIN events = 1..Len(events)
  BY <1>1, LenProperties
<1>3. \A e \in 1..Len(events) : events[e] \in PullEvents
  BY <1>1, ElementOfSeq
<1> QED
  BY <1>1, <1>2, <1>3, LinksAssumption DEF PullEvents

(* What has happened stays as it was; what happens comes last.             *)
LEMMA EventsGrow ==
    ASSUME LinksTypeOK, NEW s \in PullStates, NEW n \in SUBSET Named, Happen(s, n)
    PROVE  /\ events' \in Seq(PullEvents) /\ Len(events') = Len(events) + 1
           /\ DOMAIN events' = DOMAIN events \cup {Len(events) + 1}
           /\ \A e \in DOMAIN events : events'[e] = events[e]
           /\ events'[Len(events) + 1] = [state |-> s, names |-> n]
<1>1. events \in Seq(PullEvents)
  BY DEF LinksTypeOK, PullEvents
<1>2. [state |-> s, names |-> n] \in PullEvents
  BY DEF PullEvents
<1>3. events' = Append(events, [state |-> s, names |-> n])
  BY DEF Happen
<1>4. /\ events' \in Seq(PullEvents) /\ Len(events') = Len(events) + 1
      /\ \A i \in 1..Len(events) : events'[i] = events[i]
      /\ events'[Len(events) + 1] = [state |-> s, names |-> n]
  BY <1>1, <1>2, <1>3, AppendProperties
<1>5. DOMAIN events = 1..Len(events) /\ DOMAIN events' = 1..Len(events') /\ Len(events) \in Nat
  BY <1>1, <1>4, LenProperties
<1> QED
  BY <1>4, <1>5

(* The values every variable holds, throughout. (integrations.py)          *)
THEOREM LinksTypeCorrect == LinksSpec => []LinksTypeOK
<1>1. LinksInit => LinksTypeOK
  <2> SUFFICES ASSUME LinksInit PROVE LinksTypeOK
    OBVIOUS
  <2>1. events \in Seq([state : PullStates, names : SUBSET Named]) /\ Len(events) = 0
    BY EmptySeq DEF LinksInit
  <2>2. MaxEvents \in Nat
    BY LinksAssumption
  <2> QED
    BY <2>1, <2>2 DEF LinksInit, LinksTypeOK, Free, NoLink, PullStates
<1>2. LinksTypeOK /\ [LinksNext]_linkVars => LinksTypeOK'
  <2> SUFFICES ASSUME LinksTypeOK, [LinksNext]_linkVars PROVE LinksTypeOK'
    OBVIOUS
  <2> USE LinksAssumption
  <2>1. ASSUME NEW s \in PullStates, NEW n \in SUBSET Named, Happen(s, n)
        PROVE  LinksTypeOK'
    <3>2. /\ events' \in Seq([state : PullStates, names : SUBSET Named])
          /\ Len(events') = Len(events) + 1 /\ Len(events) \in Nat
      BY <2>1, EventsGrow, EventsAreEvents DEF PullEvents
    <3>3. Len(events') <= MaxEvents
      BY <2>1, <3>2 DEF Happen
    <3>4. pending' \in [1..MaxEvents -> Nat]
      BY <2>1 DEF LinksTypeOK, Happen
    <3>5. \A p \in Processes : handling[p].event \in Nat
      BY DEF LinksTypeOK, Deliveries, Free
    <3>6. \A t \in Named : newest[t] \in Nat
      BY DEF LinksTypeOK
    <3>7. \A p \in Processes : handling'[p].event <= Len(events')
      BY <2>1, <3>2, <3>5 DEF LinksTypeOK, Happen
    <3>8. \A t \in Named : newest'[t] <= Len(events')
      BY <2>1, <3>2, <3>6 DEF LinksTypeOK, Happen
    <3> QED
      BY <2>1, <3>2, <3>3, <3>4, <3>7, <3>8 DEF LinksTypeOK, Happen
  <2>2. ASSUME NEW e \in DOMAIN events, Redeliver(e)
        PROVE  LinksTypeOK'
    BY <2>2 DEF LinksTypeOK, Redeliver
  <2>3. ASSUME NEW e \in DOMAIN events, Lose(e)
        PROVE  LinksTypeOK'
    <3>1. events[e].names \subseteq Named
      BY EventsAreEvents
    <3>2. pending' \in [1..MaxEvents -> Nat]
      BY <2>3 DEF LinksTypeOK, Lose
    <3> QED
      BY <2>3, <3>1, <3>2 DEF LinksTypeOK, Lose
  <2>4. ASSUME NEW e \in DOMAIN events, NEW p \in Processes, BeginReceive(p, e)
        PROVE  LinksTypeOK'
    <3> DEFINE found == {t \in events[e].names : place[t] = "board"}
    <3>1. /\ events[e].names \subseteq Named /\ found \subseteq Named
          /\ e \in 1..MaxEvents /\ e <= Len(events)
      BY EventsAreEvents
    <3>2. [event |-> e, tickets |-> found, saw |-> link] \in Deliveries
      BY <3>1 DEF LinksTypeOK, Deliveries
    <3>3. /\ handling' = [handling EXCEPT ![p] = [event |-> e, tickets |-> found, saw |-> link]]
          /\ missed' = missed \cup (events[e].names \ found)
          /\ newest' = [t \in Named |-> IF t \in found /\ newest[t] < e THEN e ELSE newest[t]]
      BY <2>4 DEF BeginReceive
    <3>4. handling' \in [Processes -> Deliveries \cup {Free}]
      BY <3>2, <3>3 DEF LinksTypeOK
    <3>5. events' = events
      BY <2>4 DEF BeginReceive
    <3>6. \A q \in Processes : handling'[q].event <= Len(events')
      BY <3>1, <3>3, <3>5 DEF LinksTypeOK
    <3>7. newest' \in [Named -> 0..MaxEvents] /\ \A t \in Named : newest'[t] <= Len(events')
      BY <3>1, <3>3, <3>5 DEF LinksTypeOK
    <3>8. pending' \in [1..MaxEvents -> Nat]
      BY <2>4, <3>1 DEF LinksTypeOK, BeginReceive
    <3>9. missed' \subseteq Named
      BY <3>1, <3>3 DEF LinksTypeOK
    <3>10. disturbed' \subseteq Named
      BY <2>4, <3>1 DEF LinksTypeOK, BeginReceive
    <3>11. UNCHANGED <<events, link, fired, place, redelivered, losses>>
      BY <2>4 DEF BeginReceive
    <3> HIDE DEF found
    <3> QED
      BY <3>4, <3>6, <3>7, <3>8, <3>9, <3>10, <3>11 DEF LinksTypeOK
  <2>5. ASSUME NEW p \in Processes, Receive(p)
        PROVE  LinksTypeOK'
    <3>1. handling[p] # Free /\ handling[p] \in Deliveries
      <4>1. handling[p] # Free
        BY <2>5 DEF Receive
      <4> QED
        BY <4>1 DEF LinksTypeOK
    <3>0. handling[p].event \in DOMAIN events
      BY <3>1, EventsAreEvents DEF LinksTypeOK, Deliveries
    <3>2. events[handling[p].event].state \in PullStates /\ handling[p].tickets \subseteq Named
      BY <3>0, <3>1, EventsAreEvents DEF Deliveries
    <3>3. Upsert(p) \in [Named -> PullStates \cup {NoLink}]
      BY <3>2 DEF LinksTypeOK, Upsert
    <3>4. link' \in [Named -> PullStates \cup {NoLink}]
      BY <2>5, <3>3 DEF LinksTypeOK, Receive
    <3>5. fired' \in [Named -> [Triggers -> Nat]]
      <4>1. CASE Collides(p)
        BY <2>5, <4>1 DEF LinksTypeOK, Receive
      <4>2. CASE ~ Collides(p)
        <5> DEFINE More(t, g) == IF /\ t \in handling[p].tickets
                                    /\ g \in Trigger(handling[p].saw[t], events[handling[p].event].state)
                                 THEN 1 ELSE 0
        <5>1. fired' = [t \in Named |-> [g \in Triggers |-> fired[t][g] + More(t, g)]]
          BY <2>5, <4>2 DEF Receive
        <5>2. \A t \in Named, g \in Triggers : fired[t][g] \in Nat /\ More(t, g) \in Nat
          BY DEF LinksTypeOK
        <5> HIDE DEF More
        <5> QED
          BY <5>1, <5>2
      <4> QED
        BY <4>1, <4>2
    <3>6. missed' \subseteq Named
      BY <2>5, <3>2 DEF LinksTypeOK, Receive
    <3>7. handling' \in [Processes -> Deliveries \cup {Free}]
      BY <2>5 DEF LinksTypeOK, Receive
    <3>8. \A q \in Processes : handling'[q].event <= Len(events')
      BY <2>5 DEF LinksTypeOK, Receive, Free
    <3>9. UNCHANGED <<events, pending, place, disturbed, newest, redelivered, losses>>
      BY <2>5 DEF Receive
    <3> QED
      BY <3>4, <3>5, <3>6, <3>7, <3>8, <3>9 DEF LinksTypeOK
  <2>6. ASSUME NEW t \in Named, BinTicket(t) \/ UnbinTicket(t) \/ EraseTicket(t)
        PROVE  LinksTypeOK'
    BY <2>6 DEF LinksTypeOK, BinTicket, UnbinTicket, EraseTicket
  <2>7. CASE UNCHANGED linkVars
    BY <2>7 DEF LinksTypeOK, linkVars
  <2> QED
    BY <2>1, <2>2, <2>3, <2>4, <2>5, <2>6, <2>7 DEF LinksNext
<1> QED
  BY <1>1, <1>2, PTL DEF LinksSpec

-----------------------------------------------------------------------------
(* What a delivery does to the tickets it reaches: those it has found, if  *)
(* nothing it read has been overtaken.                                     *)
Told(p) == {t \in handling[p].tickets : ~ Collides(p)}

(* Receiving a delivery writes the link's state and, unless another write  *)
(* overtook it, tells the tickets found (integrations.py, webhooks.py).    *)
LEMMA Receives ==
    ASSUME LinksTypeOK, NEW p \in Processes, Receive(p)
    PROVE  LET h == handling[p]
               state == events[h.event].state
           IN  /\ h \in Deliveries /\ h.event \in DOMAIN events /\ state \in PullStates
               /\ \A t \in Named \ Told(p) : link'[t] = link[t] /\ fired'[t] = fired[t]
               /\ \A t \in Told(p) :
                     /\ t \in Named /\ place[t] # "gone" /\ h.saw[t] \in PullStates \cup {NoLink}
                     /\ h.saw[t] = NoLink => link[t] = NoLink
                     /\ link'[t] = IF h.saw[t] # state THEN state ELSE link[t]
                     /\ fired'[t]["opened"] = fired[t]["opened"] +
                          (IF state # "merged" /\ h.saw[t] = NoLink THEN 1 ELSE 0)
                     /\ fired'[t]["merged"] = fired[t]["merged"] +
                          (IF state = "merged" /\ h.saw[t] # "merged" THEN 1 ELSE 0)
               /\ h.tickets \ Told(p) \subseteq missed' /\ missed \subseteq missed'
               /\ handling' = [handling EXCEPT ![p] = Free]
               /\ UNCHANGED <<events, pending, place, disturbed, newest>>
<1> DEFINE h == handling[p]
           state == events[h.event].state
<1>1. h \in Deliveries /\ handling' = [handling EXCEPT ![p] = Free]
  <2>1. h # Free /\ handling' = [handling EXCEPT ![p] = Free]
    BY DEF Receive
  <2> QED
    BY <2>1 DEF LinksTypeOK
<1>2. h.event \in DOMAIN events
  BY <1>1, EventsAreEvents DEF LinksTypeOK, Deliveries
<1>3. state \in PullStates /\ h.tickets \subseteq Named
  BY <1>1, <1>2, EventsAreEvents DEF Deliveries
<1>4. UNCHANGED <<events, pending, place, disturbed, newest>>
  BY DEF Receive
<1>5. CASE Collides(p)
  <2>1. Told(p) = {} /\ UNCHANGED <<link, fired>> /\ missed' = missed \cup h.tickets
    BY <1>5 DEF Told, Receive
  <2> QED
    BY <1>1, <1>2, <1>3, <1>4, <2>1
<1>6. CASE ~ Collides(p)
  <2> DEFINE more(t, g) == IF t \in h.tickets /\ g \in Trigger(h.saw[t], state) THEN 1 ELSE 0
  <2>1. /\ Told(p) = h.tickets /\ missed' = missed
        /\ link' = [t \in Named |-> IF t \in h.tickets /\ h.saw[t] # state THEN state ELSE link[t]]
        /\ fired' = [t \in Named |-> [g \in Triggers |-> fired[t][g] + more(t, g)]]
    BY <1>6 DEF Told, Receive, Upsert
  <2>2. \A t \in h.tickets : place[t] # "gone" /\ (h.saw[t] = NoLink => link[t] = NoLink)
    BY <1>6 DEF Collides
  <2>3. \A t \in h.tickets : t \in Named /\ h.saw[t] \in PullStates \cup {NoLink}
    BY <1>1, <1>3 DEF Deliveries
  <2>4. \A t \in Named \ h.tickets : fired'[t] = fired[t]
    <3> SUFFICES ASSUME NEW t \in Named \ h.tickets PROVE fired'[t] = fired[t]
      OBVIOUS
    <3>1. \A g \in Triggers : more(t, g) = 0 /\ fired[t][g] \in Nat
      BY DEF LinksTypeOK
    <3>2. fired'[t] = [g \in Triggers |-> fired[t][g] + more(t, g)]
      BY <2>1
    <3> HIDE DEF more
    <3>3. fired'[t] = [g \in Triggers |-> fired[t][g]]
      BY <3>1, <3>2
    <3> QED
      BY <3>3 DEF LinksTypeOK
  <2>5. \A t \in h.tickets :
          /\ fired'[t]["opened"] = fired[t]["opened"] +
               (IF state # "merged" /\ h.saw[t] = NoLink THEN 1 ELSE 0)
          /\ fired'[t]["merged"] = fired[t]["merged"] +
               (IF state = "merged" /\ h.saw[t] # "merged" THEN 1 ELSE 0)
    BY <2>1, <2>3 DEF Trigger, Triggers
  <2>6. \A t \in Named \ h.tickets : link'[t] = link[t]
    BY <2>1
  <2>7. \A t \in h.tickets : link'[t] = IF h.saw[t] # state THEN state ELSE link[t]
    BY <2>1, <2>3
  <2> HIDE DEF more
  <2> QED
    BY <1>1, <1>2, <1>3, <1>4, <2>1, <2>2, <2>3, <2>4, <2>5, <2>6, <2>7
<1> QED
  BY <1>5, <1>6

(* No other step sets anything off, or writes a link that is not erased.   *)
LEMMA OnlyReceiveTells ==
    ASSUME LinksTypeOK, LinksNext \/ UNCHANGED linkVars
    PROVE  \/ \E p \in Processes : Receive(p)
           \/ fired' = fired /\ \A t \in Named : link'[t] = link[t] \/ place'[t] = "gone"
BY DEF LinksTypeOK, LinksNext, linkVars, Happen, Redeliver, Lose, BeginReceive,
       BinTicket, UnbinTicket, EraseTicket

(* A purged ticket does not come back.                                     *)
LEMMA PurgedForGood ==
    ASSUME LinksTypeOK, LinksNext \/ UNCHANGED linkVars, NEW t \in Named, place[t] = "gone"
    PROVE  place'[t] = "gone"
BY DEF LinksTypeOK, LinksNext, linkVars, Happen, Redeliver, Lose, BeginReceive, Receive,
       BinTicket, UnbinTicket, EraseTicket

(* What has been set off has left its link, as long as the ticket exists.  *)
FiredLeavesALink ==
    \A t \in Named : fired[t]["opened"] > 0 \/ fired[t]["merged"] > 0
        => link[t] # NoLink \/ place[t] = "gone"

(* The step of the two theorems on what is opened.                         *)
LEMMA OpenedStep ==
    ASSUME LinksTypeOK, OpenedOnce, FiredLeavesALink, LinksNext \/ UNCHANGED linkVars
    PROVE  /\ OpenedOnce' /\ FiredLeavesALink'
           /\ \A t \in Named : fired[t]["merged"] > 0 => fired'[t]["opened"] = fired[t]["opened"]
<1>1. \A t \in Named : fired[t]["opened"] \in Nat /\ fired[t]["merged"] \in Nat
  BY DEF LinksTypeOK, Triggers
<1>2. ASSUME NEW p \in Processes, Receive(p), NEW t \in Named
      PROVE  /\ fired'[t]["opened"] <= 1
             /\ fired'[t]["opened"] > 0 \/ fired'[t]["merged"] > 0
                    => link'[t] # NoLink \/ place'[t] = "gone"
             /\ fired[t]["merged"] > 0 => fired'[t]["opened"] = fired[t]["opened"]
  <2>1. CASE t \in Told(p)
    BY <1>1, <1>2, <2>1, Receives DEF OpenedOnce, FiredLeavesALink, PullStates, NoLink
  <2>2. CASE t \notin Told(p)
    BY <1>2, <2>2, Receives DEF OpenedOnce, FiredLeavesALink
  <2> QED
    BY <2>1, <2>2
<1>3. ASSUME fired' = fired, \A t \in Named : link'[t] = link[t] \/ place'[t] = "gone"
      PROVE  OpenedOnce' /\ FiredLeavesALink'
  BY <1>3, PurgedForGood DEF OpenedOnce, FiredLeavesALink
<1> QED
  BY <1>2, <1>3, OnlyReceiveTells DEF OpenedOnce, FiredLeavesALink

(* However its webhooks come, a pull request is opened once, and what was  *)
(* merged is not opened again. (integrations.py)                           *)
THEOREM OpenedCorrect == LinksSpec => []OpenedOnce /\ NeverOpenedAfterMerge
<1>1. LinksInit => OpenedOnce /\ FiredLeavesALink
  BY DEF LinksInit, OpenedOnce, FiredLeavesALink, Triggers
<1>2. LinksTypeOK /\ OpenedOnce /\ FiredLeavesALink /\ [LinksNext]_linkVars
         => /\ OpenedOnce' /\ FiredLeavesALink'
            /\ \A t \in Named : fired[t]["merged"] > 0 => fired'[t]["opened"] = fired[t]["opened"]
  BY OpenedStep
<1> QED
  BY <1>1, <1>2, LinksTypeCorrect, PTL DEF LinksSpec, NeverOpenedAfterMerge

-----------------------------------------------------------------------------
(* A process handles a delivery for tickets its event names.               *)
HandlesNamed ==
    \A p \in Processes : handling[p] # Free =>
        \A t \in handling[p].tickets : t \in events[handling[p].event].names

(* What is on a link, or was when it was read, has been told.              *)
MergedIsTold ==
    \A t \in Named :
        /\ link[t] = "merged" => fired[t]["merged"] > 0
        /\ \A p \in Processes : handling[p] # Free /\ handling[p].saw[t] = "merged"
              => fired[t]["merged"] > 0

(* A merge is on its way to each ticket it names, or being handled, or told. *)
NoneForgotten ==
    \A e \in DOMAIN events, t \in Named \ missed :
        events[e].state = "merged" /\ t \in events[e].names =>
            \/ pending[e] > 0
            \/ \E p \in Processes : handling[p].event = e /\ t \in handling[p].tickets
            \/ fired[t]["merged"] > 0

(* A ticket nothing has disturbed is handled by one process, for the       *)
(* newest of the events that have reached it, and what was read is so.     *)
OneAtATime ==
    \A t \in Named \ disturbed, p \in Processes : t \in handling[p].tickets =>
        /\ handling[p].event = newest[t]
        /\ handling[p].saw[t] = link[t] \/ place[t] = "gone"
        /\ \A q \in Processes : t \in handling[q].tickets => q = p

(* Its link is what that event says, or is about to.                       *)
LinkFollows ==
    \A t \in Named \ (missed \cup disturbed) :
        newest[t] > 0 /\ place[t] # "gone" =>
            \/ link[t] = events[newest[t]].state
            \/ \E p \in Processes : t \in handling[p].tickets

(* A merge is for good, on the provider's side and on ours.                *)
MergeIsForGood ==
    \A i, j \in DOMAIN events : i <= j /\ events[i].state = "merged" => events[j].state = "merged"

ToldIsMerged ==
    \A t \in Named \ disturbed : fired[t]["merged"] > 0 =>
        \/ place[t] = "gone"
        \/ link[t] = "merged" /\ newest[t] > 0 /\ events[newest[t]].state = "merged"

LinksInv ==
    /\ HandlesNamed /\ MergeIsReal /\ MergedIsTold /\ NoneForgotten
    /\ OneAtATime /\ LinkFollows /\ MergeIsForGood /\ ToldIsMerged /\ MergedOnce

(* The provider's step adds an event nobody has heard of.                  *)
LEMMA HappenKeepsLinks ==
    ASSUME LinksTypeOK, LinksInv, NEW s \in PullStates, NEW n \in SUBSET Named, Happen(s, n)
    PROVE  LinksInv'
<1> DEFINE last == Len(events) + 1
<1>1. /\ last \in Nat /\ last - 1 = Len(events) /\ DOMAIN events = 1..Len(events)
      /\ DOMAIN events' = DOMAIN events \cup {last} /\ last \notin DOMAIN events
      /\ \A e \in DOMAIN events : events'[e] = events[e]
      /\ events'[last] = [state |-> s, names |-> n]
  <2>1. Len(events) \in Nat /\ DOMAIN events = 1..Len(events)
    BY EventsAreEvents
  <2>2. /\ DOMAIN events' = DOMAIN events \cup {last}
        /\ \A e \in DOMAIN events : events'[e] = events[e]
        /\ events'[last] = [state |-> s, names |-> n]
    BY EventsGrow
  <2> QED
    BY <2>1, <2>2
<1>2. UNCHANGED <<link, fired, place, handling, missed, disturbed, newest>>
  BY DEF Happen
<1>3. \A p \in Processes : handling[p] # Free => handling[p].event \in DOMAIN events
  BY EventsAreEvents DEF LinksTypeOK, Deliveries
<1>4. \A t \in Named : newest[t] > 0 => newest[t] \in DOMAIN events
  BY EventsAreEvents DEF LinksTypeOK
<1>5. pending'[last] > 0 /\ \A e \in DOMAIN events : pending'[e] = pending[e]
  <2>1. last \in 1..MaxEvents
    BY <1>1, LinksAssumption DEF Happen
  <2> QED
    BY <1>1, <2>1, EventsAreEvents DEF Happen, LinksTypeOK
<1>6. events # <<>> => Len(events) \in DOMAIN events
  BY <1>1, EmptySeq DEF LinksTypeOK
<1>7. events # <<>> /\ events[Len(events)].state = "merged" => s = "merged"
  BY DEF Happen
<1> HIDE DEF last
<1>8. HandlesNamed' /\ MergeIsReal' /\ MergedIsTold'
  BY <1>1, <1>2, <1>3 DEF LinksInv, HandlesNamed, MergeIsReal, MergedIsTold
<1>9. NoneForgotten'
  BY <1>1, <1>2, <1>5 DEF LinksInv, NoneForgotten
<1>10. OneAtATime' /\ MergedOnce'
  BY <1>2 DEF LinksInv, OneAtATime, MergedOnce
<1>11. LinkFollows' /\ ToldIsMerged'
  BY <1>1, <1>2, <1>4 DEF LinksInv, LinkFollows, ToldIsMerged
<1>12. MergeIsForGood'
  <2> SUFFICES ASSUME NEW i \in DOMAIN events', NEW j \in DOMAIN events',
                      i <= j, events'[i].state = "merged"
               PROVE  events'[j].state = "merged"
    BY DEF MergeIsForGood
  <2>1. CASE j \in DOMAIN events
    BY <1>1, <2>1 DEF LinksInv, MergeIsForGood
  <2>2. CASE j = last /\ i \in DOMAIN events
    <3>1. i <= Len(events) /\ Len(events) \in DOMAIN events
      BY <1>1, <2>2
    <3>2. events # <<>>
      BY <1>1, <2>2, EmptySeq
    <3>3. events[Len(events)].state = "merged"
      BY <1>1, <2>2, <3>1 DEF LinksInv, MergeIsForGood
    <3> QED
      BY <1>1, <1>7, <2>2, <3>2, <3>3
  <2>3. CASE j = last /\ i = last
    BY <2>3
  <2> QED
    BY <1>1, <2>1, <2>2, <2>3
<1> QED
  BY <1>8, <1>9, <1>10, <1>11, <1>12 DEF LinksInv

(* A delivery reaches a process.                                           *)
LEMMA BeginReceiveKeepsLinks ==
    ASSUME LinksTypeOK, LinksInv, NEW e \in DOMAIN events, NEW p \in Processes, BeginReceive(p, e)
    PROVE  LinksInv'
<1> DEFINE found == {t \in events[e].names : place[t] = "board"}
           busy  == UNION {handling[q].tickets : q \in Processes}
<1>1. /\ handling[p] = Free /\ pending[e] > 0
      /\ pending' = [pending EXCEPT ![e] = @ - 1]
      /\ handling' = [handling EXCEPT ![p] = [event |-> e, tickets |-> found, saw |-> link]]
      /\ missed' = missed \cup (events[e].names \ found)
      /\ disturbed' = disturbed \cup (found \cap busy) \cup {t \in found : e < newest[t]}
      /\ newest' = [t \in Named |-> IF t \in found /\ newest[t] < e THEN e ELSE newest[t]]
      /\ UNCHANGED <<events, link, fired, place>>
  BY DEF BeginReceive
<1>2. e \in Nat /\ e > 0 /\ found \subseteq Named
  BY EventsAreEvents
<1>3. /\ handling'[p].event = e /\ handling'[p].tickets = found /\ handling'[p].saw = link
      /\ \A q \in Processes : q # p => handling'[q] = handling[q]
      /\ handling[p].tickets = {}
  BY <1>1 DEF LinksTypeOK, Free
<1>4. \A d \in DOMAIN events : d # e => pending'[d] = pending[d]
  BY <1>1, EventsAreEvents DEF LinksTypeOK
<1>5. \A t \in Named : newest'[t] = IF t \in found /\ newest[t] < e THEN e ELSE newest[t]
  BY <1>1
<1>6. \A t \in found \ disturbed' : /\ newest'[t] = e
                                    /\ \A q \in Processes : t \notin handling[q].tickets
  BY <1>1, <1>2, <1>5 DEF LinksTypeOK
<1>7. \A t \in Named : newest[t] \in Nat /\ (newest[t] > 0 => newest[t] \in DOMAIN events)
  BY EventsAreEvents DEF LinksTypeOK
<1> HIDE DEF busy
<1>8. HandlesNamed' /\ MergedIsTold' /\ MergeIsReal' /\ MergeIsForGood' /\ MergedOnce'
  BY <1>1, <1>3 DEF LinksInv, HandlesNamed, MergedIsTold, MergeIsReal, MergeIsForGood, MergedOnce
<1> HIDE DEF found
<1>9. NoneForgotten'
  <2> SUFFICES ASSUME NEW d \in DOMAIN events, NEW t \in Named \ missed',
                      events[d].state = "merged", t \in events[d].names
               PROVE  \/ pending'[d] > 0
                      \/ \E q \in Processes : handling'[q].event = d /\ t \in handling'[q].tickets
                      \/ fired[t]["merged"] > 0
    BY <1>1 DEF NoneForgotten
  <2>1. CASE d = e
    BY <1>1, <1>3, <2>1
  <2>2. CASE d # e
    BY <1>1, <1>3, <1>4, <2>2 DEF LinksInv, NoneForgotten
  <2> QED
    BY <2>1, <2>2
<1>10. OneAtATime'
  <2> SUFFICES ASSUME NEW t \in Named \ disturbed', NEW q \in Processes, t \in handling'[q].tickets
               PROVE  /\ handling'[q].event = newest'[t]
                      /\ handling'[q].saw[t] = link[t] \/ place[t] = "gone"
                      /\ \A r \in Processes : t \in handling'[r].tickets => r = q
    BY <1>1 DEF OneAtATime
  <2>1. CASE q = p
    BY <1>3, <1>6, <2>1
  <2>2. CASE q # p
    <3>1. t \notin found
      BY <1>3, <1>6, <2>2
    <3> QED
      BY <1>1, <1>3, <1>5, <2>2, <3>1 DEF LinksInv, OneAtATime
  <2> QED
    BY <2>1, <2>2
<1>11. LinkFollows'
  <2> SUFFICES ASSUME NEW t \in Named \ (missed' \cup disturbed'),
                      newest'[t] > 0, place[t] # "gone"
               PROVE  \/ link[t] = events[newest'[t]].state
                      \/ \E q \in Processes : t \in handling'[q].tickets
    BY <1>1 DEF LinkFollows
  <2>1. CASE t \in found
    BY <1>3, <2>1
  <2>2. CASE t \notin found
    BY <1>1, <1>3, <1>5, <2>2 DEF LinksInv, LinkFollows
  <2> QED
    BY <2>1, <2>2
<1>12. ToldIsMerged'
  <2> SUFFICES ASSUME NEW t \in Named \ disturbed', fired[t]["merged"] > 0, place[t] # "gone"
               PROVE  link[t] = "merged" /\ newest'[t] > 0 /\ events[newest'[t]].state = "merged"
    BY <1>1 DEF ToldIsMerged
  <2>1. link[t] = "merged" /\ newest[t] > 0 /\ events[newest[t]].state = "merged"
    BY <1>1 DEF LinksInv, ToldIsMerged
  <2>2. newest[t] <= newest'[t] /\ newest'[t] \in DOMAIN events /\ newest'[t] > 0
    BY <1>2, <1>5, <1>7, <2>1
  <2> QED
    BY <1>7, <2>1, <2>2 DEF LinksInv, MergeIsForGood
  
<1> QED
  BY <1>8, <1>9, <1>10, <1>11, <1>12 DEF LinksInv

(* The delivery is committed, or is refused and leaves nothing.            *)
LEMMA ReceiveKeepsLinks ==
    ASSUME LinksTypeOK, LinksInv, NEW p \in Processes, Receive(p)
    PROVE  LinksInv'
<1> DEFINE h == handling[p]
           state == events[h.event].state
<1>1. /\ h \in Deliveries /\ h # Free /\ h.event \in DOMAIN events /\ state \in PullStates
      /\ h.tickets \ Told(p) \subseteq missed' /\ missed \subseteq missed'
      /\ UNCHANGED <<events, pending, place, disturbed, newest>>
  <2>1. h # Free
    BY DEF Receive
  <2> QED
    BY <2>1, Receives
<1>2. \A t \in Named \ Told(p) : link'[t] = link[t] /\ fired'[t] = fired[t]
  BY Receives
<1>3. \A t \in Told(p) :
         /\ t \in Named /\ t \in h.tickets /\ place[t] # "gone"
         /\ link'[t] = IF h.saw[t] # state THEN state ELSE link[t]
         /\ fired'[t]["merged"] = fired[t]["merged"] +
              (IF state = "merged" /\ h.saw[t] # "merged" THEN 1 ELSE 0)
  BY Receives DEF Told
<1>4. /\ handling'[p] = Free /\ handling'[p].tickets = {}
      /\ \A q \in Processes : q # p => handling'[q] = handling[q]
  <2>1. handling' = [handling EXCEPT ![p] = Free]
    BY DEF Receive
  <2> QED
    BY <2>1 DEF LinksTypeOK, Free
<1>5. \A t \in Named : /\ fired[t]["merged"] \in Nat
                       /\ fired[t]["merged"] > 0 => fired'[t]["merged"] > 0
  <2>1. \A t \in Named : fired[t]["merged"] \in Nat
    BY DEF LinksTypeOK, Triggers
  <2>2. \A t \in Told(p) : fired[t]["merged"] > 0 => fired'[t]["merged"] > 0
    BY <1>3, <2>1
  <2> QED
    BY <1>2, <2>1, <2>2
<1>6. \A t \in Told(p) : h.saw[t] = "merged" => fired[t]["merged"] > 0
  BY <1>1, <1>3 DEF LinksInv, MergedIsTold
<1>7. \A t \in Told(p) : t \in events[h.event].names
  BY <1>1, <1>3 DEF LinksInv, HandlesNamed
<1>8. \A t \in Told(p) \ disturbed : /\ h.event = newest[t] /\ h.saw[t] = link[t]
                                     /\ \A q \in Processes : t \in handling[q].tickets => q = p
  BY <1>3 DEF LinksInv, OneAtATime
<1>9. newest \in [Named -> Nat] /\ h.event > 0
  BY <1>1, LinksAssumption DEF LinksTypeOK, Deliveries
<1> HIDE DEF h, state
<1>10. HandlesNamed' /\ MergeIsForGood'
  BY <1>1, <1>4 DEF LinksInv, HandlesNamed, MergeIsForGood
<1>11. MergeIsReal'
  BY <1>1, <1>2, <1>3, <1>5, <1>7 DEF LinksInv, MergeIsReal, state
<1>12. MergedIsTold'
  <2> SUFFICES ASSUME NEW t \in Named
               PROVE  /\ link'[t] = "merged" => fired'[t]["merged"] > 0
                      /\ \A q \in Processes : handling'[q] # Free /\ handling'[q].saw[t] = "merged"
                            => fired'[t]["merged"] > 0
    BY DEF MergedIsTold
  <2>1. \A q \in Processes : handling'[q] # Free /\ handling'[q].saw[t] = "merged"
            => fired'[t]["merged"] > 0
    BY <1>4, <1>5 DEF LinksInv, MergedIsTold
  <2>2. CASE t \in Told(p)
    BY <1>3, <1>5, <1>6, <2>1, <2>2 DEF LinksInv, MergedIsTold
  <2>3. CASE t \notin Told(p)
    BY <1>2, <2>1, <2>3 DEF LinksInv, MergedIsTold
  <2> QED
    BY <2>2, <2>3
<1>13. NoneForgotten'
  <2> SUFFICES ASSUME NEW e \in DOMAIN events, NEW t \in Named \ missed',
                      events[e].state = "merged", t \in events[e].names
               PROVE  \/ pending[e] > 0
                      \/ \E q \in Processes : handling'[q].event = e /\ t \in handling'[q].tickets
                      \/ fired'[t]["merged"] > 0
    BY <1>1 DEF NoneForgotten
  <2>1. CASE h.event = e /\ t \in h.tickets
    <3>1. t \in Told(p) /\ state = "merged"
      BY <1>1, <2>1 DEF state
    <3> QED
      BY <1>3, <1>5, <1>6, <3>1
  <2>2. CASE ~ (h.event = e /\ t \in h.tickets)
    BY <1>1, <1>4, <1>5, <2>2 DEF LinksInv, NoneForgotten, h
  <2> QED
    BY <2>1, <2>2
<1>14. OneAtATime'
  BY <1>1, <1>2, <1>4, <1>8 DEF LinksInv, OneAtATime
<1>15. LinkFollows'
  <2> SUFFICES ASSUME NEW t \in Named \ (missed' \cup disturbed), newest[t] > 0, place[t] # "gone"
               PROVE  \/ link'[t] = events[newest[t]].state
                      \/ \E q \in Processes : t \in handling'[q].tickets
    BY <1>1 DEF LinkFollows
  <2>1. CASE t \in Told(p)
    BY <1>3, <1>8, <2>1 DEF state
  <2>2. CASE t \notin Told(p)
    BY <1>1, <1>2, <1>4, <2>2 DEF LinksInv, LinkFollows, h
  <2> QED
    BY <2>1, <2>2
<1>16. ToldIsMerged' /\ MergedOnce'
  <2> SUFFICES ASSUME NEW t \in Named \ disturbed
               PROVE  /\ fired'[t]["merged"] <= 1
                      /\ fired'[t]["merged"] > 0 => 
                            \/ place[t] = "gone"
                            \/ link'[t] = "merged" /\ newest[t] > 0 /\ events[newest[t]].state = "merged"
    BY <1>1 DEF ToldIsMerged, MergedOnce
  <2>1. /\ fired[t]["merged"] <= 1
        /\ fired[t]["merged"] > 0 =>
              \/ place[t] = "gone"
              \/ link[t] = "merged" /\ newest[t] > 0 /\ events[newest[t]].state = "merged"
    BY DEF LinksInv, ToldIsMerged, MergedOnce
  <2>2. CASE t \in Told(p)
    <3>1. CASE fired[t]["merged"] > 0
      BY <1>3, <1>5, <1>8, <2>1, <2>2, <3>1 DEF state
    <3>2. CASE ~ (fired[t]["merged"] > 0)
      BY <1>3, <1>5, <1>8, <1>9, <2>1, <2>2, <3>2 DEF state
    <3> QED
      BY <3>1, <3>2
  <2>3. CASE t \notin Told(p)
    BY <1>2, <2>1, <2>3
  <2> QED
    BY <2>2, <2>3
<1> QED
  BY <1>10, <1>11, <1>12, <1>13, <1>14, <1>15, <1>16 DEF LinksInv

(* The other steps.                                                        *)
LEMMA OthersKeepLinks ==
    ASSUME LinksTypeOK, LinksInv,
           \/ \E e \in DOMAIN events : Redeliver(e) \/ Lose(e)
           \/ \E t \in Named : BinTicket(t) \/ UnbinTicket(t) \/ EraseTicket(t)
           \/ UNCHANGED linkVars
    PROVE  LinksInv'
<1>1. ASSUME NEW e \in DOMAIN events, Redeliver(e)
      PROVE  LinksInv'
  <2>1. \A d \in DOMAIN events : pending[d] > 0 => pending'[d] > 0
    BY <1>1, EventsAreEvents DEF LinksTypeOK, Redeliver
  <2> QED
    BY <1>1, <2>1 DEF Redeliver, LinksInv, HandlesNamed, MergeIsReal, MergedIsTold, NoneForgotten,
       OneAtATime, LinkFollows, MergeIsForGood, ToldIsMerged, MergedOnce
<1>2. ASSUME NEW e \in DOMAIN events, Lose(e)
      PROVE  LinksInv'
  <2>1. \A d \in DOMAIN events : d # e => pending'[d] = pending[d]
    BY <1>2, EventsAreEvents DEF LinksTypeOK, Lose
  <2>2. missed \subseteq missed' /\ events[e].names \subseteq missed'
    BY <1>2 DEF Lose
  <2>3. UNCHANGED <<events, link, fired, place, handling, disturbed, newest>>
    BY <1>2 DEF Lose
  <2>4. NoneForgotten'
    BY <2>1, <2>2, <2>3 DEF LinksInv, NoneForgotten
  <2> QED
    BY <2>2, <2>3, <2>4 DEF LinksInv, HandlesNamed, MergeIsReal, MergedIsTold,
       OneAtATime, LinkFollows, MergeIsForGood, ToldIsMerged, MergedOnce
<1>3. ASSUME NEW t \in Named, BinTicket(t) \/ UnbinTicket(t) \/ EraseTicket(t)
      PROVE  LinksInv'
  <2>1. /\ UNCHANGED <<events, pending, fired, handling, missed, disturbed, newest>>
        /\ \A u \in Named : \/ link'[u] = link[u] /\ (place[u] = "gone" <=> place'[u] = "gone")
                            \/ link'[u] = NoLink /\ place'[u] = "gone"
    BY <1>3 DEF LinksTypeOK, BinTicket, UnbinTicket, EraseTicket
  <2>2. HandlesNamed' /\ MergeIsReal' /\ NoneForgotten' /\ MergeIsForGood' /\ MergedOnce'
    BY <2>1 DEF LinksInv, HandlesNamed, MergeIsReal, NoneForgotten, MergeIsForGood, MergedOnce
  <2>3. MergedIsTold'
    BY <2>1 DEF LinksInv, MergedIsTold, NoLink
  <2>4. OneAtATime'
    BY <2>1 DEF LinksInv, OneAtATime
  <2>5. LinkFollows' /\ ToldIsMerged'
    BY <2>1 DEF LinksInv, LinkFollows, ToldIsMerged
  <2> QED
    BY <2>2, <2>3, <2>4, <2>5 DEF LinksInv
<1>4. CASE UNCHANGED linkVars
  BY <1>4 DEF linkVars, LinksInv, HandlesNamed, MergeIsReal, MergedIsTold, NoneForgotten,
     OneAtATime, LinkFollows, MergeIsForGood, ToldIsMerged, MergedOnce
<1> QED
  BY <1>1, <1>2, <1>3, <1>4

(* LinksInv, of every behaviour.                                           *)
LEMMA LinksInvariant == LinksSpec => []LinksInv
<1>1. LinksInit => LinksInv
  BY EmptySeq DEF LinksInit, LinksInv, HandlesNamed, MergeIsReal, MergedIsTold, NoneForgotten,
     OneAtATime, LinkFollows, MergeIsForGood, ToldIsMerged, MergedOnce, Free, NoLink, Triggers
<1>2. LinksTypeOK /\ LinksInv /\ [LinksNext]_linkVars => LinksInv'
  BY HappenKeepsLinks, BeginReceiveKeepsLinks, ReceiveKeepsLinks, OthersKeepLinks DEF LinksNext
<1> QED
  BY <1>1, <1>2, LinksTypeCorrect, PTL DEF LinksSpec

(* However its webhooks come -- late, again, in another order, to several  *)
(* processes -- a pull request is opened once on each ticket, and merged   *)
(* once on each that no older or simultaneous one reached.                 *)
(* (integrations.py)                                                       *)
THEOREM TriggersFireOnce == LinksSpec => []FiredOnce
<1>1. LinksTypeOK /\ LinksInv /\ OpenedOnce => FiredOnce
  BY DEF LinksInv, FiredOnce
<1> QED
  BY <1>1, LinksTypeCorrect, LinksInvariant, OpenedCorrect, PTL

(* Nothing is told that did not happen, no merge that arrived is left      *)
(* untold, and a link is what was last heard. (integrations.py)            *)
THEOREM WhatIsToldIsTrue == LinksSpec => []HeardTruly
<1>1. LinksTypeOK /\ LinksInv => HeardTruly
  <2> SUFFICES ASSUME LinksTypeOK, LinksInv PROVE HeardTruly
    OBVIOUS
  <2>1. MergeIsReal
    BY DEF LinksInv
  <2>2. ASSUME NEW t \in Named, Settled(t), NEW p \in Processes
        PROVE  t \notin handling[p].tickets
    <3>1. CASE handling[p] = Free
      BY <3>1 DEF Free
    <3>2. CASE handling[p] # Free
      <4>1. handling[p].event \in DOMAIN events
        BY <3>2, EventsAreEvents DEF LinksTypeOK, Deliveries
      <4> QED
        BY <2>2, <3>2, <4>1 DEF LinksInv, HandlesNamed, Settled
    <3> QED
      BY <3>1, <3>2
  <2>3. MergeIsHeard
    BY <2>2 DEF LinksInv, NoneForgotten, MergeIsHeard, Settled
  <2>4. LinkIsCurrent
    BY <2>2 DEF LinksInv, LinkFollows, LinkIsCurrent
  <2> QED
    BY <2>1, <2>3, <2>4 DEF HeardTruly
<1> QED
  BY <1>1, LinksTypeCorrect, LinksInvariant, PTL

-----------------------------------------------------------------------------
(* TicketFiles. *)

Kinds == {"upload", "post", "remove", "discard", "delete", "purge"}
Steps == {"idle", "sent", "stored", "read", "purge", "answer"}

(* A step of request t makes it `new`, and leaves the others.              *)
Becomes(t, new) ==
    /\ task' \in [Tasks -> TaskType] /\ task'[t] = new
    /\ \A u \in Tasks : u # t => task'[u] = task[u]
    /\ \A u \in Tasks : task'[u].kind \in {"post", "delete"} => task'[u].comment \in Comments

(* Replacing one request by a well-formed one keeps the array of requests  *)
(* well-formed (attachments.py, comments.py: each handler's own locals).   *)
LEMMA Becoming ==
    ASSUME FilesTypeOK, NEW t \in Tasks, NEW new \in TaskType,
           new.kind \in {"post", "delete"} => new.comment \in Comments,
           task' = [task EXCEPT ![t] = new]
    PROVE  Becomes(t, new)
<1>1. /\ task \in [Tasks -> TaskType]
      /\ \A u \in Tasks : task[u].kind \in {"post", "delete"} => task[u].comment \in Comments
  BY DEF FilesTypeOK
<1>2. /\ task' \in [Tasks -> TaskType] /\ task'[t] = new
      /\ \A u \in Tasks : u # t => task'[u] = task[u]
  BY <1>1
<1> QED
  BY <1>1, <1>2 DEF Becomes

(* What a request is when it goes on or ends ...                           *)
LEMMA Tasked ==
    ASSUME FilesTypeOK, NEW t \in Tasks
    PROVE  /\ Idle \in TaskType /\ Idle.files = {} /\ Idle.at = "idle" /\ Idle.kind = "upload"
           /\ \A at \in Steps : Step(t, at) => Becomes(t, [task[t] EXCEPT !.at = at])
           /\ End(t) => Becomes(t, Idle)
<1>1. Idle \in TaskType /\ Idle.files = {} /\ Idle.at = "idle" /\ Idle.kind = "upload"
  BY DEF Idle, TaskType
<1>2. task[t] \in TaskType /\ (task[t].kind \in {"post", "delete"} => task[t].comment \in Comments)
  BY DEF FilesTypeOK
<1>3. ASSUME NEW at \in Steps, Step(t, at)
      PROVE  Becomes(t, [task[t] EXCEPT !.at = at])
  <2> DEFINE new == [task[t] EXCEPT !.at = at]
  <2>1. /\ new \in TaskType /\ new.kind = task[t].kind /\ new.comment = task[t].comment
    BY <1>2 DEF TaskType, Steps
  <2>2. task' = [task EXCEPT ![t] = new]
    BY <1>3 DEF Step
  <2> HIDE DEF new
  <2>3. Becomes(t, new)
    BY <1>2, <2>1, <2>2, Becoming
  <2> QED
    BY <2>3 DEF new
<1>4. ASSUME End(t)
      PROVE  Becomes(t, Idle)
  <2>1. task' = [task EXCEPT ![t] = Idle]
    BY <1>4 DEF End
  <2> QED
    BY <1>1, <2>1, Becoming
<1> QED
  BY <1>1, <1>3, <1>4

(* ... when it has been asked for ...                                      *)
LEMMA FilesAsked ==
    ASSUME FilesTypeOK, NEW t \in Tasks, NEW files \in SUBSET Files, NEW kind \in Kinds,
           NEW k \in Comments \cup {NoComment}, kind \in {"post", "delete"} => k \in Comments,
           Ask(t, kind, files, k)
    PROVE  /\ task[t].at = "idle" /\ ticket # "gone" /\ asked' \in Nat
           /\ Becomes(t, [at |-> "sent", kind |-> kind, files |-> files, comment |-> k, seen |-> {}])
<1> DEFINE new == [at |-> "sent", kind |-> kind, files |-> files, comment |-> k, seen |-> {}]
<1>1. task[t].at = "idle" /\ ticket # "gone" /\ asked' = asked + 1 /\ task' = [task EXCEPT ![t] = new]
  BY DEF Ask
<1>2. new \in TaskType /\ new.kind = kind /\ new.comment = k
  BY DEF TaskType, Kinds
<1>3. asked' \in Nat
  BY <1>1 DEF FilesTypeOK
<1> HIDE DEF new
<1>4. Becomes(t, new)
  BY <1>1, <1>2, Becoming
<1> QED
  BY <1>1, <1>3, <1>4 DEF new

(* ... and when it has read what it needs.                                 *)
LEMMA HasRead ==
    ASSUME FilesTypeOK, NEW t \in Tasks, NEW files \in SUBSET Files, NEW seen \in SUBSET Comments,
           Read(t, files, seen)
    PROVE  Becomes(t, [at |-> "read", kind |-> task[t].kind, files |-> files,
                       comment |-> task[t].comment, seen |-> seen])
<1> DEFINE new == [at |-> "read", kind |-> task[t].kind, files |-> files,
                   comment |-> task[t].comment, seen |-> seen]
<1>1. task[t] \in TaskType /\ (task[t].kind \in {"post", "delete"} => task[t].comment \in Comments)
  BY DEF FilesTypeOK
<1>2. new \in TaskType /\ new.kind = task[t].kind /\ new.comment = task[t].comment
  BY <1>1 DEF TaskType
<1>3. task' = [task EXCEPT ![t] = new]
  BY DEF Read
<1> HIDE DEF new
<1>4. Becomes(t, new)
  BY <1>1, <1>2, <1>3, Becoming
<1> QED
  BY <1>4 DEF new

(* The values every variable holds, throughout. (attachments.py, comments.py) *)
THEOREM FilesTypeCorrect == FilesSpec => []FilesTypeOK
<1>1. FilesInit => FilesTypeOK
  BY DEF FilesInit, FilesTypeOK, Idle, TaskType
<1>2. FilesTypeOK /\ [FilesNext]_filesVars => FilesTypeOK'
  <2> SUFFICES ASSUME FilesTypeOK, [FilesNext]_filesVars PROVE FilesTypeOK'
    OBVIOUS
  <2>1. CASE TrashTicket \/ RestoreTicket
    BY <2>1 DEF FilesTypeOK, TrashTicket, RestoreTicket
  <2>2. CASE Crash
    <3>1. Idle \in TaskType /\ Idle.kind = "upload"
      BY DEF Idle, TaskType
    <3>2. \A t \in Tasks : task[t].files \subseteq Files
      BY DEF FilesTypeOK, TaskType
    <3>3. excused' \subseteq Files
      BY <2>2, <3>2 DEF FilesTypeOK, Crash
    <3>4. task' = [t \in Tasks |-> Idle] /\ faults' = faults + 1
          /\ UNCHANGED <<ticket, row, bytes, comment, named, draft, asked, discarded>>
      BY <2>2 DEF Crash
    <3>5. task' \in [Tasks -> TaskType] /\ \A t \in Tasks : task'[t].kind = "upload"
      BY <3>1, <3>4
    <3> QED
      BY <3>3, <3>4, <3>5 DEF FilesTypeOK
  <2>3. ASSUME NEW t \in Tasks, NEW f \in Files, PickFile(t, f) \/ TakeBack(t, f) \/ DiscardListed(t, f)
        PROVE  FilesTypeOK'
    <3>1. {f} \in SUBSET Files /\ "upload" \in Kinds /\ "remove" \in Kinds /\ "discard" \in Kinds
      BY DEF Kinds
    <3>2. asked' \in Nat /\ \E new : Becomes(t, new)
      BY <2>3, <3>1, FilesAsked DEF PickFile, TakeBack, DiscardListed
    <3>3. row' \in [Files -> {"unused", "none", "loose"} \cup Comments]
      BY <2>3 DEF FilesTypeOK, PickFile, TakeBack, DiscardListed
    <3>4. UNCHANGED <<ticket, bytes, comment, named, draft, excused, discarded, faults>>
      BY <2>3 DEF PickFile, TakeBack, DiscardListed
    <3> QED
      BY <3>2, <3>3, <3>4 DEF FilesTypeOK, Becomes
  <2>4. ASSUME NEW t \in Tasks, NEW k \in Comments, Send(t, k) \/ DeleteComment(t, k)
        PROVE  FilesTypeOK'
    <3>1. draft \in SUBSET Files /\ {} \in SUBSET Files /\ "post" \in Kinds /\ "delete" \in Kinds
      BY DEF FilesTypeOK, Kinds
    <3>2. asked' \in Nat /\ \E new : Becomes(t, new)
      BY <2>4, <3>1, FilesAsked DEF Send, DeleteComment
    <3>3. /\ comment' \in [Comments -> {"unwritten", "sent", "posted", "deleted"}]
          /\ named' \in [Comments -> SUBSET Files]
      BY <2>4, <3>1 DEF FilesTypeOK, Send, DeleteComment
    <3>4. UNCHANGED <<ticket, row, bytes, draft, excused, discarded, faults>>
      BY <2>4 DEF Send, DeleteComment
    <3> QED
      BY <3>2, <3>3, <3>4 DEF FilesTypeOK, Becomes
  <2>5. ASSUME NEW t \in Tasks, PurgeTicket(t)
        PROVE  FilesTypeOK'
    <3>1. {} \in SUBSET Files /\ "purge" \in Kinds
      BY DEF Kinds
    <3>2. asked' \in Nat /\ \E new : Becomes(t, new)
      BY <2>5, <3>1, FilesAsked DEF PurgeTicket
    <3>3. UNCHANGED <<ticket, row, bytes, comment, named, draft, excused, discarded, faults>>
      BY <2>5 DEF PurgeTicket
    <3> QED
      BY <3>2, <3>3 DEF FilesTypeOK, Becomes
  <2>6. \A t \in Tasks : /\ task[t].files \subseteq Files /\ task[t].seen \subseteq Comments
                         /\ task[t].kind \in {"post", "delete"} => task[t].comment \in Comments
    BY DEF FilesTypeOK, TaskType
  <2>7. "stored" \in Steps /\ "answer" \in Steps /\ "purge" \in Steps
    BY DEF Steps
  <2>8. ASSUME NEW t \in Tasks, StoreBytes(t)
        PROVE  FilesTypeOK'
    <3>1. \E new : Becomes(t, new)
      BY <2>7, <2>8, Tasked DEF StoreBytes
    <3>2. bytes' \subseteq Files
      BY <2>6, <2>8 DEF FilesTypeOK, StoreBytes
    <3>3. UNCHANGED <<ticket, row, comment, named, draft, excused, discarded, asked, faults>>
      BY <2>8 DEF StoreBytes
    <3> QED
      BY <3>1, <3>2, <3>3 DEF FilesTypeOK, Becomes
  <2>9. ASSUME NEW t \in Tasks, InsertRow(t)
        PROVE  FilesTypeOK'
    <3>1. \E new : Becomes(t, new)
      BY <2>7, <2>9, Tasked DEF InsertRow
    <3>2. row' \in [Files -> {"unused", "none", "loose"} \cup Comments]
      BY <2>6, <2>9 DEF FilesTypeOK, InsertRow
    <3>3. UNCHANGED <<ticket, bytes, comment, named, draft, excused, discarded, asked, faults>>
      BY <2>9 DEF InsertRow
    <3> QED
      BY <3>1, <3>2, <3>3 DEF FilesTypeOK, Becomes
  <2>10. ASSUME NEW t \in Tasks, TakeBytesBack(t)
        PROVE  FilesTypeOK'
    <3>1. \E new : Becomes(t, new)
      BY <2>7, <2>10, Tasked DEF TakeBytesBack
    <3>2. bytes' \subseteq Files
      BY <2>6, <2>10 DEF FilesTypeOK, TakeBytesBack
    <3>3. UNCHANGED <<ticket, row, comment, named, draft, excused, discarded, asked, faults>>
      BY <2>10 DEF TakeBytesBack
    <3> QED
      BY <3>1, <3>2, <3>3 DEF FilesTypeOK, Becomes
  <2>11. ASSUME NEW t \in Tasks, CommitUnanswered(t)
        PROVE  FilesTypeOK'
    <3>1. \E new : Becomes(t, new)
      BY <2>7, <2>11, Tasked DEF CommitUnanswered
    <3>2. row' \in [Files -> {"unused", "none", "loose"} \cup Comments]
      BY <2>6, <2>11 DEF FilesTypeOK, CommitUnanswered
    <3>3. bytes' \subseteq Files
      BY <2>6, <2>11 DEF FilesTypeOK, CommitUnanswered
    <3>4. excused' \subseteq Files
      BY <2>6, <2>11 DEF FilesTypeOK, CommitUnanswered
    <3>5. faults' \in Nat
      BY <2>6, <2>11 DEF FilesTypeOK, CommitUnanswered
    <3>6. UNCHANGED <<ticket, comment, named, draft, asked, discarded>>
      BY <2>11 DEF CommitUnanswered
    <3> QED
      BY <3>1, <3>2, <3>3, <3>4, <3>5, <3>6 DEF FilesTypeOK, Becomes
  <2>12. ASSUME NEW t \in Tasks, Uploaded(t)
        PROVE  FilesTypeOK'
    <3>1. \E new : Becomes(t, new)
      BY <2>7, <2>12, Tasked DEF Uploaded
    <3>2. draft' \subseteq Files
      BY <2>6, <2>12 DEF FilesTypeOK, Uploaded
    <3>3. UNCHANGED <<ticket, row, bytes, comment, named, excused, discarded, asked, faults>>
      BY <2>12 DEF Uploaded
    <3> QED
      BY <3>1, <3>2, <3>3 DEF FilesTypeOK, Becomes
  <2>13. ASSUME NEW t \in Tasks, FindUnclaimed(t)
        PROVE  FilesTypeOK'
    <3>0. Read(t, task[t].files, Posted) /\ Posted \subseteq Comments /\ task[t].files \in SUBSET Files
      BY <2>6, <2>13 DEF FindUnclaimed, Posted
    <3>1. \E new : Becomes(t, new)
      BY <3>0, HasRead
    <3>2. UNCHANGED <<ticket, row, bytes, comment, named, draft, excused, discarded, asked, faults>>
      BY <2>13 DEF FindUnclaimed
    <3> QED
      BY <3>1, <3>2 DEF FilesTypeOK, Becomes
  <2>14. ASSUME NEW t \in Tasks, PostComment(t)
        PROVE  FilesTypeOK'
    <3>1. \E new : Becomes(t, new)
      BY <2>7, <2>14, Tasked DEF PostComment
    <3>2. comment' \in [Comments -> {"unwritten", "sent", "posted", "deleted"}]
      BY <2>6, <2>14 DEF FilesTypeOK, PostComment
    <3>0. task[t].comment \in Comments
      BY <2>6, <2>14 DEF PostComment, Is
    <3>3. row' \in [Files -> {"unused", "none", "loose"} \cup Comments]
      <4>1. row' = [f \in Files |-> IF f \in task[t].files THEN task[t].comment ELSE row[f]]
        BY <2>14 DEF PostComment
      <4>2. row \in [Files -> {"unused", "none", "loose"} \cup Comments]
        BY DEF FilesTypeOK
      <4> QED
        BY <3>0, <4>1, <4>2
    <3>4. UNCHANGED <<ticket, bytes, named, draft, excused, discarded, asked, faults>>
      BY <2>14 DEF PostComment
    <3> QED
      BY <3>1, <3>2, <3>3, <3>4 DEF FilesTypeOK, Becomes
  <2>15. ASSUME NEW t \in Tasks, CommentSent(t)
        PROVE  FilesTypeOK'
    <3>1. \E new : Becomes(t, new)
      BY <2>7, <2>15, Tasked DEF CommentSent
    <3>2. draft' \subseteq Files
      BY <2>6, <2>15 DEF FilesTypeOK, CommentSent
    <3>3. UNCHANGED <<ticket, row, bytes, comment, named, excused, discarded, asked, faults>>
      BY <2>15 DEF CommentSent
    <3> QED
      BY <3>1, <3>2, <3>3 DEF FilesTypeOK, Becomes
  <2>16. ASSUME NEW t \in Tasks, ReadDoomed(t)
        PROVE  FilesTypeOK'
    <3>0. \E files \in SUBSET Files, seen \in SUBSET Comments : Read(t, files, seen)
      BY <2>6, <2>16 DEF ReadDoomed, Doomed, RowsOf, Posted
    <3>1. \E new : Becomes(t, new)
      BY <3>0, HasRead
    <3>2. UNCHANGED <<ticket, row, bytes, comment, named, draft, excused, discarded, asked, faults>>
      BY <2>16 DEF ReadDoomed
    <3> QED
      BY <3>1, <3>2 DEF FilesTypeOK, Becomes
  <2>17. ASSUME NEW t \in Tasks, RemoveRow(t)
        PROVE  FilesTypeOK'
    <3>1. \E new : Becomes(t, new)
      BY <2>7, <2>17, Tasked DEF RemoveRow
    <3>2. row' \in [Files -> {"unused", "none", "loose"} \cup Comments]
      BY <2>6, <2>17 DEF FilesTypeOK, RemoveRow, WithoutRows
    <3>3. discarded' \subseteq Files
      BY <2>6, <2>17 DEF FilesTypeOK, RemoveRow
    <3>4. UNCHANGED <<ticket, bytes, comment, named, draft, excused, asked, faults>>
      BY <2>17 DEF RemoveRow
    <3> QED
      BY <3>1, <3>2, <3>3, <3>4 DEF FilesTypeOK, Becomes
  <2>18. ASSUME NEW t \in Tasks, RemoveComment(t)
        PROVE  FilesTypeOK'
    <3>1. \E new : Becomes(t, new)
      BY <2>7, <2>18, Tasked DEF RemoveComment
    <3>2. row' \in [Files -> {"unused", "none", "loose"} \cup Comments]
      BY <2>6, <2>18 DEF FilesTypeOK, RemoveComment, WithoutRows
    <3>3. comment' \in [Comments -> {"unwritten", "sent", "posted", "deleted"}]
      BY <2>6, <2>18 DEF FilesTypeOK, RemoveComment
    <3>4. UNCHANGED <<ticket, bytes, named, draft, excused, discarded, asked, faults>>
      BY <2>18 DEF RemoveComment
    <3> QED
      BY <3>1, <3>2, <3>3, <3>4 DEF FilesTypeOK, Becomes
  <2>19. ASSUME NEW t \in Tasks, RemoveTicket(t)
        PROVE  FilesTypeOK'
    <3>1. \E new : Becomes(t, new)
      BY <2>7, <2>19, Tasked DEF RemoveTicket
    <3>2. ticket' = "gone"
      BY <2>19 DEF RemoveTicket
    <3>3. row' \in [Files -> {"unused", "none", "loose"} \cup Comments]
      BY <2>6, <2>19 DEF FilesTypeOK, RemoveTicket, WithoutRows
    <3>4. comment' \in [Comments -> {"unwritten", "sent", "posted", "deleted"}]
      BY <2>6, <2>19 DEF FilesTypeOK, RemoveTicket
    <3>5. UNCHANGED <<bytes, named, draft, excused, discarded, asked, faults>>
      BY <2>19 DEF RemoveTicket
    <3> QED
      BY <3>1, <3>2, <3>3, <3>4, <3>5 DEF FilesTypeOK, Becomes
  <2>20. ASSUME NEW t \in Tasks, PurgeBytes(t)
        PROVE  FilesTypeOK'
    <3>1. \E new : Becomes(t, new)
      BY <2>7, <2>20, Tasked DEF PurgeBytes, Purged
    <3>2. bytes' \subseteq Files
      BY <2>6, <2>20 DEF FilesTypeOK, PurgeBytes
    <3>3. UNCHANGED <<ticket, row, comment, named, draft, excused, discarded, asked, faults>>
      BY <2>20 DEF PurgeBytes
    <3> QED
      BY <3>1, <3>2, <3>3 DEF FilesTypeOK, Becomes
  <2>21. ASSUME NEW t \in Tasks, PurgeFails(t)
        PROVE  FilesTypeOK'
    <3>1. \E new : Becomes(t, new)
      BY <2>7, <2>21, Tasked DEF PurgeFails, Purged
    <3>2. excused' \subseteq Files
      BY <2>6, <2>21 DEF FilesTypeOK, PurgeFails
    <3>3. faults' \in Nat
      BY <2>6, <2>21 DEF FilesTypeOK, PurgeFails
    <3>4. UNCHANGED <<ticket, row, bytes, comment, named, draft, asked, discarded>>
      BY <2>21 DEF PurgeFails
    <3> QED
      BY <3>1, <3>2, <3>3, <3>4 DEF FilesTypeOK, Becomes
  <2>22. ASSUME NEW t \in Tasks, TakenBack(t)
        PROVE  FilesTypeOK'
    <3>1. \E new : Becomes(t, new)
      BY <2>7, <2>22, Tasked DEF TakenBack
    <3>2. draft' \subseteq Files
      BY <2>6, <2>22 DEF FilesTypeOK, TakenBack
    <3>3. UNCHANGED <<ticket, row, bytes, comment, named, excused, discarded, asked, faults>>
      BY <2>22 DEF TakenBack
    <3> QED
      BY <3>1, <3>2, <3>3 DEF FilesTypeOK, Becomes
  <2>23. ASSUME NEW t \in Tasks, Refused(t)
        PROVE  FilesTypeOK'
    <3>1. \E new : Becomes(t, new)
      BY <2>7, <2>23, Tasked DEF Refused
    <3>2. UNCHANGED <<ticket, row, bytes, comment, named, draft, excused, discarded, asked, faults>>
      BY <2>23 DEF Refused
    <3> QED
      BY <3>1, <3>2 DEF FilesTypeOK, Becomes
  <2>24. CASE UNCHANGED filesVars
    BY <2>24 DEF FilesTypeOK, filesVars
  <2> QED
    BY <2>1, <2>2, <2>3, <2>4, <2>5, <2>8, <2>9, <2>10, <2>11, <2>12, <2>13, <2>14, <2>15, <2>16,
       <2>17, <2>18, <2>19, <2>20, <2>21, <2>22, <2>23, <2>24
    DEF FilesNext
<1> QED
  BY <1>1, <1>2, PTL DEF FilesSpec

-----------------------------------------------------------------------------
(* The same, field by field.                                               *)
Others(t) == \A u \in Tasks : u # t => task'[u] = task[u]

MovesTo(t, at) ==
    /\ task'[t].at = at /\ task'[t].kind = task[t].kind /\ task'[t].files = task[t].files
    /\ task'[t].comment = task[t].comment /\ task'[t].seen = task[t].seen
    /\ Others(t)

IsEnded(t) == task'[t] = Idle /\ task'[t].at = "idle" /\ task'[t].files = {} /\ Others(t)

IsAsked(t, kind, files, k) ==
    /\ task'[t].at = "sent" /\ task'[t].kind = kind /\ task'[t].files = files
    /\ task'[t].comment = k /\ task'[t].seen = {} /\ Others(t)

HasReadOf(t, files, seen) ==
    /\ task'[t].at = "read" /\ task'[t].kind = task[t].kind /\ task'[t].files = files
    /\ task'[t].comment = task[t].comment /\ task'[t].seen = seen /\ Others(t)

(* What Step, End, Ask and Read leave behind: one request moved on, ended, *)
(* begun or told what it read, and every other request as it was.          *)
LEMMA TaskSteps ==
    ASSUME FilesTypeOK, NEW t \in Tasks
    PROVE  /\ \A at \in Steps : Step(t, at) => MovesTo(t, at)
           /\ End(t) => IsEnded(t)
           /\ \A kind \in Kinds, files \in SUBSET Files, k \in Comments \cup {NoComment} :
                  (kind \in {"post", "delete"} => k \in Comments) /\ Ask(t, kind, files, k)
                      => IsAsked(t, kind, files, k) /\ task[t].at = "idle" /\ ticket # "gone"
           /\ \A files \in SUBSET Files, seen \in SUBSET Comments :
                  Read(t, files, seen) => HasReadOf(t, files, seen)
<1>1. ASSUME NEW at \in Steps, Step(t, at)
      PROVE  MovesTo(t, at)
  <2>1. Becomes(t, [task[t] EXCEPT !.at = at])
    BY <1>1, Tasked
  <2>2. task[t] \in TaskType
    BY DEF FilesTypeOK
  <2> QED
    BY <2>1, <2>2 DEF Becomes, MovesTo, Others, TaskType
<1>2. ASSUME End(t)
      PROVE  IsEnded(t)
  BY <1>2, Tasked DEF Becomes, IsEnded, Others
<1>3. ASSUME NEW kind \in Kinds, NEW files \in SUBSET Files, NEW k \in Comments \cup {NoComment},
             kind \in {"post", "delete"} => k \in Comments, Ask(t, kind, files, k)
      PROVE  IsAsked(t, kind, files, k) /\ task[t].at = "idle" /\ ticket # "gone"
  <2> DEFINE new == [at |-> "sent", kind |-> kind, files |-> files, comment |-> k, seen |-> {}]
  <2>1. Becomes(t, new) /\ task[t].at = "idle" /\ ticket # "gone"
    BY <1>3, FilesAsked
  <2>2. task'[t] = new /\ Others(t)
    BY <2>1 DEF Becomes, Others
  <2>3. /\ new.at = "sent" /\ new.kind = kind /\ new.files = files
        /\ new.comment = k /\ new.seen = {}
    OBVIOUS
  <2> HIDE DEF new
  <2> QED
    BY <2>1, <2>2, <2>3 DEF IsAsked
<1>4. ASSUME NEW files \in SUBSET Files, NEW seen \in SUBSET Comments, Read(t, files, seen)
      PROVE  HasReadOf(t, files, seen)
  <2> DEFINE new == [at |-> "read", kind |-> task[t].kind, files |-> files,
                     comment |-> task[t].comment, seen |-> seen]
  <2>1. Becomes(t, new)
    BY <1>4, HasRead
  <2>2. task'[t] = new /\ Others(t)
    BY <2>1 DEF Becomes, Others
  <2>3. /\ new.at = "read" /\ new.kind = task[t].kind /\ new.files = files
        /\ new.comment = task[t].comment /\ new.seen = seen
    OBVIOUS
  <2> HIDE DEF new
  <2> QED
    BY <2>2, <2>3 DEF HasReadOf
<1> QED
  BY <1>1, <1>2, <1>3, <1>4

(* The rows a commit writes, and those it does not.                        *)
RowsBecome(files, value) ==
    \A f \in Files : row'[f] = IF f \in files THEN value ELSE row[f]

(* What each step changes, of requests and rows.                           *)
LEMMA Effects ==
    ASSUME FilesTypeOK, NEW t \in Tasks
    PROVE  /\ \A f \in Files : PickFile(t, f) =>
                 IsAsked(t, "upload", {f}, NoComment) /\ RowsBecome({f}, "none") /\ task[t].at = "idle"
           /\ \A f \in Files : TakeBack(t, f) =>
                 IsAsked(t, "remove", {f}, NoComment) /\ task[t].at = "idle"
           /\ \A f \in Files : DiscardListed(t, f) =>
                 IsAsked(t, "discard", {f}, NoComment) /\ task[t].at = "idle"
           /\ \A k \in Comments : Send(t, k) => IsAsked(t, "post", draft, k) /\ task[t].at = "idle"
           /\ \A k \in Comments : DeleteComment(t, k) => IsAsked(t, "delete", {}, k) /\ task[t].at = "idle"
           /\ PurgeTicket(t) => IsAsked(t, "purge", {}, NoComment) /\ task[t].at = "idle"
           /\ StoreBytes(t) => MovesTo(t, "stored")
           /\ InsertRow(t) => MovesTo(t, "answer") /\ RowsBecome(task[t].files, "loose")
           /\ CommitUnanswered(t) => IsEnded(t) /\ RowsBecome(task[t].files, "loose")
           /\ TakeBytesBack(t) \/ Uploaded(t) \/ CommentSent(t) \/ TakenBack(t) \/ Refused(t) => IsEnded(t)
           /\ FindUnclaimed(t) => HasReadOf(t, task[t].files, Posted)
           /\ PostComment(t) => /\ MovesTo(t, "answer") /\ task[t].comment \in Comments
                                /\ RowsBecome(task[t].files, task[t].comment)
           /\ ReadDoomed(t) => /\ Doomed(t) \subseteq Files
                               /\ HasReadOf(t, Doomed(t), IF task[t].kind = "purge" THEN Posted ELSE {})
           /\ RemoveRow(t) \/ RemoveComment(t) \/ RemoveTicket(t) =>
                 MovesTo(t, "purge") /\ RowsBecome(task[t].files, "none")
           /\ PurgeBytes(t) \/ PurgeFails(t) =>
                 IF task[t].kind = "remove" THEN MovesTo(t, "answer") ELSE IsEnded(t)
<1>1. /\ row \in [Files -> {"unused", "none", "loose"} \cup Comments]
      /\ task[t].files \in SUBSET Files /\ draft \in SUBSET Files /\ {} \in SUBSET Files
      /\ task[t].kind \in {"post", "delete"} => task[t].comment \in Comments
  BY DEF FilesTypeOK, TaskType
<1>2. \A f \in Files : {f} \in SUBSET Files
  OBVIOUS
<1>3. /\ "upload" \in Kinds /\ "remove" \in Kinds /\ "discard" \in Kinds /\ "post" \in Kinds /\ "delete" \in Kinds /\ "purge" \in Kinds
      /\ "stored" \in Steps /\ "answer" \in Steps /\ "purge" \in Steps
  BY DEF Kinds, Steps
<1>4. Posted \in SUBSET Comments /\ Doomed(t) \in SUBSET Files
  BY <1>1 DEF Posted, Doomed, RowsOf
<1>5. ASSUME NEW f \in Files
      PROVE  /\ PickFile(t, f) => IsAsked(t, "upload", {f}, NoComment) /\ RowsBecome({f}, "none") /\ task[t].at = "idle"
             /\ TakeBack(t, f) => IsAsked(t, "remove", {f}, NoComment) /\ task[t].at = "idle"
             /\ DiscardListed(t, f) => IsAsked(t, "discard", {f}, NoComment) /\ task[t].at = "idle"
  BY <1>1, <1>2, <1>3, TaskSteps DEF PickFile, TakeBack, DiscardListed, RowsBecome
<1>6. ASSUME NEW k \in Comments
      PROVE  /\ Send(t, k) => IsAsked(t, "post", draft, k) /\ task[t].at = "idle"
             /\ DeleteComment(t, k) => IsAsked(t, "delete", {}, k) /\ task[t].at = "idle"
  BY <1>1, <1>3, TaskSteps DEF Send, DeleteComment
<1>7. PurgeTicket(t) => IsAsked(t, "purge", {}, NoComment) /\ task[t].at = "idle"
  BY <1>1, <1>3, TaskSteps DEF PurgeTicket
<1>8. /\ StoreBytes(t) => MovesTo(t, "stored")
      /\ InsertRow(t) => MovesTo(t, "answer") /\ RowsBecome(task[t].files, "loose")
      /\ CommitUnanswered(t) => IsEnded(t) /\ RowsBecome(task[t].files, "loose")
  BY <1>1, <1>3, TaskSteps DEF StoreBytes, InsertRow, CommitUnanswered, RowsBecome
<1>9. TakeBytesBack(t) \/ Uploaded(t) \/ CommentSent(t) \/ TakenBack(t) \/ Refused(t) => IsEnded(t)
  BY TaskSteps DEF TakeBytesBack, Uploaded, CommentSent, TakenBack, Refused
<1>10. FindUnclaimed(t) => HasReadOf(t, task[t].files, Posted)
  BY <1>1, <1>4, TaskSteps DEF FindUnclaimed
<1>11. PostComment(t) => /\ MovesTo(t, "answer") /\ task[t].comment \in Comments
                         /\ RowsBecome(task[t].files, task[t].comment)
  BY <1>1, <1>3, TaskSteps DEF PostComment, Is, RowsBecome
<1>12. ReadDoomed(t) => /\ Doomed(t) \subseteq Files
                        /\ HasReadOf(t, Doomed(t), IF task[t].kind = "purge" THEN Posted ELSE {})
  BY <1>4, TaskSteps DEF ReadDoomed
<1>13. RemoveRow(t) \/ RemoveComment(t) \/ RemoveTicket(t) =>
          MovesTo(t, "purge") /\ RowsBecome(task[t].files, "none")
  BY <1>1, <1>3, TaskSteps DEF RemoveRow, RemoveComment, RemoveTicket, WithoutRows, RowsBecome
<1>14. PurgeBytes(t) \/ PurgeFails(t) =>
          IF task[t].kind = "remove" THEN MovesTo(t, "answer") ELSE IsEnded(t)
  BY <1>3, TaskSteps DEF PurgeBytes, PurgeFails, Purged
<1> QED
  BY <1>4, <1>5, <1>6, <1>7, <1>8, <1>9, <1>10, <1>11, <1>12, <1>13, <1>14

-----------------------------------------------------------------------------
(* A file is an upload under a key of its own: nothing knows it before ... *)
Fresh ==
    \A f \in Files : row[f] = "unused" =>
        /\ f \notin draft /\ f \notin bytes
        /\ \A k \in Comments : f \notin named[k]
        /\ \A t \in Tasks : f \notin task[t].files

(* ... and only its upload does until it has its row.                      *)
Uploading(t) == Is(t, "upload", "sent") \/ Is(t, "upload", "stored")

UploadIsPrivate ==
    \A t \in Tasks : Uploading(t) => \A f \in task[t].files :
        /\ row[f] = "none" /\ f \notin draft
        /\ \A k \in Comments : f \notin named[k]
        /\ \A u \in Tasks : f \in task[u].files => u = t

StoredFirst  == \A t \in Tasks : Is(t, "upload", "stored") => task[t].files \subseteq bytes
PurgedLast   == \A t \in Tasks : task[t].at = "purge" => \A f \in task[t].files : ~ HasRow(f)

(* Bytes without a row are about to get one, or to go.                     *)
BytesAreExpected ==
    \A f \in bytes : \/ HasRow(f) \/ f \in excused
                    \/ \E t \in Tasks : /\ f \in task[t].files
                                        /\ Is(t, "upload", "stored") \/ task[t].at = "purge"

RowsInv == Fresh /\ UploadIsPrivate /\ StoredFirst /\ PurgedLast /\ RowHasBytes /\ BytesAreExpected

(* Each step keeps rows and bytes together.                                *)
LEMMA RowsStep ==
    ASSUME FilesTypeOK, RowsInv, FilesNext \/ UNCHANGED filesVars
    PROVE  RowsInv'
<1>1. /\ \A t \in Tasks : task[t].files \subseteq Files
      /\ \A f \in Files : row[f] \in {"unused", "none", "loose"} \cup Comments
      /\ bytes \subseteq Files /\ draft \subseteq Files
  BY DEF FilesTypeOK, TaskType
<1>2. \A k \in Comments : k \notin {"unused", "none", "loose"}
  BY FilesAssumption
<1>3. CASE TrashTicket \/ RestoreTicket
  BY <1>1, <1>2, <1>3 DEF TrashTicket, RestoreTicket, RowsInv, Fresh, UploadIsPrivate, StoredFirst,
     PurgedLast, RowHasBytes, BytesAreExpected, Uploading, Is, HasRow, Others, RowsBecome
<1>4. CASE Crash
  BY <1>1, <1>2, <1>4 DEF Crash, Idle, RowsInv, Fresh, UploadIsPrivate, StoredFirst, PurgedLast,
     RowHasBytes, BytesAreExpected, Uploading, Is, HasRow, Others, RowsBecome
<1>5. ASSUME NEW t \in Tasks, NEW f \in Files, PickFile(t, f)
      PROVE  RowsInv'
  <2>1. IsAsked(t, "upload", {f}, NoComment) /\ RowsBecome({f}, "none") /\ task[t].at = "idle"
    BY <1>5, Effects
  <2>2. row[f] = "unused" /\ UNCHANGED <<bytes, named, draft, excused>>
    BY <1>5 DEF PickFile
  <2>3. Fresh'
    BY <1>1, <1>2, <2>1, <2>2 DEF RowsInv, Fresh, UploadIsPrivate, StoredFirst, PurgedLast,
       RowHasBytes, BytesAreExpected, Uploading, Is, HasRow, Others, RowsBecome, IsAsked
  <2>4. UploadIsPrivate'
    BY <1>1, <1>2, <2>1, <2>2 DEF RowsInv, Fresh, UploadIsPrivate, StoredFirst, PurgedLast,
       RowHasBytes, BytesAreExpected, Uploading, Is, HasRow, Others, RowsBecome, IsAsked
  <2>5. StoredFirst'
    BY <1>1, <1>2, <2>1, <2>2 DEF RowsInv, Fresh, UploadIsPrivate, StoredFirst, PurgedLast,
       RowHasBytes, BytesAreExpected, Uploading, Is, HasRow, Others, RowsBecome, IsAsked
  <2>6. PurgedLast'
    BY <1>1, <1>2, <2>1, <2>2 DEF RowsInv, Fresh, UploadIsPrivate, StoredFirst, PurgedLast,
       RowHasBytes, BytesAreExpected, Uploading, Is, HasRow, Others, RowsBecome, IsAsked
  <2>7. RowHasBytes'
    BY <1>1, <1>2, <2>1, <2>2 DEF RowsInv, Fresh, UploadIsPrivate, StoredFirst, PurgedLast,
       RowHasBytes, BytesAreExpected, Uploading, Is, HasRow, Others, RowsBecome, IsAsked
  <2>8. BytesAreExpected'
    BY <1>1, <1>2, <2>1, <2>2 DEF RowsInv, Fresh, UploadIsPrivate, StoredFirst, PurgedLast,
       RowHasBytes, BytesAreExpected, Uploading, Is, HasRow, Others, RowsBecome, IsAsked
  <2> QED
    BY <2>3, <2>4, <2>5, <2>6, <2>7, <2>8 DEF RowsInv
<1>6. ASSUME NEW t \in Tasks, NEW f \in Files, TakeBack(t, f) \/ DiscardListed(t, f)
      PROVE  RowsInv'
  BY <1>1, <1>2, <1>6, Effects DEF TakeBack, DiscardListed, IsAsked, RowsInv, Fresh, UploadIsPrivate, StoredFirst,
     PurgedLast, RowHasBytes, BytesAreExpected, Uploading, Is, HasRow, Others, RowsBecome
<1>7. ASSUME NEW t \in Tasks, NEW k \in Comments, Send(t, k)
      PROVE  RowsInv'
  <2>1. IsAsked(t, "post", draft, k) /\ task[t].at = "idle"
    BY <1>7, Effects
  <2>2. /\ named' = [named EXCEPT ![k] = draft]
        /\ UNCHANGED <<row, bytes, draft, excused>>
    BY <1>7 DEF Send
  <2>3. \A j \in Comments : named'[j] = named[j] \/ named'[j] = draft
    BY <2>2 DEF FilesTypeOK
  <2>4. Fresh'
    BY <1>1, <1>2, <2>1, <2>2, <2>3 DEF RowsInv, Fresh, UploadIsPrivate, StoredFirst, PurgedLast,
       RowHasBytes, BytesAreExpected, Uploading, Is, HasRow, Others, RowsBecome, IsAsked
  <2>5. UploadIsPrivate'
    BY <1>1, <1>2, <2>1, <2>2, <2>3 DEF RowsInv, Fresh, UploadIsPrivate, StoredFirst, PurgedLast,
       RowHasBytes, BytesAreExpected, Uploading, Is, HasRow, Others, RowsBecome, IsAsked
  <2>6. StoredFirst'
    BY <1>1, <1>2, <2>1, <2>2, <2>3 DEF RowsInv, Fresh, UploadIsPrivate, StoredFirst, PurgedLast,
       RowHasBytes, BytesAreExpected, Uploading, Is, HasRow, Others, RowsBecome, IsAsked
  <2>7. PurgedLast'
    BY <1>1, <1>2, <2>1, <2>2, <2>3 DEF RowsInv, Fresh, UploadIsPrivate, StoredFirst, PurgedLast,
       RowHasBytes, BytesAreExpected, Uploading, Is, HasRow, Others, RowsBecome, IsAsked
  <2>8. RowHasBytes'
    BY <1>1, <1>2, <2>1, <2>2, <2>3 DEF RowsInv, Fresh, UploadIsPrivate, StoredFirst, PurgedLast,
       RowHasBytes, BytesAreExpected, Uploading, Is, HasRow, Others, RowsBecome, IsAsked
  <2>9. BytesAreExpected'
    BY <1>1, <1>2, <2>1, <2>2, <2>3 DEF RowsInv, Fresh, UploadIsPrivate, StoredFirst, PurgedLast,
       RowHasBytes, BytesAreExpected, Uploading, Is, HasRow, Others, RowsBecome, IsAsked
  <2> QED
    BY <2>4, <2>5, <2>6, <2>7, <2>8, <2>9 DEF RowsInv
<1>8. ASSUME NEW t \in Tasks, NEW k \in Comments, DeleteComment(t, k)
      PROVE  RowsInv'
  BY <1>1, <1>2, <1>8, Effects DEF DeleteComment, IsAsked, RowsInv, Fresh, UploadIsPrivate,
     StoredFirst, PurgedLast, RowHasBytes, BytesAreExpected, Uploading, Is, HasRow, Others,
     RowsBecome
<1>9. ASSUME NEW t \in Tasks, PurgeTicket(t)
      PROVE  RowsInv'
  BY <1>1, <1>2, <1>9, Effects DEF PurgeTicket, IsAsked, RowsInv, Fresh, UploadIsPrivate, StoredFirst,
     PurgedLast, RowHasBytes, BytesAreExpected, Uploading, Is, HasRow, Others, RowsBecome
<1>10. ASSUME NEW t \in Tasks, StoreBytes(t)
      PROVE  RowsInv'
  BY <1>1, <1>2, <1>10, Effects DEF StoreBytes, MovesTo, IsEnded, RowsInv, Fresh, UploadIsPrivate,
     StoredFirst, PurgedLast, RowHasBytes, BytesAreExpected, Uploading, Is, HasRow, Others,
     RowsBecome
<1>11. ASSUME NEW t \in Tasks, InsertRow(t)
      PROVE  RowsInv'
  BY <1>1, <1>2, <1>11, Effects DEF InsertRow, MovesTo, IsEnded, RowsInv, Fresh, UploadIsPrivate,
     StoredFirst, PurgedLast, RowHasBytes, BytesAreExpected, Uploading, Is, HasRow, Others,
     RowsBecome
<1>12. ASSUME NEW t \in Tasks, TakeBytesBack(t)
      PROVE  RowsInv'
  BY <1>1, <1>2, <1>12, Effects DEF TakeBytesBack, MovesTo, IsEnded, RowsInv, Fresh, UploadIsPrivate,
     StoredFirst, PurgedLast, RowHasBytes, BytesAreExpected, Uploading, Is, HasRow, Others,
     RowsBecome
<1>13. ASSUME NEW t \in Tasks, CommitUnanswered(t)
      PROVE  RowsInv'
  BY <1>1, <1>2, <1>13, Effects DEF CommitUnanswered, MovesTo, IsEnded, RowsInv, Fresh, UploadIsPrivate,
     StoredFirst, PurgedLast, RowHasBytes, BytesAreExpected, Uploading, Is, HasRow, Others,
     RowsBecome
<1>14. ASSUME NEW t \in Tasks, Uploaded(t)
      PROVE  RowsInv'
  BY <1>1, <1>2, <1>14, Effects DEF Uploaded, MovesTo, IsEnded, RowsInv, Fresh, UploadIsPrivate,
     StoredFirst, PurgedLast, RowHasBytes, BytesAreExpected, Uploading, Is, HasRow, Others,
     RowsBecome
<1>15. ASSUME NEW t \in Tasks, FindUnclaimed(t)
      PROVE  RowsInv'
  BY <1>1, <1>2, <1>15, Effects DEF FindUnclaimed, HasReadOf, RowsInv, Fresh, UploadIsPrivate,
     StoredFirst, PurgedLast, RowHasBytes, BytesAreExpected, Uploading, Is, HasRow, Others,
     RowsBecome
<1>16. ASSUME NEW t \in Tasks, PostComment(t)
      PROVE  RowsInv'
  <2>1. /\ MovesTo(t, "answer") /\ task[t].comment \in Comments
        /\ RowsBecome(task[t].files, task[t].comment)
    BY <1>16, Effects
  <2>2. /\ \A f \in task[t].files : HasRow(f)
        /\ UNCHANGED <<bytes, named, draft, excused>>
    BY <1>16 DEF PostComment
  <2>3. task[t].kind = "post" /\ task[t].at = "read"
    BY <1>16 DEF PostComment, Is
  <2>4. Fresh'
    BY <1>1, <1>2, <2>1, <2>2, <2>3 DEF RowsInv, Fresh, UploadIsPrivate, StoredFirst, PurgedLast,
       RowHasBytes, BytesAreExpected, Uploading, Is, HasRow, Others, RowsBecome, MovesTo
  <2>5. UploadIsPrivate'
    BY <1>1, <1>2, <2>1, <2>2, <2>3 DEF RowsInv, Fresh, UploadIsPrivate, StoredFirst, PurgedLast,
       RowHasBytes, BytesAreExpected, Uploading, Is, HasRow, Others, RowsBecome, MovesTo
  <2>6. StoredFirst'
    BY <1>1, <1>2, <2>1, <2>2, <2>3 DEF RowsInv, Fresh, UploadIsPrivate, StoredFirst, PurgedLast,
       RowHasBytes, BytesAreExpected, Uploading, Is, HasRow, Others, RowsBecome, MovesTo
  <2>7. PurgedLast'
    BY <1>1, <1>2, <2>1, <2>2, <2>3 DEF RowsInv, Fresh, UploadIsPrivate, StoredFirst, PurgedLast,
       RowHasBytes, BytesAreExpected, Uploading, Is, HasRow, Others, RowsBecome, MovesTo
  <2>8. RowHasBytes'
    BY <1>1, <1>2, <2>1, <2>2, <2>3 DEF RowsInv, Fresh, UploadIsPrivate, StoredFirst, PurgedLast,
       RowHasBytes, BytesAreExpected, Uploading, Is, HasRow, Others, RowsBecome, MovesTo
  <2>9. BytesAreExpected'
    BY <1>1, <1>2, <2>1, <2>2, <2>3 DEF RowsInv, Fresh, UploadIsPrivate, StoredFirst, PurgedLast,
       RowHasBytes, BytesAreExpected, Uploading, Is, HasRow, Others, RowsBecome, MovesTo
  <2> QED
    BY <2>4, <2>5, <2>6, <2>7, <2>8, <2>9 DEF RowsInv
<1>17. ASSUME NEW t \in Tasks, CommentSent(t)
      PROVE  RowsInv'
  BY <1>1, <1>2, <1>17, Effects DEF CommentSent, MovesTo, IsEnded, RowsInv, Fresh, UploadIsPrivate,
     StoredFirst, PurgedLast, RowHasBytes, BytesAreExpected, Uploading, Is, HasRow, Others,
     RowsBecome
<1>18. ASSUME NEW t \in Tasks, ReadDoomed(t)
      PROVE  RowsInv'
  <2>1. \E seen : HasReadOf(t, Doomed(t), seen)
    BY <1>18, Effects
  <2>2. \A f \in Doomed(t) : HasRow(f)
    <3>1. task[t].kind = "delete" => task[t].comment \in Comments
      BY DEF FilesTypeOK
    <3>2. /\ task[t].kind \in {"remove", "discard", "delete", "purge"}
          /\ \A f \in task[t].files : HasRow(f)
      BY <1>18 DEF ReadDoomed
    <3>3. CASE task[t].kind \in {"remove", "discard"}
      BY <3>2, <3>3 DEF Doomed
    <3>4. CASE task[t].kind = "delete"
      BY <1>2, <3>1, <3>4 DEF Doomed, RowsOf, HasRow
    <3>5. CASE task[t].kind = "purge"
      BY <3>5 DEF Doomed
    <3> QED
      BY <3>2, <3>3, <3>4, <3>5
  <2>3. task[t].at = "sent" /\ task[t].kind # "upload"
    BY <1>18 DEF ReadDoomed
  <2>4. UNCHANGED <<row, bytes, named, draft, excused>>
    BY <1>18 DEF ReadDoomed
  <2>5. Fresh'
    BY <1>1, <1>2, <2>1, <2>2, <2>3, <2>4 DEF RowsInv, Fresh, UploadIsPrivate, StoredFirst,
       PurgedLast, RowHasBytes, BytesAreExpected, Uploading, Is, HasRow, Others, RowsBecome,
       HasReadOf
  <2>6. UploadIsPrivate'
    BY <1>1, <1>2, <2>1, <2>2, <2>3, <2>4 DEF RowsInv, Fresh, UploadIsPrivate, StoredFirst,
       PurgedLast, RowHasBytes, BytesAreExpected, Uploading, Is, HasRow, Others, RowsBecome,
       HasReadOf
  <2>7. StoredFirst'
    BY <1>1, <1>2, <2>1, <2>2, <2>3, <2>4 DEF RowsInv, Fresh, UploadIsPrivate, StoredFirst,
       PurgedLast, RowHasBytes, BytesAreExpected, Uploading, Is, HasRow, Others, RowsBecome,
       HasReadOf
  <2>8. PurgedLast'
    BY <1>1, <1>2, <2>1, <2>2, <2>3, <2>4 DEF RowsInv, Fresh, UploadIsPrivate, StoredFirst,
       PurgedLast, RowHasBytes, BytesAreExpected, Uploading, Is, HasRow, Others, RowsBecome,
       HasReadOf
  <2>9. RowHasBytes'
    BY <1>1, <1>2, <2>1, <2>2, <2>3, <2>4 DEF RowsInv, Fresh, UploadIsPrivate, StoredFirst,
       PurgedLast, RowHasBytes, BytesAreExpected, Uploading, Is, HasRow, Others, RowsBecome,
       HasReadOf
  <2>10. BytesAreExpected'
    BY <1>1, <1>2, <2>1, <2>2, <2>3, <2>4 DEF RowsInv, Fresh, UploadIsPrivate, StoredFirst,
       PurgedLast, RowHasBytes, BytesAreExpected, Uploading, Is, HasRow, Others, RowsBecome,
       HasReadOf
  <2> QED
    BY <2>5, <2>6, <2>7, <2>8, <2>9, <2>10 DEF RowsInv
<1>19. ASSUME NEW t \in Tasks, RemoveRow(t)
      PROVE  RowsInv'
  <2>1. MovesTo(t, "purge") /\ RowsBecome(task[t].files, "none")
    BY <1>19, Effects
  <2>2. task[t].kind # "upload" /\ task[t].at = "read"
    BY <1>19 DEF RemoveRow, Is
  <2>3. UNCHANGED <<bytes, named, draft, excused>>
    BY <1>19 DEF RemoveRow
  <2>4. Fresh'
    BY <1>1, <1>2, <2>1, <2>2, <2>3 DEF RowsInv, Fresh, UploadIsPrivate, StoredFirst, PurgedLast,
       RowHasBytes, BytesAreExpected, Uploading, Is, HasRow, Others, RowsBecome, MovesTo
  <2>5. UploadIsPrivate'
    BY <1>1, <1>2, <2>1, <2>2, <2>3 DEF RowsInv, Fresh, UploadIsPrivate, StoredFirst, PurgedLast,
       RowHasBytes, BytesAreExpected, Uploading, Is, HasRow, Others, RowsBecome, MovesTo
  <2>6. StoredFirst'
    BY <1>1, <1>2, <2>1, <2>2, <2>3 DEF RowsInv, Fresh, UploadIsPrivate, StoredFirst, PurgedLast,
       RowHasBytes, BytesAreExpected, Uploading, Is, HasRow, Others, RowsBecome, MovesTo
  <2>7. PurgedLast'
    BY <1>1, <1>2, <2>1, <2>2, <2>3 DEF RowsInv, Fresh, UploadIsPrivate, StoredFirst, PurgedLast,
       RowHasBytes, BytesAreExpected, Uploading, Is, HasRow, Others, RowsBecome, MovesTo
  <2>8. RowHasBytes'
    BY <1>1, <1>2, <2>1, <2>2, <2>3 DEF RowsInv, Fresh, UploadIsPrivate, StoredFirst, PurgedLast,
       RowHasBytes, BytesAreExpected, Uploading, Is, HasRow, Others, RowsBecome, MovesTo
  <2>9. BytesAreExpected'
    BY <1>1, <1>2, <2>1, <2>2, <2>3 DEF RowsInv, Fresh, UploadIsPrivate, StoredFirst, PurgedLast,
       RowHasBytes, BytesAreExpected, Uploading, Is, HasRow, Others, RowsBecome, MovesTo
  <2> QED
    BY <2>4, <2>5, <2>6, <2>7, <2>8, <2>9 DEF RowsInv
<1>20. ASSUME NEW t \in Tasks, RemoveComment(t)
      PROVE  RowsInv'
  <2>1. MovesTo(t, "purge") /\ RowsBecome(task[t].files, "none")
    BY <1>20, Effects
  <2>2. task[t].kind = "delete" /\ task[t].at = "read"
    BY <1>20 DEF RemoveComment, Is
  <2>3. UNCHANGED <<bytes, named, draft, excused>>
    BY <1>20 DEF RemoveComment
  <2>4. Fresh'
    BY <1>1, <1>2, <2>1, <2>2, <2>3 DEF RowsInv, Fresh, UploadIsPrivate, StoredFirst, PurgedLast,
       RowHasBytes, BytesAreExpected, Uploading, Is, HasRow, Others, RowsBecome, MovesTo
  <2>5. UploadIsPrivate'
    BY <1>1, <1>2, <2>1, <2>2, <2>3 DEF RowsInv, Fresh, UploadIsPrivate, StoredFirst, PurgedLast,
       RowHasBytes, BytesAreExpected, Uploading, Is, HasRow, Others, RowsBecome, MovesTo
  <2>6. StoredFirst'
    BY <1>1, <1>2, <2>1, <2>2, <2>3 DEF RowsInv, Fresh, UploadIsPrivate, StoredFirst, PurgedLast,
       RowHasBytes, BytesAreExpected, Uploading, Is, HasRow, Others, RowsBecome, MovesTo
  <2>7. PurgedLast'
    BY <1>1, <1>2, <2>1, <2>2, <2>3 DEF RowsInv, Fresh, UploadIsPrivate, StoredFirst, PurgedLast,
       RowHasBytes, BytesAreExpected, Uploading, Is, HasRow, Others, RowsBecome, MovesTo
  <2>8. RowHasBytes'
    BY <1>1, <1>2, <2>1, <2>2, <2>3 DEF RowsInv, Fresh, UploadIsPrivate, StoredFirst, PurgedLast,
       RowHasBytes, BytesAreExpected, Uploading, Is, HasRow, Others, RowsBecome, MovesTo
  <2>9. BytesAreExpected'
    BY <1>1, <1>2, <2>1, <2>2, <2>3 DEF RowsInv, Fresh, UploadIsPrivate, StoredFirst, PurgedLast,
       RowHasBytes, BytesAreExpected, Uploading, Is, HasRow, Others, RowsBecome, MovesTo
  <2> QED
    BY <2>4, <2>5, <2>6, <2>7, <2>8, <2>9 DEF RowsInv
<1>21. ASSUME NEW t \in Tasks, RemoveTicket(t)
      PROVE  RowsInv'
  BY <1>1, <1>2, <1>21, Effects DEF RemoveTicket, MovesTo, IsEnded, RowsInv, Fresh, UploadIsPrivate,
     StoredFirst, PurgedLast, RowHasBytes, BytesAreExpected, Uploading, Is, HasRow, Others,
     RowsBecome
<1>22. ASSUME NEW t \in Tasks, PurgeBytes(t)
      PROVE  RowsInv'
  BY <1>1, <1>2, <1>22, Effects DEF PurgeBytes, MovesTo, IsEnded, RowsInv, Fresh, UploadIsPrivate,
     StoredFirst, PurgedLast, RowHasBytes, BytesAreExpected, Uploading, Is, HasRow, Others,
     RowsBecome
<1>23. ASSUME NEW t \in Tasks, PurgeFails(t)
      PROVE  RowsInv'
  BY <1>1, <1>2, <1>23, Effects DEF PurgeFails, MovesTo, IsEnded, RowsInv, Fresh, UploadIsPrivate,
     StoredFirst, PurgedLast, RowHasBytes, BytesAreExpected, Uploading, Is, HasRow, Others,
     RowsBecome
<1>24. ASSUME NEW t \in Tasks, TakenBack(t)
      PROVE  RowsInv'
  BY <1>1, <1>2, <1>24, Effects DEF TakenBack, MovesTo, IsEnded, RowsInv, Fresh, UploadIsPrivate,
     StoredFirst, PurgedLast, RowHasBytes, BytesAreExpected, Uploading, Is, HasRow, Others,
     RowsBecome
<1>25. ASSUME NEW t \in Tasks, Refused(t)
      PROVE  RowsInv'
  BY <1>1, <1>2, <1>25, Effects DEF Refused, MovesTo, IsEnded, RowsInv, Fresh, UploadIsPrivate,
     StoredFirst, PurgedLast, RowHasBytes, BytesAreExpected, Uploading, Is, HasRow, Others,
     RowsBecome
<1>26. CASE UNCHANGED filesVars
  BY <1>26 DEF filesVars, RowsInv, Fresh, UploadIsPrivate, StoredFirst, PurgedLast, RowHasBytes,
     BytesAreExpected, Uploading, Is, HasRow, Others, RowsBecome
<1> QED
  BY <1>3, <1>4, <1>5, <1>6, <1>7, <1>8, <1>9, <1>10, <1>11, <1>12, <1>13, <1>14, <1>15, <1>16,
     <1>17, <1>18, <1>19, <1>20, <1>21, <1>22, <1>23, <1>24, <1>25, <1>26
  DEF FilesNext

(* Every row has its bytes and nothing else is left in the storage, but    *)
(* for what a fault may have left. (attachments.py)                        *)
THEOREM RowsCorrect == FilesSpec => []RowsAndBytes
<1>1. FilesInit => RowsInv
  BY DEF FilesInit, RowsInv, Fresh, UploadIsPrivate, StoredFirst, PurgedLast, RowHasBytes,
     BytesAreExpected, Uploading, Is, HasRow, Idle
<1>2. FilesTypeOK /\ RowsInv /\ [FilesNext]_filesVars => RowsInv'
  BY RowsStep
<1>3. RowsInv => RowsAndBytes
  BY DEF RowsInv, RowsAndBytes, NoStrayBytes, BytesAreExpected
<1> QED
  BY <1>1, <1>2, <1>3, FilesTypeCorrect, PTL DEF FilesSpec

-----------------------------------------------------------------------------
(* A comment is sent by one request, with the files it was written with.   *)
Sending(t) == Is(t, "post", "sent") \/ Is(t, "post", "read")

PostsItsOwn ==
    \A t \in Tasks : Sending(t) =>
        /\ comment[task[t].comment] = "sent" /\ task[t].files = named[task[t].comment]
        /\ \A u \in Tasks : Sending(u) /\ task[u].comment = task[t].comment => u = t

(* What a request means to delete, or has seen, was posted.                *)
DeletesPosted ==
    \A t \in Tasks : task[t].kind = "delete" => comment[task[t].comment] \in {"posted", "deleted"}

SeenWasPosted == \A t \in Tasks : \A k \in task[t].seen : comment[k] \in {"posted", "deleted"}

(* What it found unclaimed can only have been claimed since.               *)
ClaimedSince ==
    \A t \in Tasks : Is(t, "post", "read") => \A f \in task[t].files : row[f] \notin task[t].seen

RowsAreNamed ==
    \A f \in Files : row[f] \in Comments => comment[row[f]] = "posted" /\ f \in named[row[f]]

CommentsInv ==
    /\ PostsItsOwn /\ DeletesPosted /\ SeenWasPosted /\ ClaimedSince /\ RowsAreNamed
    /\ CommentIsWhole /\ NothingOutlivesTheTicket

(* Most steps leave each request what it was of comments, or out of them.  *)
Keeps(t) ==
    \/ /\ task'[t].kind = task[t].kind /\ task'[t].files = task[t].files
       /\ task'[t].comment = task[t].comment /\ task'[t].seen = task[t].seen
       /\ Is(t, "post", "sent")' => Is(t, "post", "sent")
       /\ Is(t, "post", "read")' => Is(t, "post", "read")
    \/ task'[t].kind \notin {"post", "delete"} /\ task'[t].seen = {}

(* They keep comments and their files together.                            *)
LEMMA NoCommentTouched ==
    ASSUME FilesTypeOK, CommentsInv, UNCHANGED <<comment, named>>,
           \A t \in Tasks : Keeps(t), ticket' = "gone" <=> ticket = "gone",
           \A f \in Files : \/ row'[f] = row[f] \/ row'[f] = "none"
                           \/ /\ row'[f] = "loose" /\ ticket # "gone"
                              /\ \A k \in Comments : f \notin named[k]
    PROVE  CommentsInv'
<1>1. /\ \A f \in Files : row[f] \in {"unused", "none", "loose"} \cup Comments
      /\ \A k \in Comments : k \notin {"unused", "none", "loose"} /\ named[k] \subseteq Files
      /\ \A t \in Tasks : task[t].seen \subseteq Comments /\ task[t].files \subseteq Files
  BY FilesAssumption DEF FilesTypeOK, TaskType
<1>2. PostsItsOwn'
  BY DEF CommentsInv, PostsItsOwn, Sending, Is, Keeps
<1>3. DeletesPosted'
  BY DEF CommentsInv, DeletesPosted, Keeps
<1>4. SeenWasPosted'
  BY DEF CommentsInv, SeenWasPosted, Keeps
<1>5. ClaimedSince'
  <2> SUFFICES ASSUME NEW t \in Tasks, Is(t, "post", "read")', NEW f \in task'[t].files
               PROVE  row'[f] \notin task'[t].seen
    BY DEF ClaimedSince
  <2>1. /\ Is(t, "post", "read") /\ task'[t].files = task[t].files /\ task'[t].seen = task[t].seen
    BY DEF Keeps, Is
  <2> QED
    BY <1>1, <2>1 DEF CommentsInv, ClaimedSince
<1>6. RowsAreNamed'
  BY <1>1 DEF CommentsInv, RowsAreNamed
<1>7. CommentIsWhole'
  BY <1>1 DEF CommentsInv, CommentIsWhole, Posted
<1>8. NothingOutlivesTheTicket'
  BY DEF CommentsInv, NothingOutlivesTheTicket, Posted, HasRow
<1> QED
  BY <1>2, <1>3, <1>4, <1>5, <1>6, <1>7, <1>8 DEF CommentsInv

(* Each step keeps comments and their files together.                      *)
LEMMA CommentsStep ==
    ASSUME FilesTypeOK, RowsInv, CommentsInv, FilesNext \/ UNCHANGED filesVars
    PROVE  CommentsInv'
<1>1. /\ \A t \in Tasks : task[t].files \subseteq Files /\ task[t].seen \subseteq Comments
      /\ \A t \in Tasks : task[t].kind \in {"post", "delete"} => task[t].comment \in Comments
      /\ \A f \in Files : row[f] \in {"unused", "none", "loose"} \cup Comments
      /\ \A k \in Comments : named[k] \subseteq Files
      /\ DOMAIN comment = Comments /\ DOMAIN named = Comments /\ draft \subseteq Files
  BY DEF FilesTypeOK, TaskType
<1>2. \A k \in Comments : k \notin {"unused", "none", "loose"}
  BY FilesAssumption
<1>3. CASE TrashTicket \/ RestoreTicket
  <2>1. \A u \in Tasks : Keeps(u)
    BY <1>3 DEF TrashTicket, RestoreTicket, Keeps, Is
  <2>2. UNCHANGED <<comment, named>> /\ (ticket' = "gone" <=> ticket = "gone")
    BY <1>3 DEF TrashTicket, RestoreTicket
  <2>3. \A g \in Files : \/ row'[g] = row[g] \/ row'[g] = "none"
                          \/ /\ row'[g] = "loose" /\ ticket # "gone"
                             /\ \A k \in Comments : g \notin named[k]
    BY <1>3 DEF TrashTicket, RestoreTicket
  <2> QED
    BY <2>1, <2>2, <2>3, NoCommentTouched
<1>4. CASE Crash
  <2>1. \A u \in Tasks : Keeps(u)
    BY <1>4 DEF Crash, Keeps, Idle
  <2>2. UNCHANGED <<comment, named>> /\ (ticket' = "gone" <=> ticket = "gone")
    BY <1>4 DEF Crash
  <2>3. \A g \in Files : \/ row'[g] = row[g] \/ row'[g] = "none"
                          \/ /\ row'[g] = "loose" /\ ticket # "gone"
                             /\ \A k \in Comments : g \notin named[k]
    BY <1>4 DEF Crash
  <2> QED
    BY <2>1, <2>2, <2>3, NoCommentTouched
<1>5. ASSUME NEW t \in Tasks, NEW f \in Files, PickFile(t, f)
      PROVE  CommentsInv'
  <2>1. \A u \in Tasks : Keeps(u)
    BY <1>5, Effects DEF PickFile, MovesTo, IsEnded, IsAsked, Others, Keeps, Is, Idle
  <2>2. UNCHANGED <<comment, named>> /\ (ticket' = "gone" <=> ticket = "gone")
    BY <1>5 DEF PickFile
  <2>3. \A g \in Files : \/ row'[g] = row[g] \/ row'[g] = "none"
                          \/ /\ row'[g] = "loose" /\ ticket # "gone"
                             /\ \A k \in Comments : g \notin named[k]
    BY <1>5, Effects DEF RowsBecome
  <2> QED
    BY <2>1, <2>2, <2>3, NoCommentTouched
<1>6. ASSUME NEW t \in Tasks, NEW f \in Files, TakeBack(t, f) \/ DiscardListed(t, f)
      PROVE  CommentsInv'
  <2>1. \A u \in Tasks : Keeps(u)
    BY <1>6, Effects DEF TakeBack, DiscardListed, MovesTo, IsEnded, IsAsked, Others, Keeps, Is, Idle
  <2>2. UNCHANGED <<comment, named>> /\ (ticket' = "gone" <=> ticket = "gone")
    BY <1>6 DEF TakeBack, DiscardListed
  <2>3. \A g \in Files : \/ row'[g] = row[g] \/ row'[g] = "none"
                          \/ /\ row'[g] = "loose" /\ ticket # "gone"
                             /\ \A k \in Comments : g \notin named[k]
    BY <1>6 DEF TakeBack, DiscardListed
  <2> QED
    BY <2>1, <2>2, <2>3, NoCommentTouched
<1>7. ASSUME NEW t \in Tasks, PurgeTicket(t)
      PROVE  CommentsInv'
  <2>1. \A u \in Tasks : Keeps(u)
    BY <1>7, Effects DEF PurgeTicket, MovesTo, IsEnded, IsAsked, Others, Keeps, Is, Idle
  <2>2. UNCHANGED <<comment, named>> /\ (ticket' = "gone" <=> ticket = "gone")
    BY <1>7 DEF PurgeTicket
  <2>3. \A g \in Files : \/ row'[g] = row[g] \/ row'[g] = "none"
                          \/ /\ row'[g] = "loose" /\ ticket # "gone"
                             /\ \A k \in Comments : g \notin named[k]
    BY <1>7 DEF PurgeTicket
  <2> QED
    BY <2>1, <2>2, <2>3, NoCommentTouched
<1>8. ASSUME NEW t \in Tasks, StoreBytes(t)
      PROVE  CommentsInv'
  <2>1. \A u \in Tasks : Keeps(u)
    BY <1>8, Effects DEF StoreBytes, MovesTo, IsEnded, IsAsked, Others, Keeps, Is, Idle
  <2>2. UNCHANGED <<comment, named>> /\ (ticket' = "gone" <=> ticket = "gone")
    BY <1>8 DEF StoreBytes
  <2>3. \A g \in Files : \/ row'[g] = row[g] \/ row'[g] = "none"
                          \/ /\ row'[g] = "loose" /\ ticket # "gone"
                             /\ \A k \in Comments : g \notin named[k]
    BY <1>8 DEF StoreBytes
  <2> QED
    BY <2>1, <2>2, <2>3, NoCommentTouched
<1>9. ASSUME NEW t \in Tasks, InsertRow(t)
      PROVE  CommentsInv'
  <2>1. \A u \in Tasks : Keeps(u)
    BY <1>9, Effects DEF InsertRow, MovesTo, IsEnded, IsAsked, Others, Keeps, Is, Idle
  <2>2. UNCHANGED <<comment, named>> /\ (ticket' = "gone" <=> ticket = "gone")
    BY <1>9 DEF InsertRow
  <2>3. \A g \in Files : \/ row'[g] = row[g] \/ row'[g] = "none"
                          \/ /\ row'[g] = "loose" /\ ticket # "gone"
                             /\ \A k \in Comments : g \notin named[k]
    BY <1>9, Effects DEF InsertRow, RowsBecome, RowsInv, UploadIsPrivate, Uploading, Is
  <2> QED
    BY <2>1, <2>2, <2>3, NoCommentTouched
<1>10. ASSUME NEW t \in Tasks, TakeBytesBack(t)
      PROVE  CommentsInv'
  <2>1. \A u \in Tasks : Keeps(u)
    BY <1>10, Effects DEF TakeBytesBack, MovesTo, IsEnded, IsAsked, Others, Keeps, Is, Idle
  <2>2. UNCHANGED <<comment, named>> /\ (ticket' = "gone" <=> ticket = "gone")
    BY <1>10 DEF TakeBytesBack
  <2>3. \A g \in Files : \/ row'[g] = row[g] \/ row'[g] = "none"
                          \/ /\ row'[g] = "loose" /\ ticket # "gone"
                             /\ \A k \in Comments : g \notin named[k]
    BY <1>10 DEF TakeBytesBack
  <2> QED
    BY <2>1, <2>2, <2>3, NoCommentTouched
<1>11. ASSUME NEW t \in Tasks, CommitUnanswered(t)
      PROVE  CommentsInv'
  <2>1. \A u \in Tasks : Keeps(u)
    BY <1>11, Effects DEF CommitUnanswered, MovesTo, IsEnded, IsAsked, Others, Keeps, Is, Idle
  <2>2. UNCHANGED <<comment, named>> /\ (ticket' = "gone" <=> ticket = "gone")
    BY <1>11 DEF CommitUnanswered
  <2>3. \A g \in Files : \/ row'[g] = row[g] \/ row'[g] = "none"
                          \/ /\ row'[g] = "loose" /\ ticket # "gone"
                             /\ \A k \in Comments : g \notin named[k]
    BY <1>11, Effects DEF CommitUnanswered, RowsBecome, RowsInv, UploadIsPrivate, Uploading, Is
  <2> QED
    BY <2>1, <2>2, <2>3, NoCommentTouched
<1>12. ASSUME NEW t \in Tasks, Uploaded(t)
      PROVE  CommentsInv'
  <2>1. \A u \in Tasks : Keeps(u)
    BY <1>12, Effects DEF Uploaded, MovesTo, IsEnded, IsAsked, Others, Keeps, Is, Idle
  <2>2. UNCHANGED <<comment, named>> /\ (ticket' = "gone" <=> ticket = "gone")
    BY <1>12 DEF Uploaded
  <2>3. \A g \in Files : \/ row'[g] = row[g] \/ row'[g] = "none"
                          \/ /\ row'[g] = "loose" /\ ticket # "gone"
                             /\ \A k \in Comments : g \notin named[k]
    BY <1>12 DEF Uploaded
  <2> QED
    BY <2>1, <2>2, <2>3, NoCommentTouched
<1>13. ASSUME NEW t \in Tasks, CommentSent(t)
      PROVE  CommentsInv'
  <2>1. \A u \in Tasks : Keeps(u)
    BY <1>13, Effects DEF CommentSent, MovesTo, IsEnded, IsAsked, Others, Keeps, Is, Idle
  <2>2. UNCHANGED <<comment, named>> /\ (ticket' = "gone" <=> ticket = "gone")
    BY <1>13 DEF CommentSent
  <2>3. \A g \in Files : \/ row'[g] = row[g] \/ row'[g] = "none"
                          \/ /\ row'[g] = "loose" /\ ticket # "gone"
                             /\ \A k \in Comments : g \notin named[k]
    BY <1>13 DEF CommentSent
  <2> QED
    BY <2>1, <2>2, <2>3, NoCommentTouched
<1>14. ASSUME NEW t \in Tasks, RemoveRow(t)
      PROVE  CommentsInv'
  <2>1. \A u \in Tasks : Keeps(u)
    BY <1>14, Effects DEF RemoveRow, MovesTo, IsEnded, IsAsked, Others, Keeps, Is, Idle
  <2>2. UNCHANGED <<comment, named>> /\ (ticket' = "gone" <=> ticket = "gone")
    BY <1>14 DEF RemoveRow
  <2>3. \A g \in Files : \/ row'[g] = row[g] \/ row'[g] = "none"
                          \/ /\ row'[g] = "loose" /\ ticket # "gone"
                             /\ \A k \in Comments : g \notin named[k]
    BY <1>14, Effects DEF RowsBecome
  <2> QED
    BY <2>1, <2>2, <2>3, NoCommentTouched
<1>15. ASSUME NEW t \in Tasks, PurgeBytes(t)
      PROVE  CommentsInv'
  <2>1. \A u \in Tasks : Keeps(u)
    BY <1>15, Effects DEF PurgeBytes, MovesTo, IsEnded, IsAsked, Others, Keeps, Is, Idle
  <2>2. UNCHANGED <<comment, named>> /\ (ticket' = "gone" <=> ticket = "gone")
    BY <1>15 DEF PurgeBytes
  <2>3. \A g \in Files : \/ row'[g] = row[g] \/ row'[g] = "none"
                          \/ /\ row'[g] = "loose" /\ ticket # "gone"
                             /\ \A k \in Comments : g \notin named[k]
    BY <1>15 DEF PurgeBytes
  <2> QED
    BY <2>1, <2>2, <2>3, NoCommentTouched
<1>16. ASSUME NEW t \in Tasks, PurgeFails(t)
      PROVE  CommentsInv'
  <2>1. \A u \in Tasks : Keeps(u)
    BY <1>16, Effects DEF PurgeFails, MovesTo, IsEnded, IsAsked, Others, Keeps, Is, Idle
  <2>2. UNCHANGED <<comment, named>> /\ (ticket' = "gone" <=> ticket = "gone")
    BY <1>16 DEF PurgeFails
  <2>3. \A g \in Files : \/ row'[g] = row[g] \/ row'[g] = "none"
                          \/ /\ row'[g] = "loose" /\ ticket # "gone"
                             /\ \A k \in Comments : g \notin named[k]
    BY <1>16 DEF PurgeFails
  <2> QED
    BY <2>1, <2>2, <2>3, NoCommentTouched
<1>17. ASSUME NEW t \in Tasks, TakenBack(t)
      PROVE  CommentsInv'
  <2>1. \A u \in Tasks : Keeps(u)
    BY <1>17, Effects DEF TakenBack, MovesTo, IsEnded, IsAsked, Others, Keeps, Is, Idle
  <2>2. UNCHANGED <<comment, named>> /\ (ticket' = "gone" <=> ticket = "gone")
    BY <1>17 DEF TakenBack
  <2>3. \A g \in Files : \/ row'[g] = row[g] \/ row'[g] = "none"
                          \/ /\ row'[g] = "loose" /\ ticket # "gone"
                             /\ \A k \in Comments : g \notin named[k]
    BY <1>17 DEF TakenBack
  <2> QED
    BY <2>1, <2>2, <2>3, NoCommentTouched
<1>18. ASSUME NEW t \in Tasks, Refused(t)
      PROVE  CommentsInv'
  <2>1. \A u \in Tasks : Keeps(u)
    BY <1>18, Effects DEF Refused, MovesTo, IsEnded, IsAsked, Others, Keeps, Is, Idle
  <2>2. UNCHANGED <<comment, named>> /\ (ticket' = "gone" <=> ticket = "gone")
    BY <1>18 DEF Refused
  <2>3. \A g \in Files : \/ row'[g] = row[g] \/ row'[g] = "none"
                          \/ /\ row'[g] = "loose" /\ ticket # "gone"
                             /\ \A k \in Comments : g \notin named[k]
    BY <1>18 DEF Refused
  <2> QED
    BY <2>1, <2>2, <2>3, NoCommentTouched
<1>19. ASSUME NEW t \in Tasks, NEW k \in Comments, Send(t, k)
      PROVE  CommentsInv'
  <2>1. IsAsked(t, "post", draft, k) /\ task[t].at = "idle"
    BY <1>19, Effects
  <2>2. /\ comment[k] = "unwritten" /\ comment' = [comment EXCEPT ![k] = "sent"]
        /\ named' = [named EXCEPT ![k] = draft]
        /\ UNCHANGED <<row, ticket>>
    BY <1>19 DEF Send
  <2>3. /\ comment'[k] = "sent" /\ named'[k] = draft
        /\ \A j \in Comments : j # k => comment'[j] = comment[j] /\ named'[j] = named[j]
    BY <1>1, <2>2
  <2>4. PostsItsOwn'
    BY <1>1, <1>2, <2>1, <2>2, <2>3 DEF CommentsInv, PostsItsOwn, Others, IsAsked, MovesTo,
       HasReadOf, Sending, Is
  <2>5. DeletesPosted'
    BY <1>1, <1>2, <2>1, <2>2, <2>3 DEF CommentsInv, DeletesPosted, Others, IsAsked, MovesTo,
       HasReadOf
  <2>6. SeenWasPosted'
    BY <1>1, <1>2, <2>1, <2>2, <2>3 DEF CommentsInv, SeenWasPosted, Others, IsAsked, MovesTo,
       HasReadOf, PostsItsOwn, Sending, Is
  <2>7. ClaimedSince'
    BY <1>1, <1>2, <2>1, <2>2, <2>3 DEF CommentsInv, ClaimedSince, Others, IsAsked, MovesTo,
       HasReadOf, Is, RowsAreNamed, PostsItsOwn, SeenWasPosted, Sending
  <2>8. RowsAreNamed'
    BY <1>1, <1>2, <2>1, <2>2, <2>3 DEF CommentsInv, RowsAreNamed, Others, IsAsked, MovesTo,
       HasReadOf, PostsItsOwn, SeenWasPosted, Sending, Is
  <2>9. CommentIsWhole'
    BY <1>1, <1>2, <2>1, <2>2, <2>3 DEF CommentsInv, CommentIsWhole, Others, IsAsked, MovesTo,
       HasReadOf, Posted, RowsAreNamed, PostsItsOwn, SeenWasPosted, Sending, Is
  <2>10. NothingOutlivesTheTicket'
    BY <1>1, <1>2, <2>1, <2>2, <2>3 DEF CommentsInv, NothingOutlivesTheTicket, Others, IsAsked,
       MovesTo, HasReadOf, Posted, HasRow
  <2> QED
    BY <2>4, <2>5, <2>6, <2>7, <2>8, <2>9, <2>10 DEF CommentsInv
<1>20. ASSUME NEW t \in Tasks, NEW k \in Comments, DeleteComment(t, k)
      PROVE  CommentsInv'
  <2>1. IsAsked(t, "delete", {}, k)
    BY <1>20, Effects
  <2>2. comment[k] = "posted" /\ UNCHANGED <<row, ticket, comment, named>>
    BY <1>20 DEF DeleteComment
  <2>3. PostsItsOwn'
    BY <1>1, <1>2, <2>1, <2>2 DEF CommentsInv, PostsItsOwn, Others, IsAsked, MovesTo, HasReadOf,
       Sending, Is
  <2>4. DeletesPosted'
    BY <1>1, <1>2, <2>1, <2>2 DEF CommentsInv, DeletesPosted, Others, IsAsked, MovesTo, HasReadOf
  <2>5. SeenWasPosted'
    BY <1>1, <1>2, <2>1, <2>2 DEF CommentsInv, SeenWasPosted, Others, IsAsked, MovesTo, HasReadOf,
       PostsItsOwn, Sending, Is
  <2>6. ClaimedSince'
    BY <1>1, <1>2, <2>1, <2>2 DEF CommentsInv, ClaimedSince, Others, IsAsked, MovesTo, HasReadOf,
       Is, RowsAreNamed, PostsItsOwn, SeenWasPosted, Sending
  <2>7. RowsAreNamed'
    BY <1>1, <1>2, <2>1, <2>2 DEF CommentsInv, RowsAreNamed, Others, IsAsked, MovesTo, HasReadOf,
       PostsItsOwn, SeenWasPosted, Sending, Is
  <2>8. CommentIsWhole'
    BY <1>1, <1>2, <2>1, <2>2 DEF CommentsInv, CommentIsWhole, Others, IsAsked, MovesTo, HasReadOf,
       Posted, RowsAreNamed, PostsItsOwn, SeenWasPosted, Sending, Is
  <2>9. NothingOutlivesTheTicket'
    BY <1>1, <1>2, <2>1, <2>2 DEF CommentsInv, NothingOutlivesTheTicket, Others, IsAsked, MovesTo,
       HasReadOf, Posted, HasRow
  <2> QED
    BY <2>3, <2>4, <2>5, <2>6, <2>7, <2>8, <2>9 DEF CommentsInv
<1>21. ASSUME NEW t \in Tasks, FindUnclaimed(t)
      PROVE  CommentsInv'
  <2>1. HasReadOf(t, task[t].files, Posted)
    BY <1>21, Effects
  <2>2. /\ Is(t, "post", "sent") /\ \A f \in task[t].files : row[f] = "loose"
        /\ UNCHANGED <<row, ticket, comment, named>>
    BY <1>21 DEF FindUnclaimed
  <2>3. \A k \in Posted : k \in Comments /\ comment[k] = "posted"
    BY DEF Posted
  <2>4. PostsItsOwn'
    BY <1>1, <1>2, <2>1, <2>2, <2>3 DEF CommentsInv, PostsItsOwn, Others, IsAsked, MovesTo,
       HasReadOf, Sending, Is
  <2>5. DeletesPosted'
    BY <1>1, <1>2, <2>1, <2>2, <2>3 DEF CommentsInv, DeletesPosted, Others, IsAsked, MovesTo,
       HasReadOf
  <2>6. SeenWasPosted'
    BY <1>1, <1>2, <2>1, <2>2, <2>3 DEF CommentsInv, SeenWasPosted, Others, IsAsked, MovesTo,
       HasReadOf, PostsItsOwn, Sending, Is
  <2>7. ClaimedSince'
    BY <1>1, <1>2, <2>1, <2>2, <2>3 DEF CommentsInv, ClaimedSince, Others, IsAsked, MovesTo,
       HasReadOf, Is, RowsAreNamed, PostsItsOwn, SeenWasPosted, Sending
  <2>8. RowsAreNamed'
    BY <1>1, <1>2, <2>1, <2>2, <2>3 DEF CommentsInv, RowsAreNamed, Others, IsAsked, MovesTo,
       HasReadOf, PostsItsOwn, SeenWasPosted, Sending, Is
  <2>9. CommentIsWhole'
    BY <1>1, <1>2, <2>1, <2>2, <2>3 DEF CommentsInv, CommentIsWhole, Others, IsAsked, MovesTo,
       HasReadOf, Posted, RowsAreNamed, PostsItsOwn, SeenWasPosted, Sending, Is
  <2>10. NothingOutlivesTheTicket'
    BY <1>1, <1>2, <2>1, <2>2, <2>3 DEF CommentsInv, NothingOutlivesTheTicket, Others, IsAsked,
       MovesTo, HasReadOf, Posted, HasRow
  <2> QED
    BY <2>4, <2>5, <2>6, <2>7, <2>8, <2>9, <2>10 DEF CommentsInv
<1>22. ASSUME NEW t \in Tasks, PostComment(t)
      PROVE  CommentsInv'
  <2>1. MovesTo(t, "answer") /\ RowsBecome(task[t].files, task[t].comment)
    BY <1>22, Effects
  <2>2. /\ Is(t, "post", "read") /\ ticket # "gone" /\ \A f \in task[t].files : HasRow(f)
        /\ comment' = [comment EXCEPT ![task[t].comment] = "posted"]
        /\ UNCHANGED <<ticket, named>>
    BY <1>22 DEF PostComment
  <2>3. /\ task[t].comment \in Comments /\ comment[task[t].comment] = "sent"
        /\ task[t].files = named[task[t].comment]
    BY <1>1, <2>2 DEF CommentsInv, PostsItsOwn, Sending, Is
  <2>4. /\ comment'[task[t].comment] = "posted"
        /\ \A j \in Comments : j # task[t].comment => comment'[j] = comment[j]
    BY <1>1, <2>2, <2>3
  <2>5. PostsItsOwn'
    BY <1>1, <1>2, <2>1, <2>2, <2>3, <2>4 DEF CommentsInv, PostsItsOwn, Others, IsAsked, MovesTo,
       HasReadOf, Sending, Is, RowsBecome
  <2>6. DeletesPosted'
    BY <1>1, <1>2, <2>1, <2>2, <2>3, <2>4 DEF CommentsInv, DeletesPosted, Others, IsAsked, MovesTo,
       HasReadOf, RowsBecome
  <2>7. SeenWasPosted'
    BY <1>1, <1>2, <2>1, <2>2, <2>3, <2>4 DEF CommentsInv, SeenWasPosted, Others, IsAsked, MovesTo,
       HasReadOf, PostsItsOwn, Sending, Is, RowsBecome
  <2>8. ClaimedSince'
    BY <1>1, <1>2, <2>1, <2>2, <2>3, <2>4 DEF CommentsInv, ClaimedSince, Others, IsAsked, MovesTo,
       HasReadOf, Is, RowsAreNamed, PostsItsOwn, SeenWasPosted, Sending, RowsBecome
  <2>9. RowsAreNamed'
    BY <1>1, <1>2, <2>1, <2>2, <2>3, <2>4 DEF CommentsInv, RowsAreNamed, Others, IsAsked, MovesTo,
       HasReadOf, PostsItsOwn, SeenWasPosted, Sending, Is, RowsBecome
  <2>10. CommentIsWhole'
    BY <1>1, <1>2, <2>1, <2>2, <2>3, <2>4 DEF CommentsInv, CommentIsWhole, Others, IsAsked, MovesTo,
       HasReadOf, Posted, RowsAreNamed, PostsItsOwn, SeenWasPosted, Sending, Is, RowsBecome
  <2>11. NothingOutlivesTheTicket'
    BY <1>1, <1>2, <2>1, <2>2, <2>3, <2>4 DEF CommentsInv, NothingOutlivesTheTicket, Others,
       IsAsked, MovesTo, HasReadOf, Posted, HasRow, RowsBecome
  <2> QED
    BY <2>5, <2>6, <2>7, <2>8, <2>9, <2>10, <2>11 DEF CommentsInv
<1>23. ASSUME NEW t \in Tasks, ReadDoomed(t)
      PROVE  CommentsInv'
  <2>1. \E seen \in SUBSET Posted : HasReadOf(t, Doomed(t), seen)
    BY <1>23, Effects
  <2>2. /\ task[t].kind \in {"remove", "discard", "delete", "purge"} /\ UNCHANGED <<row, ticket, comment, named>>
    BY <1>23 DEF ReadDoomed
  <2>3. \A k \in Posted : k \in Comments /\ comment[k] = "posted"
    BY DEF Posted
  <2>4. PostsItsOwn'
    BY <1>1, <1>2, <2>1, <2>2, <2>3 DEF CommentsInv, PostsItsOwn, Others, IsAsked, MovesTo,
       HasReadOf, Sending, Is
  <2>5. DeletesPosted'
    BY <1>1, <1>2, <2>1, <2>2, <2>3 DEF CommentsInv, DeletesPosted, Others, IsAsked, MovesTo,
       HasReadOf
  <2>6. SeenWasPosted'
    BY <1>1, <1>2, <2>1, <2>2, <2>3 DEF CommentsInv, SeenWasPosted, Others, IsAsked, MovesTo,
       HasReadOf, PostsItsOwn, Sending, Is
  <2>7. ClaimedSince'
    BY <1>1, <1>2, <2>1, <2>2, <2>3 DEF CommentsInv, ClaimedSince, Others, IsAsked, MovesTo,
       HasReadOf, Is, RowsAreNamed, PostsItsOwn, SeenWasPosted, Sending
  <2>8. RowsAreNamed'
    BY <1>1, <1>2, <2>1, <2>2, <2>3 DEF CommentsInv, RowsAreNamed, Others, IsAsked, MovesTo,
       HasReadOf, PostsItsOwn, SeenWasPosted, Sending, Is
  <2>9. CommentIsWhole'
    BY <1>1, <1>2, <2>1, <2>2, <2>3 DEF CommentsInv, CommentIsWhole, Others, IsAsked, MovesTo,
       HasReadOf, Posted, RowsAreNamed, PostsItsOwn, SeenWasPosted, Sending, Is
  <2>10. NothingOutlivesTheTicket'
    BY <1>1, <1>2, <2>1, <2>2, <2>3 DEF CommentsInv, NothingOutlivesTheTicket, Others, IsAsked,
       MovesTo, HasReadOf, Posted, HasRow
  <2> QED
    BY <2>4, <2>5, <2>6, <2>7, <2>8, <2>9, <2>10 DEF CommentsInv
<1>24. ASSUME NEW t \in Tasks, RemoveComment(t)
      PROVE  CommentsInv'
  <2>1. MovesTo(t, "purge") /\ RowsBecome(task[t].files, "none")
    BY <1>24, Effects
  <2>2. /\ Is(t, "delete", "read")
        /\ \A f \in Files : row[f] = task[t].comment => f \in task[t].files
        /\ comment' = [comment EXCEPT ![task[t].comment] = "deleted"]
        /\ UNCHANGED <<ticket, named>>
    BY <1>24 DEF RemoveComment, RowsOf
  <2>3. task[t].comment \in Comments /\ comment[task[t].comment] # "sent"
    BY <1>1, <2>2 DEF CommentsInv, DeletesPosted, Is
  <2>4. /\ comment'[task[t].comment] = "deleted"
        /\ \A j \in Comments : j # task[t].comment => comment'[j] = comment[j]
    BY <1>1, <2>2, <2>3
  <2>5. PostsItsOwn'
    BY <1>1, <1>2, <2>1, <2>2, <2>3, <2>4 DEF CommentsInv, PostsItsOwn, Others, IsAsked, MovesTo,
       HasReadOf, Sending, Is, RowsBecome
  <2>6. DeletesPosted'
    BY <1>1, <1>2, <2>1, <2>2, <2>3, <2>4 DEF CommentsInv, DeletesPosted, Others, IsAsked, MovesTo,
       HasReadOf, RowsBecome
  <2>7. SeenWasPosted'
    BY <1>1, <1>2, <2>1, <2>2, <2>3, <2>4 DEF CommentsInv, SeenWasPosted, Others, IsAsked, MovesTo,
       HasReadOf, PostsItsOwn, Sending, Is, RowsBecome
  <2>8. ClaimedSince'
    BY <1>1, <1>2, <2>1, <2>2, <2>3, <2>4 DEF CommentsInv, ClaimedSince, Others, IsAsked, MovesTo,
       HasReadOf, Is, RowsAreNamed, PostsItsOwn, SeenWasPosted, Sending, RowsBecome
  <2>9. RowsAreNamed'
    BY <1>1, <1>2, <2>1, <2>2, <2>3, <2>4 DEF CommentsInv, RowsAreNamed, Others, IsAsked, MovesTo,
       HasReadOf, PostsItsOwn, SeenWasPosted, Sending, Is, RowsBecome
  <2>10. CommentIsWhole'
    BY <1>1, <1>2, <2>1, <2>2, <2>3, <2>4 DEF CommentsInv, CommentIsWhole, Others, IsAsked, MovesTo,
       HasReadOf, Posted, RowsAreNamed, PostsItsOwn, SeenWasPosted, Sending, Is, RowsBecome
  <2>11. NothingOutlivesTheTicket'
    BY <1>1, <1>2, <2>1, <2>2, <2>3, <2>4 DEF CommentsInv, NothingOutlivesTheTicket, Others,
       IsAsked, MovesTo, HasReadOf, Posted, HasRow, RowsBecome
  <2> QED
    BY <2>5, <2>6, <2>7, <2>8, <2>9, <2>10, <2>11 DEF CommentsInv
<1>25. ASSUME NEW t \in Tasks, RemoveTicket(t)
      PROVE  CommentsInv'
  <2>1. MovesTo(t, "purge") /\ RowsBecome(task[t].files, "none")
    BY <1>25, Effects
  <2>2. /\ Is(t, "purge", "read") /\ \A f \in Files : HasRow(f) => f \in task[t].files
        /\ ticket' = "gone" /\ named' = named
    BY <1>25 DEF RemoveTicket
  <2>3. \A k \in Comments : comment'[k] = IF comment[k] = "posted" THEN "deleted" ELSE comment[k]
    BY <1>25 DEF RemoveTicket, Posted
  <2>4. \A f \in Files : row'[f] \in {"unused", "none"}
    BY <1>1, <2>1, <2>2 DEF RowsBecome, HasRow
  <2>5. PostsItsOwn'
    BY <1>1, <1>2, <2>1, <2>2, <2>3, <2>4 DEF CommentsInv, PostsItsOwn, Others, IsAsked, MovesTo,
       HasReadOf, Sending, Is, RowsBecome
  <2>6. DeletesPosted'
    BY <1>1, <1>2, <2>1, <2>2, <2>3, <2>4 DEF CommentsInv, DeletesPosted, Others, IsAsked, MovesTo,
       HasReadOf, RowsBecome
  <2>7. SeenWasPosted'
    BY <1>1, <1>2, <2>1, <2>2, <2>3, <2>4 DEF CommentsInv, SeenWasPosted, Others, IsAsked, MovesTo,
       HasReadOf, PostsItsOwn, Sending, Is, RowsBecome
  <2>8. ClaimedSince'
    BY <1>1, <1>2, <2>1, <2>2, <2>3, <2>4 DEF CommentsInv, ClaimedSince, Others, IsAsked, MovesTo,
       HasReadOf, Is, RowsAreNamed, PostsItsOwn, SeenWasPosted, Sending, RowsBecome
  <2>9. RowsAreNamed'
    BY <1>1, <1>2, <2>1, <2>2, <2>3, <2>4 DEF CommentsInv, RowsAreNamed, Others, IsAsked, MovesTo,
       HasReadOf, PostsItsOwn, SeenWasPosted, Sending, Is, RowsBecome
  <2>10. CommentIsWhole'
    BY <1>1, <1>2, <2>1, <2>2, <2>3, <2>4 DEF CommentsInv, CommentIsWhole, Others, IsAsked, MovesTo,
       HasReadOf, Posted, RowsAreNamed, PostsItsOwn, SeenWasPosted, Sending, Is, RowsBecome
  <2>11. NothingOutlivesTheTicket'
    BY <1>1, <1>2, <2>1, <2>2, <2>3, <2>4 DEF CommentsInv, NothingOutlivesTheTicket, Others,
       IsAsked, MovesTo, HasReadOf, Posted, HasRow, RowsBecome
  <2> QED
    BY <2>5, <2>6, <2>7, <2>8, <2>9, <2>10, <2>11 DEF CommentsInv
<1>26. CASE UNCHANGED filesVars
  <2>1. \A u \in Tasks : Keeps(u)
    BY <1>26 DEF filesVars, Keeps, Is
  <2>2. UNCHANGED <<comment, named>> /\ (ticket' = "gone" <=> ticket = "gone")
    BY <1>26 DEF filesVars
  <2>3. \A g \in Files : \/ row'[g] = row[g] \/ row'[g] = "none"
                          \/ /\ row'[g] = "loose" /\ ticket # "gone"
                             /\ \A k \in Comments : g \notin named[k]
    BY <1>26 DEF filesVars
  <2> QED
    BY <2>1, <2>2, <2>3, NoCommentTouched
<1> QED
  BY <1>3, <1>4, <1>5, <1>6, <1>7, <1>8, <1>9, <1>10, <1>11, <1>12, <1>13, <1>14, <1>15, <1>16,
     <1>17, <1>18, <1>19, <1>20, <1>21, <1>22, <1>23, <1>24, <1>25, <1>26
  DEF FilesNext

(* A comment is posted with all of its files, and goes with its ticket; a  *)
(* file is taken from another comment only if that one came in between.    *)
(* (comments.py, attachments.py)                                           *)
THEOREM CommentsCorrect == FilesSpec => []CommentsKeepFiles /\ AdoptsOnlyInARace
<1>1. FilesInit => RowsInv /\ CommentsInv
  <2>1. FilesInit => RowsInv
    BY DEF FilesInit, RowsInv, Fresh, UploadIsPrivate, StoredFirst, PurgedLast, RowHasBytes,
       BytesAreExpected, Uploading, Is, HasRow, Idle
  <2>2. ASSUME FilesInit PROVE CommentsInv
    <3>1. /\ \A t \in Tasks : task[t].kind = "upload" /\ task[t].seen = {}
          /\ \A f \in Files : row[f] = "unused"
          /\ \A k \in Comments : comment[k] = "unwritten"
          /\ ticket = "live"
      BY <2>2 DEF FilesInit, Idle
    <3>2. Posted = {} /\ \A f \in Files : row[f] \notin Comments
      BY <3>1, FilesAssumption DEF Posted
    <3> QED
      BY <3>1, <3>2 DEF CommentsInv, PostsItsOwn, DeletesPosted, SeenWasPosted, ClaimedSince, RowsAreNamed,
         CommentIsWhole, NothingOutlivesTheTicket, Sending, Is
  <2> QED
    BY <2>1, <2>2
<1>2. FilesTypeOK /\ RowsInv /\ CommentsInv /\ [FilesNext]_filesVars => RowsInv' /\ CommentsInv'
  BY RowsStep, CommentsStep
<1>3. FilesTypeOK /\ CommentsInv => CommentsKeepFiles
  BY DEF CommentsInv, CommentsKeepFiles
<1>4. FilesTypeOK /\ CommentsInv /\ [FilesNext]_filesVars =>
        \A t \in Tasks : PostComment(t) =>
            \A f \in task[t].files : row[f] \in Comments => row[f] \notin task[t].seen
  BY DEF CommentsInv, ClaimedSince, PostComment
<1> QED
  BY <1>1, <1>2, <1>3, <1>4, FilesTypeCorrect, PTL DEF FilesSpec, AdoptsOnlyInARace

-----------------------------------------------------------------------------
(* A file of the draft is about to leave it: the comment it was sent with  *)
(* is answered, or somebody has taken the file back.                       *)
Leaving(t, f) ==
    \/ Is(t, "post", "answer")
    \/ Is(t, "remove", "purge") /\ f \in task[t].files
    \/ Is(t, "remove", "answer") /\ f \in task[t].files

DraftWaits == \A f \in draft : row[f] = "loose" \/ f \in discarded \/ \E t \in Tasks : Leaving(t, f)

(* Until its upload is answered nobody knows of a file but the ticket's    *)
(* list and a purge ...                                                    *)
UploadIsUnknown ==
    \A t \in Tasks : Is(t, "upload", "answer") => \A f \in task[t].files :
        /\ row[f] = "loose" \/ (row[f] = "none" /\ f \in discarded)
        /\ f \notin draft
        /\ \A u \in Tasks : f \in task[u].files => u = t \/ task[u].kind \in {"purge", "discard"}

(* ... and what goes with a comment was claimed by one.                    *)
DoomedWasClaimed ==
    \A t \in Tasks : Is(t, "delete", "read") => \A f \in task[t].files : row[f] # "loose"

DraftInv == faults = 0 /\ ticket # "gone" => DraftWaits /\ UploadIsUnknown /\ DoomedWasClaimed

(* What is asked, stored or read leaves the draft and its files alone.     *)
LEMMA DraftUntouched ==
    ASSUME FilesTypeOK, DraftInv, NEW t \in Tasks, Others(t), UNCHANGED <<row, draft, discarded, faults>>,
           ticket' = ticket,
           task[t].at \in {"idle", "sent", "read"} \/ task[t].kind \notin {"post", "remove"},
           ~Is(t, "upload", "answer")', \A f \in task'[t].files :
               \/ f \in task[t].files /\ task'[t].kind = task[t].kind
               \/ f \in draft \/ task'[t].kind \in {"purge", "discard"}
               \/ row[f] \notin {"loose", "none"},
           Is(t, "delete", "read")' => \A f \in task'[t].files : row[f] # "loose"
    PROVE  DraftInv'
<1> SUFFICES ASSUME faults = 0, ticket # "gone"
             PROVE  DraftWaits' /\ UploadIsUnknown' /\ DoomedWasClaimed'
  BY DEF DraftInv
<1>1. DraftWaits /\ UploadIsUnknown /\ DoomedWasClaimed
  BY DEF DraftInv
<1>2. DraftWaits'
  <2>1. \A u \in Tasks, f \in draft : Leaving(u, f) => Leaving(u, f)'
    BY DEF Leaving, Is, Others
  <2> QED
    BY <1>1, <2>1 DEF DraftWaits
<1>3. UploadIsUnknown'
  BY <1>1 DEF UploadIsUnknown, Is, Others
<1>4. DoomedWasClaimed'
  BY <1>1 DEF DoomedWasClaimed, Is, Others
<1> QED
  BY <1>2, <1>3, <1>4

(* Each step keeps the draft such that it can be sent, or will be.         *)
LEMMA DraftStep ==
    ASSUME FilesTypeOK, RowsInv, DraftInv, FilesNext \/ UNCHANGED filesVars
    PROVE  DraftInv'
<1>1. /\ \A t \in Tasks : task[t].files \subseteq Files
      /\ \A t \in Tasks : task[t].kind \in {"post", "delete"} => task[t].comment \in Comments
      /\ faults \in Nat /\ draft \subseteq Files
  BY DEF FilesTypeOK, TaskType
<1>2. \A k \in Comments : k \notin {"unused", "none", "loose"}
  BY FilesAssumption
<1>3. ASSUME faults' = faults + 1
      PROVE  DraftInv'
  <2>1. faults' # 0
    BY <1>1, <1>3
  <2> QED
    BY <2>1 DEF DraftInv
<1>4. CASE TrashTicket \/ RestoreTicket
  BY <1>4 DEF TrashTicket, RestoreTicket, DraftInv, DraftWaits, UploadIsUnknown, DoomedWasClaimed, Leaving, Is
<1>5. CASE Crash
  BY <1>3, <1>5 DEF Crash
<1>6. ASSUME NEW t \in Tasks, NEW f \in Files, PickFile(t, f)
      PROVE  DraftInv'
  <2>1. IsAsked(t, "upload", {f}, NoComment) /\ RowsBecome({f}, "none") /\ task[t].at = "idle"
    BY <1>6, Effects
  <2>2. row[f] = "unused" /\ UNCHANGED <<ticket, draft, discarded, faults>>
    BY <1>6 DEF PickFile
  <2>3. f \notin draft /\ \A u \in Tasks : f \notin task[u].files
    BY <2>2 DEF RowsInv, Fresh
  <2> SUFFICES ASSUME faults = 0, ticket # "gone"
               PROVE  DraftWaits' /\ UploadIsUnknown' /\ DoomedWasClaimed'
    BY <2>2 DEF DraftInv
  <2>4. DraftWaits'
    <3>1. \A u \in Tasks, g \in draft : Leaving(u, g) => Leaving(u, g)'
      BY <2>1 DEF Leaving, Is, IsAsked, Others
    <3> QED
      BY <1>1, <2>1, <2>2, <2>3, <3>1 DEF DraftInv, DraftWaits, RowsBecome
  <2>5. UploadIsUnknown'
    BY <1>1, <2>1, <2>2, <2>3 DEF DraftInv, UploadIsUnknown, RowsBecome, Is, IsAsked, Others
  <2>6. DoomedWasClaimed'
    BY <1>1, <2>1, <2>2 DEF DraftInv, DoomedWasClaimed, RowsBecome, Is, IsAsked, Others
  <2> QED
    BY <2>4, <2>5, <2>6
<1>7. ASSUME NEW t \in Tasks, NEW f \in Files, TakeBack(t, f) \/ DiscardListed(t, f)
      PROVE  DraftInv'
  <2>1. CASE TakeBack(t, f)
    BY <2>1, Effects, DraftUntouched DEF TakeBack, IsAsked, Is
  <2>2. CASE DiscardListed(t, f)
    BY <2>2, Effects, DraftUntouched DEF DiscardListed, IsAsked, Is
  <2> QED
    BY <1>7, <2>1, <2>2
<1>8. ASSUME NEW t \in Tasks, NEW k \in Comments, Send(t, k)
      PROVE  DraftInv'
  BY <1>8, Effects, DraftUntouched DEF Send, IsAsked, Is
<1>9. ASSUME NEW t \in Tasks, NEW k \in Comments, DeleteComment(t, k)
      PROVE  DraftInv'
  BY <1>9, Effects, DraftUntouched DEF DeleteComment, IsAsked, Is
<1>10. ASSUME NEW t \in Tasks, PurgeTicket(t)
       PROVE  DraftInv'
  BY <1>10, Effects, DraftUntouched DEF PurgeTicket, IsAsked, Is
<1>11. ASSUME NEW t \in Tasks, StoreBytes(t)
       PROVE  DraftInv'
  BY <1>11, Effects, DraftUntouched DEF StoreBytes, MovesTo, Is
<1>12. ASSUME NEW t \in Tasks, InsertRow(t)
       PROVE  DraftInv'
  <2>1. MovesTo(t, "answer") /\ RowsBecome(task[t].files, "loose") /\ Is(t, "upload", "stored")
        /\ UNCHANGED <<ticket, draft, discarded, faults>>
    BY <1>12, Effects DEF InsertRow
  <2>2. \A g \in task[t].files : g \notin draft /\ \A u \in Tasks : g \in task[u].files => u = t
    BY <2>1 DEF RowsInv, UploadIsPrivate, Uploading
  <2> SUFFICES ASSUME faults = 0, ticket # "gone"
               PROVE  DraftWaits' /\ UploadIsUnknown' /\ DoomedWasClaimed'
    BY <2>1 DEF DraftInv
  <2>3. DraftWaits'
    <3>1. \A u \in Tasks, g \in draft : Leaving(u, g) => Leaving(u, g)'
      BY <2>1 DEF Leaving, Is, MovesTo, Others
    <3> QED
      BY <1>1, <2>1, <3>1 DEF DraftInv, DraftWaits, RowsBecome
  <2>4. UploadIsUnknown'
    BY <1>1, <2>1, <2>2 DEF DraftInv, UploadIsUnknown, RowsBecome, Is, MovesTo, Others
  <2>5. DoomedWasClaimed'
    BY <1>1, <2>1, <2>2 DEF DraftInv, DoomedWasClaimed, RowsBecome, Is, MovesTo, Others
  <2> QED
    BY <2>3, <2>4, <2>5
<1>13. ASSUME NEW t \in Tasks, TakeBytesBack(t)
       PROVE  DraftInv'
  BY <1>13, Effects, DraftUntouched DEF TakeBytesBack, IsEnded, Is
<1>14. ASSUME NEW t \in Tasks, CommitUnanswered(t) \/ PurgeFails(t)
       PROVE  DraftInv'
  BY <1>3, <1>14 DEF CommitUnanswered, PurgeFails
<1>15. ASSUME NEW t \in Tasks, Uploaded(t)
       PROVE  DraftInv'
  <2>1. IsEnded(t) /\ Is(t, "upload", "answer") /\ draft' = draft \cup task[t].files
        /\ UNCHANGED <<ticket, row, discarded, faults>>
    BY <1>15, Effects DEF Uploaded
  <2> SUFFICES ASSUME faults = 0, ticket # "gone"
               PROVE  DraftWaits' /\ UploadIsUnknown' /\ DoomedWasClaimed'
    BY <2>1 DEF DraftInv
  <2>2. DraftWaits'
    <3>1. \A u \in Tasks, g \in draft : Leaving(u, g) => Leaving(u, g)'
      BY <2>1 DEF Leaving, Is, IsEnded, Others
    <3> QED
      BY <2>1, <3>1 DEF DraftInv, DraftWaits, UploadIsUnknown
  <2>3. UploadIsUnknown'
    BY <2>1 DEF DraftInv, UploadIsUnknown, Is, IsEnded, Others
  <2>4. DoomedWasClaimed'
    BY <2>1 DEF DraftInv, DoomedWasClaimed, Is, IsEnded, Others
  <2> QED
    BY <2>2, <2>3, <2>4
<1>16. ASSUME NEW t \in Tasks, FindUnclaimed(t)
       PROVE  DraftInv'
  BY <1>16, Effects, DraftUntouched DEF FindUnclaimed, HasReadOf, Is
<1>17. ASSUME NEW t \in Tasks, PostComment(t)
       PROVE  DraftInv'
  <2>1. /\ MovesTo(t, "answer") /\ task[t].comment \in Comments
        /\ RowsBecome(task[t].files, task[t].comment) /\ Is(t, "post", "read")
        /\ UNCHANGED <<ticket, draft, discarded, faults>>
    BY <1>17, Effects DEF PostComment
  <2> SUFFICES ASSUME faults = 0, ticket # "gone"
               PROVE  DraftWaits' /\ UploadIsUnknown' /\ DoomedWasClaimed'
    BY <2>1 DEF DraftInv
  <2>2. DraftWaits'
    BY <2>1 DEF DraftWaits, Leaving, Is, MovesTo
  <2>3. UploadIsUnknown'
    BY <1>1, <2>1 DEF DraftInv, UploadIsUnknown, RowsBecome, Is, MovesTo, Others
  <2>4. DoomedWasClaimed'
    BY <1>1, <1>2, <2>1 DEF DraftInv, DoomedWasClaimed, RowsBecome, Is, MovesTo, Others
  <2> QED
    BY <2>2, <2>3, <2>4
<1>18. ASSUME NEW t \in Tasks, CommentSent(t) \/ TakenBack(t)
       PROVE  DraftInv'
  <2>1. IsEnded(t) /\ UNCHANGED <<ticket, row, discarded, faults>> /\ draft' \subseteq draft
        /\ \/ Is(t, "post", "answer") /\ draft' = {}
           \/ Is(t, "remove", "answer") /\ draft' = draft \ task[t].files
    BY <1>18, Effects DEF CommentSent, TakenBack
  <2> SUFFICES ASSUME faults = 0, ticket # "gone"
               PROVE  DraftWaits' /\ UploadIsUnknown' /\ DoomedWasClaimed'
    BY <2>1 DEF DraftInv
  <2>2. DraftWaits'
    <3>1. \A u \in Tasks, g \in draft' : Leaving(u, g) => Leaving(u, g)'
      BY <2>1 DEF Leaving, Is, IsEnded, Others
    <3> QED
      BY <2>1, <3>1 DEF DraftInv, DraftWaits
  <2>3. UploadIsUnknown'
    BY <2>1 DEF DraftInv, UploadIsUnknown, Is, IsEnded, Others
  <2>4. DoomedWasClaimed'
    BY <2>1 DEF DraftInv, DoomedWasClaimed, Is, IsEnded, Others
  <2> QED
    BY <2>2, <2>3, <2>4
<1>19. ASSUME NEW t \in Tasks, ReadDoomed(t)
       PROVE  DraftInv'
  <2>1. /\ HasReadOf(t, Doomed(t), IF task[t].kind = "purge" THEN Posted ELSE {})
        /\ task[t].at = "sent" /\ task[t].kind \in {"remove", "discard", "delete", "purge"}
        /\ UNCHANGED <<ticket, row, draft, discarded, faults>>
    BY <1>19, Effects DEF ReadDoomed
  <2>2. task[t].kind = "delete" => \A f \in Doomed(t) : row[f] \notin {"loose", "none"}
    BY <1>1, <1>2 DEF Doomed, RowsOf
  <2>3. task[t].kind \in {"remove", "discard"} => Doomed(t) = task[t].files
    BY DEF Doomed
  <2> QED
    BY <2>1, <2>2, <2>3, DraftUntouched DEF HasReadOf, Is
<1>20. ASSUME NEW t \in Tasks, RemoveRow(t) \/ RemoveComment(t)
       PROVE  DraftInv'
  <2>1. /\ MovesTo(t, "purge") /\ RowsBecome(task[t].files, "none")
        /\ Is(t, "remove", "read") \/ Is(t, "discard", "read") \/ Is(t, "delete", "read")
        /\ UNCHANGED <<ticket, draft, faults>>
    BY <1>20, Effects DEF RemoveRow, RemoveComment
  <2>2. /\ discarded \subseteq discarded'
        /\ task[t].kind = "discard" => task[t].files \subseteq discarded'
    BY <1>20 DEF RemoveRow, RemoveComment, Is
  <2> SUFFICES ASSUME faults = 0, ticket # "gone"
               PROVE  DraftWaits' /\ UploadIsUnknown' /\ DoomedWasClaimed'
    BY <2>1 DEF DraftInv
  <2>3. DraftWaits'
    <3>1. \A u \in Tasks, g \in draft : Leaving(u, g) => Leaving(u, g)'
      BY <2>1 DEF Leaving, Is, MovesTo, Others
    <3> SUFFICES ASSUME NEW f \in draft
                 PROVE  row'[f] = "loose" \/ f \in discarded' \/ \E u \in Tasks : Leaving(u, f)'
      BY <2>1 DEF DraftWaits
    <3>2. CASE f \in task[t].files /\ Is(t, "remove", "read")
      BY <2>1, <3>2 DEF Leaving, Is, MovesTo
    <3>3. CASE f \in task[t].files /\ Is(t, "delete", "read")
      BY <2>2, <3>1, <3>3 DEF DraftInv, DraftWaits, DoomedWasClaimed
    <3>4. CASE f \in task[t].files /\ Is(t, "discard", "read")
      BY <2>2, <3>4 DEF Is
    <3>5. CASE f \notin task[t].files
      BY <1>1, <2>1, <2>2, <3>1, <3>5 DEF DraftInv, DraftWaits, RowsBecome
    <3> QED
      BY <2>1, <3>2, <3>3, <3>4, <3>5
  <2>4. UploadIsUnknown'
    BY <1>1, <2>1, <2>2 DEF DraftInv, UploadIsUnknown, RowsBecome, Is, MovesTo, Others
  <2>5. DoomedWasClaimed'
    BY <1>1, <2>1 DEF DraftInv, DoomedWasClaimed, RowsBecome, Is, MovesTo, Others
  <2> QED
    BY <2>3, <2>4, <2>5
<1>21. ASSUME NEW t \in Tasks, RemoveTicket(t)
       PROVE  DraftInv'
  BY <1>21 DEF RemoveTicket, DraftInv
<1>22. ASSUME NEW t \in Tasks, PurgeBytes(t)
       PROVE  DraftInv'
  <2>1. /\ task[t].at = "purge" /\ UNCHANGED <<ticket, row, draft, discarded, faults>>
        /\ IF task[t].kind = "remove" THEN MovesTo(t, "answer") ELSE IsEnded(t)
    BY <1>22, Effects DEF PurgeBytes
  <2>2. CASE task[t].kind = "remove"
    <3> SUFFICES ASSUME faults = 0, ticket # "gone"
                 PROVE  DraftWaits' /\ UploadIsUnknown' /\ DoomedWasClaimed'
      BY <2>1 DEF DraftInv
    <3>1. MovesTo(t, "answer")
      BY <2>1, <2>2
    <3>2. DraftWaits'
      <4>1. \A u \in Tasks, g \in draft : Leaving(u, g) => Leaving(u, g)'
        BY <2>1, <2>2, <3>1 DEF Leaving, Is, MovesTo, Others
      <4> QED
        BY <2>1, <4>1 DEF DraftInv, DraftWaits
    <3>3. UploadIsUnknown'
      BY <2>1, <2>2, <3>1 DEF DraftInv, UploadIsUnknown, Is, MovesTo, Others
    <3>4. DoomedWasClaimed'
      BY <2>1, <2>2, <3>1 DEF DraftInv, DoomedWasClaimed, Is, MovesTo, Others
    <3> QED
      BY <3>2, <3>3, <3>4
  <2>3. CASE task[t].kind = "post"
    <3> SUFFICES ASSUME faults = 0, ticket # "gone"
                 PROVE  DraftWaits' /\ UploadIsUnknown' /\ DoomedWasClaimed'
      BY <2>1 DEF DraftInv
    <3>1. IsEnded(t)
      BY <2>1, <2>3
    <3>2. \A u \in Tasks, g \in draft : Leaving(u, g) => Leaving(u, g)'
      BY <2>1, <2>3, <3>1 DEF Leaving, Is, IsEnded, Others
    <3> QED
      BY <2>1, <3>1, <3>2 DEF DraftInv, DraftWaits, UploadIsUnknown, DoomedWasClaimed, Is, IsEnded, Others
  <2>4. CASE task[t].kind \notin {"remove", "post"}
    BY <2>1, <2>4, DraftUntouched DEF IsEnded, Is
  <2> QED
    BY <2>2, <2>3, <2>4
<1>23. ASSUME NEW t \in Tasks, Refused(t)
       PROVE  DraftInv'
  BY <1>23, Effects, DraftUntouched DEF Refused, IsEnded, Is
<1>24. CASE UNCHANGED filesVars
  BY <1>24 DEF filesVars, DraftInv, DraftWaits, UploadIsUnknown, DoomedWasClaimed, Leaving, Is
<1> QED
  BY <1>4, <1>5, <1>6, <1>7, <1>8, <1>9, <1>10, <1>11, <1>12, <1>13, <1>14, <1>15, <1>16,
     <1>17, <1>18, <1>19, <1>20, <1>21, <1>22, <1>23, <1>24
  DEF FilesNext

(* With nothing under way every file of the draft can be sent but one that *)
(* was deleted from the ticket's list, as long as nothing has failed.      *)
(* (CommentsSection.tsx, TicketDetailBody.tsx, attachments.py)             *)
THEOREM DraftCorrect == FilesSpec => []DraftCanBeSent
<1>1. FilesInit => RowsInv /\ DraftInv
  <2>1. FilesInit => RowsInv
    BY DEF FilesInit, RowsInv, Fresh, UploadIsPrivate, StoredFirst, PurgedLast, RowHasBytes,
       BytesAreExpected, Uploading, Is, HasRow, Idle
  <2>2. FilesInit => DraftInv
    BY DEF FilesInit, DraftInv, DraftWaits, UploadIsUnknown, DoomedWasClaimed, Is, Idle
  <2> QED
    BY <2>1, <2>2
<1>2. FilesTypeOK /\ RowsInv /\ DraftInv /\ [FilesNext]_filesVars => RowsInv' /\ DraftInv'
  BY RowsStep, DraftStep
<1>3. DraftInv => DraftCanBeSent
  BY DEF DraftInv, DraftWaits, Leaving, Is, DraftCanBeSent
<1> QED
  BY <1>1, <1>2, <1>3, FilesTypeCorrect, PTL DEF FilesSpec

===============================================================================
