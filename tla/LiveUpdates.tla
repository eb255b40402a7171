---------------------------- MODULE LiveUpdates ----------------------------
(***************************************************************************)
(* Live updates, from a commit to the card on screen: the event bus and    *)
(* the stream endpoint of the server, and one browser tab that shows a     *)
(* team's board -- its stream, its cached list of tickets and the cards it *)
(* moves before the server has answered.                                   *)
(*                                                                         *)
(* The team's tickets are abstracted to `version`, the number of changes   *)
(* committed. A board on screen is the version it was read at and the      *)
(* moves drawn on top of it. Three variables are not in the code and only  *)
(* state what it promises: `covered` holds while the board on screen was   *)
(* read under the stream that is open, and not put back since; `owing`     *)
(* while such a stream owes the board a catch-up; `deaf` once it has lost  *)
(* the CLOSE meant for it.                                                 *)
(***************************************************************************)
EXTENDS Naturals, Sequences, FiniteSets

CONSTANTS Moves,       \* cards the tab's user drags, once each
          QueueLimit,  \* undelivered events a stream may hold
          MaxChanges,  \* bound: changes committed by anybody
          MaxDrops,    \* bound: streams lost and tabs hidden
          MaxFailures  \* bound: refetches that fail, their retry included

ASSUME LiveAssumption ==
    /\ QueueLimit \in Nat \ {0}
    /\ MaxChanges \in Nat /\ MaxDrops \in Nat /\ MaxFailures \in Nat

VARIABLES
    version,         \* changes committed to the team's tickets
    member,          \* is the tab's user on the team?
    elsewhere,       \* is that user on another team too?
    unsent,          \* of each event, how many are committed, not published
    queue,           \* the subscription's queue
    stream,          \* where the tab's stream is
    visible,         \* is the tab in front?
    connectedBefore, \* has a stream about this team opened in this tab?
    board,           \* the cached list of tickets
    fetch,           \* the request for it
    move,            \* the moves of this tab
    previous,        \* the list each move would put back
    covered, owing, deaf,
    drops, failures

changeVars == <<version, member, elsewhere>>
streamVars == <<queue, stream, visible, connectedBefore>>
tabVars    == <<board, fetch, covered, owing>>
moveVars   == <<move, previous>>
boundVars  == <<drops, failures>>
liveVars   == <<changeVars, unsent, streamVars, tabVars, moveVars, deaf, boundVars>>

(* ticket_changed; a close about this team; one about another; a resync.   *)
Written == {"ticket_changed", "close", "close_other"}
Events  == Written \cup {"resync"}

Boards  == [ver : Nat, guesses : SUBSET Moves, loaded : BOOLEAN]
NoBoard == [ver |-> 0, guesses |-> {}, loaded |-> FALSE]
NoFetch == [at |-> "none", ver |-> 0, live |-> FALSE]
Asked   == [at |-> "asked", ver |-> 0, live |-> FALSE]

LiveInit ==
    /\ version = 0 /\ member = TRUE /\ elsewhere = TRUE
    /\ unsent = [e \in Written |-> 0]
    /\ queue = <<>> /\ stream = "off" /\ visible \in BOOLEAN
    /\ connectedBefore = FALSE /\ owing = FALSE /\ deaf = FALSE
    /\ board = NoBoard /\ fetch = Asked /\ covered = FALSE
    /\ move = [m \in Moves |-> "none"] /\ previous = [m \in Moves |-> NoBoard]
    /\ drops = 0 /\ failures = 0

-----------------------------------------------------------------------------
(* The server. *)

(* What a commit is to announce was collected while its rows were flushed. *)
Announce(e) == unsent' = [unsent EXCEPT ![e] = @ + 1]

(* Somebody's request changes a ticket and commits.                        *)
Commit ==
    /\ version < MaxChanges
    /\ version' = version + 1
    /\ Announce("ticket_changed")
    /\ UNCHANGED <<member, elsewhere, streamVars, tabVars, moveVars, deaf, boundVars>>

(* Mutant: nobody is told of the removal. *)
RemoveMemberQuietly ==
    /\ member
    /\ member' = FALSE
    /\ UNCHANGED <<version, elsewhere, unsent, streamVars, tabVars, moveVars, deaf, boundVars>>

(* The user is removed from the team, or leaves it.                        *)
RemoveMember ==
    /\ member
    /\ member' = FALSE
    /\ Announce("close")
    /\ UNCHANGED <<version, elsewhere, streamVars, tabVars, moveVars, deaf, boundVars>>

(* The same, of another team: the event goes to the user's every stream.   *)
LeaveAnother ==
    /\ elsewhere
    /\ elsewhere' = FALSE
    /\ Announce("close_other")
    /\ UNCHANGED <<version, member, streamVars, tabVars, moveVars, deaf, boundVars>>

(* Mutant: a full queue loses the event instead. *)
DeliverDropping(q, e) == IF Len(q) < QueueLimit THEN Append(q, e) ELSE q

(* A full queue is thrown away, and one RESYNC put in its place.           *)
Deliver(q, e) == IF Len(q) < QueueLimit THEN Append(q, e) ELSE <<"resync">>

InQueue(e) == \E i \in DOMAIN queue : queue[i] = e

Subscribed == stream \in {"subscribed", "open"}

(* after_commit: published to the streams subscribed at that moment.       *)
Publish(e) ==
    /\ unsent[e] > 0
    /\ unsent' = [unsent EXCEPT ![e] = @ - 1]
    /\ queue' = IF Subscribed THEN Deliver(queue, e) ELSE queue
    /\ deaf' = \/ deaf
               \/ e = "close" /\ stream = "checked"
               \/ /\ Subscribed /\ Len(queue) >= QueueLimit
                  /\ e = "close" \/ InQueue("close")
    /\ UNCHANGED <<changeVars, stream, visible, connectedBefore, tabVars,
                   moveVars, boundVars>>

(* The stream request: the membership check; then the subscription, with   *)
(* nothing held in between.                                                *)
Check ==
    /\ stream = "asked"
    /\ stream' = IF member THEN "checked" ELSE "over"
    /\ UNCHANGED <<changeVars, unsent, queue, visible, connectedBefore,
                   tabVars, moveVars, deaf, boundVars>>

Subscribe ==
    /\ stream = "checked"
    /\ stream' = "subscribed" /\ queue' = <<>>
    /\ UNCHANGED <<changeVars, unsent, visible, connectedBefore, tabVars,
                   moveVars, deaf, boundVars>>

-----------------------------------------------------------------------------
(* The query behind the board, as React Query runs it for this code.       *)

(* invalidateQueries: the list is on screen, so it is refetched at once. A *)
(* request under way is started over, except the first of all: it is left  *)
(* to finish, and with it whatever it has read already.                    *)
Refetch(f) ==
    IF f.at = "none" \/ board.loaded THEN Asked ELSE [f EXCEPT !.live = FALSE]

(* The request reaches the server: the list as committed, or a refusal.    *)
Answered ==
    /\ fetch.at = "asked"
    /\ IF member
       THEN fetch' = [at |-> "read", ver |-> version, live |-> Subscribed]
       ELSE fetch' = NoFetch
    /\ covered' = (covered /\ member)
    /\ UNCHANGED <<changeVars, unsent, streamVars, board, owing, moveVars, deaf, boundVars>>

(* The answer replaces the cached list, moves drawn on it included.        *)
Land ==
    /\ fetch.at = "read"
    /\ board' = [ver |-> fetch.ver, guesses |-> {}, loaded |-> TRUE]
    /\ covered' = fetch.live /\ owing' = (owing /\ ~fetch.live)
    /\ fetch' = NoFetch
    /\ UNCHANGED <<changeVars, unsent, streamVars, moveVars, deaf, boundVars>>

(* The request fails, and so does its one retry: the old list stays.       *)
FetchFails ==
    /\ fetch.at # "none" /\ failures < MaxFailures
    /\ fetch' = NoFetch /\ covered' = FALSE /\ owing' = FALSE
    /\ failures' = failures + 1
    /\ UNCHANGED <<changeVars, unsent, streamVars, board, moveVars, deaf, drops>>

-----------------------------------------------------------------------------
(* The stream, from the tab's side. *)

(* keepStreamOpen asks: at first, and after the wait that follows a drop.  *)
Connect ==
    /\ stream = "off" /\ visible
    /\ stream' = "asked" /\ deaf' = FALSE
    /\ UNCHANGED <<changeVars, unsent, queue, visible, connectedBefore,
                   tabVars, moveVars, boundVars>>

(* Mutant: no stream catches up. *)
OpenedAsFirst ==
    /\ stream = "subscribed"
    /\ stream' = "open" /\ connectedBefore' = TRUE
    /\ owing' = (connectedBefore /\ board.loaded)
    /\ UNCHANGED <<changeVars, unsent, queue, visible, board, fetch, covered,
                   moveVars, deaf, boundVars>>

(* onOpen: the tab's first stream about the team needs no catch-up, every  *)
(* later one refetches.                                                    *)
Opened ==
    /\ stream = "subscribed"
    /\ stream' = "open" /\ connectedBefore' = TRUE
    /\ owing' = (connectedBefore /\ board.loaded)
    /\ fetch' = IF connectedBefore THEN Refetch(fetch) ELSE fetch
    /\ UNCHANGED <<changeVars, unsent, queue, visible, board, covered, moveVars,
                   deaf, boundVars>>

(* Does a close end this stream, and a nudge make the board stale?         *)
Ends(e)        == e = "close"
Invalidates(e) == e \in {"ticket_changed", "resync"}

(* The next event of the queue, sent by the server and read by the tab.    *)
Hear ==
    /\ stream = "open" /\ queue # <<>>
    /\ queue' = Tail(queue)
    /\ stream' = IF Ends(Head(queue)) THEN "over" ELSE "open"
    /\ covered' = (covered /\ ~Ends(Head(queue)))
    /\ fetch' = IF Invalidates(Head(queue)) THEN Refetch(fetch) ELSE fetch
    /\ UNCHANGED <<changeVars, unsent, visible, connectedBefore, board, owing,
                   moveVars, deaf, boundVars>>

(* Whatever was queued for a stream that is gone is gone with it.          *)
Disconnect ==
    /\ stream' = "off" /\ queue' = <<>> /\ owing' = FALSE
    /\ covered' = FALSE /\ fetch' = [fetch EXCEPT !.live = FALSE]

(* The connection is lost, at any point of the request.                    *)
Drop ==
    /\ stream \in {"asked", "checked", "subscribed", "open"} /\ drops < MaxDrops
    /\ Disconnect
    /\ drops' = drops + 1
    /\ UNCHANGED <<changeVars, unsent, visible, connectedBefore, board, moveVars,
                   deaf, failures>>

(* The tab goes to the back: its stream is aborted, over or not.           *)
Hide ==
    /\ visible /\ drops < MaxDrops
    /\ visible' = FALSE /\ Disconnect
    /\ drops' = drops + 1
    /\ UNCHANGED <<changeVars, unsent, connectedBefore, board, moveVars, deaf, failures>>

Show ==
    /\ ~visible
    /\ visible' = TRUE
    /\ UNCHANGED <<changeVars, unsent, queue, stream, connectedBefore,
                   tabVars, moveVars, deaf, boundVars>>

-----------------------------------------------------------------------------
(* A card moved before the server has answered. *)

(* useMoveTicket and useStatusChange: keep the list, draw the move, ask.   *)
Drag(m) ==
    /\ move[m] = "none" /\ board.loaded /\ visible
    /\ previous' = [previous EXCEPT ![m] = board]
    /\ board' = [board EXCEPT !.guesses = @ \cup {m}]
    /\ move' = [move EXCEPT ![m] = "sent"]
    /\ UNCHANGED <<changeVars, unsent, streamVars, fetch, covered, owing, deaf, boundVars>>

Accept(m) ==
    /\ move[m] = "sent" /\ member /\ version < MaxChanges
    /\ move' = [move EXCEPT ![m] = "accepted"]
    /\ version' = version + 1
    /\ Announce("ticket_changed")
    /\ UNCHANGED <<member, elsewhere, streamVars, tabVars, previous, deaf, boundVars>>

(* A full column, a ticket gone, no membership any more, no network.       *)
Refuse(m) ==
    /\ move[m] = "sent"
    /\ move' = [move EXCEPT ![m] = "refused"]
    /\ UNCHANGED <<changeVars, unsent, streamVars, tabVars, previous, deaf, boundVars>>

(* Putting back the list the move was drawn on undoes the move and nothing *)
(* else, if that list with the move on it is what is still on screen.      *)
UndoesOnly(m) == board = [previous[m] EXCEPT !.guesses = @ \cup {m}]

(* An accepted move leaves the list to the nudge that its commit sends.    *)
Confirmed(m) ==
    /\ move[m] = "accepted"
    /\ move' = [move EXCEPT ![m] = "done"]
    /\ previous' = [previous EXCEPT ![m] = NoBoard]
    /\ UNCHANGED <<changeVars, unsent, streamVars, tabVars, deaf, boundVars>>

RollBack(m) ==
    /\ move[m] = "refused"
    /\ move' = [move EXCEPT ![m] = "done"]
    /\ board' = previous[m]
    /\ previous' = [previous EXCEPT ![m] = NoBoard]
    /\ covered' = (covered /\ UndoesOnly(m))
    /\ UNCHANGED <<changeVars, unsent, streamVars, fetch, owing, deaf, boundVars>>

-----------------------------------------------------------------------------
ServerStep == \/ Commit \/ RemoveMember \/ LeaveAnother \/ Check \/ Subscribe
              \/ \E e \in Written : Publish(e)
TabStep    == \/ Answered \/ Land \/ FetchFails
              \/ Connect \/ Opened \/ Hear \/ Drop \/ Hide \/ Show
MoveStep   == \E m \in Moves : Drag(m) \/ Accept(m) \/ Refuse(m) \/ Confirmed(m) \/ RollBack(m)

LiveNext == ServerStep \/ TabStep \/ MoveStep

StreamLoop == Connect \/ Check \/ Subscribe \/ Opened \/ Hear
Loading    == Answered \/ Land
Ending(m)  == Refuse(m) \/ Confirmed(m) \/ RollBack(m)

(* A commit goes on to publish, the endpoint and the tab's loop run, the   *)
(* server answers. Nobody has to change, move, hide or show anything.      *)
LiveFairness ==
    /\ \A e \in Written : WF_liveVars(Publish(e))
    /\ WF_liveVars(StreamLoop) /\ WF_liveVars(Loading)
    /\ \A m \in Moves : WF_liveVars(Ending(m))

LiveSpec == LiveInit /\ [][LiveNext]_liveVars /\ LiveFairness

-----------------------------------------------------------------------------
LiveTypeOK ==
    /\ version \in Nat /\ member \in BOOLEAN /\ elsewhere \in BOOLEAN
    /\ unsent \in [Written -> Nat]
    /\ queue \in Seq(Events) /\ Len(queue) <= QueueLimit
    /\ stream \in {"off", "asked", "checked", "subscribed", "open", "over"}
    /\ visible \in BOOLEAN /\ connectedBefore \in BOOLEAN /\ owing \in BOOLEAN
    /\ board \in Boards
    /\ fetch \in [at : {"none", "asked", "read"}, ver : Nat, live : BOOLEAN]
    /\ move \in [Moves -> {"none", "sent", "accepted", "refused", "done"}]
    /\ previous \in [Moves -> Boards]
    /\ covered \in BOOLEAN /\ deaf \in BOOLEAN
    /\ drops \in Nat /\ failures \in Nat

(* Nothing the board waits for is under way: no nudge unsent or unheard,   *)
(* no request, no move without its answer.                                 *)
Quiet ==
    /\ unsent["ticket_changed"] = 0 /\ ~InQueue("ticket_changed") /\ ~InQueue("resync")
    /\ fetch.at = "none"
    /\ \A m \in Moves : move[m] \in {"none", "done"}

(* A board read under the stream that is open is, once nothing is under    *)
(* way, what the server has: every change since was announced to it, and a *)
(* queue thrown away left a RESYNC. (realtime.py, invalidation.ts)         *)
QuietBoardIsCurrent ==
    stream = "open" /\ member /\ covered /\ Quiet =>
        board = [ver |-> version, guesses |-> {}, loaded |-> TRUE]

(* A stream never gives up on a member: neither a close about another team *)
(* nor a drop ends it for good. (events.py, connect.ts)                    *)
OverOnlyWhenRemoved == stream = "over" => ~member

(* Somebody removed is hanging up: the close is on its way to an open      *)
(* stream, unless it was lost to an overflow or published between the      *)
(* endpoint's check and its subscription. (realtime.py, events.py)         *)
RemovedIsHangingUp ==
    stream = "open" /\ ~member /\ ~deaf => unsent["close"] > 0 \/ InQueue("close")

(* The tab's stream: it ends for those who left, and for nobody else.      *)
(* (realtime.py, events.py)                                                *)
StreamSafe == LiveTypeOK /\ OverOnlyWhenRemoved /\ RemovedIsHangingUp

(* "refetches once on its way back to cover what it missed": a stream that *)
(* opens again over a board leads to one read under it, unless it is lost  *)
(* again, the user is removed, or the refetch fails. (useTeamEvents.ts)    *)
CatchesUp ==
    (stream = "open" /\ owing) ~> (covered \/ ~owing \/ ~member)

(* A board kept in view comes to show every change there was, and does not *)
(* stay behind. (realtime.py, useTeamEvents.ts)                            *)
ChangesAreShown ==
    (stream = "open" /\ covered /\ board.ver < version) ~>
        (board.ver = version \/ ~covered \/ stream # "open")

(* A tab in front whose user is on the team gets its stream back, whatever *)
(* was dropped. (connect.ts)                                               *)
StreamComesBack ==
    visible /\ member ~> (stream = "open" \/ ~visible \/ ~member)

(* The tab recovers: from a dropped stream, from what it missed without it *)
(* and from a queue thrown away. (connect.ts, useTeamEvents.ts)            *)
StreamRecovers == CatchesUp /\ ChangesAreShown /\ StreamComesBack

=============================================================================
