----------------------------- MODULE BoardOrder -----------------------------
(***************************************************************************)
(* The manual order of a team's board: one rank per card for the whole     *)
(* team, each column showing its own cards in that order; the drop of a    *)
(* card as the browser resolves it, draws it and sends it; and the request *)
(* that ranks it, in two steps -- what it read, what it commits -- so that *)
(* two people's drops race.                                                *)
(*                                                                         *)
(* A card is its number, and a list the cards in it with which is above    *)
(* which. A key of ranking.py is an integer, `Unit` to each step of its    *)
(* integer part; its fraction is what is left over. Strings can always be  *)
(* halved between: here Grain[n] is what is left to halve after n moves.   *)
(* Not in the code are `current`, how a view stands to the server's order  *)
(* -- fetched since the last change to it, with a drop of one's own drawn  *)
(* on that which is under way or was accepted, or behind -- and, of a      *)
(* request, `was`, how the list it was asked on stands to it, and          *)
(* `overtaken`: has another committed since it read?                       *)
(***************************************************************************)
EXTENDS Integers, FiniteSets

CONSTANTS Cards,    \* tickets of the team, by number
          Filed,    \* those filed to begin with
          Columns,  \* its statuses
          Users,    \* people with the board open
          Keys,     \* what their ranks may be: as filed, or tied by drops since
          Shown,    \* the cards each one's filters let through
          Grain,    \* what keys are multiples of, by the moves made
          MaxMoves  \* bound: cards moved and filed

None    == 0
Nowhere == "nowhere"
Unit    == Grain[0]

(* The integer part of a key.                                              *)
Whole(a) == (a \div Unit) * Unit

ASSUME BoardOrderAssumption ==
    /\ Cards \subseteq Nat \ {None} /\ IsFiniteSet(Cards) /\ Filed \subseteq Cards
    /\ Nowhere \notin Columns
    /\ MaxMoves \in Nat /\ Grain \in [0..MaxMoves -> Nat \ {0}]
    /\ \A n \in 1..MaxMoves : Grain[n - 1] = 2 * Grain[n]
    /\ Keys \subseteq [Cards -> Int] /\ \A r \in Keys, c \in Cards : r[c] = Whole(r[c])
    /\ Shown \in [Users -> SUBSET Cards]

VARIABLES rank,     \* of each card, its key
          column,   \* of each card, its status; Nowhere until it is filed
          view,     \* of each user, the cached list: its cards, their order, their columns
          request,  \* of each user, the drop or filing under way
          current,
          made      \* moves and filings so far

orderVars == <<rank, column, view, request, current, made>>

OnBoard(at) == {c \in Cards : at[c] # Nowhere}

(* ORDER BY rank, and of equal ranks the newest first.                     *)
Before(r, a, b) == r[a] < r[b] \/ (r[a] = r[b] /\ a > b)
InOrder(r, S)   == {p \in S \X S : Before(r, p[1], p[2])}

Listed(u, r, at) ==
    LET S == OnBoard(at) \cap Shown[u] IN [on |-> S, before |-> InOrder(r, S), at |-> at]

(* One column of a list.                                                   *)
Column(v, col)   == {c \in v.on : v.at[c] = col}
InColumn(v, col) ==
    [on |-> Column(v, col), before |-> v.before \cap (Column(v, col) \X Column(v, col))]

-----------------------------------------------------------------------------
(* Keys. *)

KeyBefore(b) == IF Whole(b) < b THEN Whole(b) ELSE b - Unit
KeyAfter(a)  == Whole(a) + Unit

\* Mutant: the next whole key, even if it is the one below.
KeyBetweenLoose(a, b) ==
    IF Whole(a) # Whole(b) THEN KeyAfter(a) ELSE (a + b) \div 2

KeyBetween(a, b) ==
    IF Whole(a) # Whole(b) /\ KeyAfter(a) < b THEN KeyAfter(a)
    ELSE IF Whole(a) = Whole(b) THEN (a + b) \div 2 ELSE (a + KeyAfter(a)) \div 2

(* Does a key fit where the neighbours are?                                *)
Fits(r, above, below) == above = None \/ below = None \/ r[above] < r[below]

KeyAt(r, above, below) ==
    IF above = None THEN KeyBefore(r[below])
    ELSE IF below = None THEN KeyAfter(r[above]) ELSE KeyBetween(r[above], r[below])

(* rerank_team: the same order, numbered afresh.                           *)
Renumbered(r, S) ==
    [c \in Cards |-> IF c \in S
                     THEN Unit * Cardinality({d \in S : Before(r, d, c)}) ELSE r[c]]

(* A key before every other: the top of any column.                        *)
TopKey(r, S) ==
    IF S = {} THEN 0 ELSE KeyBefore(CHOOSE k \in {r[c] : c \in S} : \A c \in S : k <= r[c])

-----------------------------------------------------------------------------
(* The drop. *)

First(v, S) == IF S = {} THEN None ELSE CHOOSE d \in S : \A e \in S \ {d} : <<d, e>> \in v.before
Last(v, S)  == IF S = {} THEN None ELSE CHOOSE d \in S : \A e \in S \ {d} : <<e, d>> \in v.before

(* resolveDrop: a card let go over another takes that card's place, which  *)
(* shifts towards where it came from in its own column; from another       *)
(* column it goes above.                                                   *)
Neighbours(v, c, over) ==
    LET others == Column(v, v.at[over]) \ {c}
    IN  IF v.at[c] = v.at[over] /\ <<c, over>> \in v.before
        THEN [above |-> over, below |-> First(v, {d \in others : <<over, d>> \in v.before})]
        ELSE [above |-> Last(v, {d \in others : <<d, over>> \in v.before}), below |-> over]

(* The list with `c` under those of `up` and over the others.              *)
Under(v, c, up, to) ==
    [on     |-> v.on,
     before |-> {p \in v.before : c \notin {p[1], p[2]}}
                \cup (up \X {c}) \cup ({c} \X (v.on \ (up \cup {c}))),
     at     |-> [v.at EXCEPT ![c] = to]]

\* Mutant: at the end, above the card above.
PlacedAbove(v, c, above, below, to) ==
    Under(v, c, {d \in v.on \ {c} : <<d, IF below # None THEN below ELSE above>> \in v.before}, to)

(* placeTicket: next to the card below, or else to the one above.          *)
Placed(v, c, above, below, to) ==
    Under(v, c, {d \in v.on \ {c} : IF below # None THEN <<d, below>> \in v.before
                                     ELSE d = above \/ <<d, above>> \in v.before}, to)

NoList    == [on |-> {}, before |-> {}, at |-> [c \in Cards |-> Nowhere]]
NoRequest == [at |-> "none", kind |-> "move", card |-> None, above |-> None, below |-> None,
              to |-> Nowhere, old |-> NoList, was |-> "behind",
              read |-> [c \in Cards |-> 0], on |-> {}, overtaken |-> FALSE]

Sent(u, kind, c, above, below, to) ==
    [NoRequest EXCEPT !.at = "sent", !.kind = kind, !.card = c, !.above = above,
                      !.below = below, !.to = to, !.old = view[u], !.was = current[u]]

\* `current` of a list a drop is drawn on.
DrawnOn(at) == IF at = "fetched" THEN "drawing" ELSE "behind"

OrderInit ==
    /\ column \in [Cards -> Columns \cup {Nowhere}] /\ OnBoard(column) = Filed
    /\ rank \in Keys
    /\ view = [u \in Users |-> Listed(u, rank, column)]
    /\ request = [u \in Users |-> NoRequest]
    /\ current = [u \in Users |-> "fetched"] /\ made = 0

Begin(u) == request[u].at = "none" /\ made < MaxMoves

(* A card is dropped on another: drawn there, and sent -- with its column, *)
(* when that is a new one.                                                 *)
DropOnCard(u, c, over) ==
    /\ Begin(u) /\ c # over
    /\ {c, over} \subseteq view[u].on
    /\ LET n  == Neighbours(view[u], c, over)
           to == view[u].at[over]
           by == IF view[u].at[c] = to THEN Nowhere ELSE to
       IN  /\ view' = [view EXCEPT ![u] = Placed(@, c, n.above, n.below, to)]
           /\ request' = [request EXCEPT ![u] = Sent(u, "move", c, n.above, n.below, by)]
    /\ current' = [current EXCEPT ![u] = DrawnOn(@)]
    /\ made' = made + 1
    /\ UNCHANGED <<rank, column>>

(* On a column's empty space: its status changes, its rank does not.       *)
DropOnColumn(u, c, to) ==
    /\ Begin(u) /\ c \in view[u].on /\ view[u].at[c] # to
    /\ view' = [view EXCEPT ![u].at[c] = to]
    /\ request' = [request EXCEPT ![u] = Sent(u, "status", c, None, None, to)]
    /\ current' = [current EXCEPT ![u] = DrawnOn(@)]
    /\ made' = made + 1
    /\ UNCHANGED <<rank, column>>

(* A ticket is filed. The counter lets one filing through at a time.       *)
FileCard(u, c, to) ==
    /\ Begin(u) /\ column[c] = Nowhere /\ \A d \in Cards : d < c => column[d] # Nowhere
    /\ \A w \in Users : request[w].kind = "file" => request[w].at = "none"
    /\ request' = [request EXCEPT ![u] = Sent(u, "file", c, None, None, to)]
    /\ made' = made + 1
    /\ UNCHANGED <<rank, column, view, current>>

-----------------------------------------------------------------------------
(* The request. *)

ReadRanks(u) ==
    /\ request[u].at = "sent"
    /\ request' = [request EXCEPT ![u].at = "read",
                                    ![u].read = rank, ![u].on = OnBoard(column)]
    /\ UNCHANGED <<rank, column, view, current, made>>

(* What the commit writes over the ranks it finds: the rows it changed.    *)
Ranked(q) ==
    LET fresh == IF Fits(q.read, q.above, q.below) THEN q.read ELSE Renumbered(q.read, q.on)
    IN  [c \in Cards |->
            IF c = q.card
            THEN CASE q.kind = "status" -> rank[c]
                   [] q.kind = "file"   -> TopKey(q.read, q.on)
                   [] q.kind = "move"   -> KeyAt(fresh, q.above, q.below)
            ELSE IF fresh[c] # q.read[c] THEN fresh[c] ELSE rank[c]]

(* No key fits even in the new numbers: the neighbours are out of order.   *)
OutOfOrder(q) ==
    /\ q.kind = "move" /\ ~Fits(q.read, q.above, q.below)
    /\ ~Fits(Renumbered(q.read, q.on), q.above, q.below)

(* Commits; a card keeps the column it is in by now if none was sent.      *)
(* Every view is behind it but the one it is still drawn on, if that was   *)
(* fetched, and so is every list that might be put back.                   *)
CommitOrder(u) ==
    LET q == request[u] IN
    /\ q.at = "read" /\ ~OutOfOrder(q)
    /\ rank' = Ranked(q)
    /\ column' = IF q.to = Nowhere THEN column ELSE [column EXCEPT ![q.card] = q.to]
    /\ current' = [w \in Users |-> IF w = u /\ current[w] = "drawing" THEN "drawn" ELSE "behind"]
    /\ request' = [w \in Users |-> IF w = u THEN NoRequest
                                   ELSE [request[w] EXCEPT !.was = "behind",
                                            !.overtaken = @ \/ request[w].at = "read"]]
    /\ UNCHANGED <<view, made>>

(* Refused -- a full column, a ticket gone, neighbours out of order -- and *)
(* the list from before the drop is put back, over any fetched since.      *)
RefuseOrder(u) ==
    LET q == request[u] IN
    /\ q.at \in {"sent", "read"}
    /\ IF q.kind = "file" THEN UNCHANGED <<view, current>>
       ELSE view' = [view EXCEPT ![u] = q.old] /\ current' = [current EXCEPT ![u] = q.was]
    /\ request' = [request EXCEPT ![u] = NoRequest]
    /\ UNCHANGED <<rank, column, made>>

(* The nudge, or the return to the page, reads the list again, with a drop *)
(* under way too: what was drawn of it is gone until the next fetch. (What *)
(* is read lands at once: a change in between leaves the list behind, as   *)
(* one after it does.)                                                     *)
FetchBoard(u) ==
    /\ view' = [view EXCEPT ![u] = Listed(u, rank, column)]
    /\ current' = [current EXCEPT ![u] = "fetched"]
    /\ UNCHANGED <<rank, column, request, made>>

OrderNext ==
    \E u \in Users :
        \/ ReadRanks(u) \/ CommitOrder(u) \/ RefuseOrder(u) \/ FetchBoard(u)
        \/ \E c \in Cards : \/ \E over \in Cards : DropOnCard(u, c, over)
                            \/ \E to \in Columns : DropOnColumn(u, c, to) \/ FileCard(u, c, to)

OrderSpec == OrderInit /\ [][OrderNext]_orderVars

-----------------------------------------------------------------------------
ListType == [on : SUBSET Cards, before : SUBSET (Cards \X Cards),
             at : [Cards -> Columns \cup {Nowhere}]]
RequestType ==
    [at : {"none", "sent", "read"}, kind : {"move", "status", "file"},
     card : Cards \cup {None}, above : Cards \cup {None}, below : Cards \cup {None},
     to : Columns \cup {Nowhere}, old : ListType, was : {"fetched", "drawn", "behind"},
     read : [Cards -> Int], on : SUBSET Cards, overtaken : BOOLEAN]

(* Type correctness: a list is one after the other.                        *)
OneByOne(v) ==
    /\ v.before \subseteq v.on \X v.on
    /\ \A a, b \in v.on : a # b => (<<a, b>> \in v.before <=> <<b, a>> \notin v.before)
    /\ \A a, b, c \in v.on : <<a, b>> \in v.before /\ <<b, c>> \in v.before => <<a, c>> \in v.before
    /\ \A a \in v.on : <<a, a>> \notin v.before
OrderTypeOK ==
    /\ rank \in [Cards -> Int] /\ column \in [Cards -> Columns \cup {Nowhere}]
    /\ view \in [Users -> ListType] /\ request \in [Users -> RequestType]
    /\ \A u \in Users : OneByOne(view[u])
    /\ current \in [Users -> {"fetched", "drawing", "drawn", "behind"}] /\ made \in 0..MaxMoves

(* "What the server is about to make true, shown before it answers": over  *)
(* a list that was up to date, and that no fetch replaced meanwhile, a     *)
(* drop that is accepted leaves every column on screen as the server       *)
(* orders it; and one that is refused leaves them so if nobody changed the *)
(* order while it was under way. (useMoveTicket.ts, ranks.py)              *)
SeenIsTrue ==
    \A u \in Users : current[u] \in {"fetched", "drawn"} =>
        \A col \in Columns :
            InColumn(view[u], col) = InColumn(Listed(u, rank, column), col)

(* A drop moves one card: no two others change places, unless what they    *)
(* were renumbered from had been overtaken. (ranks.py)                     *)
OnlyTheCardMoves ==
    [][\A u \in Users : CommitOrder(u) /\ ~request[u].overtaken =>
        \A a, b \in OnBoard(column) \ {request[u].card} :
            Before(rank, a, b) => Before(rank', a, b)]_orderVars

(* An accepted drop puts the card between the cards it named, however old  *)
(* the list they were seen in, unless they moved while it was ranked.      *)
(* (ranks.py, useMoveTicket.ts)                                            *)
LandsWhereDropped ==
    [][\A u \in Users :
        LET q == request[u] IN
        CommitOrder(u) /\ q.kind = "move" /\ ~q.overtaken =>
            /\ q.above # None => rank'[q.above] < rank'[q.card]
            /\ q.below # None => rank'[q.card] < rank'[q.below]]_orderVars

(* Nothing is refused for want of a key but a drop between cards that are  *)
(* the other way round by then: ties are numbered apart. (ranks.py)        *)
RefusedOnlyIfStale ==
    \A u \in Users : request[u].at = "read" /\ OutOfOrder(request[u]) => request[u].was # "fetched"

(* What is on screen is what the server orders, and a drop between cards   *)
(* seen in their order is not refused. (useMoveTicket.ts, ranks.py)        *)
OrderSafe == OrderTypeOK /\ SeenIsTrue /\ RefusedOnlyIfStale

(* "New tickets go on top of their column", whatever was moved to the top. *)
(* (ranks.py)                                                              *)
NewOnTop ==
    [][\A u \in Users :
        LET q == request[u] IN
        CommitOrder(u) /\ q.kind = "file" /\ ~q.overtaken =>
            \A c \in OnBoard(column) : Before(rank', q.card, c)]_orderVars

(* A commit puts its card where it was asked to, and leaves the others in  *)
(* the order they were in. (ranks.py, ranking.py)                          *)
CommitsLand == OnlyTheCardMoves /\ LandsWhereDropped /\ NewOnTop

=============================================================================
