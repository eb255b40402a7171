----------------------------- MODULE CodeLinks -----------------------------
(***************************************************************************)
(* A pull request of a connected repository and the tickets it names:      *)
(* events the provider sends, in deliveries that come late, again, in      *)
(* another order or not at all, the links they leave on the tickets, and   *)
(* the two triggers they set off, which move a ticket to review and to     *)
(* done. Branches and commits are the case of a link that has no state.    *)
(*                                                                         *)
(* Two variables are not in the code: `missed`, the tickets an event did   *)
(* not reach, and `disturbed`, those an event older than the last reached, *)
(* or two deliveries at once.                                              *)
(***************************************************************************)
EXTENDS Naturals, Sequences, FiniteSets

CONSTANTS Named,            \* tickets a text may name
          Processes,        \* API processes: each handles one delivery at a time
          MaxEvents,        \* bound: what happens to the pull request
          MaxRedeliveries,  \* bound: presses of the provider's button
          MaxLosses         \* bound: deliveries that reach nothing

ASSUME LinksAssumption ==
    MaxEvents \in Nat /\ MaxRedeliveries \in Nat /\ MaxLosses \in Nat

VARIABLES
    events,     \* the pull request's life, as the provider tells it
    pending,    \* of each event, the deliveries on their way
    link,       \* the CodeLink of each ticket: its state, if there is one
    fired,      \* how often each trigger was set off, on each ticket
    place,      \* where each ticket is
    handling,   \* what each process has read for the delivery it is handling
    missed, disturbed, newest,
    redelivered, losses

linkVars == <<events, pending, link, fired, place, handling, missed, disturbed,
              newest, redelivered, losses>>

PullStates == {"open", "closed", "merged"}
NoLink     == "none"
Triggers   == {"opened", "merged"}
Free       == [event |-> 0, tickets |-> {}, saw |-> <<>>]
Deliveries == [event : 1..MaxEvents, tickets : SUBSET Named,
               saw : [Named -> PullStates \cup {NoLink}]]

LinksInit ==
    /\ events = <<>> /\ pending = [e \in 1..MaxEvents |-> 0]
    /\ link = [t \in Named |-> NoLink]
    /\ fired = [t \in Named |-> [g \in Triggers |-> 0]]
    /\ place = [t \in Named |-> "board"]
    /\ handling = [p \in Processes |-> Free]
    /\ missed = {} /\ disturbed = {} /\ newest = [t \in Named |-> 0]
    /\ redelivered = 0 /\ losses = 0

-----------------------------------------------------------------------------
(* The provider. *)

(* The pull request is opened, edited, closed, reopened or merged; a merge *)
(* is for good. Its text names some tickets.                               *)
Happen(state, names) ==
    /\ Len(events) < MaxEvents
    /\ IF events = <<>> THEN state = "open"
       ELSE events[Len(events)].state = "merged" => state = "merged"
    /\ events' = Append(events, [state |-> state, names |-> names])
    /\ pending' = [pending EXCEPT ![Len(events) + 1] = 1]
    /\ UNCHANGED <<link, fired, place, handling, missed, disturbed, newest,
                   redelivered, losses>>

(* Somebody presses "redeliver", on an event of any age.                   *)
Redeliver(e) ==
    /\ redelivered < MaxRedeliveries
    /\ redelivered' = redelivered + 1
    /\ pending' = [pending EXCEPT ![e] = @ + 1]
    /\ UNCHANGED <<events, link, fired, place, handling, missed, disturbed,
                   newest, losses>>

(* A webhook set up after the fact or wrongly, an archived team, an error. *)
Lose(e) ==
    /\ pending[e] > 0 /\ losses < MaxLosses
    /\ pending' = [pending EXCEPT ![e] = @ - 1]
    /\ losses' = losses + 1 /\ missed' = missed \cup events[e].names
    /\ UNCHANGED <<events, link, fired, place, handling, disturbed, newest, redelivered>>

-----------------------------------------------------------------------------
(* receive. *)

(* The tickets the text names on this team, out of the trash, and the link *)
(* of each.                                                                *)
BeginReceive(p, e) ==
    LET found == {t \in events[e].names : place[t] = "board"}
        busy  == UNION {handling[q].tickets : q \in Processes}
    IN  /\ handling[p] = Free /\ pending[e] > 0
        /\ pending' = [pending EXCEPT ![e] = @ - 1]
        /\ handling' = [handling EXCEPT ![p] = [event |-> e, tickets |-> found, saw |-> link]]
        /\ missed' = missed \cup (events[e].names \ found)
        /\ disturbed' = disturbed \cup (found \cap busy) \cup {t \in found : e < newest[t]}
        /\ newest' = [t \in Named |-> IF t \in found /\ newest[t] < e THEN e ELSE newest[t]]
        /\ UNCHANGED <<events, link, fired, place, redelivered, losses>>

(* Mutant: what is new to SoftTrack has been opened. *)
TriggerOpenedFirst(saw, state) ==
    {g \in Triggers : \/ g = "merged" /\ state = "merged" /\ saw \notin {NoLink, "merged"}
                      \/ g = "opened" /\ saw = NoLink}

(* Mutant: a payload that says merged is a merge. *)
TriggerOnArrival(saw, state) ==
    {g \in Triggers : \/ g = "merged" /\ state = "merged"
                      \/ g = "opened" /\ state # "merged" /\ saw = NoLink}

(* Mutant: a pull request that is open again has been opened. *)
TriggerReopened(saw, state) ==
    {g \in Triggers : \/ g = "merged" /\ state = "merged" /\ saw # "merged"
                      \/ g = "opened" /\ state = "open" /\ saw # "open"}

(* _upsert: which trigger it was, if any -- a link appearing, or becoming  *)
(* merged.                                                                 *)
Trigger(saw, state) ==
    {g \in Triggers : \/ g = "merged" /\ state = "merged" /\ saw # "merged"
                      \/ g = "opened" /\ state # "merged" /\ saw = NoLink}

(* The commit fails on a row another delivery has added, or one purged.    *)
Collides(p) ==
    \E t \in handling[p].tickets :
        place[t] = "gone" \/ (handling[p].saw[t] = NoLink /\ link[t] # NoLink)

(* Only a column whose value is not the one read is written.               *)
Upsert(p) ==
    LET state == events[handling[p].event].state
    IN  [t \in Named |-> IF t \in handling[p].tickets /\ handling[p].saw[t] # state
                         THEN state ELSE link[t]]

(* The links, and what the rules they set off do, in one transaction.      *)
Receive(p) ==
    LET state == events[handling[p].event].state
    IN  /\ handling[p] # Free
        /\ handling' = [handling EXCEPT ![p] = Free]
        /\ IF Collides(p)
           THEN /\ missed' = missed \cup handling[p].tickets
                /\ UNCHANGED <<link, fired>>
           ELSE /\ link' = Upsert(p)
                /\ fired' = [t \in Named |-> [g \in Triggers |->
                      fired[t][g] + (IF /\ t \in handling[p].tickets
                                        /\ g \in Trigger(handling[p].saw[t], state)
                                     THEN 1 ELSE 0)]]
                /\ UNCHANGED missed
        /\ UNCHANGED <<events, pending, place, disturbed, newest, redelivered, losses>>

-----------------------------------------------------------------------------
(* The tickets. *)

BinTicket(t) ==
    /\ place[t] = "board"
    /\ place' = [place EXCEPT ![t] = "trash"]
    /\ UNCHANGED <<events, pending, link, fired, handling, missed, disturbed,
                   newest, redelivered, losses>>

UnbinTicket(t) ==
    /\ place[t] = "trash"
    /\ place' = [place EXCEPT ![t] = "board"]
    /\ UNCHANGED <<events, pending, link, fired, handling, missed, disturbed,
                   newest, redelivered, losses>>

(* delete_links_for_ticket, as the ticket is purged.                       *)
EraseTicket(t) ==
    /\ place[t] = "trash"
    /\ place' = [place EXCEPT ![t] = "gone"]
    /\ link' = [link EXCEPT ![t] = NoLink]
    /\ UNCHANGED <<events, pending, fired, handling, missed, disturbed,
                   newest, redelivered, losses>>

-----------------------------------------------------------------------------
LinksNext ==
    \/ \E s \in PullStates, n \in SUBSET Named : Happen(s, n)
    \/ \E e \in DOMAIN events :
          \/ Redeliver(e) \/ Lose(e)
          \/ \E p \in Processes : BeginReceive(p, e)
    \/ \E p \in Processes : Receive(p)
    \/ \E t \in Named : BinTicket(t) \/ UnbinTicket(t) \/ EraseTicket(t)

LinksSpec == LinksInit /\ [][LinksNext]_linkVars

-----------------------------------------------------------------------------
LinksTypeOK ==
    /\ events \in Seq([state : PullStates, names : SUBSET Named])
    /\ Len(events) <= MaxEvents
    /\ pending \in [1..MaxEvents -> Nat]
    /\ link \in [Named -> PullStates \cup {NoLink}]
    /\ fired \in [Named -> [Triggers -> Nat]]
    /\ place \in [Named -> {"board", "trash", "gone"}]
    /\ handling \in [Processes -> Deliveries \cup {Free}]
    /\ \A p \in Processes : handling[p].event <= Len(events)
    /\ missed \subseteq Named /\ disturbed \subseteq Named
    /\ newest \in [Named -> 0..MaxEvents]
    /\ \A t \in Named : newest[t] <= Len(events)
    /\ redelivered \in Nat /\ losses \in Nat

(* "Press redeliver ten times and the second through tenth change          *)
(* nothing": a pull request is opened on a ticket once, whatever comes     *)
(* twice, late, or in two processes. (integrations.py)                     *)
OpenedOnce == \A t \in Named : fired[t]["opened"] <= 1

(* ... and merged once, unless an older event or a second delivery at the  *)
(* same time came between. (integrations.py)                               *)
MergedOnce == \A t \in Named \ disturbed : fired[t]["merged"] <= 1

(* A trigger fires once, however its webhooks come. (integrations.py)      *)
FiredOnce == LinksTypeOK /\ OpenedOnce /\ MergedOnce

(* "Closed-without-merging is not the merge trigger", and a ticket is only *)
(* moved to done by a merge whose text named it. (webhooks.py)             *)
MergeIsReal ==
    \A t \in Named : fired[t]["merged"] > 0 =>
        \E e \in DOMAIN events : events[e].state = "merged" /\ t \in events[e].names

Settled(t) == \A e \in DOMAIN events : t \in events[e].names =>
                  pending[e] = 0 /\ \A p \in Processes : handling[p].event # e

(* No merge is missed, in whatever order what was sent came: once all of   *)
(* it is handled, a ticket a merged event named has been told. An event it *)
(* never got, or a ticket in the trash, is another matter.                 *)
(* (integrations.py)                                                       *)
MergeIsHeard ==
    \A t \in Named \ missed :
        Settled(t) /\ (\E e \in DOMAIN events : events[e].state = "merged" /\ t \in events[e].names)
            => fired[t]["merged"] > 0

(* A link says what the last event that named its ticket said, if events   *)
(* came one at a time and none after a newer one. (integrations.py)        *)
LinkIsCurrent ==
    \A t \in Named \ (missed \cup disturbed) :
        Settled(t) /\ place[t] # "gone" /\ newest[t] > 0
            => link[t] = events[newest[t]].state

(* What is told of a pull request is what happened to it, and all of it.   *)
(* (integrations.py, webhooks.py)                                          *)
HeardTruly == MergeIsReal /\ MergeIsHeard /\ LinkIsCurrent

(* Reopened work does not go back to review: what was opened before is not *)
(* opened again after its merge. (integrations.py)                         *)
NeverOpenedAfterMerge ==
    [][\A t \in Named : fired[t]["merged"] > 0 => fired'[t]["opened"] = fired[t]["opened"]]_linkVars

=============================================================================
