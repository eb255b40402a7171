------------------------------- MODULE TimeLog -------------------------------
(***************************************************************************)
(* The time one person logs on one ticket on one day, and the cell of the  *)
(* timesheet that shows it. The day is a list of entries; typing in the    *)
(* cell asks the server to make them come to a figure, which it does entry *)
(* by entry, a commit each. The ticket's Time section, in another tab,     *)
(* logs, changes and deletes the entries one at a time, and logging takes  *)
(* its time off what is left of the ticket.                                *)
(*                                                                         *)
(* Entries are numbered in the order they were created. Not in the code:   *)
(* `first` of a call, the day it found; `crossed`, the calls during which  *)
(* another wrote, or before which one had, where a form was filled in from *)
(* an estimate out of date; `outside`, that the Time section has changed   *)
(* the day since the week was read; `misled`, that a refused save put back *)
(* an outdated figure, or that the day was written while the cell showed   *)
(* what had been typed, by anything but an undisturbed save of it: the     *)
(* page corrects neither if the figure it reads next is the one it had.    *)
(***************************************************************************)
EXTENDS Integers, FiniteSets

CONSTANTS MaxEntries, \* bound: entries ever made on the day
          Most,      \* bound: minutes of an entry or a figure
          Estimate,  \* the ticket's time estimate, in minutes
          Saves,     \* requests of the cell in flight at once
          Others,    \* requests of the Time section in flight at once
          Days,      \* what the day may hold when the page opens
          MaxCalls,  \* bound: requests
          MaxSlips   \* bound: requests that fail

ASSUME TimeAssumption ==
    /\ MaxEntries \in Nat /\ Most \in Nat /\ Estimate \in Nat
    /\ MaxCalls \in Nat /\ MaxSlips \in Nat
    /\ Days \subseteq [1..MaxEntries -> 0..Most]
    /\ Saves \cap Others = {}

VARIABLES last,    \* the number of the last entry made
          entry,   \* the minutes of each entry, 0 for one that is not there
          left,    \* what is left of the ticket, as set by hand
          done,    \* is the ticket done or cancelled?
          call,    \* the requests
          cell,    \* the cell on the page
          reading, \* the request for the week
          shown,   \* the estimate as the Time section last read it
          crossed, outside, misled,
          calls, slips

timeVars == <<last, entry, left, done, call, cell, reading, shown, crossed, outside, misled,
              calls, slips>>
serverVars == <<last, entry, left, done>>
pageVars == <<cell, reading, shown, misled>>

Unset  == -1
Junk   == -2
Silent == -3
Minutes == 0..Most
Ids == 1..MaxEntries
Calls == Saves \cup Others

(* The request for the week: none, sent, or read with what it read.        *)
NotReading == [at |-> "none", figure |-> 0]
Requested  == [at |-> "sent", figure |-> 0]

Free == [at |-> "free", kind |-> "day", want |-> 0, id |-> 0, from |-> 0, said |-> Silent,
         told |-> 0, ids |-> {}, seen |-> [i \in Ids |-> 0], first |-> [i \in Ids |-> 0],
         left |-> Unset]

(* Added up as they are in the code, here minute by minute.                *)
MinutesOf(day, ids) == UNION {{<<i, m>> : m \in 1..day[i]} : i \in ids}
Sum(day, ids) == Cardinality(MinutesOf(day, ids))
Logged        == Sum(entry, Ids)
There(day)    == {i \in Ids : day[i] > 0}
Newest(ids)   == CHOOSE i \in ids : \A j \in ids : j <= i
Floor(n)      == IF n < 0 THEN 0 ELSE n

(* A column is written only where it was changed from what was loaded.     *)
Written(loaded, new, current) == IF new = loaded THEN current ELSE new

(* What is left of the ticket, as the server works it out ...              *)
RemainingOf(byHand, spent, resolved) ==
    IF resolved THEN 0 ELSE IF byHand # Unset THEN byHand ELSE Floor(Estimate - spent)

(* The estimate as the server tells it: was what is left set by hand, what *)
(* is left, and what is logged; ...                                        *)
TicketEstimate == [set |-> left # Unset, remaining |-> RemainingOf(left, Logged, done),
                   logged |-> Logged]

(* ... and what the form that logs `spent` more makes of one it was told.  *)
RemainingAfter(estimate, spent) ==
    IF estimate.set THEN Floor(estimate.remaining - spent)
    ELSE Floor(Estimate - estimate.logged - spent)

(* What logging `spent` makes of what was set by hand: what was said with  *)
(* it, or the one loaded less the time.                                    *)
AfterLogging(loaded, spent, said) ==
    IF said # Silent THEN said ELSE IF loaded # Unset THEN Floor(loaded - spent) ELSE loaded

TimeInit ==
    /\ last \in 0..MaxEntries /\ entry \in Days /\ There(entry) = 1..last
    /\ left \in Minutes \cup {Unset} /\ done \in BOOLEAN
    /\ call = [c \in Calls |-> Free]
    /\ cell = [text |-> Logged, figure |-> Logged, typing |-> FALSE, invalid |-> FALSE,
               on |-> "page"]
    /\ reading = NotReading /\ shown = TicketEstimate
    /\ crossed = {} /\ outside = FALSE /\ misled = FALSE /\ calls = 0 /\ slips = 0

Is(c, kind, at) == call[c].kind = kind /\ call[c].at = at

Send(c, kind, want, id, said, told) ==
    /\ call[c].at = "free" /\ calls < MaxCalls /\ calls' = calls + 1
    /\ call' = [call EXCEPT ![c] = [Free EXCEPT
           !.at = "sent", !.kind = kind, !.want = want, !.id = id, !.from = cell.figure,
           !.said = said, !.told = told]]

End(c) == call' = [call EXCEPT ![c] = Free] /\ crossed' = crossed \ {c}

-----------------------------------------------------------------------------
(* The cell. *)

(* Anything may be typed; a cell only passed through keeps its text.       *)
Typed == Minutes \cup {Junk, cell.text}

Focus ==
    /\ cell.on = "page" /\ ~cell.typing
    /\ cell' = [cell EXCEPT !.typing = TRUE]
    /\ UNCHANGED <<serverVars, call, reading, shown, crossed, outside, misled, calls, slips>>

(* The cell is left with `typed` in it: not a duration is said, the figure *)
(* it had is nothing to save, and another is. `otherwise` is what the cell *)
(* shows when what was typed cannot be read. (What is typed is chosen      *)
(* here: until it is left, nothing looks at it.)                           *)
Commit(c, typed, otherwise) ==
    /\ cell.typing
    /\ \/ /\ typed = Junk
          /\ cell' = [cell EXCEPT !.typing = FALSE, !.invalid = TRUE, !.text = otherwise]
          /\ misled' = (misled /\ otherwise # cell.figure)
          /\ UNCHANGED <<call, crossed, calls>>
       \/ /\ typed = cell.figure
          /\ cell' = [cell EXCEPT !.typing = FALSE, !.invalid = FALSE, !.text = cell.figure]
          /\ misled' = FALSE
          /\ UNCHANGED <<call, crossed, calls>>
       \/ /\ typed \notin {Junk, cell.figure}
          /\ cell' = [cell EXCEPT !.typing = FALSE, !.invalid = FALSE, !.text = typed]
          /\ misled' = FALSE
          /\ Send(c, "day", typed, 0, Silent, 0) /\ UNCHANGED crossed
    /\ UNCHANGED <<serverVars, reading, shown, outside, slips>>

(* Enter blurs the cell, as leaving it does.                               *)
Blur(c, typed) == Commit(c, typed, typed)

(* Escape puts the figure back and blurs; but what the blur reads is what  *)
(* was typed, the put-back text being there only once it is rendered.      *)
Escape(c, typed) == Commit(c, typed, cell.figure)

(* To another week, and back: the cell is gone, and the request with it.   *)
LeaveWeek ==
    /\ cell.on = "page" /\ ~cell.typing
    /\ cell' = [cell EXCEPT !.on = "elsewhere"] /\ reading' = NotReading
    /\ UNCHANGED <<serverVars, call, shown, crossed, outside, misled, calls, slips>>

(* The cell as it appears, with nothing typed in it.                       *)
Fresh(figure) == [text |-> figure, figure |-> figure, typing |-> FALSE, invalid |-> FALSE,
                  on |-> "page"]

ComeBack ==
    /\ cell.on = "elsewhere" /\ cell' = Fresh(cell.figure)
    /\ reading' = Requested /\ misled' = FALSE
    /\ UNCHANGED <<serverVars, call, shown, crossed, outside, calls, slips>>

(* A week that could not be read is an error with a button to try again.   *)
Retry ==
    /\ cell.on = "error" /\ reading' = Requested
    /\ UNCHANGED <<serverVars, call, cell, shown, misled, crossed, outside, calls, slips>>

-----------------------------------------------------------------------------
(* The Time section of the ticket, in another tab. *)

(* The estimate is read when the section appears and after a save of its   *)
(* own; a save in the other tab does not make it: what it shows is often   *)
(* out of date. So are its entries: some may be gone.                      *)
ReadEstimate ==
    /\ calls < MaxCalls \* bound: else no form is filled in from it
    /\ shown' = TicketEstimate
    /\ UNCHANGED <<serverVars, call, cell, reading, misled, crossed, outside, calls, slips>>

(* What would be left is worked out from the estimate shown.               *)
LogTime(c, spent, said) ==
    /\ Send(c, "log", spent, 0, said, RemainingAfter(shown, spent))
    /\ crossed' = IF shown = TicketEstimate THEN crossed ELSE crossed \cup {c}
    /\ UNCHANGED <<serverVars, pageVars, outside, slips>>

AmendEntry(c, i, minutes) ==
    /\ i <= last /\ Send(c, "amend", minutes, i, Silent, 0)
    /\ UNCHANGED <<serverVars, pageVars, crossed, outside, slips>>

DropEntry(c, i) ==
    /\ i <= last /\ Send(c, "drop", 0, i, Silent, 0)
    /\ UNCHANGED <<serverVars, pageVars, crossed, outside, slips>>

-----------------------------------------------------------------------------
(* The server. *)

(* What a commit of c means for the others, and for the page.              *)
Crosses(c) ==
    /\ crossed' = crossed \cup {d \in Calls \ {c} : call[d].at # "free"}
    /\ outside' = (outside \/ call[c].kind # "day")
    /\ misled' = (misled \/ (/\ cell.text # cell.figure
                             /\ \/ call[c].kind # "day" \/ c \in crossed
                                \/ call[c].want # cell.text
                                \/ \E d \in Saves \ {c} : call[d].at # "free"))

(* It is over, and what it loaded is forgotten.                            *)
Becomes(c, at) ==
    call' = [call EXCEPT ![c] = [@ EXCEPT
        !.at = at, !.id = 0, !.ids = {}, !.seen = Free.seen, !.left = Unset]]

(* A request loads what it works on; an entry that is gone is refused, and *)
(* a day that comes to the figure is left alone.                           *)
Gone(c) == call[c].kind \in {"amend", "drop"} /\ entry[call[c].id] = 0

Load(c) ==
    /\ call[c].at = "sent"
    /\ \/ Gone(c) /\ Becomes(c, "refused")
       \/ /\ call[c].kind = "day" /\ Logged = call[c].want
          /\ call' = [call EXCEPT ![c].at = "answer", ![c].first = entry]
       \/ /\ call[c].kind = "day" /\ Logged # call[c].want
          /\ call' = [call EXCEPT ![c].at = "decide", ![c].ids = There(entry), ![c].seen = entry,
                                  ![c].first = entry, ![c].left = left]
       \/ /\ call[c].kind # "day" /\ ~Gone(c)
          /\ call' = [call EXCEPT ![c].at = "decide", ![c].seen = entry, ![c].left = left]
    /\ UNCHANGED <<serverVars, pageVars, crossed, outside, calls, slips>>

(* A new entry, for the form or for a day that had none.                   *)
LogEntry(c) ==
    /\ call[c].at = "decide" /\ last < MaxEntries
    /\ call[c].kind = "log" \/ (call[c].kind = "day" /\ call[c].ids = {})
    /\ last' = last + 1 /\ entry' = [entry EXCEPT ![last + 1] = call[c].want]
    /\ left' = Written(call[c].left, AfterLogging(call[c].left, call[c].want, call[c].said), left)
    /\ Becomes(c, "answer") /\ Crosses(c)
    /\ UNCHANGED <<done, cell, reading, shown, calls, slips>>

(* The older entries come to the figure without the newest of the day.     *)
Older(c)     == call[c].ids \ {Newest(call[c].ids)}
OlderSum(c)  == Sum(call[c].seen, Older(c))

(* Mutant: all of them counted, the newest too.                            *)
TooMuchWithIt(c) == Sum(call[c].seen, call[c].ids) >= call[c].want

TooMuch(c) == OlderSum(c) >= call[c].want

(* Then the newest goes -- one that is gone already goes as well -- and    *)
(* the rest is looked at again: ...                                        *)
DeleteNewest(c) ==
    /\ Is(c, "day", "decide") /\ call[c].ids # {} /\ TooMuch(c)
    /\ entry' = [entry EXCEPT ![Newest(call[c].ids)] = 0]
    /\ call' = [call EXCEPT ![c] = [call[c] EXCEPT !.at = "reload", !.ids = Older(c)]]
    /\ Crosses(c)
    /\ UNCHANGED <<last, left, done, cell, reading, shown, calls, slips>>

(* ... the commit has made the session forget what it loaded. One of the   *)
(* entries gone meanwhile is an error.                                     *)
Reload(c) ==
    /\ Is(c, "day", "reload")
    /\ call' = [call EXCEPT ![c] = [call[c] EXCEPT
           !.at = IF call[c].ids = {} THEN "answer"
                  ELSE IF call[c].ids \subseteq There(entry) THEN "decide" ELSE "refused",
           !.seen = entry]]
    /\ UNCHANGED <<serverVars, pageVars, crossed, outside, calls, slips>>

(* Otherwise the newest entry takes the difference, if it is still there.  *)
ChangeEntry(c, i, minutes) ==
    /\ IF entry[i] = 0 THEN Becomes(c, "refused") /\ UNCHANGED <<entry, crossed, outside, misled>>
       ELSE /\ entry' = [entry EXCEPT ![i] = Written(call[c].seen[i], minutes, entry[i])]
            /\ Becomes(c, "answer") /\ Crosses(c)
    /\ UNCHANGED <<last, left, done, cell, reading, shown, calls, slips>>

SetNewest(c) ==
    /\ Is(c, "day", "decide") /\ call[c].ids # {} /\ ~TooMuch(c)
    /\ ChangeEntry(c, Newest(call[c].ids), call[c].want - OlderSum(c))

UpdateEntry(c) == Is(c, "amend", "decide") /\ ChangeEntry(c, call[c].id, call[c].want)

DeleteEntry(c) ==
    /\ Is(c, "drop", "decide")
    /\ entry' = [entry EXCEPT ![call[c].id] = 0]
    /\ Becomes(c, "answer") /\ Crosses(c)
    /\ UNCHANGED <<last, left, done, cell, reading, shown, calls, slips>>

(* A process dies, the database refuses, or the answer is lost.            *)
Slip(c) ==
    /\ call[c].at \in {"sent", "decide", "reload", "answer"} /\ slips < MaxSlips
    /\ Becomes(c, "refused") /\ slips' = slips + 1
    /\ UNCHANGED <<serverVars, pageVars, crossed, outside, calls>>

-----------------------------------------------------------------------------
(* Back on the page. *)

(* A save that was answered asks for the week again; one that was refused  *)
(* puts back the figure there was when it was typed.                       *)
(* Mutant: the week is not read again.                                     *)
RefetchedNever == reading

Refetched == IF cell.on = "elsewhere" THEN reading ELSE Requested

Saved(c) ==
    /\ Is(c, "day", "answer")
    /\ End(c) /\ reading' = Refetched
    /\ UNCHANGED <<serverVars, cell, shown, misled, outside, calls, slips>>

NotSaved(c) ==
    /\ Is(c, "day", "refused")
    /\ End(c) /\ reading' = Refetched
    /\ IF cell.on = "page"
       THEN /\ cell' = [cell EXCEPT !.text = call[c].from]
            /\ misled' = (call[c].from # cell.figure)
       ELSE UNCHANGED <<cell, misled>>
    /\ UNCHANGED <<serverVars, shown, outside, calls, slips>>

SectionAnswered(c) ==
    /\ call[c].kind # "day" /\ call[c].at \in {"answer", "refused"}
    /\ End(c)
    /\ UNCHANGED <<serverVars, pageVars, outside, calls, slips>>

ReadWeek ==
    /\ reading.at = "sent" /\ reading' = [at |-> "read", figure |-> Logged]
    /\ outside' = FALSE
    /\ UNCHANGED <<serverVars, call, cell, shown, misled, crossed, calls, slips>>

(* The server's figure, whenever it changes and the cell is not being      *)
(* typed in.                                                               *)
ShowWeek ==
    /\ reading.at = "read" /\ reading' = NotReading
    /\ LET new == reading.figure
       IN  IF cell.on = "page" /\ (cell.typing \/ new = cell.figure)
           THEN cell' = [cell EXCEPT !.figure = new] /\ UNCHANGED misled
           ELSE /\ cell' = IF cell.on = "page" THEN [cell EXCEPT !.figure = new, !.text = new]
                           ELSE Fresh(new)
                /\ misled' = FALSE
    /\ UNCHANGED <<serverVars, call, shown, crossed, outside, calls, slips>>

(* The error takes the grid's place, and what was being typed with it.     *)
WeekFails ==
    /\ reading.at # "none" /\ slips < MaxSlips /\ slips' = slips + 1
    /\ reading' = NotReading
    /\ cell' = [cell EXCEPT !.on = "error", !.typing = FALSE]
    /\ UNCHANGED <<serverVars, call, shown, misled, crossed, outside, calls>>

-----------------------------------------------------------------------------
PageStep ==
    \/ Focus \/ LeaveWeek \/ ComeBack \/ Retry
    \/ \E c \in Saves : \/ \E typed \in Typed : Blur(c, typed) \/ Escape(c, typed)
                         \/ Saved(c) \/ NotSaved(c)
    \/ ReadWeek \/ ShowWeek \/ WeekFails

SectionStep(c) ==
    \/ \E spent \in Minutes \ {0}, said \in Minutes \cup {Silent} : LogTime(c, spent, said)
    \/ \E i \in Ids : DropEntry(c, i) \/ \E m \in Minutes \ {0} : AmendEntry(c, i, m)
    \/ SectionAnswered(c)

TimeServerStep(c) ==
    Load(c) \/ LogEntry(c) \/ DeleteNewest(c) \/ Reload(c) \/ SetNewest(c)
        \/ UpdateEntry(c) \/ DeleteEntry(c) \/ Slip(c)

TimeNext ==
    \/ PageStep
    \/ ReadEstimate \/ \E c \in Others : SectionStep(c)
    \/ \E c \in Calls : TimeServerStep(c)

TimeSpec == TimeInit /\ [][TimeNext]_timeVars

-----------------------------------------------------------------------------
CallStages   == {"free", "sent", "decide", "reload", "answer", "refused"}
CallType == [at : CallStages, kind : {"day", "log", "amend", "drop"}, want : Nat, id : Ids \cup {0},
             from : Nat, said : Minutes \cup {Silent}, told : Nat, ids : SUBSET Ids,
             seen : [Ids -> Nat], first : [Ids -> Nat], left : Minutes \cup {Unset}]
EstimateType == [set : BOOLEAN, remaining : Nat, logged : Nat]
CellType == [text : Nat \cup {Junk}, figure : Nat, typing : BOOLEAN, invalid : BOOLEAN,
             on : {"page", "elsewhere", "error"}]

(* Type correctness.                                                       *)
TimeTypeOK ==
    /\ last \in 0..MaxEntries /\ entry \in [Ids -> Nat]
    /\ left \in Minutes \cup {Unset} /\ done \in BOOLEAN
    /\ call \in [Calls -> CallType] /\ cell \in CellType
    /\ reading \in [at : {"none", "sent", "read"}, figure : Nat]
    /\ shown \in EstimateType
    /\ crossed \subseteq Calls /\ outside \in BOOLEAN /\ misled \in BOOLEAN
    /\ calls \in Nat /\ slips \in Nat

(* "with several, the oldest are kept and the newest takes the             *)
(* difference": a day set with nobody else writing comes to the figure;    *)
(* of its entries the last one kept may change, and one goes only when     *)
(* those before it are enough. (timesheet.py)                              *)
Alone(c, at) == call[c].kind = "day" /\ call[c].at \in at /\ c \notin crossed
DayIsSet ==
    \A c \in Calls : Alone(c, {"answer"}) =>
        /\ Logged = call[c].want
        /\ \A i \in There(call[c].first) :
               LET before == {j \in Ids : j < i}
               IN  /\ (\E j \in There(entry) : j > i) => entry[i] = call[c].first[i]
                   /\ entry[i] = 0 => Sum(call[c].first, before) >= call[c].want

(* However far it got -- entries are committed one by one -- a day never   *)
(* holds less than was typed, or than it held. (timesheet.py, worklogs.py) *)
NothingLost ==
    \A c \in Calls : Alone(c, {"decide", "reload", "answer"}) =>
        Logged >= call[c].want \/ Logged >= Sum(call[c].first, Ids)

(* "Untouched, it follows the time spent and is not sent: the server works *)
(* out the same": what the form said would be left is what is left, if the *)
(* estimate it was worked out from was still the server's when the form was*)
(* sent and nobody wrote in between; but a ticket that is done has nothing *)
(* left. (timeEstimate.ts, time_estimates.py)                              *)
LeftAgrees ==
    \A c \in Calls : Is(c, "log", "answer") /\ call[c].said = Silent /\ c \notin crossed =>
        RemainingOf(left, Logged, done) = IF done THEN 0 ELSE call[c].told

(* Together: the day at the server, set entry by entry, and what logging   *)
(* leaves of the ticket. (timesheet.py, worklogs.py)                       *)
DaySafe == TimeTypeOK /\ DayIsSet /\ NothingLost /\ LeftAgrees

(* When nothing is under way, the cell shows the figure of the last answer *)
(* -- unless a refusal put an older one back -- and that is the day, unless*)
(* somebody changed it elsewhere. (TimesheetPage.tsx)                      *)
CellTellsTheDay ==
    /\ cell.on = "page" /\ ~cell.typing /\ ~cell.invalid /\ reading.at = "none"
    /\ \A c \in Saves : call[c].at = "free"
    => /\ misled \/ cell.text = cell.figure
       /\ outside \/ cell.figure = Logged

=============================================================================
