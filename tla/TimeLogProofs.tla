---------------------------- MODULE TimeLogProofs ----------------------------
(***************************************************************************)
(* Proofs about TimeLog, for every number of entries, requests and slips.  *)
(***************************************************************************)
EXTENDS TimeLog, FiniteSetTheorems, WellFoundedInduction, TLAPS

-----------------------------------------------------------------------------
(* Adding up. *)

(* A minute of an entry is its number with one of 1 up to its length.      *)
LEMMA MinuteOf ==
    ASSUME NEW day, NEW ids
    PROVE  \A p : p \in MinutesOf(day, ids) <=> \E i \in ids : \E m \in 1..day[i] : p = <<i, m>>
BY DEF MinutesOf

(* An entry has as many minutes as it is long.                             *)
LEMMA EntryLength ==
    ASSUME NEW day \in [Ids -> Nat], NEW i \in Ids
    PROVE  LET one == {<<i, m>> : m \in 1..day[i]}
           IN  IsFiniteSet(one) /\ Cardinality(one) = day[i]
<1> DEFINE one == {<<i, m>> : m \in 1..day[i]}
           f == [m \in 1..day[i] |-> <<i, m>>]
<1>1. day[i] \in Nat
  OBVIOUS
<1>2. IsFiniteSet(1..day[i]) /\ Cardinality(1..day[i]) = day[i]
  BY <1>1, FS_Interval
<1>3. f \in Bijection(1..day[i], one)
  <2>1. f \in [1..day[i] -> one]
    OBVIOUS
  <2>2. \A m, n \in 1..day[i] : f[m] = f[n] => m = n
    OBVIOUS
  <2>3. \A p \in one : \E m \in 1..day[i] : f[m] = p
    OBVIOUS
  <2> HIDE DEF f, one
  <2> QED
    BY <2>1, <2>2, <2>3 DEF Bijection, Injection, Surjection, IsInjective
<1>4. ExistsBijection(1..day[i], one)
  BY <1>3 DEF ExistsBijection
<1> HIDE DEF one
<1>5. IsFiniteSet(one) /\ Cardinality(one) = day[i]
  BY <1>2, <1>4, FS_Bijection
<1> QED
  BY <1>5 DEF one

(* The numbers of the entries are finitely many.                           *)
LEMMA IdsFinite ==
    ASSUME NEW ids \in SUBSET Ids
    PROVE  IsFiniteSet(ids)
<1>1. IsFiniteSet(Ids)
  BY TimeAssumption, FS_Interval DEF Ids
<1> QED
  BY <1>1, FS_Subset

(* A sum is a number.                                                      *)
LEMMA SumType ==
    ASSUME NEW day \in [Ids -> Nat], NEW ids \in SUBSET Ids
    PROVE  IsFiniteSet(MinutesOf(day, ids)) /\ Sum(day, ids) \in Nat
<1> DEFINE f == [i \in ids |-> {<<i, m>> : m \in 1..day[i]}]
           all == {{<<i, m>> : m \in 1..day[i]} : i \in ids}
<1>1. IsFiniteSet(ids)
  BY IdsFinite
<1>2. f \in Surjection(ids, all)
  BY DEF Surjection
<1>3. IsFiniteSet(all)
  <2> HIDE DEF f, all
  <2> QED
    BY <1>1, <1>2, FS_Surjection
<1>4. \A T \in all : IsFiniteSet(T)
  BY EntryLength
<1>5. IsFiniteSet(UNION all)
  <2> HIDE DEF all
  <2> QED
    BY <1>3, <1>4, FS_UNION
<1>6. IsFiniteSet(MinutesOf(day, ids))
  BY <1>5 DEF MinutesOf
<1> QED
  BY <1>6, FS_CardinalityType DEF Sum

(* Days that agree on the entries come to the same.                        *)
LEMMA SumSame ==
    ASSUME NEW day, NEW other, NEW ids, \A i \in ids : day[i] = other[i]
    PROVE  Sum(day, ids) = Sum(other, ids)
<1>1. \A p : p \in MinutesOf(day, ids) <=> p \in MinutesOf(other, ids)
  BY MinuteOf
<1>2. MinutesOf(day, ids) = MinutesOf(other, ids)
  BY <1>1
<1> QED
  BY <1>2 DEF Sum

(* More entries do not come to less.                                       *)
LEMMA SumMore ==
    ASSUME NEW day \in [Ids -> Nat], NEW many \in SUBSET Ids, NEW few \in SUBSET many
    PROVE  Sum(day, few) <= Sum(day, many)
<1>1. MinutesOf(day, few) \subseteq MinutesOf(day, many)
  <2>1. /\ \A p : p \in MinutesOf(day, few) <=> \E i \in few : \E m \in 1..day[i] : p = <<i, m>>
        /\ \A p : p \in MinutesOf(day, many) <=> \E i \in many : \E m \in 1..day[i] : p = <<i, m>>
    BY MinuteOf
  <2> QED
    BY <2>1
<1>2. IsFiniteSet(MinutesOf(day, many))
  BY SumType
<1> QED
  BY <1>1, <1>2, FS_Subset DEF Sum

(* Entries that are not there come to nothing.                             *)
LEMMA SumNone ==
    ASSUME NEW day, NEW ids, \A i \in ids : day[i] = 0
    PROVE  Sum(day, ids) = 0
<1>1. \A i \in ids : 1..day[i] = {}
  OBVIOUS
<1>2. MinutesOf(day, ids) = {}
  BY <1>1, MinuteOf, Zenon
<1> QED
  BY <1>2, FS_EmptySet DEF Sum

(* One entry more adds its length.                                         *)
LEMMA SumWith ==
    ASSUME NEW day \in [Ids -> Nat], NEW ids \in SUBSET Ids, NEW i \in ids
    PROVE  Sum(day, ids) = Sum(day, ids \ {i}) + day[i]
<1> DEFINE rest == MinutesOf(day, ids \ {i})
           one == {<<i, m>> : m \in 1..day[i]}
<1>0. \A p : p \in rest <=> \E j \in ids \ {i} : \E m \in 1..day[j] : p = <<j, m>>
  BY MinuteOf
<1>1. MinutesOf(day, ids) = rest \cup one
  <2>1. \A p : p \in MinutesOf(day, ids) <=> \E j \in ids : \E m \in 1..day[j] : p = <<j, m>>
    BY MinuteOf
  <2>2. \A p : p \in one <=> \E m \in 1..day[i] : p = <<i, m>>
    OBVIOUS
  <2>3. \A p : p \in MinutesOf(day, ids) <=> p \in rest \/ p \in one
    <3> HIDE DEF rest, one
    <3> QED
      BY <1>0, <2>1, <2>2
  <2> HIDE DEF rest, one
  <2> QED
    BY <2>3
<1>2. rest \cap one = {}
  <2>1. ASSUME NEW p \in rest, p \in one PROVE FALSE
    <3>1. PICK j \in ids \ {i} : \E m \in 1..day[j] : p = <<j, m>>
      BY <1>0, <2>1
    <3>2. PICK n \in 1..day[i] : p = <<i, n>>
      BY <2>1
    <3> QED
      BY <3>1, <3>2
  <2> QED
    BY <2>1
<1>3. IsFiniteSet(rest) /\ Cardinality(rest) \in Nat /\ Sum(day, ids \ {i}) = Cardinality(rest)
  BY SumType, FS_CardinalityType DEF Sum
<1>4. IsFiniteSet(one) /\ Cardinality(one) = day[i]
  BY EntryLength
<1>5. IsFiniteSet(rest \cap one) /\ Cardinality(rest \cap one) = 0
  BY <1>2, FS_EmptySet
<1>6. Cardinality(rest \cup one) = Cardinality(rest) + Cardinality(one) - Cardinality(rest \cap one)
  <2> HIDE DEF rest, one
  <2> QED
    BY <1>3, <1>4, FS_Union
<1>7. Sum(day, ids) = Cardinality(rest \cup one)
  BY <1>1 DEF Sum
<1>8. day[i] \in Nat
  OBVIOUS
<1> HIDE DEF rest, one
<1> QED
  BY <1>3, <1>4, <1>5, <1>6, <1>7, <1>8

(* A day comes to what is there on it.                                     *)
LEMMA SumThere ==
    ASSUME NEW day \in [Ids -> Nat]
    PROVE  Sum(day, Ids) = Sum(day, There(day))
<1>1. \A p : p \in MinutesOf(day, Ids) <=> p \in MinutesOf(day, There(day))
  <2>1. ASSUME NEW i \in Ids, NEW m \in 1..day[i] PROVE i \in There(day)
    BY DEF There
  <2>2. There(day) \subseteq Ids
    BY DEF There
  <2>3. /\ \A p : p \in MinutesOf(day, Ids) <=> \E i \in Ids : \E m \in 1..day[i] : p = <<i, m>>
        /\ \A p : p \in MinutesOf(day, There(day))
               <=> \E i \in There(day) : \E m \in 1..day[i] : p = <<i, m>>
    BY MinuteOf
  <2> QED
    BY <2>1, <2>2, <2>3
<1>2. MinutesOf(day, Ids) = MinutesOf(day, There(day))
  BY <1>1
<1> QED
  BY <1>2 DEF Sum

(* The newest of some entries is one of them, and none is newer.           *)
LEMMA NewestIs ==
    ASSUME NEW ids \in SUBSET Ids, ids # {}
    PROVE  Newest(ids) \in ids /\ \A j \in ids : j <= Newest(ids)
<1> DEFINE Gap(i) == MaxEntries - i
           gaps == {Gap(i) : i \in ids}
           less == {gg \in Nat \X Nat : gg[1] < gg[2]}
<1>1. MaxEntries \in Nat
  BY TimeAssumption
<1>2. \A i \in ids : i \in Int /\ Gap(i) \in Nat
  BY <1>1 DEF Ids
<1>3. gaps \subseteq Nat /\ gaps # {}
  BY <1>2
<1>4. IsWellFoundedOn(less, Nat)
  BY NatLessThanWellFounded DEF OpToRel
<1>5. \E g \in gaps : \A h \in gaps : ~ (<<h, g>> \in less)
  <2> HIDE DEF gaps, less
  <2> QED
    BY <1>3, <1>4, WFMin
<1>a. PICK g \in gaps : \A h \in gaps : ~ (h < g)
  BY <1>3, <1>5
<1>6. PICK i \in ids : g = Gap(i)
  BY <1>a
<1>7. \A j \in ids : j <= i
  <2>1. SUFFICES ASSUME NEW j \in ids PROVE j <= i
    OBVIOUS
  <2>2. Gap(j) \in gaps
    OBVIOUS
  <2>3. ~ (Gap(j) < Gap(i))
    BY <1>a, <1>6, <2>2
  <2> QED
    BY <1>1, <1>2, <2>3
<1> HIDE DEF gaps
<1> QED
  BY <1>7, Zenon DEF Newest

-----------------------------------------------------------------------------
(* What a request is about. *)

CallShaped(c) ==
    /\ call[c].at = "free" => call[c] = Free /\ c \notin crossed
    /\ call[c].at # "free" => (call[c].kind = "day" <=> c \in Saves)
    /\ call[c].kind \in {"amend", "drop"} /\ call[c].at \in {"sent", "decide"} => call[c].id \in Ids
    /\ call[c].at = "reload" => call[c].kind = "day"

NoneAbove == \A i \in Ids : i > last => entry[i] = 0

TimeShape == TimeTypeOK /\ (\A c \in Calls : CallShaped(c)) /\ NoneAbove

(* What a form with the server's estimate makes of `spent` more.           *)
TellsLeft(spent) == RemainingAfter(TicketEstimate, spent)

(* What a step does to the requests and the day: nothing, ...              *)
Quiet == UNCHANGED <<serverVars, call, crossed>>

(* ... one is sent, ...                                                    *)
Sent(c) ==
    /\ call[c].at = "free" /\ UNCHANGED serverVars
    /\ crossed' \in {crossed, crossed \cup {c}} /\ (c \in Saves => crossed' = crossed)
    /\ \E new \in CallType :
           /\ call' = [call EXCEPT ![c] = new] /\ new.at = "sent"
           /\ new.kind = "day" <=> c \in Saves
           /\ new.kind \in {"amend", "drop"} => new.id \in Ids
           /\ new.kind = "log" /\ new.said = Silent /\ c \notin crossed' => new.told = TellsLeft(new.want)

(* ... or one is over; or the server takes a step.                         *)
Ended(c) == End(c) /\ UNCHANGED serverVars

(* A request that is free is nothing.                                      *)
LEMMA FreeType == Free \in CallType
BY DEF Free, CallType, CallStages, Minutes

(* The estimate has its type, and what a form makes of one is a number.    *)
LEMMA RemainingType ==
    ASSUME entry \in [Ids -> Nat], left \in Minutes \cup {Unset}, done \in BOOLEAN
    PROVE  /\ TicketEstimate \in EstimateType
           /\ \A estimate \in EstimateType, spent \in Nat : RemainingAfter(estimate, spent) \in Nat
<1>1. Logged \in Nat
  BY SumType DEF Logged
<1>2. RemainingOf(left, Logged, done) \in Nat
  BY <1>1, TimeAssumption DEF RemainingOf, Floor, Minutes, Unset
<1>3. (left # Unset) \in BOOLEAN
  OBVIOUS
<1>4. TicketEstimate \in EstimateType
  BY <1>1, <1>2, <1>3 DEF TicketEstimate, EstimateType
<1>5. ASSUME NEW estimate \in EstimateType, NEW spent \in Nat
      PROVE  RemainingAfter(estimate, spent) \in Nat
  BY <1>5, TimeAssumption DEF RemainingAfter, Floor, EstimateType
<1> QED
  BY <1>4, <1>5

(* Sending puts a request where there was none.                            *)
LEMMA SendSends ==
    ASSUME TimeTypeOK, NEW c \in Calls, NEW kind \in {"day", "log", "amend", "drop"},
           NEW want \in Nat, NEW id \in Ids \cup {0}, NEW said \in Minutes \cup {Silent},
           NEW told \in Nat, Send(c, kind, want, id, said, told), UNCHANGED serverVars,
           kind = "day" <=> c \in Saves, kind \in {"amend", "drop"} => id \in Ids,
           crossed' \in {crossed, crossed \cup {c}}, c \in Saves => crossed' = crossed,
           kind = "log" /\ said = Silent /\ c \notin crossed' => told = TellsLeft(want)
    PROVE  Sent(c) /\ calls' \in Nat
<1> DEFINE new == [Free EXCEPT !.at = "sent", !.kind = kind, !.want = want, !.id = id,
                               !.from = cell.figure, !.said = said, !.told = told]
<1>1. new \in CallType
  BY FreeType DEF CallType, CallStages, TimeTypeOK, CellType
<1>2. /\ new.at = "sent" /\ new.kind = kind /\ new.want = want /\ new.id = id
      /\ new.said = said /\ new.told = told
  BY DEF Free
<1>3. call' = [call EXCEPT ![c] = new] /\ call[c].at = "free" /\ calls' = calls + 1
  BY DEF Send
<1>4. calls' \in Nat
  BY <1>3 DEF TimeTypeOK
<1> HIDE DEF new
<1>5. /\ new.kind = "day" <=> c \in Saves
      /\ new.kind \in {"amend", "drop"} => new.id \in Ids
      /\ new.kind = "log" /\ new.said = Silent /\ c \notin crossed' => new.told = TellsLeft(new.want)
  BY <1>2
<1> QED
  BY <1>1, <1>2, <1>3, <1>4, <1>5 DEF Sent

(* The number of an entry is a number.                                     *)
LEMMA IdsAre == Ids \subseteq Nat /\ (\A i \in Ids : 0 < i /\ i <= MaxEntries) /\ Saves \cap Others = {}
                /\ \A c \in Calls : c \in Saves <=> c \notin Others
BY TimeAssumption DEF Ids, Calls

(* The Time section sends a request, or hears of one.                      *)
LEMMA SectionEffect ==
    ASSUME TimeShape, NEW c \in Others, SectionStep(c)
    PROVE  Sent(c) \/ Ended(c)
<1>0. c \in Calls /\ c \notin Saves
  BY IdsAre DEF Calls
<1>1. ASSUME NEW spent \in Minutes \ {0}, NEW said \in Minutes \cup {Silent}, LogTime(c, spent, said)
      PROVE  Sent(c)
  <2>1. spent \in Nat
    BY DEF Minutes
  <2>2. RemainingAfter(shown, spent) \in Nat
    BY <2>1, RemainingType DEF TimeShape, TimeTypeOK
  <2>3. /\ Send(c, "log", spent, 0, said, RemainingAfter(shown, spent)) /\ UNCHANGED serverVars
        /\ crossed' \in {crossed, crossed \cup {c}}
        /\ c \notin crossed' => shown = TicketEstimate
    BY <1>1 DEF LogTime
  <2>4. c \notin crossed' => RemainingAfter(shown, spent) = TellsLeft(spent)
    BY <2>3 DEF TellsLeft
  <2> QED
    BY <1>0, <2>1, <2>2, <2>3, <2>4, SendSends DEF TimeShape
<1>2. ASSUME NEW i \in Ids, DropEntry(c, i) PROVE Sent(c)
  <2>1. 0 \in Nat /\ i \in Ids \cup {0} /\ Silent \in Minutes \cup {Silent}
    OBVIOUS
  <2> QED
    BY <1>0, <1>2, <2>1, SendSends DEF DropEntry, TimeShape
<1>3. ASSUME NEW i \in Ids, NEW m \in Minutes \ {0}, AmendEntry(c, i, m) PROVE Sent(c)
  <2>1. m \in Nat /\ 0 \in Nat /\ i \in Ids \cup {0} /\ Silent \in Minutes \cup {Silent}
    BY DEF Minutes
  <2> QED
    BY <1>0, <1>3, <2>1, SendSends DEF AmendEntry, TimeShape
<1>4. CASE SectionAnswered(c)
  BY <1>4 DEF SectionAnswered, Ended
<1> QED
  BY <1>1, <1>2, <1>3, <1>4 DEF SectionStep

(* Every step is one of these.                                             *)
LEMMA Effects ==
    ASSUME TimeShape, [TimeNext]_timeVars
    PROVE  \/ Quiet
           \/ \E c \in Calls : Sent(c) \/ Ended(c)
           \/ \E c \in Calls : TimeServerStep(c)
<1>1. CASE UNCHANGED timeVars
  BY <1>1 DEF timeVars, serverVars, Quiet
<1>2. CASE \/ Focus \/ LeaveWeek \/ ComeBack \/ Retry \/ ReadWeek \/ ShowWeek \/ WeekFails
           \/ ReadEstimate
  BY <1>2 DEF Quiet, serverVars, Focus, LeaveWeek, ComeBack, Retry, ReadWeek, ShowWeek, WeekFails,
              ReadEstimate
<1>3. ASSUME NEW c \in Saves, Saved(c) \/ NotSaved(c) PROVE Ended(c)
  BY <1>3 DEF Saved, NotSaved, Ended, serverVars
<1>4. ASSUME NEW c \in Saves, NEW typed \in Typed, NEW otherwise, Commit(c, typed, otherwise)
      PROVE  Quiet \/ Sent(c)
  <2>1. CASE UNCHANGED <<call, crossed>>
    BY <1>4, <2>1 DEF Commit, Quiet, serverVars
  <2>2. CASE /\ typed \notin {Junk, cell.figure} /\ Send(c, "day", typed, 0, Silent, 0)
             /\ crossed' = crossed
    <3>1. typed \in Nat
      BY <2>2 DEF Typed, Minutes, TimeShape, TimeTypeOK, CellType
    <3>2. c \in Calls /\ UNCHANGED serverVars
      BY <1>4 DEF Calls, Commit
    <3> QED
      BY <2>2, <3>1, <3>2, SendSends DEF TimeShape
  <2> QED
    BY <1>4, <2>1, <2>2 DEF Commit
<1>5. ASSUME NEW c \in Others, SectionStep(c) PROVE Sent(c) \/ Ended(c)
  BY <1>5, SectionEffect
<1> QED
  <2>1. CASE PageStep
    BY <2>1, <1>2, <1>3, <1>4 DEF PageStep, Blur, Escape, Calls
  <2>2. CASE \E c \in Others : SectionStep(c)
    BY <2>2, <1>5 DEF Calls
  <2> QED
    BY <1>1, <1>2, <2>1, <2>2 DEF TimeNext

-----------------------------------------------------------------------------
(* What the server does with a request. *)

(* A request that goes on is the same request.                             *)
GoesOn(c) ==
    /\ call' \in [Calls -> CallType] /\ \A d \in Calls \ {c} : call'[d] = call[d]
    /\ call[c].at # "free" /\ call'[c].at # "free"
    /\ call'[c].kind = call[c].kind /\ call'[c].want = call[c].want
    /\ call'[c].said = call[c].said /\ call'[c].told = call[c].told
    /\ call[c].at # "sent" => call'[c].first = call[c].first

(* A record changed at one place.                                          *)
LEMMA CallChanged ==
    ASSUME TimeTypeOK, NEW c \in Calls, NEW new \in CallType, call' = [call EXCEPT ![c] = new]
    PROVE  call' \in [Calls -> CallType] /\ call'[c] = new /\ \A d \in Calls \ {c} : call'[d] = call[d]
BY DEF TimeTypeOK

(* What was loaded is forgotten.                                           *)
LEMMA BecomesMeans ==
    ASSUME TimeTypeOK, NEW c \in Calls, NEW at \in {"answer", "refused"}, Becomes(c, at),
           call[c].at # "free"
    PROVE  GoesOn(c) /\ call'[c].at = at /\ call'[c].first = call[c].first
<1> DEFINE new == [call[c] EXCEPT !.at = at, !.id = 0, !.ids = {}, !.seen = Free.seen, !.left = Unset]
<1>1. call[c] \in CallType
  BY DEF TimeTypeOK
<1>2. new \in CallType
  BY <1>1 DEF CallType, CallStages, Free
<1>3. /\ new.at = at /\ new.kind = call[c].kind /\ new.want = call[c].want
      /\ new.said = call[c].said /\ new.told = call[c].told /\ new.first = call[c].first
  BY <1>1 DEF CallType
<1>4. call' = [call EXCEPT ![c] = new]
  BY DEF Becomes
<1> HIDE DEF new
<1> QED
  BY <1>2, <1>3, <1>4, CallChanged DEF GoesOn

(* Loading: refused, nothing to do, or to be decided.                      *)
LEMMA LoadMeans ==
    ASSUME TimeShape, NEW c \in Calls, Load(c)
    PROVE  /\ GoesOn(c) /\ call[c].at = "sent" /\ UNCHANGED serverVars
           /\ \/ call'[c].at = "refused"
              \/ /\ call'[c].at = "answer" /\ call[c].kind = "day"
                 /\ Logged = call[c].want /\ call'[c].first = entry
              \/ /\ call'[c].at = "decide" /\ call[c].kind = "day"
                 /\ Logged # call[c].want
                 /\ call'[c].ids = There(entry) /\ call'[c].seen = entry
                 /\ call'[c].first = entry /\ call'[c].left = left
              \/ /\ call'[c].at = "decide" /\ call[c].kind # "day" /\ ~Gone(c)
                 /\ call'[c].seen = entry /\ call'[c].left = left /\ call'[c].id = call[c].id
<1>0. call[c] \in CallType /\ call[c].at = "sent" /\ UNCHANGED serverVars /\ TimeTypeOK
  BY DEF Load, TimeShape, TimeTypeOK
<1>1. entry \in [Ids -> Nat] /\ There(entry) \in SUBSET Ids /\ left \in Minutes \cup {Unset}
  BY DEF TimeShape, TimeTypeOK, There
<1>2. CASE Becomes(c, "refused")
  BY <1>0, <1>2, BecomesMeans
<1>3. CASE call[c].kind = "day" /\ Logged = call[c].want
           /\ call' = [call EXCEPT ![c].at = "answer", ![c].first = entry]
  <2> DEFINE new == [call[c] EXCEPT !.at = "answer", !.first = entry]
  <2>1. new \in CallType
    BY <1>0, <1>1 DEF CallType, CallStages
  <2>2. /\ new.at = "answer" /\ new.kind = call[c].kind /\ new.want = call[c].want
        /\ new.said = call[c].said /\ new.told = call[c].told /\ new.first = entry
    BY <1>0 DEF CallType
  <2>3. call' = [call EXCEPT ![c] = new]
    BY <1>0, <1>3 DEF TimeTypeOK
  <2> HIDE DEF new
  <2> QED
    BY <1>0, <1>3, <2>1, <2>2, <2>3, CallChanged DEF GoesOn
<1>4. CASE call[c].kind = "day" /\ Logged # call[c].want
           /\ call' = [call EXCEPT ![c].at = "decide", ![c].ids = There(entry), ![c].seen = entry,
                                   ![c].first = entry, ![c].left = left]
  <2> DEFINE new == [call[c] EXCEPT !.at = "decide", !.ids = There(entry), !.seen = entry,
                                    !.first = entry, !.left = left]
  <2>1. new \in CallType
    BY <1>0, <1>1 DEF CallType, CallStages
  <2>2. /\ new.at = "decide" /\ new.kind = call[c].kind /\ new.want = call[c].want
        /\ new.said = call[c].said /\ new.told = call[c].told /\ new.first = entry
        /\ new.ids = There(entry) /\ new.seen = entry /\ new.left = left
    BY <1>0 DEF CallType
  <2>3. call' = [call EXCEPT ![c] = new]
    BY <1>0, <1>4 DEF TimeTypeOK
  <2> HIDE DEF new
  <2> QED
    BY <1>0, <1>4, <2>1, <2>2, <2>3, CallChanged DEF GoesOn
<1>5. CASE call[c].kind # "day" /\ ~Gone(c)
           /\ call' = [call EXCEPT ![c].at = "decide", ![c].seen = entry, ![c].left = left]
  <2> DEFINE new == [call[c] EXCEPT !.at = "decide", !.seen = entry, !.left = left]
  <2>1. new \in CallType
    BY <1>0, <1>1 DEF CallType, CallStages
  <2>2. /\ new.at = "decide" /\ new.kind = call[c].kind /\ new.want = call[c].want
        /\ new.said = call[c].said /\ new.told = call[c].told /\ new.id = call[c].id
        /\ new.seen = entry /\ new.left = left
    BY <1>0 DEF CallType
  <2>3. call' = [call EXCEPT ![c] = new]
    BY <1>0, <1>5 DEF TimeTypeOK
  <2> HIDE DEF new
  <2> QED
    BY <1>0, <1>5, <2>1, <2>2, <2>3, CallChanged DEF GoesOn
<1> QED
  BY <1>2, <1>3, <1>4, <1>5 DEF Load

(* Reloading: done, more to decide, or refused.                            *)
LEMMA ReloadMeans ==
    ASSUME TimeShape, NEW c \in Calls, Reload(c)
    PROVE  /\ GoesOn(c) /\ Is(c, "day", "reload") /\ UNCHANGED serverVars
           /\ call'[c].ids = call[c].ids /\ call'[c].seen = entry /\ call'[c].left = call[c].left
           /\ call'[c].at = IF call[c].ids = {} THEN "answer"
                            ELSE IF call[c].ids \subseteq There(entry) THEN "decide" ELSE "refused"
<1> DEFINE at == IF call[c].ids = {} THEN "answer"
                 ELSE IF call[c].ids \subseteq There(entry) THEN "decide" ELSE "refused"
           new == [call[c] EXCEPT !.at = at, !.seen = entry]
<1>0. call[c] \in CallType /\ Is(c, "day", "reload") /\ UNCHANGED serverVars /\ TimeTypeOK
  BY DEF Reload, TimeShape, TimeTypeOK
<1>1. entry \in [Ids -> Nat] /\ at \in {"answer", "decide", "refused"}
  BY DEF TimeShape, TimeTypeOK
<1>2. call' = [call EXCEPT ![c] = new]
  BY DEF Reload
<1> HIDE DEF at
<1>3. new \in CallType
  BY <1>0, <1>1 DEF CallType, CallStages
<1>4. /\ new.at = at /\ new.kind = call[c].kind /\ new.want = call[c].want
      /\ new.said = call[c].said /\ new.told = call[c].told /\ new.first = call[c].first
      /\ new.ids = call[c].ids /\ new.seen = entry /\ new.left = call[c].left
  BY <1>0 DEF CallType
<1>5. call[c].at = "reload"
  BY <1>0 DEF Is
<1> HIDE DEF new
<1>6. GoesOn(c) /\ call'[c] = new
  BY <1>0, <1>1, <1>2, <1>3, <1>4, <1>5, CallChanged DEF GoesOn
<1> QED
  BY <1>0, <1>4, <1>6 DEF at

(* The newest entry goes, and the others are left to look at.              *)
LEMMA DeleteMeans ==
    ASSUME TimeShape, NEW c \in Calls, DeleteNewest(c)
    PROVE  /\ GoesOn(c) /\ call'[c].at = "reload" /\ call'[c].ids = Older(c)
           /\ call'[c].left = call[c].left /\ call'[c].seen = call[c].seen
<1> DEFINE new == [call[c] EXCEPT !.at = "reload", !.ids = Older(c)]
<1>0. call[c] \in CallType /\ call[c].at = "decide" /\ TimeTypeOK
  BY DEF DeleteNewest, Is, TimeShape, TimeTypeOK
<1>1. Older(c) \in SUBSET Ids
  BY <1>0 DEF Older, CallType
<1>2. call' = [call EXCEPT ![c] = new]
  BY DEF DeleteNewest
<1>3. new \in CallType
  BY <1>0, <1>1 DEF CallType, CallStages
<1>4. /\ new.at = "reload" /\ new.kind = call[c].kind /\ new.want = call[c].want
      /\ new.said = call[c].said /\ new.told = call[c].told /\ new.first = call[c].first
      /\ new.ids = Older(c) /\ new.seen = call[c].seen /\ new.left = call[c].left
  BY <1>0 DEF CallType
<1> HIDE DEF new
<1> QED
  BY <1>0, <1>2, <1>3, <1>4, CallChanged DEF GoesOn

(* A commit of the Time section or of a day leaves nothing to decide.      *)
LEMMA ChangeMeans ==
    ASSUME TimeShape, NEW c \in Calls, NEW i \in Ids, NEW minutes \in Nat, ChangeEntry(c, i, minutes),
           call[c].at = "decide"
    PROVE  /\ GoesOn(c) /\ UNCHANGED <<last, left, done>>
           /\ \/ call'[c].at = "refused" /\ UNCHANGED <<entry, crossed, outside, misled>>
              \/ /\ call'[c].at = "answer" /\ entry[i] # 0 /\ Crosses(c)
                 /\ entry' = [entry EXCEPT ![i] = Written(call[c].seen[i], minutes, entry[i])]
<1>0. call[c].at # "free" /\ TimeTypeOK
  BY DEF TimeShape
<1>1. CASE entry[i] = 0
  BY <1>0, <1>1, BecomesMeans DEF ChangeEntry
<1>2. CASE entry[i] # 0
  BY <1>0, <1>2, BecomesMeans DEF ChangeEntry
<1> QED
  BY <1>1, <1>2

-----------------------------------------------------------------------------
(* Types. *)

(* What a commit means for the rest keeps its type.                        *)
LEMMA CrossesMeans ==
    ASSUME TimeTypeOK, NEW c \in Calls, Crosses(c)
    PROVE  /\ crossed' \subseteq Calls /\ outside' \in BOOLEAN /\ misled' \in BOOLEAN
           /\ crossed \subseteq crossed' /\ \A d \in Calls : call[d].at = "free" /\ d \in crossed' => d \in crossed
           /\ c \in crossed' => c \in crossed
           /\ \A d \in Calls \ {c} : call[d].at # "free" => d \in crossed'
<1>1. crossed' \subseteq Calls /\ crossed \subseteq crossed'
  BY DEF TimeTypeOK, Crosses
<1>2. outside' \in BOOLEAN
  BY DEF TimeTypeOK, Crosses
<1>3. misled' \in BOOLEAN
  BY DEF TimeTypeOK, Crosses
<1>4. /\ \A d \in Calls : call[d].at = "free" /\ d \in crossed' => d \in crossed
      /\ c \in crossed' => c \in crossed
      /\ \A d \in Calls \ {c} : call[d].at # "free" => d \in crossed'
  BY DEF Crosses
<1> QED
  BY <1>1, <1>2, <1>3, <1>4

(* A step of the server keeps the types and the shapes of what it touches. *)
LEMMA ServerShape ==
    ASSUME TimeShape, NEW c \in Calls, TimeServerStep(c)
    PROVE  /\ GoesOn(c) /\ CallShaped(c)' /\ NoneAbove'
           /\ last' \in 0..MaxEntries /\ entry' \in [Ids -> Nat]
           /\ left' \in Minutes \cup {Unset} /\ done' \in BOOLEAN
           /\ crossed' \subseteq Calls /\ outside' \in BOOLEAN /\ misled' \in BOOLEAN
           /\ \A d \in Calls : call[d].at = "free" /\ d \in crossed' => d \in crossed
           /\ UNCHANGED <<cell, reading, calls>> /\ slips' \in Nat
<1> DEFINE Kept == /\ last' \in 0..MaxEntries /\ entry' \in [Ids -> Nat]
                   /\ left' \in Minutes \cup {Unset} /\ done' \in BOOLEAN /\ NoneAbove'
           Marks == /\ crossed' \subseteq Calls /\ outside' \in BOOLEAN /\ misled' \in BOOLEAN
                    /\ \A d \in Calls : call[d].at = "free" /\ d \in crossed' => d \in crossed
           Rest == UNCHANGED <<cell, reading, calls>> /\ slips' \in Nat
<1>0. /\ TimeTypeOK /\ CallShaped(c) /\ call[c] \in CallType /\ NoneAbove
      /\ MaxEntries \in Nat
  BY TimeAssumption DEF TimeShape, TimeTypeOK
<1>1. UNCHANGED serverVars => Kept
  BY <1>0 DEF serverVars, TimeTypeOK, NoneAbove
<1>2. UNCHANGED <<crossed, outside, misled>> => Marks
  BY <1>0 DEF TimeTypeOK
<1>3. Crosses(c) => Marks
  BY <1>0, CrossesMeans
<1>4. UNCHANGED <<cell, reading, calls, slips>> => Rest
  BY <1>0 DEF TimeTypeOK
<1>5. GoesOn(c) /\ call'[c].at \in {"answer", "refused"} => CallShaped(c)'
  BY <1>0 DEF GoesOn, CallShaped
<1> HIDE DEF Kept, Marks, Rest
<1>6. CASE Load(c)
  <2>1. GoesOn(c) /\ call[c].at = "sent" /\ UNCHANGED serverVars
    BY <1>6, LoadMeans
  <2>2. CallShaped(c)'
    BY <1>0, <1>6, LoadMeans DEF GoesOn, CallShaped
  <2>3. UNCHANGED <<crossed, outside, misled, cell, reading, calls, slips>>
    BY <1>6 DEF Load, pageVars
  <2>4. Kept /\ Marks /\ Rest
    BY <1>1, <1>2, <1>4, <2>1, <2>3
  <2> QED
    BY <2>1, <2>2, <2>4 DEF Kept, Marks, Rest
<1>7. CASE LogEntry(c)
  <2>1. Becomes(c, "answer") /\ Crosses(c) /\ call[c].at = "decide"
        /\ UNCHANGED <<done, cell, reading, calls, slips>>
    BY <1>7 DEF LogEntry
  <2>2. GoesOn(c) /\ call'[c].at = "answer"
    BY <1>0, <2>1, BecomesMeans
  <2>3. last' = last + 1 /\ last < MaxEntries /\ entry' = [entry EXCEPT ![last + 1] = call[c].want]
        /\ left' = Written(call[c].left, AfterLogging(call[c].left, call[c].want, call[c].said), left)
    BY <1>7 DEF LogEntry
  <2>4. last \in 0..MaxEntries /\ entry \in [Ids -> Nat] /\ call[c].want \in Nat
        /\ left \in Minutes \cup {Unset} /\ call[c].left \in Minutes \cup {Unset}
        /\ call[c].said \in Minutes \cup {Silent} /\ done \in BOOLEAN
    BY <1>0 DEF TimeTypeOK, CallType
  <2>5. left' \in Minutes \cup {Unset}
    BY <2>3, <2>4, TimeAssumption DEF Written, AfterLogging, Floor, Minutes, Unset, Silent
  <2>6. last' \in 0..MaxEntries /\ entry' \in [Ids -> Nat]
    <3>1. last' \in 0..MaxEntries
      BY <1>0, <2>3, <2>4
    <3>2. [entry EXCEPT ![last + 1] = call[c].want] \in [Ids -> Nat]
      BY <2>4
    <3> QED
      BY <2>3, <3>1, <3>2
  <2>a. done' \in BOOLEAN
    BY <2>1, <2>4
  <2>7. NoneAbove'
    BY <1>0, <2>3, <2>4, IdsAre DEF NoneAbove
  <2> QED
    BY <1>3, <1>4, <1>5, <2>1, <2>2, <2>5, <2>6, <2>7, <2>a DEF Marks, Rest
<1>8. CASE DeleteNewest(c)
  <2>1. GoesOn(c) /\ call'[c].at = "reload" /\ Crosses(c) /\ call[c].kind = "day"
        /\ UNCHANGED <<last, left, done, cell, reading, calls, slips>>
        /\ entry' = [entry EXCEPT ![Newest(call[c].ids)] = 0]
    BY <1>8, DeleteMeans DEF DeleteNewest, Is
  <2>2. CallShaped(c)'
    BY <1>0, <2>1 DEF GoesOn, CallShaped
  <2>3. Kept
    BY <1>0, <2>1 DEF Kept, TimeTypeOK, NoneAbove
  <2> QED
    BY <1>3, <1>4, <2>1, <2>2, <2>3 DEF Kept, Marks, Rest
<1>9. CASE Reload(c)
  <2>1. GoesOn(c) /\ UNCHANGED serverVars /\ call[c].kind = "day"
        /\ call'[c].at \in {"answer", "decide", "refused"}
    BY <1>9, ReloadMeans DEF Is
  <2>2. CallShaped(c)'
    BY <1>0, <2>1 DEF GoesOn, CallShaped
  <2>3. UNCHANGED <<crossed, outside, misled, cell, reading, calls, slips>>
    BY <1>9 DEF Reload, pageVars
  <2>4. Kept /\ Marks /\ Rest
    BY <1>1, <1>2, <1>4, <2>1, <2>3
  <2> QED
    BY <2>1, <2>2, <2>4 DEF Kept, Marks, Rest
<1>10. ASSUME NEW i \in Ids, NEW minutes \in Nat, ChangeEntry(c, i, minutes), call[c].at = "decide"
       PROVE  GoesOn(c) /\ CallShaped(c)' /\ Kept /\ Marks /\ Rest
  <2>1. GoesOn(c) /\ UNCHANGED <<last, left, done>> /\ call'[c].at \in {"answer", "refused"}
    BY <1>10, ChangeMeans
  <2>2. Kept
    <3>1. CASE UNCHANGED entry
      BY <1>1, <2>1, <3>1 DEF serverVars
    <3>2. CASE entry[i] # 0 /\ entry' = [entry EXCEPT ![i] = Written(call[c].seen[i], minutes, entry[i])]
      <4>1. entry' \in [Ids -> Nat]
        BY <1>0, <3>2 DEF Written, TimeTypeOK
      <4>2. NoneAbove'
        BY <1>0, <2>1, <3>2 DEF NoneAbove, TimeTypeOK
      <4> QED
        BY <1>0, <2>1, <4>1, <4>2 DEF Kept, TimeTypeOK
    <3> QED
      BY <1>10, <3>1, <3>2, ChangeMeans
  <2>3. Marks
    BY <1>10, <1>2, <1>3, ChangeMeans
  <2>4. Rest
    BY <1>4, <1>10 DEF ChangeEntry
  <2> QED
    BY <1>5, <2>1, <2>2, <2>3, <2>4
<1>11. CASE SetNewest(c)
  <2>1. call[c].at = "decide" /\ call[c].ids # {} /\ ~TooMuch(c)
        /\ ChangeEntry(c, Newest(call[c].ids), call[c].want - OlderSum(c))
    BY <1>11 DEF SetNewest, Is
  <2>2. call[c].ids \in SUBSET Ids /\ call[c].seen \in [Ids -> Nat] /\ call[c].want \in Nat
    BY <1>0 DEF CallType
  <2>3. Newest(call[c].ids) \in Ids
    BY <2>1, <2>2, NewestIs
  <2>4. OlderSum(c) \in Nat
    BY <2>2, SumType DEF OlderSum, Older
  <2>5. call[c].want - OlderSum(c) \in Nat
    BY <2>1, <2>2, <2>4 DEF TooMuch
  <2> QED
    BY <1>10, <2>1, <2>3, <2>5 DEF Kept, Marks, Rest
<1>12. CASE UpdateEntry(c)
  <2>1. call[c].at = "decide" /\ call[c].id \in Ids /\ call[c].want \in Nat
        /\ ChangeEntry(c, call[c].id, call[c].want)
    BY <1>0, <1>12 DEF UpdateEntry, Is, CallShaped, CallType
  <2> QED
    BY <1>10, <2>1 DEF Kept, Marks, Rest
<1>13. CASE DeleteEntry(c)
  <2>1. Becomes(c, "answer") /\ Crosses(c) /\ call[c].at = "decide"
        /\ UNCHANGED <<last, left, done, cell, reading, calls, slips>>
        /\ entry' = [entry EXCEPT ![call[c].id] = 0]
    BY <1>13 DEF DeleteEntry, Is
  <2>2. GoesOn(c) /\ call'[c].at = "answer"
    BY <1>0, <2>1, BecomesMeans
  <2>3. Kept
    BY <1>0, <2>1 DEF Kept, TimeTypeOK, NoneAbove
  <2> QED
    BY <1>3, <1>4, <1>5, <2>1, <2>2, <2>3 DEF Kept, Marks, Rest
<1>14. CASE Slip(c)
  <2>1. GoesOn(c) /\ call'[c].at = "refused"
    BY <1>0, <1>14, BecomesMeans DEF Slip
  <2>2. Rest
    BY <1>0, <1>14 DEF Rest, Slip, pageVars, TimeTypeOK
  <2>3. Kept /\ Marks
    BY <1>1, <1>2, <1>14 DEF Slip, pageVars
  <2> QED
    BY <1>5, <2>1, <2>2, <2>3 DEF Kept, Marks, Rest
<1> QED
  BY <1>6, <1>7, <1>8, <1>9, <1>11, <1>12, <1>13, <1>14 DEF TimeServerStep

(* The types and the shapes hold at first.                                 *)
LEMMA ShapeAtFirst == TimeInit => TimeShape
<1> SUFFICES ASSUME TimeInit PROVE TimeShape
  OBVIOUS
<1>1. /\ MaxEntries \in Nat /\ entry \in [Ids -> Minutes] /\ last \in 0..MaxEntries
      /\ There(entry) = 1..last
  BY TimeAssumption DEF TimeInit, Ids, Minutes
<1>2. entry \in [Ids -> Nat]
  BY <1>1 DEF Minutes
<1>3. Logged \in Nat
  BY <1>2, SumType DEF Logged
<1>4. NoneAbove
  <2>1. SUFFICES ASSUME NEW i \in Ids, i > last PROVE entry[i] = 0
    BY DEF NoneAbove
  <2>2. i \notin 1..last
    BY <1>1, <2>1 DEF Ids
  <2>3. ~ (entry[i] > 0)
    BY <1>1, <2>2 DEF There
  <2> QED
    BY <1>2, <2>3
<1>5. call \in [Calls -> CallType] /\ \A c \in Calls : call[c] = Free /\ CallShaped(c)
  <2>1. call = [c \in Calls |-> Free] /\ crossed = {}
    BY DEF TimeInit
  <2> QED
    BY <2>1, FreeType DEF CallShaped, Free
<1>6. cell \in CellType /\ reading \in [at : {"none", "sent", "read"}, figure : Nat]
  BY <1>3 DEF TimeInit, CellType, NotReading
<1>7. /\ left \in Minutes \cup {Unset} /\ done \in BOOLEAN /\ crossed \subseteq Calls
      /\ outside \in BOOLEAN /\ misled \in BOOLEAN /\ calls \in Nat /\ slips \in Nat
  BY DEF TimeInit
<1>8. shown \in EstimateType
  BY <1>2, <1>7, RemainingType DEF TimeInit
<1> QED
  BY <1>1, <1>2, <1>4, <1>5, <1>6, <1>7, <1>8 DEF TimeShape, TimeTypeOK

(* The page keeps its types.                                               *)
LEMMA PageShape ==
    ASSUME TimeShape, [TimeNext]_timeVars
    PROVE  /\ cell' \in CellType /\ reading' \in [at : {"none", "sent", "read"}, figure : Nat]
           /\ outside' \in BOOLEAN /\ misled' \in BOOLEAN /\ calls' \in Nat /\ slips' \in Nat
<1> DEFINE Fine == /\ cell' \in CellType /\ reading' \in [at : {"none", "sent", "read"}, figure : Nat]
                   /\ outside' \in BOOLEAN /\ misled' \in BOOLEAN /\ calls' \in Nat /\ slips' \in Nat
<1>0. /\ TimeTypeOK /\ cell \in CellType /\ reading \in [at : {"none", "sent", "read"}, figure : Nat]
      /\ outside \in BOOLEAN /\ misled \in BOOLEAN /\ calls \in Nat /\ slips \in Nat
      /\ Logged \in Nat
  BY SumType DEF TimeShape, TimeTypeOK, Logged
<1>1. CASE UNCHANGED timeVars
  BY <1>0, <1>1 DEF timeVars
<1>2. CASE Focus \/ LeaveWeek \/ ComeBack \/ Retry
  <2>1. cell' \in CellType
    <3>1. /\ [cell EXCEPT !.typing = TRUE] \in CellType
          /\ [cell EXCEPT !.on = "elsewhere"] \in CellType
          /\ Fresh(cell.figure) \in CellType
      BY <1>0 DEF CellType, Fresh
    <3> QED
      BY <1>0, <1>2, <3>1 DEF Focus, LeaveWeek, ComeBack, Retry
  <2>2. reading' \in [at : {"none", "sent", "read"}, figure : Nat]
    BY <1>0, <1>2 DEF Focus, LeaveWeek, ComeBack, Retry, NotReading, Requested
  <2>3. misled' \in BOOLEAN /\ UNCHANGED <<outside, calls, slips>>
    BY <1>0, <1>2 DEF Focus, LeaveWeek, ComeBack, Retry
  <2> QED
    BY <1>0, <2>1, <2>2, <2>3
<1>3. CASE ReadWeek \/ ShowWeek \/ WeekFails
  <2>1. cell' \in CellType
    <3>1. reading.figure \in Nat
      BY <1>0
    <3>2. /\ [cell EXCEPT !.on = "error", !.typing = FALSE] \in CellType
          /\ [cell EXCEPT !.figure = reading.figure] \in CellType
          /\ [cell EXCEPT !.figure = reading.figure, !.text = reading.figure] \in CellType
          /\ Fresh(reading.figure) \in CellType
      BY <1>0, <3>1 DEF CellType, Fresh
    <3> QED
      BY <1>0, <1>3, <3>2 DEF ReadWeek, ShowWeek, WeekFails
  <2>2. reading' \in [at : {"none", "sent", "read"}, figure : Nat]
    BY <1>0, <1>3 DEF ReadWeek, ShowWeek, WeekFails, NotReading
  <2>3. misled' \in BOOLEAN /\ outside' \in BOOLEAN
    BY <1>0, <1>3 DEF ReadWeek, ShowWeek, WeekFails
  <2>4. calls' \in Nat /\ slips' \in Nat
    BY <1>0, <1>3 DEF ReadWeek, ShowWeek, WeekFails
  <2> QED
    BY <2>1, <2>2, <2>3, <2>4
<1>4. ASSUME NEW c \in Saves, Saved(c) \/ NotSaved(c) PROVE Fine
  <2>1. call[c].from \in Nat
    BY <1>0 DEF TimeTypeOK, CallType, Calls
  <2>2. reading' \in [at : {"none", "sent", "read"}, figure : Nat]
    BY <1>0, <1>4 DEF Saved, NotSaved, Refetched, Requested
  <2>3. cell' \in CellType /\ misled' \in BOOLEAN
    BY <1>0, <1>4, <2>1 DEF Saved, NotSaved, CellType
  <2> QED
    BY <1>0, <1>4, <2>2, <2>3 DEF Saved, NotSaved
<1>5. ASSUME NEW c \in Saves, NEW typed \in Typed, NEW otherwise \in {typed, cell.figure},
             Commit(c, typed, otherwise)
      PROVE  Fine
  <2>1. typed \in Nat \cup {Junk} /\ otherwise \in Nat \cup {Junk}
    BY <1>0 DEF Typed, Minutes, CellType
  <2>2. cell' \in CellType
    BY <1>0, <1>5, <2>1 DEF Commit, CellType
  <2>3. misled' \in BOOLEAN
    BY <1>0, <1>5 DEF Commit
  <2>4. calls' \in Nat
    BY <1>0, <1>5 DEF Commit, Send
  <2> QED
    BY <1>0, <1>5, <2>2, <2>3, <2>4 DEF Commit
<1>6. ASSUME NEW c \in Others, SectionStep(c) PROVE Fine
  <2>1. UNCHANGED <<cell, reading, misled, outside, slips>>
    BY <1>6 DEF SectionStep, LogTime, AmendEntry, DropEntry, SectionAnswered, pageVars
  <2>2. calls' \in Nat
    <3>1. calls' \in {calls, calls + 1}
      BY <1>6 DEF SectionStep, LogTime, AmendEntry, DropEntry, SectionAnswered, Send
    <3> QED
      BY <1>0, <3>1
  <2> QED
    BY <1>0, <2>1, <2>2
<1>7. ASSUME NEW c \in Calls, TimeServerStep(c) PROVE Fine
  <2>1. UNCHANGED <<cell, reading, calls>> /\ slips' \in Nat /\ outside' \in BOOLEAN /\ misled' \in BOOLEAN
    BY <1>7, ServerShape
  <2> QED
    BY <1>0, <2>1
<1> HIDE DEF Fine
<1>8. Fine
  <2>1. CASE PageStep
    BY <2>1, <1>2, <1>3, <1>4, <1>5 DEF PageStep, Blur, Escape, Fine
  <2>2. CASE ReadEstimate
    BY <1>0, <2>2 DEF ReadEstimate, Fine
  <2> QED
    BY <1>1, <1>6, <1>7, <2>1, <2>2 DEF TimeNext, Fine
<1> QED
  BY <1>8 DEF Fine

(* The estimate shown is one the server told.                              *)
LEMMA ShownKept ==
    ASSUME TimeShape, [TimeNext]_timeVars
    PROVE  shown' \in EstimateType
<1>0. shown \in EstimateType /\ TicketEstimate \in EstimateType
  BY RemainingType DEF TimeShape, TimeTypeOK
<1>1. CASE UNCHANGED timeVars
  BY <1>0, <1>1 DEF timeVars
<1>2. CASE PageStep
  <2>1. UNCHANGED shown
    BY <1>2 DEF PageStep, Focus, LeaveWeek, ComeBack, Retry, Blur, Escape, Commit, Saved, NotSaved,
                ReadWeek, ShowWeek, WeekFails
  <2> QED
    BY <1>0, <2>1
<1>3. CASE ReadEstimate
  BY <1>0, <1>3 DEF ReadEstimate
<1>4. ASSUME NEW c \in Others, SectionStep(c) PROVE shown' \in EstimateType
  BY <1>0, <1>4 DEF SectionStep, LogTime, AmendEntry, DropEntry, SectionAnswered, pageVars
<1>5. ASSUME NEW c \in Calls, TimeServerStep(c) PROVE shown' \in EstimateType
  <2>1. UNCHANGED shown
    BY <1>5 DEF TimeServerStep, Load, LogEntry, DeleteNewest, Reload, SetNewest, UpdateEntry,
                ChangeEntry, DeleteEntry, Slip, pageVars
  <2> QED
    BY <1>0, <2>1
<1> QED
  BY <1>1, <1>2, <1>3, <1>4, <1>5 DEF TimeNext

(* Every step keeps the types and the shapes.                              *)
LEMMA ShapeKept == TimeShape /\ [TimeNext]_timeVars => TimeShape'
<1> SUFFICES ASSUME TimeShape, [TimeNext]_timeVars PROVE TimeShape'
  OBVIOUS
<1>0. TimeTypeOK /\ NoneAbove /\ \A c \in Calls : CallShaped(c)
  BY DEF TimeShape
<1> DEFINE Rows == /\ last' \in 0..MaxEntries /\ entry' \in [Ids -> Nat] /\ NoneAbove'
                   /\ left' \in Minutes \cup {Unset} /\ done' \in BOOLEAN
                   /\ call' \in [Calls -> CallType] /\ crossed' \subseteq Calls
                   /\ \A c \in Calls : CallShaped(c)'
<1>1. UNCHANGED serverVars =>
          /\ last' \in 0..MaxEntries /\ entry' \in [Ids -> Nat] /\ NoneAbove'
          /\ left' \in Minutes \cup {Unset} /\ done' \in BOOLEAN
  BY <1>0 DEF serverVars, TimeTypeOK, NoneAbove
<1>2. ASSUME Quiet PROVE Rows
  <2>1. UNCHANGED serverVars /\ call' = call /\ crossed' = crossed
    BY <1>2 DEF Quiet
  <2>2. \A c \in Calls : CallShaped(c)'
    BY <1>0, <2>1 DEF CallShaped
  <2> QED
    BY <1>0, <1>1, <2>1, <2>2 DEF TimeTypeOK
<1>3. ASSUME NEW c \in Calls, Sent(c) PROVE Rows
  <2>1. PICK new \in CallType :
            /\ call' = [call EXCEPT ![c] = new] /\ new.at = "sent"
            /\ new.kind = "day" <=> c \in Saves
            /\ new.kind \in {"amend", "drop"} => new.id \in Ids
            /\ new.kind = "log" /\ new.said = Silent /\ c \notin crossed' => new.told = TellsLeft(new.want)
    BY <1>3 DEF Sent
  <2>2. UNCHANGED serverVars /\ crossed' \in {crossed, crossed \cup {c}}
    BY <1>3 DEF Sent
  <2>3. call' \in [Calls -> CallType] /\ call'[c] = new /\ \A d \in Calls \ {c} : call'[d] = call[d]
    BY <1>0, <2>1, CallChanged
  <2>4. \A d \in Calls : CallShaped(d)'
    BY <1>0, <2>1, <2>2, <2>3 DEF CallShaped
  <2> QED
    BY <1>0, <1>1, <2>2, <2>3, <2>4 DEF TimeTypeOK
<1>4. ASSUME NEW c \in Calls, Ended(c) PROVE Rows
  <2>1. UNCHANGED serverVars /\ crossed' = crossed \ {c} /\ call' = [call EXCEPT ![c] = Free]
    BY <1>4 DEF Ended, End
  <2>2. call' \in [Calls -> CallType] /\ call'[c] = Free /\ \A d \in Calls \ {c} : call'[d] = call[d]
    BY <1>0, <2>1, CallChanged, FreeType
  <2>3. \A d \in Calls : CallShaped(d)'
    BY <1>0, <2>1, <2>2 DEF CallShaped, Free
  <2> QED
    BY <1>0, <1>1, <2>1, <2>2, <2>3 DEF TimeTypeOK
<1>5. ASSUME NEW c \in Calls, TimeServerStep(c) PROVE Rows
  <2>1. GoesOn(c) /\ CallShaped(c)' /\ \A d \in Calls : call[d].at = "free" /\ d \in crossed' => d \in crossed
    BY <1>5, ServerShape
  <2>2. \A d \in Calls : CallShaped(d)'
    BY <1>0, <2>1 DEF GoesOn, CallShaped
  <2>3. call' \in [Calls -> CallType]
    BY <2>1 DEF GoesOn
  <2> QED
    BY <1>5, <2>2, <2>3, ServerShape
<1> HIDE DEF Rows
<1>6. Rows
  BY <1>2, <1>3, <1>4, <1>5, Effects DEF Rows
<1> QED
  BY <1>6, PageShape, ShownKept DEF Rows, TimeShape, TimeTypeOK

(* Types, and what each stage of a request has loaded. (timesheet.py,      *)
(* worklogs.py, TimesheetPage.tsx)                                         *)
THEOREM TimeShapeAlways == TimeSpec => []TimeShape
BY ShapeAtFirst, ShapeKept, PTL DEF TimeSpec

-----------------------------------------------------------------------------
(* A day set entry by entry. *)

Before(i) == {j \in Ids : j < i}

(* On its way to a figure: what is left of the entries of the day it was   *)
(* first, from the oldest on and unchanged; one is gone only where those   *)
(* before it were enough, and then what is left is enough.                 *)
KeptIn(day, ids, first, want) ==
    /\ ids = There(day) /\ ids \subseteq There(first)
    /\ \A i \in ids : day[i] = first[i]
    /\ \A i \in There(first), j \in ids : i < j => i \in ids
    /\ \A i \in There(first) \ ids : Sum(first, Before(i)) >= want
    /\ ids = There(first) \/ Sum(day, Ids) >= want

(* There: the last entry kept may have changed.                            *)
SetIn(day, first, want) ==
    /\ Sum(day, Ids) = want
    /\ \A i \in There(first) :
           /\ (\E j \in There(day) : j > i) => day[i] = first[i]
           /\ day[i] = 0 => Sum(first, Before(i)) >= want

(* At first all of the day is kept.                                        *)
LEMMA KeptAtFirst == ASSUME NEW day, NEW want PROVE KeptIn(day, There(day), day, want)
BY DEF KeptIn

(* The newest entry goes where the older ones are enough.                  *)
LEMMA KeptWithoutNewest ==
    ASSUME NEW day \in [Ids -> Nat], NEW first \in [Ids -> Nat], NEW ids \in SUBSET Ids,
           NEW want \in Nat, KeptIn(day, ids, first, want), ids # {},
           Sum(day, ids \ {Newest(ids)}) >= want
    PROVE  LET new == [day EXCEPT ![Newest(ids)] = 0]
           IN  KeptIn(new, ids \ {Newest(ids)}, first, want) /\ Sum(new, Ids) >= want
<1> DEFINE n == Newest(ids)
           rest == ids \ {n}
           new == [day EXCEPT ![n] = 0]
<1>1. n \in ids /\ n \in Ids /\ \A j \in ids : j <= n
  BY NewestIs
<1> HIDE DEF n
<1>2. new \in [Ids -> Nat] /\ new[n] = 0 /\ \A i \in Ids \ {n} : new[i] = day[i]
  BY <1>1
<1> HIDE DEF new
<1>3. There(new) = rest
  BY <1>1, <1>2 DEF There, KeptIn
<1>4. Sum(new, Ids) >= want
  <2>1. Sum(new, Ids) = Sum(new, rest)
    BY <1>2, <1>3, SumThere
  <2>2. \A i \in rest : new[i] = day[i]
    BY <1>2
  <2>3. Sum(new, rest) = Sum(day, rest)
    BY <2>2, SumSame
  <2> QED
    BY <2>1, <2>3 DEF n
<1>5. \A i \in There(first) \ rest : Sum(first, Before(i)) >= want
  <2>1. SUFFICES ASSUME NEW i \in There(first) \ rest PROVE Sum(first, Before(i)) >= want
    OBVIOUS
  <2>2. CASE i # n
    BY <2>2 DEF KeptIn
  <2>3. CASE i = n
    <3>1. rest \in SUBSET Before(n) /\ Before(n) \in SUBSET Ids /\ rest \in SUBSET Ids
      BY <1>1, IdsAre DEF Before
    <3>2. \A j \in rest : day[j] = first[j]
      BY DEF KeptIn
    <3>3. Sum(first, rest) = Sum(day, rest)
      BY <3>2, SumSame
    <3>4. Sum(first, rest) <= Sum(first, Before(n))
      BY <3>1, SumMore
    <3>5. Sum(first, rest) \in Nat /\ Sum(first, Before(n)) \in Nat /\ Sum(day, rest) >= want
      BY <3>1, SumType DEF n
    <3> QED
      BY <2>3, <3>3, <3>4, <3>5
  <2> QED
    BY <2>2, <2>3
<1>6. /\ rest \subseteq There(first) /\ \A i \in rest : new[i] = first[i]
      /\ \A i \in There(first), j \in rest : i < j => i \in rest
  <2>1. rest \subseteq There(first) /\ \A i \in rest : new[i] = first[i]
    BY <1>2 DEF KeptIn
  <2>2. ASSUME NEW i \in There(first), NEW j \in rest, i < j PROVE i \in rest
    <3>1. i \in ids
      BY <2>2 DEF KeptIn
    <3>2. j <= n /\ i \in Nat /\ j \in Nat /\ n \in Nat
      BY <1>1, <3>1, IdsAre
    <3> QED
      BY <2>2, <3>1, <3>2
  <2> QED
    BY <2>1, <2>2
<1>7. KeptIn(new, rest, first, want)
  BY <1>3, <1>4, <1>5, <1>6 DEF KeptIn
<1> QED
  BY <1>4, <1>7 DEF n, new

(* Where they are not, it takes the difference.                            *)
LEMMA SetByNewest ==
    ASSUME NEW day \in [Ids -> Nat], NEW first \in [Ids -> Nat], NEW ids \in SUBSET Ids,
           NEW want \in Nat, KeptIn(day, ids, first, want), ids # {},
           ~ (Sum(day, ids \ {Newest(ids)}) >= want)
    PROVE  SetIn([day EXCEPT ![Newest(ids)] = want - Sum(day, ids \ {Newest(ids)})], first, want)
<1> DEFINE n == Newest(ids)
           rest == ids \ {n}
           more == want - Sum(day, rest)
           new == [day EXCEPT ![n] = more]
<1>1. n \in ids /\ n \in Ids /\ \A j \in ids : j <= n
  BY NewestIs
<1>0. Sum(day, rest) \in Nat /\ Sum(day, rest) < want
  BY SumType
<1>a. more \in Nat /\ more > 0 /\ more + Sum(day, rest) = want
  BY <1>0
<1> HIDE DEF n, more
<1>2. new \in [Ids -> Nat] /\ new[n] = more /\ \A i \in Ids \ {n} : new[i] = day[i]
  BY <1>1, <1>a
<1> HIDE DEF new
<1>3. There(new) = ids
  BY <1>1, <1>2, <1>a DEF There, KeptIn
<1>4. Sum(new, Ids) = want
  <2>1. Sum(new, Ids) = Sum(new, ids)
    BY <1>2, <1>3, SumThere
  <2>2. Sum(new, ids) = Sum(new, rest) + new[n]
    BY <1>1, <1>2, SumWith
  <2>3. \A i \in rest : new[i] = day[i]
    BY <1>2
  <2>4. Sum(new, rest) = Sum(day, rest)
    BY <2>3, SumSame
  <2> QED
    BY <1>0, <1>2, <1>a, <2>1, <2>2, <2>4
<1>5. ASSUME NEW i \in There(first), NEW j \in There(new), j > i PROVE new[i] = first[i]
  <2>1. j \in ids /\ j <= n
    BY <1>1, <1>3, <1>5
  <2>2. i \in ids
    BY <1>5, <2>1 DEF KeptIn, There
  <2>3. i \in Nat /\ j \in Nat /\ n \in Nat
    BY <1>1, <2>1, <2>2, IdsAre
  <2>4. i # n
    BY <1>5, <2>1, <2>3
  <2> QED
    BY <1>2, <2>2, <2>4 DEF KeptIn
<1>6. ASSUME NEW i \in There(first), new[i] = 0 PROVE Sum(first, Before(i)) >= want
  <2>1. i \in Ids
    BY DEF There
  <2>2. i \notin ids
    BY <1>3, <1>6, <2>1 DEF There
  <2> QED
    BY <2>2 DEF KeptIn
<1>7. SetIn(new, first, want)
  BY <1>4, <1>5, <1>6 DEF SetIn
<1> QED
  BY <1>7 DEF n, new, more

(* With none left the figure was nothing.                                  *)
LEMMA SetByDeleting ==
    ASSUME NEW day \in [Ids -> Nat], NEW first, NEW want \in Nat,
           KeptIn(day, {}, first, want), Sum(day, Ids) >= want
    PROVE  SetIn(day, first, want)
<1>1. \A i \in Ids : day[i] = 0
  BY DEF KeptIn, There
<1>2. Sum(day, Ids) = 0
  BY <1>1, SumNone
<1>3. want = 0
  BY <1>2
<1>4. There(day) = {}
  BY DEF KeptIn
<1> QED
  BY <1>2, <1>3, <1>4 DEF SetIn, KeptIn

(* With none at first, one entry is the day.                               *)
LEMMA SetByFiling ==
    ASSUME NEW day \in [Ids -> Nat], NEW first, NEW want \in Nat, NEW i \in Ids,
           There(day) = {}, There(first) = {}
    PROVE  SetIn([day EXCEPT ![i] = want], first, want)
<1> DEFINE new == [day EXCEPT ![i] = want]
<1>1. new \in [Ids -> Nat] /\ new[i] = want /\ \A j \in Ids \ {i} : new[j] = 0
  BY DEF There
<1> HIDE DEF new
<1>2. Sum(new, Ids) = Sum(new, Ids \ {i}) + new[i]
  BY <1>1, SumWith
<1>3. Sum(new, Ids \ {i}) = 0
  BY <1>1, SumNone
<1>4. Sum(new, Ids) = want
  BY <1>1, <1>2, <1>3
<1>5. SetIn(new, first, want)
  BY <1>4 DEF SetIn
<1> QED
  BY <1>5 DEF new

-----------------------------------------------------------------------------
(* Nobody else writing. *)

(* A step of the server writes nothing, or is a commit.                    *)
LEMMA ServerWrites ==
    ASSUME TimeShape, NEW c \in Calls, TimeServerStep(c)
    PROVE  UNCHANGED <<serverVars, crossed, outside, misled>> \/ Crosses(c)
<1>1. CASE Load(c) \/ Reload(c) \/ Slip(c)
  BY <1>1 DEF Load, Reload, Slip, pageVars
<1>2. CASE LogEntry(c) \/ DeleteNewest(c) \/ DeleteEntry(c)
  BY <1>2 DEF LogEntry, DeleteNewest, DeleteEntry
<1>3. CASE SetNewest(c) \/ UpdateEntry(c)
  BY <1>3 DEF SetNewest, UpdateEntry, ChangeEntry, serverVars
<1> QED
  BY <1>1, <1>2, <1>3 DEF TimeServerStep

(* What happens to a request during which nobody else has committed: it is *)
(* left alone, sent, or goes on.                                           *)
LEMMA Undisturbed ==
    ASSUME TimeShape, [TimeNext]_timeVars, NEW d \in Calls, d \notin crossed', call'[d].at # "free"
    PROVE  \/ call'[d] = call[d] /\ UNCHANGED serverVars /\ d \notin crossed
           \/ Sent(d)
           \/ TimeServerStep(d) /\ d \notin crossed
<1>0. TimeTypeOK
  BY DEF TimeShape
<1>1. CASE Quiet
  BY <1>1 DEF Quiet
<1>2. ASSUME NEW c \in Calls \ {d}, Sent(c)
      PROVE  call'[d] = call[d] /\ UNCHANGED serverVars /\ d \notin crossed
  BY <1>0, <1>2, CallChanged DEF Sent
<1>3. ASSUME NEW c \in Calls, Ended(c)
      PROVE  call'[d] = call[d] /\ UNCHANGED serverVars /\ d \notin crossed
  <2>1. call' = [call EXCEPT ![c] = Free] /\ UNCHANGED serverVars /\ crossed' = crossed \ {c}
    BY <1>3 DEF Ended, End
  <2>2. call'[c] = Free /\ \A e \in Calls \ {c} : call'[e] = call[e]
    BY <1>0, <2>1, CallChanged, FreeType
  <2>3. c # d
    BY <2>2 DEF Free
  <2> QED
    BY <2>1, <2>2, <2>3
<1>4. ASSUME NEW c \in Calls, TimeServerStep(c)
      PROVE  \/ call'[d] = call[d] /\ UNCHANGED serverVars /\ d \notin crossed
             \/ TimeServerStep(d) /\ d \notin crossed
  <2>1. GoesOn(c)
    BY <1>4, ServerShape
  <2>2. CASE Crosses(c)
    <3>1. crossed \subseteq crossed' /\ \A e \in Calls \ {c} : call[e].at # "free" => e \in crossed'
      BY <1>0, <2>2, CrossesMeans
    <3>2. d = c
      BY <2>1, <3>1 DEF GoesOn
    <3> QED
      BY <1>4, <3>1, <3>2
  <2>3. CASE UNCHANGED <<serverVars, crossed, outside, misled>>
    <3>1. d # c => call'[d] = call[d]
      BY <2>1 DEF GoesOn
    <3> QED
      BY <1>4, <2>3, <3>1
  <2> QED
    BY <1>4, <2>2, <2>3, ServerWrites
<1> QED
  BY <1>1, <1>2, <1>3, <1>4, Effects

-----------------------------------------------------------------------------
(* The day at the server. *)

(* How far a request of the cell is, when nobody else wrote.               *)
DayOf(c) ==
    call[c].kind = "day" /\ c \notin crossed =>
        /\ call[c].at \in {"decide", "reload"} =>
               KeptIn(entry, call[c].ids, call[c].first, call[c].want)
        /\ call[c].at = "decide" =>
               call[c].seen = entry /\ (call[c].ids = {} => There(call[c].first) = {})
        /\ call[c].at = "reload" => Sum(entry, Ids) >= call[c].want
        /\ call[c].at = "answer" => SetIn(entry, call[c].first, call[c].want)

DayInv == \A c \in Calls : DayOf(c)

(* Nothing is on its way at first.                                         *)
LEMMA DayAtFirst == TimeInit => DayInv
<1> SUFFICES ASSUME TimeInit PROVE DayInv
  OBVIOUS
<1>1. \A c \in Calls : call[c].at = "free"
  BY DEF TimeInit, Free
<1> QED
  BY <1>1 DEF DayInv, DayOf

(* A request of the cell goes on as it should.                             *)
LEMMA DayGoesOn ==
    ASSUME TimeShape, NEW c \in Calls, TimeServerStep(c), DayOf(c), c \notin crossed,
           call[c].kind = "day"
    PROVE  DayOf(c)'
<1>0. /\ TimeTypeOK /\ CallShaped(c) /\ call[c] \in CallType /\ entry \in [Ids -> Nat]
      /\ call[c].ids \in SUBSET Ids /\ call[c].want \in Nat /\ call[c].first \in [Ids -> Nat]
  BY DEF TimeShape, TimeTypeOK, CallType
<1>1. GoesOn(c) /\ call'[c].kind = "day" /\ call'[c].want = call[c].want
  BY ServerShape DEF GoesOn
<1>2. CASE Load(c)
  <2>1. KeptIn(entry, There(entry), entry, call[c].want)
    BY KeptAtFirst
  <2>2. Logged = call[c].want => SetIn(entry, entry, call[c].want)
    BY <1>0 DEF SetIn, There, Logged
  <2>3. entry' = entry
    BY <1>2, LoadMeans DEF serverVars
  <2> QED
    BY <1>1, <1>2, <2>1, <2>2, <2>3, LoadMeans DEF DayOf, GoesOn
<1>3. CASE LogEntry(c)
  <2>1. Becomes(c, "answer") /\ call[c].at = "decide" /\ call[c].ids = {} /\ last < MaxEntries
        /\ entry' = [entry EXCEPT ![last + 1] = call[c].want]
    BY <1>3 DEF LogEntry
  <2>2. call'[c].at = "answer" /\ call'[c].first = call[c].first
    BY <1>0, <2>1, BecomesMeans
  <2>3. There(entry) = {} /\ There(call[c].first) = {}
    BY <2>1 DEF DayOf, KeptIn
  <2>4. last + 1 \in Ids
    BY <1>0, <2>1, TimeAssumption DEF Ids, TimeTypeOK
  <2>5. SetIn(entry', call[c].first, call[c].want)
    BY <1>0, <2>1, <2>3, <2>4, SetByFiling
  <2> QED
    BY <1>1, <2>2, <2>5 DEF DayOf
<1>4. CASE DeleteNewest(c)
  <2>1. /\ call[c].at = "decide" /\ call[c].ids # {} /\ TooMuch(c)
        /\ entry' = [entry EXCEPT ![Newest(call[c].ids)] = 0]
    BY <1>4 DEF DeleteNewest, Is
  <2>2. call'[c].at = "reload" /\ call'[c].ids = Older(c) /\ call'[c].first = call[c].first
    BY <1>4, <2>1, DeleteMeans DEF GoesOn
  <2>3. Sum(entry, call[c].ids \ {Newest(call[c].ids)}) >= call[c].want
    BY <2>1 DEF DayOf, TooMuch, OlderSum, Older
  <2>4. KeptIn(entry, call[c].ids, call[c].first, call[c].want)
    BY <2>1 DEF DayOf
  <2>5. KeptIn(entry', Older(c), call[c].first, call[c].want) /\ Sum(entry', Ids) >= call[c].want
    BY <1>0, <2>1, <2>3, <2>4, KeptWithoutNewest DEF Older
  <2> QED
    BY <1>1, <2>2, <2>5 DEF DayOf
<1>5. CASE Reload(c)
  <2>1. /\ call[c].at = "reload" /\ entry' = entry /\ call'[c].ids = call[c].ids
        /\ call'[c].seen = entry /\ call'[c].first = call[c].first
    BY <1>5, ReloadMeans DEF Is, GoesOn, serverVars
  <2>2. KeptIn(entry, call[c].ids, call[c].first, call[c].want) /\ Sum(entry, Ids) >= call[c].want
    BY <2>1 DEF DayOf
  <2>3. call'[c].at = IF call[c].ids = {} THEN "answer" ELSE "decide"
    BY <1>5, <2>2, ReloadMeans DEF KeptIn
  <2>4. CASE call[c].ids = {}
    <3>1. SetIn(entry, call[c].first, call[c].want)
      BY <1>0, <2>2, <2>4, SetByDeleting
    <3> QED
      BY <1>1, <2>1, <2>3, <2>4, <3>1 DEF DayOf
  <2>5. CASE call[c].ids # {}
    BY <1>1, <2>1, <2>2, <2>3, <2>5 DEF DayOf
  <2> QED
    BY <2>4, <2>5
<1>6. CASE SetNewest(c)
  <2>1. call[c].at = "decide" /\ call[c].ids # {} /\ ~TooMuch(c)
        /\ ChangeEntry(c, Newest(call[c].ids), call[c].want - OlderSum(c))
    BY <1>6 DEF SetNewest, Is
  <2>2. KeptIn(entry, call[c].ids, call[c].first, call[c].want) /\ call[c].seen = entry
    BY <2>1 DEF DayOf
  <2>3. Newest(call[c].ids) \in Ids /\ Newest(call[c].ids) \in call[c].ids
    BY <1>0, <2>1, NewestIs
  <2>4. OlderSum(c) = Sum(entry, call[c].ids \ {Newest(call[c].ids)})
    BY <2>2 DEF OlderSum, Older
  <2>5. ~ (Sum(entry, call[c].ids \ {Newest(call[c].ids)}) >= call[c].want)
    BY <2>1, <2>4 DEF TooMuch
  <2>6. SetIn([entry EXCEPT ![Newest(call[c].ids)] = call[c].want - OlderSum(c)],
              call[c].first, call[c].want)
    BY <1>0, <2>1, <2>2, <2>4, <2>5, SetByNewest
  <2>7. call[c].want - OlderSum(c) \in Nat
    <3>1. OlderSum(c) \in Nat
      BY <1>0, <2>4, SumType
    <3> QED
      BY <1>0, <2>4, <2>5, <3>1
  <2>8. /\ GoesOn(c)
        /\ \/ call'[c].at = "refused"
           \/ /\ call'[c].at = "answer"
              /\ entry' = [entry EXCEPT ![Newest(call[c].ids)] =
                    Written(call[c].seen[Newest(call[c].ids)], call[c].want - OlderSum(c),
                            entry[Newest(call[c].ids)])]
    BY <2>1, <2>3, <2>7, ChangeMeans
  <2>9. Written(call[c].seen[Newest(call[c].ids)], call[c].want - OlderSum(c),
                entry[Newest(call[c].ids)]) = call[c].want - OlderSum(c)
    BY <2>2 DEF Written
  <2>10. call'[c].first = call[c].first
    BY <2>1, <2>8 DEF GoesOn
  <2> QED
    BY <1>1, <2>6, <2>8, <2>9, <2>10 DEF DayOf
<1>7. CASE Slip(c)
  BY <1>0, <1>1, <1>7, BecomesMeans DEF Slip, DayOf
<1>8. CASE UpdateEntry(c) \/ DeleteEntry(c)
  BY <1>8 DEF UpdateEntry, DeleteEntry, Is
<1> QED
  BY <1>2, <1>3, <1>4, <1>5, <1>6, <1>7, <1>8 DEF TimeServerStep

(* Every step leaves the day as it should be.                              *)
LEMMA DayKept == TimeShape /\ DayInv /\ [TimeNext]_timeVars => DayInv'
<1> SUFFICES ASSUME TimeShape, DayInv, [TimeNext]_timeVars, NEW d \in Calls,
                    (call[d].kind = "day" /\ d \notin crossed)', call'[d].at # "free"
             PROVE  DayOf(d)'
  BY DEF DayInv, DayOf
<1>1. CASE call'[d] = call[d] /\ UNCHANGED serverVars /\ d \notin crossed
  BY <1>1 DEF DayInv, DayOf, serverVars
<1>2. CASE Sent(d)
  <2>1. call'[d].at = "sent"
    BY <1>2, CallChanged DEF Sent, TimeShape
  <2> QED
    BY <2>1 DEF DayOf
<1>3. CASE TimeServerStep(d) /\ d \notin crossed
  <2>1. call[d].kind = "day"
    BY <1>3, ServerShape DEF GoesOn
  <2> QED
    BY <1>3, <2>1, DayGoesOn DEF DayInv
<1> QED
  BY <1>1, <1>2, <1>3, Undisturbed

-----------------------------------------------------------------------------
(* What logging leaves of the ticket. *)

(* What the form said is what the server will make of it, as long as       *)
(* nobody else writes.                                                     *)
LeftOf(c) ==
    call[c].kind = "log" /\ call[c].said = Silent /\ c \notin crossed =>
        /\ call[c].at \in {"sent", "decide"} => call[c].told = TellsLeft(call[c].want)
        /\ call[c].at = "decide" => call[c].left = left
        /\ call[c].at = "answer" =>
               RemainingOf(left, Logged, done) = IF done THEN 0 ELSE call[c].told

LeftInv == \A c \in Calls : LeftOf(c)

(* A new entry adds its length to the day.                                 *)
LEMMA NewEntryAdds ==
    ASSUME TimeShape, last < MaxEntries, NEW minutes \in Nat,
           entry' = [entry EXCEPT ![last + 1] = minutes]
    PROVE  Logged' = Logged + minutes /\ Logged \in Nat
<1>1. last + 1 \in Ids /\ entry \in [Ids -> Nat] /\ entry[last + 1] = 0
  <2>1. last + 1 \in Ids /\ last + 1 > last
    BY TimeAssumption DEF Ids, TimeShape, TimeTypeOK
  <2> QED
    BY <2>1 DEF TimeShape, TimeTypeOK, NoneAbove
<1>2. entry' \in [Ids -> Nat] /\ entry'[last + 1] = minutes
      /\ \A j \in Ids \ {last + 1} : entry'[j] = entry[j]
  BY <1>1
<1>3. Sum(entry', Ids) = Sum(entry', Ids \ {last + 1}) + minutes
  BY <1>1, <1>2, SumWith
<1>4. Sum(entry, Ids) = Sum(entry, Ids \ {last + 1}) + 0
  BY <1>1, SumWith
<1>5. Sum(entry', Ids \ {last + 1}) = Sum(entry, Ids \ {last + 1})
  BY <1>2, SumSame
<1>6. Sum(entry, Ids \ {last + 1}) \in Nat /\ Sum(entry, Ids) \in Nat
  BY <1>1, SumType
<1>7. Logged' = Sum(entry', Ids) /\ Logged = Sum(entry, Ids)
  BY DEF Logged
<1> QED
  BY <1>3, <1>4, <1>5, <1>6, <1>7

(* Nothing has been said at first.                                         *)
LEMMA LeftAtFirst == TimeInit => LeftInv
<1> SUFFICES ASSUME TimeInit PROVE LeftInv
  OBVIOUS
<1>1. \A c \in Calls : call[c].at = "free"
  BY DEF TimeInit, Free
<1> QED
  BY <1>1 DEF LeftInv, LeftOf

(* Logging makes of the ticket what the form said.                         *)
LEMMA LogLeaves ==
    ASSUME TimeShape, NEW c \in Calls, LogEntry(c), LeftOf(c), c \notin crossed,
           call[c].kind = "log", call[c].said = Silent
    PROVE  RemainingOf(left', Logged', done') = IF done' THEN 0 ELSE call[c].told
<1>1. /\ call[c].at = "decide" /\ last < MaxEntries /\ done' = done
      /\ entry' = [entry EXCEPT ![last + 1] = call[c].want]
      /\ left' = Written(call[c].left, AfterLogging(call[c].left, call[c].want, call[c].said), left)
  BY DEF LogEntry
<1>2. call[c].want \in Nat /\ left \in Minutes \cup {Unset} /\ done \in BOOLEAN
  BY DEF TimeShape, TimeTypeOK, CallType
<1>3. Logged' = Logged + call[c].want /\ Logged \in Nat
  BY <1>1, <1>2, NewEntryAdds
<1>4. call[c].told = TellsLeft(call[c].want) /\ call[c].left = left
  BY <1>1 DEF LeftOf
<1>5. left' = IF left # Unset THEN Floor(left - call[c].want) ELSE Unset
  BY <1>1, <1>2, <1>4 DEF Written, AfterLogging
<1>6. CASE done
  BY <1>1, <1>6 DEF RemainingOf
<1>7. CASE ~done /\ left # Unset
  <2>1. Floor(left - call[c].want) # Unset
    BY <1>2, <1>7, TimeAssumption DEF Floor, Unset, Minutes
  <2>2. RemainingOf(left', Logged', done') = Floor(left - call[c].want)
    BY <1>1, <1>5, <1>7, <2>1 DEF RemainingOf
  <2>3. call[c].told = Floor(left - call[c].want)
    BY <1>4, <1>7 DEF TellsLeft, RemainingAfter, TicketEstimate, RemainingOf
  <2> QED
    BY <1>1, <1>7, <2>2, <2>3
<1>8. CASE ~done /\ left = Unset
  <2>1. RemainingOf(left', Logged', done') = Floor(Estimate - Logged')
    BY <1>1, <1>5, <1>8 DEF RemainingOf
  <2>2. call[c].told = Floor(Estimate - Logged - call[c].want)
    BY <1>4, <1>8 DEF TellsLeft, RemainingAfter, TicketEstimate
  <2>3. Estimate - Logged' = Estimate - Logged - call[c].want
    BY <1>2, <1>3, TimeAssumption
  <2> QED
    BY <1>1, <1>8, <2>1, <2>2, <2>3
<1> QED
  BY <1>2, <1>6, <1>7, <1>8

(* Every step leaves what was said true.                                   *)
LEMMA LeftKept == TimeShape /\ LeftInv /\ [TimeNext]_timeVars => LeftInv'
<1> SUFFICES ASSUME TimeShape, LeftInv, [TimeNext]_timeVars, NEW d \in Calls,
                    (call[d].kind = "log" /\ call[d].said = Silent /\ d \notin crossed)',
                    call'[d].at # "free"
             PROVE  LeftOf(d)'
  BY DEF LeftInv, LeftOf
<1>0. TimeTypeOK /\ LeftOf(d)
  BY DEF TimeShape, LeftInv
<1>1. CASE call'[d] = call[d] /\ UNCHANGED serverVars /\ d \notin crossed
  BY <1>0, <1>1 DEF LeftOf, serverVars, TellsLeft, RemainingAfter, TicketEstimate, RemainingOf, Logged
<1>2. CASE Sent(d)
  <2>1. PICK new \in CallType :
            /\ call' = [call EXCEPT ![d] = new] /\ new.at = "sent"
            /\ new.kind = "day" <=> d \in Saves
            /\ new.kind \in {"amend", "drop"} => new.id \in Ids
            /\ new.kind = "log" /\ new.said = Silent /\ d \notin crossed' => new.told = TellsLeft(new.want)
    BY <1>2 DEF Sent
  <2>2. call'[d] = new /\ UNCHANGED serverVars
    BY <1>0, <1>2, <2>1, CallChanged DEF Sent
  <2>3. call'[d].at = "sent" /\ call'[d].told = TellsLeft(call'[d].want)
    BY <2>1, <2>2
  <2>4. TellsLeft(call'[d].want) = TellsLeft(call[d].want)'
    BY <2>2 DEF serverVars, TellsLeft, RemainingAfter, TicketEstimate, RemainingOf, Logged
  <2> QED
    BY <2>3, <2>4 DEF LeftOf
<1>3. CASE TimeServerStep(d) /\ d \notin crossed
  <2>1. /\ GoesOn(d) /\ call[d].kind = "log" /\ call[d].said = Silent
        /\ call'[d].told = call[d].told /\ call'[d].want = call[d].want
    BY <1>3, ServerShape DEF GoesOn
  <2>2. CASE Load(d)
    <3>1. /\ call[d].at = "sent" /\ UNCHANGED serverVars /\ call'[d].at \in {"refused", "decide"}
          /\ call'[d].at = "decide" => call'[d].left = left
      BY <2>1, <2>2, LoadMeans
    <3>2. call[d].told = TellsLeft(call[d].want)
      BY <1>0, <1>3, <2>1, <3>1 DEF LeftOf
    <3>3. TellsLeft(call[d].want)' = TellsLeft(call[d].want)
      BY <2>1, <3>1 DEF serverVars, TellsLeft, RemainingAfter, TicketEstimate, RemainingOf, Logged
    <3> QED
      BY <2>1, <3>1, <3>2, <3>3 DEF LeftOf, serverVars
  <2>3. CASE LogEntry(d)
    <3>1. call'[d].at = "answer"
      BY <1>0, <2>3, BecomesMeans DEF LogEntry
    <3>2. RemainingOf(left', Logged', done') = IF done' THEN 0 ELSE call[d].told
      BY <1>0, <1>3, <2>1, <2>3, LogLeaves
    <3>3. RemainingOf(left, Logged, done)' = RemainingOf(left', Logged', done')
      BY DEF RemainingOf
    <3> QED
      BY <2>1, <3>1, <3>2, <3>3 DEF LeftOf
  <2>4. CASE Slip(d)
    <3>1. call'[d].at = "refused"
      BY <1>0, <2>1, <2>4, BecomesMeans DEF Slip, GoesOn
    <3> QED
      BY <3>1 DEF LeftOf
  <2>5. CASE DeleteNewest(d) \/ Reload(d) \/ SetNewest(d) \/ UpdateEntry(d) \/ DeleteEntry(d)
    BY <2>1, <2>5 DEF DeleteNewest, Reload, SetNewest, UpdateEntry, DeleteEntry, Is
  <2> QED
    BY <1>3, <2>2, <2>3, <2>4, <2>5 DEF TimeServerStep
<1> QED
  BY <1>1, <1>2, <1>3, Undisturbed

-----------------------------------------------------------------------------
(* A day set with nobody else writing comes to the figure, keeps the oldest*)
(* entries and loses nothing half-way; and logging leaves what was said.   *)
(* (timesheet.py, time_estimates.py)                                       *)
THEOREM DayCorrect == TimeSpec => []DaySafe
<1> DEFINE I == TimeShape /\ DayInv /\ LeftInv
<1>1. TimeInit => I
  BY ShapeAtFirst, DayAtFirst, LeftAtFirst
<1>2. I /\ [TimeNext]_timeVars => I'
  BY ShapeKept, DayKept, LeftKept
<1>3. I => DaySafe
  <2> SUFFICES ASSUME TimeShape, DayInv, LeftInv PROVE DaySafe
    OBVIOUS
  <2>0. TimeTypeOK /\ entry \in [Ids -> Nat]
    BY DEF TimeShape, TimeTypeOK
  <2>1. DayIsSet
    <3>1. SUFFICES ASSUME NEW c \in Calls, Alone(c, {"answer"})
                   PROVE  SetIn(entry, call[c].first, call[c].want)
      BY DEF DayIsSet, SetIn, Logged, Before
    <3> QED
      BY <3>1 DEF DayInv, DayOf, Alone
  <2>2. NothingLost
    <3>1. SUFFICES ASSUME NEW c \in Calls, Alone(c, {"decide", "reload", "answer"})
                   PROVE  Logged >= call[c].want \/ Logged >= Sum(call[c].first, Ids)
      BY DEF NothingLost
    <3>2. call[c].want \in Nat /\ call[c].first \in [Ids -> Nat]
      BY <2>0 DEF TimeTypeOK, CallType
    <3>3. Sum(entry, Ids) \in Nat /\ Sum(call[c].first, Ids) \in Nat
      BY <2>0, <3>2, SumType
    <3>4. CASE call[c].at = "answer"
      <4>1. Logged = call[c].want
        BY <3>1, <3>4 DEF DayInv, DayOf, Alone, SetIn, Logged
      <4> QED
        BY <3>2, <4>1
    <3>5. CASE call[c].at \in {"decide", "reload"}
      <4>1. KeptIn(entry, call[c].ids, call[c].first, call[c].want)
        BY <3>1, <3>5 DEF DayInv, DayOf, Alone
      <4>2. CASE Sum(entry, Ids) >= call[c].want
        BY <4>2 DEF Logged
      <4>3. CASE There(entry) = There(call[c].first)
        <5>1. \A i \in There(entry) : entry[i] = call[c].first[i]
          BY <4>1 DEF KeptIn
        <5>2. Sum(entry, There(entry)) = Sum(call[c].first, There(entry))
          BY <5>1, SumSame
        <5>3. Sum(entry, Ids) = Sum(call[c].first, Ids)
          BY <2>0, <3>2, <4>3, <5>2, SumThere
        <5> QED
          BY <3>3, <5>3 DEF Logged
      <4> QED
        BY <4>1, <4>2, <4>3 DEF KeptIn
    <3> QED
      BY <3>1, <3>4, <3>5 DEF Alone
  <2>3. LeftAgrees
    BY DEF LeftAgrees, LeftInv, LeftOf, Is
  <2> QED
    BY <2>0, <2>1, <2>2, <2>3 DEF DaySafe
<1> HIDE DEF I
<1> QED
  BY <1>1, <1>2, <1>3, PTL DEF TimeSpec

-----------------------------------------------------------------------------
(* The cell on the page. *)

SomeSave == \E c \in Saves : call[c].at # "free"

(* A figure read is the day's until somebody writes; what the page has, or *)
(* is about to get, is that, unless a save is under way or the Time section*)
(* has written.                                                            *)
FigureTold ==
    /\ cell.on = "elsewhere" => reading.at = "none"
    /\ cell.on = "page" /\ reading.at = "none" => outside \/ cell.figure = Logged \/ SomeSave
    /\ reading.at = "read" => outside \/ reading.figure = Logged \/ SomeSave

(* Something is on its way that will make the cell right: a save of what   *)
(* it shows that nobody disturbed, one that was refused, or a figure that  *)
(* is what it shows.                                                       *)
Coming ==
    \/ \E c \in Saves : /\ call[c].at \in {"sent", "decide", "reload"}
                        /\ call[c].want = cell.text /\ c \notin crossed
    \/ \E c \in Saves : call[c].at = "refused"
    \/ /\ Logged = cell.text
       /\ SomeSave \/ reading.at = "sent" \/ (reading.at = "read" /\ reading.figure = cell.text)

(* What is typed in the cell and left there.                               *)
Awaiting ==
    /\ cell.on = "page" /\ ~cell.typing /\ ~cell.invalid /\ ~misled
    /\ cell.text # cell.figure

TypedIsComing == Awaiting => Coming

CellInv == FigureTold /\ TypedIsComing

(* Nothing has been typed at first.                                        *)
LEMMA CellAtFirst == TimeInit => CellInv
BY DEF TimeInit, NotReading, CellInv, FigureTold, TypedIsComing, Awaiting

(* A save of what the cell shows that nobody disturbed makes it right.     *)
SavedShown == \A c \in Saves :
    call[c].at # "free" /\ c \notin crossed /\ call[c].want = cell.text => Coming

(* It does, for the day comes to what was typed.                           *)
LEMMA SavingTells == TimeShape /\ DayInv => SavedShown
<1> SUFFICES ASSUME TimeShape, DayInv, NEW c \in Saves, call[c].at # "free", c \notin crossed,
                    call[c].want = cell.text
             PROVE  Coming
  BY DEF SavedShown
<1>0. c \in Calls /\ call[c] \in CallType /\ CallShaped(c) /\ DayOf(c)
  BY DEF Calls, TimeShape, TimeTypeOK, DayInv
<1>1. call[c].kind = "day" /\ call[c].at \in CallStages
  BY <1>0 DEF CallShaped, CallType
<1>2. CASE call[c].at \in {"sent", "decide", "reload", "refused"}
  BY <1>2 DEF Coming
<1>3. CASE call[c].at = "answer"
  <2>1. Logged = call[c].want
    BY <1>0, <1>1, <1>3 DEF DayOf, SetIn, Logged
  <2> QED
    BY <2>1 DEF Coming, SomeSave
<1> QED
  BY <1>1, <1>2, <1>3 DEF CallStages

(* A step of the server is about a request that is under way.              *)
LEMMA ServedIsUnderWay ==
    ASSUME NEW c \in Calls, TimeServerStep(c)
    PROVE  call[c].at \in {"sent", "decide", "reload", "answer"}
BY DEF TimeServerStep, Load, LogEntry, DeleteNewest, Reload, SetNewest, UpdateEntry, DeleteEntry, Slip, Is

(* The figure stays the day's when the server takes a step.                *)
LEMMA FigureServed ==
    ASSUME TimeShape, NEW c \in Calls, TimeServerStep(c), FigureTold
    PROVE  FigureTold'
<1>1. UNCHANGED <<cell, reading>> /\ GoesOn(c) /\ CallShaped(c)
  BY ServerShape DEF TimeShape
<1>2. SomeSave => SomeSave'
  BY <1>1, IdsAre DEF SomeSave, GoesOn, Calls
<1>3. CASE UNCHANGED <<serverVars, crossed, outside, misled>>
  <2>1. Logged' = Logged
    BY <1>3 DEF serverVars, Logged
  <2> QED
    BY <1>1, <1>2, <1>3, <2>1 DEF FigureTold
<1>4. CASE Crosses(c)
  <2>1. CASE c \in Saves
    <3>1. SomeSave'
      BY <1>1, <2>1 DEF SomeSave, GoesOn
    <3> QED
      BY <1>1, <3>1 DEF FigureTold
  <2>2. CASE c \notin Saves
    <3>1. call[c].kind # "day"
      BY <1>1, <2>2 DEF CallShaped, GoesOn
    <3>2. outside'
      BY <1>4, <3>1 DEF Crosses
    <3> QED
      BY <1>1, <3>2 DEF FigureTold
  <2> QED
    BY <2>1, <2>2
<1> QED
  BY <1>3, <1>4, ServerWrites

(* What is typed stays on its way when the server takes a step.            *)
LEMMA TypedServed ==
    ASSUME TimeShape, TimeShape', DayInv', NEW c \in Calls, TimeServerStep(c), TypedIsComing, Awaiting'
    PROVE  Coming'
<1>1. UNCHANGED <<cell, reading>> /\ GoesOn(c) /\ CallShaped(c)
  BY ServerShape DEF TimeShape
<1>2. ASSUME c \in Saves, c \notin crossed', call[c].want = cell.text PROVE Coming'
  <2>1. call'[c].at # "free" /\ call'[c].want = cell'.text
    BY <1>1, <1>2 DEF GoesOn
  <2>2. SavedShown'
    BY SavingTells, PTL
  <2> QED
    BY <1>2, <2>1, <2>2 DEF SavedShown
<1>3. CASE UNCHANGED <<serverVars, crossed, outside, misled>>
  <2>1. Logged' = Logged
    BY <1>3 DEF serverVars, Logged
  <2>2. Coming
    BY <1>1, <1>3 DEF TypedIsComing, Awaiting
  <2>3. ASSUME NEW w \in Saves, call[w].at \in {"sent", "decide", "reload"},
               call[w].want = cell.text, w \notin crossed
        PROVE  Coming'
    <3>1. CASE w = c
      BY <1>2, <1>3, <2>3, <3>1
    <3>2. CASE w # c
      <4>1. call'[w] = call[w]
        BY <1>1, <3>2 DEF GoesOn, Calls
      <4> QED
        BY <1>1, <1>3, <2>3, <4>1 DEF Coming
    <3> QED
      BY <3>1, <3>2
  <2>4. ASSUME NEW w \in Saves, call[w].at = "refused" PROVE Coming'
    <3>1. call'[w] = call[w]
      BY <1>1, <2>4, ServedIsUnderWay DEF GoesOn, Calls
    <3> QED
      BY <2>4, <3>1 DEF Coming
  <2>5. SomeSave => SomeSave'
    BY <1>1 DEF SomeSave, GoesOn, Calls
  <2> QED
    BY <1>1, <2>1, <2>2, <2>3, <2>4, <2>5 DEF Coming
<1>4. CASE Crosses(c)
  <2>1. call[c].kind = "day" /\ c \notin crossed /\ call[c].want = cell.text
    BY <1>1, <1>4 DEF Crosses, Awaiting
  <2>2. c \notin crossed'
    BY <1>4, <2>1, CrossesMeans DEF TimeShape
  <2>3. c \in Saves
    BY <1>1, <2>1 DEF CallShaped, GoesOn
  <2> QED
    BY <1>2, <2>1, <2>2, <2>3
<1> QED
  BY <1>3, <1>4, ServerWrites

(* A save under way stays so when another request is sent or answered.     *)
LEMMA OtherSaves ==
    ASSUME TimeShape, NEW c \in Calls, Sent(c) \/ Ended(c)
    PROVE  /\ \A d \in Calls \ {c} : call'[d] = call[d]
           /\ Sent(c) => call'[c].at = "sent"
           /\ UNCHANGED serverVars /\ \A d \in Calls \ {c} : d \in crossed' <=> d \in crossed
<1>0. TimeTypeOK
  BY DEF TimeShape
<1>1. CASE Sent(c)
  BY <1>0, <1>1, CallChanged DEF Sent
<1>2. CASE Ended(c)
  <2>1. call' = [call EXCEPT ![c] = Free] /\ UNCHANGED serverVars /\ crossed' = crossed \ {c}
    BY <1>2 DEF Ended, End
  <2>2. call'[c] = Free /\ \A d \in Calls \ {c} : call'[d] = call[d]
    BY <1>0, <2>1, CallChanged, FreeType
  <2>3. ~ Sent(c)
    <3>1. SUFFICES ASSUME Sent(c) PROVE FALSE
      OBVIOUS
    <3>2. call'[c].at = "sent"
      BY <1>0, <3>1, CallChanged DEF Sent
    <3> QED
      BY <2>2, <3>2 DEF Free
  <2> QED
    BY <2>1, <2>2, <2>3
<1> QED
  BY <1>1, <1>2

(* Whatever the Time section sends or hears, the cell is as it was.        *)
LEMMA CellElsewhere ==
    ASSUME TimeShape, CellInv, NEW c \in Others, SectionStep(c)
    PROVE  CellInv'
<1>0. c \in Calls /\ c \notin Saves
  BY IdsAre DEF Calls
<1>1. UNCHANGED <<cell, reading, misled, outside>>
  BY DEF SectionStep, LogTime, AmendEntry, DropEntry, SectionAnswered, pageVars
<1>2. Sent(c) \/ Ended(c)
  BY SectionEffect
<1>3. /\ \A d \in Saves : call'[d] = call[d] /\ (d \in crossed' <=> d \in crossed)
      /\ Logged' = Logged
  BY <1>0, <1>2, OtherSaves DEF Calls, serverVars, Logged
<1>4. (SomeSave' <=> SomeSave) /\ (Coming => Coming')
  BY <1>1, <1>3 DEF SomeSave, Coming
<1> QED
  BY <1>1, <1>3, <1>4 DEF CellInv, FigureTold, TypedIsComing, Awaiting

(* Reading and showing the week.                                           *)
LEMMA CellRead ==
    ASSUME TimeShape, CellInv, ReadWeek \/ ShowWeek \/ WeekFails
    PROVE  CellInv'
<1>0. /\ UNCHANGED <<serverVars, call, crossed>> /\ cell \in CellType
      /\ reading \in [at : {"none", "sent", "read"}, figure : Nat]
  BY DEF ReadWeek, ShowWeek, WeekFails, TimeShape, TimeTypeOK
<1>1. Logged' = Logged /\ (SomeSave' <=> SomeSave)
  BY <1>0 DEF serverVars, Logged, SomeSave
<1>2. CASE ReadWeek
  <2>1. UNCHANGED <<cell, misled>> /\ reading.at = "sent" /\ reading' = [at |-> "read", figure |-> Logged]
    BY <1>2 DEF ReadWeek
  <2>2. reading'.at = "read" /\ reading'.figure = Logged
    BY <2>1
  <2>3. FigureTold'
    BY <1>1, <2>1, <2>2 DEF CellInv, FigureTold
  <2>4. Coming => Coming'
    BY <1>0, <1>1, <2>1, <2>2 DEF Coming
  <2>5. Awaiting' => Awaiting
    BY <2>1 DEF Awaiting
  <2> QED
    BY <2>3, <2>4, <2>5 DEF CellInv, TypedIsComing
<1>3. CASE ShowWeek
  <2>1. reading.at = "read" /\ reading' = NotReading /\ UNCHANGED outside
    BY <1>3 DEF ShowWeek
  <2>2. reading'.at = "none" /\ reading.figure \in Nat
    BY <1>0, <2>1 DEF NotReading
  <2>3. cell'.figure = reading.figure
    <3>1. \/ cell' = [cell EXCEPT !.figure = reading.figure]
          \/ cell' = [cell EXCEPT !.figure = reading.figure, !.text = reading.figure]
          \/ cell' = Fresh(reading.figure)
      BY <1>3 DEF ShowWeek
    <3>2. /\ [cell EXCEPT !.figure = reading.figure].figure = reading.figure
          /\ [cell EXCEPT !.figure = reading.figure, !.text = reading.figure].figure = reading.figure
          /\ Fresh(reading.figure).figure = reading.figure
      BY <1>0 DEF Fresh, CellType
    <3> QED
      BY <3>1, <3>2
  <2>4. FigureTold'
    BY <1>1, <2>1, <2>2, <2>3 DEF CellInv, FigureTold
  <2>5. ASSUME Awaiting' PROVE Coming'
    <3>1. CASE cell.on = "page" /\ (cell.typing \/ reading.figure = cell.figure)
      <4>1. cell' = [cell EXCEPT !.figure = reading.figure] /\ UNCHANGED misled
        BY <1>3, <3>1 DEF ShowWeek
      <4>2. /\ cell'.typing = cell.typing /\ cell'.text = cell.text
            /\ cell'.invalid = cell.invalid /\ cell'.on = cell.on
        BY <1>0, <4>1 DEF CellType
      <4>3. reading.figure = cell.figure /\ Awaiting
        BY <2>3, <2>5, <3>1, <4>1, <4>2 DEF Awaiting
      <4>4. Coming /\ cell.text # reading.figure
        BY <4>3 DEF CellInv, TypedIsComing, Awaiting
      <4> QED
        BY <1>0, <1>1, <2>1, <4>2, <4>4 DEF Coming
    <3>2. CASE ~ (cell.on = "page" /\ (cell.typing \/ reading.figure = cell.figure))
      <4>1. cell'.text = cell'.figure
        <5>1. \/ cell' = [cell EXCEPT !.figure = reading.figure, !.text = reading.figure]
              \/ cell' = Fresh(reading.figure)
          BY <1>3, <3>2 DEF ShowWeek
        <5>2. /\ [cell EXCEPT !.figure = reading.figure, !.text = reading.figure].text = reading.figure
              /\ Fresh(reading.figure).text = reading.figure
          BY <1>0 DEF Fresh, CellType
        <5> QED
          BY <2>3, <5>1, <5>2
      <4> QED
        BY <2>5, <4>1 DEF Awaiting
    <3> QED
      BY <3>1, <3>2
  <2> QED
    BY <2>4, <2>5 DEF CellInv, TypedIsComing
<1>4. CASE WeekFails
  <2>1. cell'.on = "error" /\ reading'.at = "none"
    BY <1>0, <1>4 DEF WeekFails, NotReading, CellType
  <2> QED
    BY <2>1 DEF CellInv, FigureTold, TypedIsComing, Awaiting
<1> QED
  BY <1>2, <1>3, <1>4

(* Moving about on the page.                                               *)
LEMMA CellMoved ==
    ASSUME TimeShape, CellInv, Focus \/ LeaveWeek \/ ComeBack \/ Retry
    PROVE  CellInv'
<1>0. /\ UNCHANGED <<serverVars, call, crossed, outside>> /\ cell \in CellType
  BY DEF Focus, LeaveWeek, ComeBack, Retry, TimeShape, TimeTypeOK
<1>1. Logged' = Logged /\ (SomeSave' <=> SomeSave)
  BY <1>0 DEF serverVars, Logged, SomeSave
<1>2. CASE Focus
  <2>1. /\ cell'.typing /\ cell'.on = cell.on /\ cell'.figure = cell.figure /\ reading' = reading
    BY <1>0, <1>2 DEF Focus, CellType
  <2> QED
    BY <1>0, <1>1, <2>1 DEF CellInv, FigureTold, TypedIsComing, Awaiting
<1>3. CASE LeaveWeek
  <2>1. cell'.on = "elsewhere" /\ reading'.at = "none"
    BY <1>0, <1>3 DEF LeaveWeek, CellType, NotReading
  <2> QED
    BY <2>1 DEF CellInv, FigureTold, TypedIsComing, Awaiting
<1>4. CASE ComeBack
  <2>1. cell'.on = "page" /\ cell'.text = cell'.figure /\ reading'.at = "sent"
    BY <1>0, <1>4 DEF ComeBack, Fresh, Requested, CellType
  <2> QED
    BY <2>1 DEF CellInv, FigureTold, TypedIsComing, Awaiting
<1>5. CASE Retry
  <2>1. cell'.on = "error" /\ reading'.at = "sent"
    BY <1>5 DEF Retry, Requested
  <2> QED
    BY <2>1 DEF CellInv, FigureTold, TypedIsComing, Awaiting
<1> QED
  BY <1>2, <1>3, <1>4, <1>5

(* A save answered, or refused.                                            *)
LEMMA CellAnswered ==
    ASSUME TimeShape, CellInv, NEW c \in Saves, Saved(c) \/ NotSaved(c)
    PROVE  CellInv'
<1>0. /\ c \in Calls /\ Ended(c) /\ reading' = Refetched /\ UNCHANGED outside /\ cell \in CellType
      /\ call[c].at \in {"answer", "refused"}
  BY DEF Saved, NotSaved, Ended, serverVars, Calls, TimeShape, TimeTypeOK, Is
<1>1. /\ \A d \in Saves \ {c} : call'[d] = call[d] /\ (d \in crossed' <=> d \in crossed)
      /\ Logged' = Logged
  BY <1>0, OtherSaves DEF Calls, serverVars, Logged
<1>2. cell'.on = cell.on /\ cell'.figure = cell.figure
  BY <1>0 DEF Saved, NotSaved, CellType
<1>3. IF cell.on = "elsewhere" THEN reading' = reading ELSE reading'.at = "sent"
  BY <1>0 DEF Refetched, Requested
<1>4. FigureTold'
  BY <1>2, <1>3 DEF CellInv, FigureTold
<1>5. ASSUME Awaiting' PROVE Coming'
  <2>1. cell.on = "page" /\ reading'.at = "sent"
    BY <1>2, <1>3, <1>5 DEF Awaiting
  <2>2. CASE Saved(c)
    <3>1. UNCHANGED <<cell, misled>> /\ call[c].at = "answer"
      BY <2>2 DEF Saved, Is
    <3>2. Coming
      BY <1>5, <3>1 DEF CellInv, TypedIsComing, Awaiting
    <3> QED
      BY <1>1, <2>1, <3>1, <3>2 DEF Coming
  <2>3. CASE NotSaved(c)
    <3>1. cell' = [cell EXCEPT !.text = call[c].from] /\ misled' = (call[c].from # cell.figure)
      BY <2>1, <2>3 DEF NotSaved
    <3>2. cell'.text = call[c].from
      BY <1>0, <3>1 DEF CellType
    <3> QED
      BY <1>2, <1>5, <3>1, <3>2 DEF Awaiting
  <2> QED
    BY <2>2, <2>3
<1> QED
  BY <1>4, <1>5 DEF CellInv, TypedIsComing

(* The cell left with something typed in it.                               *)
LEMMA CellLeft ==
    ASSUME TimeShape, TimeShape', DayInv', CellInv, NEW c \in Saves, NEW typed \in Typed,
           NEW otherwise, Commit(c, typed, otherwise)
    PROVE  CellInv'
<1>0. /\ c \in Calls /\ cell \in CellType /\ UNCHANGED <<serverVars, reading, outside>>
      /\ TimeTypeOK /\ CallShaped(c)
  BY DEF Commit, Calls, TimeShape, TimeTypeOK
<1>1. Logged' = Logged
  BY <1>0 DEF serverVars, Logged
<1>2. ASSUME cell'.figure = cell.figure, cell'.on = cell.on, SomeSave => SomeSave'
      PROVE  FigureTold'
  BY <1>0, <1>1, <1>2 DEF CellInv, FigureTold
<1>3. CASE typed = Junk /\ cell' = [cell EXCEPT !.typing = FALSE, !.invalid = TRUE, !.text = otherwise]
           /\ UNCHANGED call
  <2>1. cell'.figure = cell.figure /\ cell'.on = cell.on /\ cell'.invalid
    BY <1>0, <1>3 DEF CellType
  <2>2. SomeSave => SomeSave'
    BY <1>3 DEF SomeSave
  <2> QED
    BY <1>2, <2>1, <2>2 DEF CellInv, TypedIsComing, Awaiting
<1>4. CASE cell' = [cell EXCEPT !.typing = FALSE, !.invalid = FALSE, !.text = cell.figure]
           /\ UNCHANGED call
  <2>1. cell'.figure = cell.figure /\ cell'.on = cell.on /\ cell'.text = cell.figure
    BY <1>0, <1>4 DEF CellType
  <2>2. SomeSave => SomeSave'
    BY <1>4 DEF SomeSave
  <2> QED
    BY <1>2, <2>1, <2>2 DEF CellInv, TypedIsComing, Awaiting
<1>5. CASE cell' = [cell EXCEPT !.typing = FALSE, !.invalid = FALSE, !.text = typed]
           /\ Send(c, "day", typed, 0, Silent, 0) /\ crossed' = crossed
  <2> DEFINE new == [Free EXCEPT !.at = "sent", !.kind = "day", !.want = typed, !.id = 0,
                                 !.from = cell.figure, !.said = Silent, !.told = 0]
  <2>1. cell'.figure = cell.figure /\ cell'.on = cell.on /\ cell'.text = typed
    BY <1>0, <1>5 DEF CellType
  <2>2. call[c].at = "free" /\ call' = [call EXCEPT ![c] = new] /\ crossed' = crossed
    BY <1>5 DEF Send
  <2>3. new.at = "sent" /\ new.want = typed
    BY DEF Free
  <2> HIDE DEF new
  <2>4. call'[c] = new
    BY <1>0, <2>2 DEF TimeTypeOK
  <2>5. SomeSave'
    BY <2>3, <2>4 DEF SomeSave
  <2>6. c \notin crossed'
    BY <1>0, <2>2 DEF CallShaped
  <2>7. SavedShown'
    BY SavingTells, PTL
  <2>8. Coming'
    BY <2>1, <2>3, <2>4, <2>6, <2>7 DEF SavedShown
  <2> QED
    BY <1>2, <2>1, <2>5, <2>8 DEF CellInv, TypedIsComing
<1> QED
  BY <1>3, <1>4, <1>5 DEF Commit

(* Every step leaves the cell with the day, or with something on its way.  *)
LEMMA CellKept ==
    TimeShape /\ TimeShape' /\ DayInv' /\ CellInv /\ [TimeNext]_timeVars => CellInv'
<1> SUFFICES ASSUME TimeShape, TimeShape', DayInv', CellInv, [TimeNext]_timeVars PROVE CellInv'
  OBVIOUS
<1>1. CASE UNCHANGED timeVars
  BY <1>1 DEF timeVars, CellInv, FigureTold, TypedIsComing, Awaiting, Coming, SomeSave, Logged
<1>2. CASE PageStep
  BY <1>2, CellMoved, CellRead, CellAnswered, CellLeft DEF PageStep, Blur, Escape
<1>3. ASSUME NEW c \in Others, SectionStep(c) PROVE CellInv'
  BY <1>3, CellElsewhere
<1>4. ASSUME NEW c \in Calls, TimeServerStep(c) PROVE CellInv'
  BY <1>4, FigureServed, TypedServed DEF CellInv, TypedIsComing
<1>5. CASE ReadEstimate
  BY <1>5 DEF ReadEstimate, serverVars, CellInv, FigureTold, TypedIsComing, Awaiting, Coming,
              SomeSave, Logged
<1> QED
  BY <1>1, <1>2, <1>3, <1>4, <1>5 DEF TimeNext

(* When nothing is under way the cell shows the figure of the last answer, *)
(* and that is the day. (TimesheetPage.tsx)                                *)
THEOREM CellCorrect == TimeSpec => []CellTellsTheDay
<1> DEFINE I == TimeShape /\ DayInv /\ CellInv
<1>1. TimeInit => I
  BY ShapeAtFirst, DayAtFirst, CellAtFirst
<1>2. I /\ [TimeNext]_timeVars => I'
  BY ShapeKept, DayKept, CellKept
<1>3. I => CellTellsTheDay
  <2> SUFFICES ASSUME CellInv, ~ SomeSave, cell.on = "page", ~cell.typing, ~cell.invalid,
                      reading.at = "none"
               PROVE  (misled \/ cell.text = cell.figure) /\ (outside \/ cell.figure = Logged)
    BY DEF CellTellsTheDay, SomeSave
  <2>1. outside \/ cell.figure = Logged
    BY DEF CellInv, FigureTold
  <2>2. ~ Coming
    BY DEF Coming, SomeSave
  <2> QED
    BY <2>1, <2>2 DEF CellInv, TypedIsComing, Awaiting
<1> HIDE DEF I
<1> QED
  BY <1>1, <1>2, <1>3, PTL DEF TimeSpec

===============================================================================
