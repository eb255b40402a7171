------------------------- MODULE WebhookOutboxProofs -------------------------
(***************************************************************************)
(* Theorems about WebhookOutbox, for any number of delivery loops,         *)
(* webhooks and deliveries and any budgets: its types, the log it keeps,   *)
(* the lock a claim is while no batch overruns it, how often a row is then *)
(* sent, and, with one loop, the contract each delivery is promised.       *)
(***************************************************************************)
EXTENDS WebhookOutbox, FiniteSetTheorems, WellFoundedInduction, TLAPS

\* The bounds are the numbers they are meant to be.
LEMMA ConstantTypes ==
    /\ MaxDeliveries \in Nat \ {0}
    /\ CrashBudget \in Nat /\ EditBudget \in Nat
    /\ NoHook \notin Hooks
    /\ Overrun \in BOOLEAN
BY OutboxAssumption

\* The empty locals have the shape of locals.
LEMMA LocalTypes == NoSnap \in Snap /\ NoEdit \in Edit
BY DEF NoSnap, Snap, NoEdit, Edit

\* What Enqueue does, with the bijection weakened to a function.
LEMMA EnqueueStep ==
    ASSUME NEW listeners, Enqueue(listeners)
    PROVE  \E m \in (last + 1)..MaxDeliveries : \E f \in [(last + 1)..m -> listeners] :
              /\ last' = m
              /\ target' = [d \in Ids |-> IF d \in (last + 1)..m THEN f[d] ELSE target[d]]
              /\ status' = [d \in Ids |-> IF d \in (last + 1)..m THEN "pending" ELSE status[d]]
              /\ due' = [d \in Ids |-> IF d \in (last + 1)..m THEN TRUE ELSE due[d]]
              /\ UNCHANGED <<attempts, claim, hookVars, workerVars, adminVars, crashes>>
<1>1. ASSUME NEW S, NEW T, NEW f \in Bijection(S, T)
      PROVE  f \in [S -> T]
  BY <1>1 DEF Bijection, Injection, Surjection
<1> QED
  BY <1>1, Zenon DEF Enqueue

\* Rows queued together, by an event or a ping, are typed.
LEMMA EnqueueTypes ==
    ASSUME TypeOK, NEW listeners \in SUBSET Hooks, Enqueue(listeners)
    PROVE  TypeOK'
<1>0. PICK m \in (last + 1)..MaxDeliveries : \E f \in [(last + 1)..m -> listeners] :
         /\ last' = m
         /\ target' = [d \in Ids |-> IF d \in (last + 1)..m THEN f[d] ELSE target[d]]
         /\ status' = [d \in Ids |-> IF d \in (last + 1)..m THEN "pending" ELSE status[d]]
         /\ due' = [d \in Ids |-> IF d \in (last + 1)..m THEN TRUE ELSE due[d]]
         /\ UNCHANGED <<attempts, claim, hookVars, workerVars, adminVars, crashes>>
  BY EnqueueStep
<1>1. PICK f \in [(last + 1)..m -> listeners] :
         /\ last' = m
         /\ target' = [d \in Ids |-> IF d \in (last + 1)..m THEN f[d] ELSE target[d]]
         /\ status' = [d \in Ids |-> IF d \in (last + 1)..m THEN "pending" ELSE status[d]]
         /\ due' = [d \in Ids |-> IF d \in (last + 1)..m THEN TRUE ELSE due[d]]
         /\ UNCHANGED <<attempts, claim, hookVars, workerVars, adminVars, crashes>>
  BY <1>0
<1>3. last' \in 0..MaxDeliveries
  BY <1>1, ConstantTypes DEF TypeOK
<1>5. target' \in [Ids -> Hooks \cup {NoHook}]
  BY <1>1 DEF TypeOK
<1>6. status' \in [Ids -> RowStatus \cup {"unborn", "gone"}] /\ due' \in [Ids -> BOOLEAN]
  BY <1>1 DEF TypeOK, RowStatus
<1>7. ASSUME NEW d \in Rows'
      PROVE  target'[d] \in Hooks
  <2>1. CASE d \in (last + 1)..m
    BY <1>1, <2>1, <1>7 DEF Rows
  <2>2. CASE d \notin (last + 1)..m
    <3>1. d \in Rows /\ target'[d] = target[d]
      BY <1>1, <1>7, <2>2 DEF Rows
    <3> QED
      BY <3>1 DEF TypeOK
  <2> QED
    BY <2>1, <2>2
<1>8. UNCHANGED <<attempts, claim, hookState, enabled, failures, reason, archived, pc, picked,
                  sawLapsed, mine, snap, floor, edit, edits, crashes>>
  BY <1>1 DEF hookVars, workerVars, adminVars
<1> QED
  BY <1>3, <1>5, <1>6, <1>7, <1>8 DEF TypeOK

\* A loop that dies or gives its tick up leaves typed locals.
LEMMA ForgetTypes ==
    ASSUME TypeOK, NEW w \in Workers, Forget(w), crashes' \in 0..CrashBudget
    PROVE  TypeOK'
BY LocalTypes DEF TypeOK, Forget, Rows, deliveryVars, hookVars, adminVars

\* Choosing and claiming a batch keeps the types.
LEMMA SelectTypes ==
    ASSUME TypeOK, NEW w \in Workers, Select(w) \/ Claim(w)
    PROVE  TypeOK'
<1>1. CASE Select(w)
  BY <1>1 DEF TypeOK, Select, FirstDue, Due, Rows, deliveryVars, hookVars, adminVars
<1>2. CASE Claim(w)
  BY <1>2 DEF TypeOK, Claim, Claimable, Rows, hookVars, adminVars
<1> QED
  BY <1>1, <1>2

\* Taking up a claimed row, to drop it or to post it, keeps the types.
LEMMA ProcessTypes ==
    ASSUME TypeOK, NEW w \in Workers, Process(w)
    PROVE  TypeOK'
<1>1. PICK d \in Ids : LoadGone(w, d) \/ SkipSwitchedOff(w, d) \/ LoadAndPost(w, d)
  BY DEF Process
<1>2. CASE LoadGone(w, d)
  BY <1>2, ForgetTypes DEF LoadGone, TypeOK
<1>3. CASE SkipSwitchedOff(w, d)
  BY <1>3, LocalTypes
  DEF TypeOK, SkipSwitchedOff, SkipAs, Drop, Resume, Rows, RowStatus, hookVars, adminVars
<1>4. CASE LoadAndPost(w, d)
  <2>1. snap'[w] \in Snap
    BY <1>4 DEF TypeOK, LoadAndPost, Snap, Rows, RowStatus
  <2> QED
    BY <1>4, <2>1
    DEF TypeOK, LoadAndPost, Rows, deliveryVars, hookVars, adminVars
<1> QED
  BY <1>1, <1>2, <1>3, <1>4

\* Writing the result of a POST keeps the types.
LEMMA RecordTypes ==
    ASSUME TypeOK, NEW w \in Workers, Record(w)
    PROVE  TypeOK'
<1>1. CASE RecordGone(w)
  BY <1>1, ForgetTypes DEF RecordGone, TypeOK
<1>2. ASSUME RecordAttempt(w),
             status' \in [Ids -> RowStatus \cup {"unborn", "gone"}], Rows' \subseteq Rows,
             enabled' \in [Hooks -> BOOLEAN], failures' \in [Hooks -> Nat],
             reason' \in [Hooks -> BOOLEAN]
      PROVE  TypeOK'
  <2>1. snap[w].attempts + 1 \in Nat
    BY DEF TypeOK, Snap
  <2> QED
    BY <1>2, <2>1 DEF TypeOK, RecordAttempt, RecordTries, adminVars
<1>3. snap[w].d \in Rows => target[snap[w].d] \in Hooks
  BY DEF TypeOK
<1>4. /\ snap[w].failures \in Nat /\ snap[w].reason \in BOOLEAN
      /\ snap[w].failures + 1 \in Nat
  BY DEF TypeOK, Snap
<1>5. CASE RecordSuccess(w)
  BY <1>2, <1>3, <1>4, <1>5
  DEF TypeOK, RecordSuccess, RecordAttempt, RecordTries, Put, Rows, RowStatus
<1>6. CASE RecordRetry(w)
  BY <1>2, <1>6 DEF TypeOK, RecordRetry, Rows
<1>7. CASE RecordFailure(w)
  BY <1>2, <1>3, <1>4, <1>7
  DEF TypeOK, RecordFailure, RecordLast, RecordAttempt, RecordTries, Put, Rows, RowStatus
<1> QED
  BY <1>1, <1>5, <1>6, <1>7 DEF Record

\* So does pruning.
LEMMA PruneTypes ==
    ASSUME TypeOK, NEW w \in Workers, PruneSelect(w) \/ PruneDelete(w)
    PROVE  TypeOK'
<1>1. CASE PruneSelect(w)
  <2>1. CASE Forget(w)
    BY <1>1, <2>1, ForgetTypes DEF PruneSelect, TypeOK
  <2>2. CASE ~Forget(w)
    <3>1. UNCHANGED <<deliveryVars, hookVars, adminVars, crashes, picked, sawLapsed>>
      BY <1>1, <2>2 DEF PruneSelect, Drop
    <3>2. floor' \in [Workers -> Ids \cup {0}]
      BY <1>1, <2>2 DEF PruneSelect, TypeOK, Newest, RowsOf, Rows
    <3>3. /\ pc' \in [Workers -> {"idle", "selected", "claimed", "posting", "pruning", "deleting"}]
          /\ mine' \in [Workers -> SUBSET Ids]
          /\ snap' \in [Workers -> Snap]
      BY <1>1, <2>2, LocalTypes DEF PruneSelect, TypeOK, Drop, Resume
    <3> QED
      BY <3>1, <3>2, <3>3 DEF TypeOK, Rows, deliveryVars, hookVars, adminVars
  <2> QED
    BY <2>1, <2>2
<1>2. CASE PruneDelete(w)
  BY <1>2, LocalTypes
  DEF PruneDelete, Delete, TypeOK, Rows, RowStatus, Drop, Resume, hookVars, adminVars
<1> QED
  BY <1>1, <1>2

\* So does everything the settings pages do.
LEMMA AdminTypes ==
    ASSUME TypeOK, Admin
    PROVE  TypeOK'
<1>1. ASSUME NEW h \in Hooks, CreateWebhook(h)
      PROVE  TypeOK'
  BY <1>1 DEF TypeOK, CreateWebhook, Rows, deliveryVars, workerVars, adminVars
<1>2. ASSUME NEW h \in Hooks, DeleteWebhook(h)
      PROVE  TypeOK'
  BY <1>2, ConstantTypes
  DEF TypeOK, DeleteWebhook, EditAllowed, Rows, RowStatus, workerVars
<1>3. ASSUME NEW h \in Hooks, Ping(h)
      PROVE  TypeOK'
  BY <1>3, EnqueueTypes DEF Ping
<1>4. ASSUME NEW h \in Hooks, NEW want \in BOOLEAN, BeginUpdate(h, want)
      PROVE  TypeOK'
  <2>1. edit' \in Edit
    BY <1>4 DEF BeginUpdate, TypeOK, Edit
  <2> QED
    BY <1>4, <2>1, ConstantTypes
    DEF TypeOK, BeginUpdate, EditAllowed, Rows, deliveryVars, hookVars, workerVars
<1>5. CASE CommitUpdate
  <2>1. /\ edit.want \in BOOLEAN /\ edit.enabled \in BOOLEAN
        /\ edit.failures \in Nat /\ edit.reason \in BOOLEAN
    BY DEF TypeOK, Edit
  <2>2. /\ enabled' \in [Hooks -> BOOLEAN]
        /\ failures' \in [Hooks -> Nat]
        /\ reason' \in [Hooks -> BOOLEAN]
    <3> DEFINE h == edit.hook
    <3>1. CASE hookState[h] # "live"
      BY <1>5, <3>1 DEF CommitUpdate, TypeOK
    <3>2. CASE hookState[h] = "live"
      <4>1. /\ enabled' = [enabled EXCEPT ![h] = Put(edit.enabled, edit.want, @)]
            /\ failures' = [failures EXCEPT ![h] = IF edit.want /\ ~edit.enabled
                                                   THEN Put(edit.failures, 0, @) ELSE @]
            /\ reason' = [reason EXCEPT ![h] = IF edit.want /\ ~edit.enabled
                                               THEN Put(edit.reason, FALSE, @) ELSE @]
        BY <1>5, <3>2 DEF CommitUpdate
      <4>2. enabled' \in [Hooks -> BOOLEAN]
        BY <2>1, <4>1 DEF Put, TypeOK
      <4>3. failures' \in [Hooks -> Nat]
        BY <2>1, <4>1 DEF Put, TypeOK
      <4>4. reason' \in [Hooks -> BOOLEAN]
        BY <2>1, <4>1 DEF Put, TypeOK
      <4> QED
        BY <4>2, <4>3, <4>4
    <3> QED
      BY <3>1, <3>2
  <2>3. UNCHANGED <<deliveryVars, hookState, archived, workerVars, edits, crashes>>
    BY <1>5 DEF CommitUpdate
  <2>4. edit' \in Edit
    BY <1>5, LocalTypes DEF CommitUpdate
  <2> QED
    BY <2>2, <2>3, <2>4 DEF TypeOK, Rows, deliveryVars, workerVars
<1>6. ASSUME NEW flag \in BOOLEAN, ArchiveTeam(flag)
      PROVE  TypeOK'
  BY <1>6, ConstantTypes
  DEF TypeOK, ArchiveTeam, EditAllowed, Rows, deliveryVars, workerVars
<1> QED
  BY <1>1, <1>2, <1>3, <1>4, <1>5, <1>6 DEF Admin

\* Every step keeps the types.
LEMMA TypesPreserved == TypeOK /\ [Next]_vars => TypeOK'
<1> SUFFICES ASSUME TypeOK, [Next]_vars
             PROVE  TypeOK'
  OBVIOUS
<1>1. ASSUME NEW w \in Workers, Tick(w)
      PROVE  TypeOK'
  BY <1>1, SelectTypes, ProcessTypes, RecordTypes, PruneTypes DEF Tick
<1>2. ASSUME NEW w \in Workers, Crash(w)
      PROVE  TypeOK'
  BY <1>2, ForgetTypes, ConstantTypes DEF Crash, TypeOK
<1>3. CASE Clock
  <2>1. ASSUME NEW d \in Ids, RetryComesDue(d)
        PROVE  TypeOK'
    BY <2>1 DEF RetryComesDue, TypeOK, Rows, hookVars, workerVars, adminVars
  <2>2. ASSUME NEW d \in Ids, ClaimLapses(d)
        PROVE  TypeOK'
    BY <2>2 DEF ClaimLapses, TypeOK, Rows, hookVars, workerVars, adminVars
  <2> QED
    BY <1>3, <2>1, <2>2 DEF Clock
<1>4. CASE Team
  BY <1>4, EnqueueTypes DEF Team, Emit
<1>5. CASE UNCHANGED vars
  BY <1>5
  DEF TypeOK, Rows, vars, deliveryVars, hookVars, workerVars, adminVars
<1> QED
  BY <1>1, <1>2, <1>3, <1>4, <1>5, AdminTypes DEF Next

\* The empty tables are typed.
LEMMA InitTypes == Init => TypeOK
<1> SUFFICES ASSUME Init
             PROVE  TypeOK
  OBVIOUS
<1>1. last \in 0..MaxDeliveries /\ crashes \in 0..CrashBudget /\ edits \in 0..EditBudget
  BY ConstantTypes DEF Init
<1>2. /\ status \in [Ids -> RowStatus \cup {"unborn", "gone"}]
      /\ Rows = {}
  BY DEF Init, Rows, RowStatus
<1>3. snap \in [Workers -> Snap] /\ edit \in Edit
  BY LocalTypes DEF Init
<1> QED
  BY <1>1, <1>2, <1>3 DEF Init, TypeOK

(***************************************************************************)
(* Every variable keeps its type, and every row in the table belongs to a  *)
(* webhook: what the columns of OutboundWebhook and WebhookDelivery and    *)
(* the locals of deliver_due and update_webhook can hold.                  *)
(***************************************************************************)
THEOREM TypeCorrect == Spec => []TypeOK
BY InitTypes, TypesPreserved, PTL DEF Spec

(***************************************************************************)
(* The claim as a lock.                                                    *)
(***************************************************************************)
\* Steps that take no claim, load no row and record no attempt.
LEMMA LockKept ==
    ASSUME TypeOK, LockInv,
           last' = last, attempts' = attempts, claim' = claim,
           \A v \in Workers : mine'[v] \subseteq mine[v],
           \A d \in Ids : status[d] = "unborn" => status'[d] = "unborn",
           \A v \in Workers : pc'[v] = "posting" =>
               /\ pc[v] = "posting" /\ snap'[v] = snap[v] /\ mine'[v] = mine[v]
               /\ snap[v].d \in Rows' =>
                      snap[v].d \in Rows /\ status'[snap[v].d] = status[snap[v].d]
    PROVE  LockInv'
<1>1. IdsInOrder'
  BY DEF LockInv, IdsInOrder
<1>2. ClaimOutlastsWork'
  BY DEF LockInv, ClaimOutlastsWork
<1>3. NoDoubleHold'
  BY DEF LockInv, NoDoubleHold
<1>4. SnapIsCurrent'
  BY DEF LockInv, SnapIsCurrent
<1> QED
  BY <1>1, <1>2, <1>3, <1>4 DEF LockInv

\* A loop that dies holds nothing.
LEMMA LockForget ==
    ASSUME TypeOK, LockInv, NEW w \in Workers, Forget(w)
    PROVE  LockInv'
BY LockKept DEF Forget, deliveryVars, TypeOK, Rows

\* New rows come above every id a loop can hold.
LEMMA LockEnqueue ==
    ASSUME TypeOK, LockInv, NEW listeners, Enqueue(listeners)
    PROVE  LockInv'
<1>1. PICK m \in (last + 1)..MaxDeliveries :
         /\ last' = m
         /\ status' = [d \in Ids |-> IF d \in (last + 1)..m THEN "pending" ELSE status[d]]
         /\ UNCHANGED <<attempts, claim, hookVars, workerVars, adminVars, crashes>>
  BY EnqueueStep
<1>2. UNCHANGED <<attempts, claim, pc, mine, snap>>
  BY <1>1 DEF workerVars
<1>3. last \in Int /\ m \in Int /\ m > last
  BY <1>1, ConstantTypes DEF TypeOK
<1>4. IdsInOrder'
  <2>1. ASSUME NEW d \in Ids, d > last'
        PROVE  status'[d] = "unborn"
    BY <1>1, <1>3, <2>1 DEF LockInv, IdsInOrder, Ids
  <2>2. ASSUME NEW w \in Workers, NEW d \in mine'[w]
        PROVE  d <= last'
    <3>1. d <= last /\ d \in Ids
      BY <1>2, <2>2 DEF LockInv, IdsInOrder, TypeOK
    <3> QED
      BY <1>1, <1>3, <3>1 DEF Ids
  <2> QED
    BY <2>1, <2>2 DEF IdsInOrder
<1>5. SnapIsCurrent'
  <2> SUFFICES ASSUME NEW w \in Workers, pc[w] = "posting"
               PROVE  /\ snap[w].d \in mine[w]
                      /\ claim[snap[w].d] = "running" /\ snap[w].claimed
                      /\ snap[w].attempts = attempts[snap[w].d]
                      /\ snap[w].d \in Rows' => snap[w].status = status'[snap[w].d]
    BY <1>2 DEF SnapIsCurrent
  <2>1. snap[w].d \in Ids /\ snap[w].d <= last
    BY DEF LockInv, SnapIsCurrent, IdsInOrder, TypeOK
  <2>2. status'[snap[w].d] = status[snap[w].d]
    BY <1>1, <1>3, <2>1 DEF Ids
  <2> QED
    BY <2>1, <2>2 DEF LockInv, SnapIsCurrent, Rows
<1> QED
  BY <1>2, <1>4, <1>5 DEF LockInv, ClaimOutlastsWork, NoDoubleHold

\* Only rows nobody holds are claimable, for a held row's claim is running.
LEMMA LockClaim ==
    ASSUME TypeOK, LockInv, NEW w \in Workers, Claim(w)
    PROVE  LockInv'
<1> DEFINE taken == Claimable(w)
<1>1. /\ taken \subseteq Rows /\ Rows \subseteq Ids
      /\ \A d \in taken : claim[d] # "running"
  BY DEF Claimable, Rows
<1>2. /\ claim' = [d \in Ids |-> IF d \in taken THEN "running" ELSE claim[d]]
      /\ mine' = [mine EXCEPT ![w] = taken]
      /\ pc' = [pc EXCEPT ![w] = IF taken = {} THEN "idle" ELSE "claimed"]
      /\ UNCHANGED <<last, status, attempts, snap>>
  BY DEF Claim
<1>3. \A v \in Workers : mine[v] \cap taken = {}
  BY <1>1 DEF LockInv, ClaimOutlastsWork
<1>4. \A v \in Workers : mine'[v] = IF v = w THEN taken ELSE mine[v]
  BY <1>2 DEF TypeOK
<1> HIDE DEF taken
<1>5. IdsInOrder'
  <2>1. ASSUME NEW d \in taken
        PROVE  d <= last
    <3>1. d \in Ids /\ status[d] # "unborn"
      BY <1>1 DEF Rows, RowStatus
    <3>2. ~(d > last)
      BY <3>1 DEF LockInv, IdsInOrder
    <3> QED
      BY <3>1, <3>2, ConstantTypes DEF Ids, TypeOK
  <2> QED
    BY <1>2, <1>4, <2>1 DEF LockInv, IdsInOrder
<1>6. ClaimOutlastsWork'
  BY <1>1, <1>2, <1>4 DEF LockInv, ClaimOutlastsWork, TypeOK
<1>7. NoDoubleHold'
  BY <1>3, <1>4 DEF LockInv, NoDoubleHold
<1>8. SnapIsCurrent'
  <2> SUFFICES ASSUME NEW v \in Workers, pc'[v] = "posting"
               PROVE  /\ snap[v].d \in mine'[v]
                      /\ claim'[snap[v].d] = "running" /\ snap[v].claimed
                      /\ snap[v].attempts = attempts[snap[v].d]
                      /\ snap[v].d \in Rows => snap[v].status = status[snap[v].d]
    BY <1>2 DEF SnapIsCurrent, Rows
  <2>1. v # w /\ pc[v] = "posting"
    BY <1>2 DEF TypeOK
  <2>2. mine'[v] = mine[v] /\ snap[v].d \in mine[v] /\ snap[v].d \in Ids
    BY <1>4, <2>1 DEF LockInv, SnapIsCurrent, TypeOK
  <2>3. claim'[snap[v].d] = "running"
    BY <1>6, <2>2 DEF ClaimOutlastsWork
  <2> QED
    BY <2>1, <2>2, <2>3 DEF LockInv, SnapIsCurrent
<1> QED
  BY <1>5, <1>6, <1>7, <1>8 DEF LockInv

\* What a loop loads is what the row it holds says.
LEMMA LockLoad ==
    ASSUME TypeOK, LockInv, NEW w \in Workers, NEW d \in Ids, LoadAndPost(w, d)
    PROVE  LockInv'
<1>1. /\ d \in mine[w]
      /\ pc' = [pc EXCEPT ![w] = "posting"]
      /\ UNCHANGED <<last, status, attempts, claim, mine>>
  BY DEF LoadAndPost, deliveryVars
<1>2. /\ \A v \in Workers \ {w} : snap'[v] = snap[v] /\ pc'[v] = pc[v]
      /\ snap'[w].d = d /\ snap'[w].attempts = attempts[d] /\ snap'[w].status = status[d]
      /\ snap'[w].claimed = (claim[d] # "none")
  BY DEF LoadAndPost, TypeOK
<1>3. claim[d] = "running"
  BY <1>1 DEF LockInv, ClaimOutlastsWork
<1>4. SnapIsCurrent'
  BY <1>1, <1>2, <1>3 DEF LockInv, SnapIsCurrent, Rows
<1> QED
  BY <1>1, <1>4 DEF LockInv, IdsInOrder, ClaimOutlastsWork, NoDoubleHold

\* A result is written to a row of its own, and its lock given up with it.
LEMMA LockRecord ==
    ASSUME TypeOK, LockInv, NEW w \in Workers, RecordAttempt(w), NEW outcome,
           status' = [status EXCEPT ![snap[w].d] = outcome]
    PROVE  LockInv'
<1> DEFINE d == snap[w].d
<1>1. /\ pc[w] = "posting" /\ d \in Rows /\ last' = last /\ snap' = snap
      /\ attempts' = [attempts EXCEPT ![d] = snap[w].attempts + 1]
      /\ claim' = [claim EXCEPT ![d] = IF snap[w].claimed THEN "none" ELSE @]
      /\ pc' = [pc EXCEPT ![w] = "pruning"]
      /\ mine' = [mine EXCEPT ![w] = @ \ {d}]
  BY DEF RecordAttempt, RecordTries
<1>2. d \in mine[w] /\ d \in Ids /\ d \in Rows
  BY <1>1 DEF LockInv, SnapIsCurrent, TypeOK
<1>3. \A v \in Workers : mine'[v] \subseteq mine[v] /\ d \notin mine'[v]
  BY <1>1, <1>2 DEF LockInv, NoDoubleHold, TypeOK
<1> HIDE DEF d
<1>4. \A e \in Ids \ {d} :
         attempts'[e] = attempts[e] /\ claim'[e] = claim[e] /\ status'[e] = status[e]
  BY <1>1 DEF TypeOK, d
<1>5. IdsInOrder'
  <2>1. status[d] # "unborn"
    BY <1>2 DEF Rows, RowStatus
  <2> QED
    BY <1>1, <1>2, <1>3, <1>4, <2>1 DEF LockInv, IdsInOrder
<1>6. ClaimOutlastsWork'
  BY <1>3, <1>4 DEF LockInv, ClaimOutlastsWork, TypeOK
<1>7. NoDoubleHold'
  BY <1>3 DEF LockInv, NoDoubleHold
<1>8. SnapIsCurrent'
  <2> SUFFICES ASSUME NEW v \in Workers, pc'[v] = "posting"
               PROVE  /\ snap[v].d \in mine'[v]
                      /\ claim'[snap[v].d] = "running" /\ snap[v].claimed
                      /\ snap[v].attempts = attempts'[snap[v].d]
                      /\ snap[v].d \in Rows' => snap[v].status = status'[snap[v].d]
    BY <1>1 DEF SnapIsCurrent
  <2>1. v # w /\ pc[v] = "posting" /\ mine'[v] = mine[v]
    BY <1>1 DEF TypeOK
  <2>2. snap[v].d \in mine[v] /\ snap[v].d \in Ids \ {d}
    BY <1>3, <2>1 DEF LockInv, SnapIsCurrent, TypeOK
  <2> QED
    BY <1>4, <2>1, <2>2 DEF LockInv, SnapIsCurrent, Rows
<1> QED
  BY <1>5, <1>6, <1>7, <1>8 DEF LockInv

\* Every step of a loop keeps the lock.
LEMMA LockTick ==
    ASSUME TypeOK, LockInv, NEW w \in Workers, Tick(w)
    PROVE  LockInv'
<1>1. CASE Select(w)
  BY <1>1, LockKept DEF Select, deliveryVars, TypeOK, Rows
<1>2. CASE Claim(w)
  BY <1>2, LockClaim
<1>3. ASSUME NEW d \in Ids, LoadGone(w, d)
      PROVE  LockInv'
  BY <1>3, LockForget DEF LoadGone
<1>4. ASSUME NEW d \in Ids, SkipSwitchedOff(w, d)
      PROVE  LockInv'
  <2>1. /\ d \in mine[w] /\ d \in Rows
        /\ status' = [status EXCEPT ![d] = "failed"]
        /\ pc' = [pc EXCEPT ![w] = IF mine[w] \ {d} = {} THEN "idle" ELSE "claimed"]
        /\ mine' = [mine EXCEPT ![w] = @ \ {d}]
        /\ snap' = [snap EXCEPT ![w] = NoSnap]
        /\ UNCHANGED <<last, attempts, claim>>
    BY <1>4 DEF SkipSwitchedOff, SkipAs, Drop, Resume
  <2>2. \A v \in Workers : pc'[v] = "posting" =>
            /\ v # w /\ pc[v] = "posting" /\ snap'[v] = snap[v] /\ mine'[v] = mine[v]
            /\ snap[v].d # d
    BY <2>1 DEF TypeOK, LockInv, SnapIsCurrent, NoDoubleHold
  <2>3. \A e \in Ids \ {d} : status'[e] = status[e]
    BY <2>1 DEF TypeOK
  <2>4. status[d] # "unborn"
    BY <2>1 DEF Rows, RowStatus
  <2> QED
    BY <2>1, <2>2, <2>3, <2>4, LockKept DEF TypeOK, Rows
<1>5. ASSUME NEW d \in Ids, LoadAndPost(w, d)
      PROVE  LockInv'
  BY <1>5, LockLoad
<1>6. CASE RecordGone(w)
  BY <1>6, LockForget DEF RecordGone
<1>7. CASE RecordSuccess(w)
  BY <1>7, LockRecord DEF RecordSuccess
<1>8. CASE RecordRetry(w)
  <2>1. status' = [status EXCEPT ![snap[w].d] = status[snap[w].d]]
    BY <1>8 DEF RecordRetry, TypeOK
  <2> QED
    BY <1>8, <2>1, LockRecord DEF RecordRetry
<1>9. CASE RecordFailure(w)
  BY <1>9, LockRecord DEF RecordFailure, RecordLast
<1>10. CASE PruneSelect(w)
  <2>1. CASE Forget(w)
    BY <2>1, LockForget
  <2>2. CASE ~Forget(w)
    <3>1. /\ UNCHANGED deliveryVars
          /\ \A v \in Workers \ {w} : pc'[v] = pc[v] /\ snap'[v] = snap[v] /\ mine'[v] = mine[v]
          /\ mine'[w] \subseteq mine[w]
          /\ pc'[w] # "posting"
      BY <1>10, <2>2 DEF PruneSelect, Drop, Resume, TypeOK
    <3> QED
      BY <3>1, LockKept DEF deliveryVars, Rows
  <2> QED
    BY <2>1, <2>2
<1>11. CASE PruneDelete(w)
  <2>1. /\ UNCHANGED <<last, attempts, claim>>
        /\ \A v \in Workers \ {w} : pc'[v] = pc[v] /\ snap'[v] = snap[v] /\ mine'[v] = mine[v]
        /\ mine'[w] \subseteq mine[w]
        /\ pc'[w] # "posting"
    BY <1>11 DEF PruneDelete, Delete, Drop, Resume, TypeOK
  <2>2. \A d \in Ids : \/ status'[d] = status[d]
                       \/ d \in Rows /\ status'[d] = "gone"
    BY <1>11 DEF PruneDelete, Delete, Settled, RowsOf
  <2> QED
    BY <2>1, <2>2, LockKept DEF Rows, RowStatus
<1> QED
  BY <1>1, <1>2, <1>3, <1>4, <1>5, <1>6, <1>7, <1>8, <1>9, <1>10, <1>11
  DEF Tick, Process, Record

\* Time, the team and its admins keep it too: no claim lapses while it is held.
LEMMA LockElsewhere ==
    ASSUME TypeOK, LockInv, ~Overrun, Clock \/ Team \/ Admin
    PROVE  LockInv'
<1>1. ASSUME NEW d \in Ids, RetryComesDue(d)
      PROVE  LockInv'
  BY <1>1, LockKept DEF RetryComesDue, workerVars, Rows
<1>2. ASSUME NEW d \in Ids, ClaimLapses(d)
      PROVE  LockInv'
  <2>1. /\ \A w \in Workers : d \notin mine[w]
        /\ claim' = [claim EXCEPT ![d] = "lapsed"]
        /\ UNCHANGED <<last, status, attempts, pc, mine, snap>>
    BY <1>2 DEF ClaimLapses, workerVars
  <2>2. ClaimOutlastsWork'
    BY <2>1 DEF LockInv, ClaimOutlastsWork, TypeOK
  <2>3. SnapIsCurrent'
    BY <2>1, <2>2 DEF LockInv, SnapIsCurrent, ClaimOutlastsWork, Rows
  <2> QED
    BY <2>1, <2>2, <2>3 DEF LockInv, IdsInOrder, NoDoubleHold
<1>3. CASE Team
  BY <1>3, LockEnqueue DEF Team, Emit
<1>4. ASSUME NEW h \in Hooks, CreateWebhook(h)
      PROVE  LockInv'
  BY <1>4, LockKept DEF CreateWebhook, deliveryVars, workerVars, Rows
<1>5. ASSUME NEW h \in Hooks, DeleteWebhook(h)
      PROVE  LockInv'
  <2>1. \A d \in Ids : \/ status'[d] = status[d]
                       \/ d \in Rows /\ status'[d] = "gone"
    BY <1>5 DEF DeleteWebhook, RowsOf
  <2> QED
    BY <1>5, <2>1, LockKept DEF DeleteWebhook, workerVars, Rows, RowStatus
<1>6. ASSUME NEW h \in Hooks, Ping(h)
      PROVE  LockInv'
  BY <1>6, LockEnqueue DEF Ping
<1>7. ASSUME NEW h \in Hooks, NEW want \in BOOLEAN, BeginUpdate(h, want)
      PROVE  LockInv'
  BY <1>7, LockKept DEF BeginUpdate, deliveryVars, workerVars, Rows
<1>8. CASE CommitUpdate
  BY <1>8, LockKept DEF CommitUpdate, deliveryVars, workerVars, Rows
<1>9. ASSUME NEW flag \in BOOLEAN, ArchiveTeam(flag)
      PROVE  LockInv'
  BY <1>9, LockKept DEF ArchiveTeam, deliveryVars, workerVars, Rows
<1> QED
  BY <1>1, <1>2, <1>3, <1>4, <1>5, <1>6, <1>7, <1>8, <1>9 DEF Clock, Admin

\* Every step keeps the lock.
LEMMA LockPreserved ==
    ASSUME ~Overrun
    PROVE  TypeOK /\ LockInv /\ [Next]_vars => LockInv'
<1> SUFFICES ASSUME TypeOK, LockInv, [Next]_vars
             PROVE  LockInv'
  OBVIOUS
<1>1. ASSUME NEW w \in Workers, Crash(w)
      PROVE  LockInv'
  BY <1>1, LockForget DEF Crash
<1>2. CASE UNCHANGED vars
  BY <1>2, LockKept DEF vars, deliveryVars, workerVars, Rows
<1> QED
  BY <1>1, <1>2, LockTick, LockElsewhere DEF Next

\* Nothing is held at first.
LEMMA LockInitially == Init => LockInv
BY DEF Init, LockInv, IdsInOrder, ClaimOutlastsWork, NoDoubleHold, SnapIsCurrent

(***************************************************************************)
(* While every batch finishes within CLAIM_FOR, the claim of               *)
(* outbound._claim is a lock: the loops never hold one delivery together,  *)
(* and a row is as it was loaded when its result is committed.             *)
(***************************************************************************)
THEOREM LockCorrect ==
    ASSUME ~Overrun
    PROVE  Spec => []LockInv
<1>1. Init => TypeOK /\ LockInv
  BY InitTypes, LockInitially
<1>2. TypeOK /\ LockInv /\ [Next]_vars => (TypeOK /\ LockInv)'
  BY TypesPreserved, LockPreserved
<1> QED
  BY <1>1, <1>2, PTL DEF Spec

\* While every batch finishes within CLAIM_FOR, the table and the loops over it
\* keep their types and the lock.
THEOREM OutboxCorrect ==
    ASSUME ~Overrun
    PROVE  Spec => []OutboxSafe
<1>1. TypeOK /\ LockInv => OutboxSafe
  BY DEF OutboxSafe
<1> QED
  BY <1>1, TypeCorrect, LockCorrect, PTL

\* The claim of outbound._claim excludes: no two loops hold one delivery.
THEOREM MutualExclusion ==
    ASSUME ~Overrun
    PROVE  Spec => []NoDoubleHold
<1>1. LockInv => NoDoubleHold
  BY DEF LockInv
<1> QED
  BY <1>1, LockCorrect, PTL

\* attempts counts every POST of _attempt: it only grows, and one at a time.
THEOREM CountingCorrect ==
    ASSUME ~Overrun
    PROVE  Spec => TriesCountedOnce
<1>1. TypeOK /\ LockInv /\ [Next]_vars
        => [\A d \in Ids : attempts'[d] \in {attempts[d], attempts[d] + 1}]_vars
  <2> SUFFICES ASSUME TypeOK, LockInv, Next
               PROVE  \A d \in Ids : attempts'[d] \in {attempts[d], attempts[d] + 1}
    OBVIOUS
  <2>1. ASSUME NEW w \in Workers, RecordAttempt(w)
        PROVE  \A d \in Ids : attempts'[d] \in {attempts[d], attempts[d] + 1}
    BY <2>1 DEF RecordAttempt, RecordTries, LockInv, SnapIsCurrent, TypeOK
  <2>2. ASSUME NEW w \in Workers, Tick(w)
        PROVE  UNCHANGED attempts \/ RecordAttempt(w)
    BY <2>2
    DEF Tick, Select, Claim, Process, LoadGone, SkipSwitchedOff, SkipAs, LoadAndPost, Record,
        RecordGone, RecordSuccess, RecordRetry, RecordFailure, RecordLast, PruneSelect,
        PruneDelete, Delete, Forget, deliveryVars
  <2>3. Clock \/ Team \/ Admin => UNCHANGED attempts
    BY DEF Clock, RetryComesDue, ClaimLapses, Team, Emit, Enqueue, Admin, CreateWebhook,
           DeleteWebhook, Ping, BeginUpdate, CommitUpdate, ArchiveTeam, deliveryVars
  <2>4. ASSUME NEW w \in Workers, Crash(w)
        PROVE  UNCHANGED attempts
    BY <2>4 DEF Crash, Forget, deliveryVars
  <2> QED
    BY <2>1, <2>2, <2>3, <2>4 DEF Next
<1>2. Init => TypeOK /\ LockInv
  BY InitTypes, LockInitially
<1>3. TypeOK /\ LockInv /\ [Next]_vars => (TypeOK /\ LockInv)'
  BY TypesPreserved, LockPreserved
<1> QED
  BY <1>1, <1>2, <1>3, PTL DEF Spec, TriesCountedOnce

(***************************************************************************)
(* What a step does to one row.                                            *)
(***************************************************************************)
\* A try of this row, recorded by this loop.
Tries(w, d) == snap[w].d = d /\ (RecordSuccess(w) \/ RecordRetry(w) \/ RecordFailure(w))

\* The row is pruned, or goes with its webhook.
Forgotten(d) ==
    /\ status[d] \in RowStatus /\ status'[d] = "gone"
    /\ status[d] # "pending" \/ (target[d] \in Hooks /\ hookState'[target[d]] = "deleted")

\* One row of a step: left alone, queued, tried, given up on or forgotten.
RowStep(d) ==
    \/ status'[d] = status[d] /\ attempts'[d] = attempts[d]
    \/ status[d] = "unborn" /\ status'[d] = "pending" /\ attempts'[d] = attempts[d]
    \/ \E w \in Workers : Tries(w, d) \/ SkipSwitchedOff(w, d)
    \/ Forgotten(d) /\ attempts'[d] = attempts[d]

\* A loop that gives its tick up leaves the table alone.
LEMMA ForgetRests ==
    ASSUME NEW w, Forget(w), NEW d \in Ids
    PROVE  RowStep(d)
BY DEF Forget, deliveryVars, RowStep

\* Queueing writes rows that were not there.
LEMMA EnqueueRows ==
    ASSUME TypeOK, LockInv, NEW listeners, Enqueue(listeners), NEW d \in Ids
    PROVE  RowStep(d)
<1>1. PICK m \in (last + 1)..MaxDeliveries :
         /\ status' = [e \in Ids |-> IF e \in (last + 1)..m THEN "pending" ELSE status[e]]
         /\ attempts' = attempts
  BY EnqueueStep
<1>2. CASE d \in (last + 1)..m
  <2>1. d > last
    BY <1>2, ConstantTypes DEF TypeOK
  <2> QED
    BY <1>1, <1>2, <2>1 DEF LockInv, IdsInOrder, RowStep
<1>3. CASE d \notin (last + 1)..m
  BY <1>1, <1>3 DEF RowStep
<1> QED
  BY <1>2, <1>3

\* A row keeps its webhook: only queueing gives rows one.
LEMMA TargetsStay ==
    ASSUME [Next]_vars, ~\E listeners : Enqueue(listeners)
    PROVE  target' = target
<1>1. ASSUME NEW w \in Workers, Tick(w) \/ Crash(w)
      PROVE  target' = target
  BY <1>1
  DEF Tick, Crash, Select, Claim, Process, LoadGone, SkipSwitchedOff, SkipAs, LoadAndPost, Record,
      RecordGone, RecordSuccess, RecordRetry, RecordFailure, RecordLast, RecordAttempt,
      RecordTries, PruneSelect, PruneDelete, Delete, Forget, deliveryVars
<1>2. Clock => target' = target
  BY DEF Clock, RetryComesDue, ClaimLapses
<1>3. Admin => target' = target
  BY DEF Admin, CreateWebhook, DeleteWebhook, Ping, BeginUpdate, CommitUpdate, ArchiveTeam,
         deliveryVars
<1>4. ~Team
  BY DEF Team, Emit
<1> QED
  BY <1>1, <1>2, <1>3, <1>4 DEF Next, vars, deliveryVars

\* So a row that is or was there keeps it.
LEMMA TargetOfARow ==
    ASSUME TypeOK, LockInv, [Next]_vars, NEW d \in Ids, status[d] # "unborn"
    PROVE  target'[d] = target[d]
<1>1. ASSUME NEW listeners, Enqueue(listeners)
      PROVE  target'[d] = target[d]
  <2>1. PICK m \in (last + 1)..MaxDeliveries :
           \E f \in Bijection((last + 1)..m, listeners) :
               target' = [e \in Ids |-> IF e \in (last + 1)..m THEN f[e] ELSE target[e]]
    BY <1>1, Zenon DEF Enqueue
  <2>2. d \notin (last + 1)..m
    BY ConstantTypes DEF LockInv, IdsInOrder, TypeOK, Ids
  <2> QED
    BY <2>1, <2>2
<1> QED
  BY <1>1, TargetsStay

\* Every step of a loop, row by row.
LEMMA TickRows ==
    ASSUME TypeOK, LockInv, NEW w \in Workers, Tick(w), NEW d \in Ids
    PROVE  RowStep(d)
<1>1. CASE Select(w)
  BY <1>1 DEF Select, deliveryVars, RowStep
<1>2. CASE Claim(w)
  BY <1>2 DEF Claim, RowStep
<1>3. ASSUME NEW e \in Ids, LoadGone(w, e)
      PROVE  RowStep(d)
  BY <1>3, ForgetRests DEF LoadGone
<1>4. ASSUME NEW e \in Ids, SkipSwitchedOff(w, e)
      PROVE  RowStep(d)
  <2>1. CASE e = d
    BY <1>4, <2>1 DEF RowStep
  <2>2. CASE e # d
    BY <1>4, <2>2 DEF SkipSwitchedOff, SkipAs, RowStep, TypeOK
  <2> QED
    BY <2>1, <2>2
<1>5. ASSUME NEW e \in Ids, LoadAndPost(w, e)
      PROVE  RowStep(d)
  BY <1>5 DEF LoadAndPost, deliveryVars, RowStep
<1>6. CASE RecordGone(w)
  BY <1>6, ForgetRests DEF RecordGone
<1>7. CASE RecordSuccess(w) \/ RecordRetry(w) \/ RecordFailure(w)
  <2>1. CASE snap[w].d = d
    BY <1>7, <2>1 DEF RowStep, Tries
  <2>2. CASE snap[w].d # d
    <3>1. attempts'[d] = attempts[d]
      BY <1>7, <2>2
      DEF RecordSuccess, RecordRetry, RecordFailure, RecordLast, RecordAttempt, RecordTries, TypeOK
    <3>2. status'[d] = status[d]
      BY <1>7, <2>2 DEF RecordSuccess, RecordRetry, RecordFailure, RecordLast, TypeOK
    <3> QED
      BY <3>1, <3>2 DEF RowStep
  <2> QED
    BY <2>1, <2>2
<1>8. CASE PruneSelect(w)
  <2>1. CASE Forget(w)
    BY <2>1, ForgetRests
  <2>2. CASE ~Forget(w)
    BY <1>8, <2>2 DEF PruneSelect, deliveryVars, RowStep
  <2> QED
    BY <2>1, <2>2
<1>9. CASE PruneDelete(w)
  BY <1>9 DEF PruneDelete, Delete, Settled, RowsOf, Rows, RowStep, Forgotten
<1> QED
  BY <1>1, <1>2, <1>3, <1>4, <1>5, <1>6, <1>7, <1>8, <1>9 DEF Tick, Process, Record

\* Every step, row by row.
LEMMA EveryRow ==
    ASSUME TypeOK, LockInv, [Next]_vars, NEW d \in Ids
    PROVE  RowStep(d)
<1>1. ASSUME NEW w \in Workers, Crash(w)
      PROVE  RowStep(d)
  BY <1>1, ForgetRests DEF Crash
<1>2. CASE Team
  BY <1>2, EnqueueRows DEF Team, Emit
<1>3. ASSUME NEW h \in Hooks, Ping(h)
      PROVE  RowStep(d)
  BY <1>3, EnqueueRows DEF Ping
<1>4. ASSUME NEW h \in Hooks, DeleteWebhook(h)
      PROVE  RowStep(d)
  <2>1. hookState'[h] = "deleted" /\ attempts' = attempts
    BY <1>4 DEF DeleteWebhook, TypeOK
  <2>2. status'[d] = IF d \in Rows /\ target[d] = h THEN "gone" ELSE status[d]
    BY <1>4 DEF DeleteWebhook, RowsOf
  <2> QED
    BY <2>1, <2>2 DEF RowStep, Forgotten, Rows
<1>5. CASE UNCHANGED <<status, attempts>>
  BY <1>5 DEF RowStep
<1>6. Clock => UNCHANGED <<status, attempts>>
  BY DEF Clock, RetryComesDue, ClaimLapses
<1>7. ASSUME NEW h \in Hooks, CreateWebhook(h) \/ \E want \in BOOLEAN : BeginUpdate(h, want)
      PROVE  UNCHANGED <<status, attempts>>
  BY <1>7 DEF CreateWebhook, BeginUpdate, deliveryVars
<1>8. CommitUpdate \/ (\E flag \in BOOLEAN : ArchiveTeam(flag)) => UNCHANGED <<status, attempts>>
  BY DEF CommitUpdate, ArchiveTeam, deliveryVars
<1>9. UNCHANGED vars => UNCHANGED <<status, attempts>>
  BY DEF vars, deliveryVars
<1> QED
  BY <1>1, <1>2, <1>3, <1>4, <1>5, <1>6, <1>7, <1>8, <1>9, TickRows DEF Next, Admin

\* A try adds one to the count of a row that is held, and its outcome to the status.
LEMMA TryOfARow ==
    ASSUME TypeOK, LockInv, NEW w \in Workers, NEW d \in Ids, Tries(w, d)
    PROVE  /\ pc[w] = "posting" /\ d \in Rows /\ d \in mine[w]
           /\ attempts'[d] = attempts[d] + 1
           /\ \/ status[d] # "pending" /\ status'[d] \notin {"unborn", "pending"}
              \/ status[d] = "pending" /\ status'[d] = "succeeded"
              \/ /\ status[d] = "pending" /\ status'[d] = "pending"
                 /\ attempts[d] + 1 < MaxAttempts
              \/ /\ status[d] = "pending" /\ status'[d] = "failed"
                 /\ attempts[d] + 1 >= MaxAttempts
<1>1. RecordAttempt(w) /\ snap[w].d = d
  BY DEF Tries, RecordSuccess, RecordRetry, RecordFailure, RecordLast
<1>2. pc[w] = "posting" /\ d \in Rows
  BY <1>1 DEF RecordAttempt, RecordTries
<1>3. d \in mine[w] /\ snap[w].attempts = attempts[d] /\ snap[w].status = status[d]
  BY <1>1, <1>2 DEF LockInv, SnapIsCurrent
<1>4. attempts'[d] = attempts[d] + 1
  BY <1>1, <1>3 DEF RecordAttempt, RecordTries, TypeOK
<1>5. CASE RecordSuccess(w)
  <2>1. status'[d] = Put(status[d], "succeeded", status[d])
    BY <1>1, <1>3, <1>5 DEF RecordSuccess, TypeOK
  <2>2. status'[d] = "succeeded"
    BY <2>1 DEF Put
  <2> QED
    BY <1>2, <1>3, <1>4, <2>2
<1>6. CASE RecordRetry(w)
  <2>1. status' = status /\ attempts[d] + 1 < MaxAttempts
    BY <1>3, <1>6 DEF RecordRetry
  <2> QED
    BY <1>2, <1>3, <1>4, <2>1 DEF Rows, RowStatus
<1>7. CASE RecordFailure(w)
  <2>1. status'[d] = Put(status[d], "failed", status[d]) /\ attempts[d] + 1 >= MaxAttempts
    BY <1>1, <1>3, <1>7 DEF RecordFailure, RecordLast, TypeOK
  <2>2. status'[d] = "failed"
    BY <2>1 DEF Put
  <2> QED
    BY <1>2, <1>3, <1>4, <2>1, <2>2
<1> QED
  BY <1>5, <1>6, <1>7 DEF Tries

(***************************************************************************)
(* Which loops a row is with.                                              *)
(***************************************************************************)
Holders(d) == {w \in Workers : d \in picked[w] \cup mine[w]}

\* A loop has chosen rows only between its SELECT and its claim.
PickedInTime == \A w \in Workers : pc[w] # "selected" => picked[w] = {}

\* A loop takes up nothing but pending rows.
LEMMA HoldersShrink ==
    ASSUME TypeOK, PickedInTime, [Next]_vars, NEW d \in Ids, status[d] # "pending"
    PROVE  Holders(d)' \subseteq Holders(d)
<1>1. ASSUME NEW v \in Workers, Forget(v)
      PROVE  Holders(d)' \subseteq Holders(d)
  BY <1>1 DEF Forget, Holders, TypeOK
<1>2. CASE UNCHANGED <<picked, mine>>
  BY <1>2 DEF Holders
<1>3. ASSUME NEW v \in Workers, Tick(v)
      PROVE  Holders(d)' \subseteq Holders(d)
  <2>1. CASE Select(v)
    <3>1. d \notin FirstDue
      BY DEF FirstDue, Due
    <3> QED
      BY <2>1, <3>1 DEF Select, Holders, TypeOK
  <2>2. CASE Claim(v)
    <3>1. Claimable(v) \subseteq picked[v]
      BY DEF Claimable
    <3> QED
      BY <2>2, <3>1 DEF Claim, Holders, TypeOK
  <2>3. ASSUME picked' = picked, mine'[v] \subseteq mine[v],
               \A u \in Workers \ {v} : mine'[u] = mine[u]
        PROVE  Holders(d)' \subseteq Holders(d)
    BY <2>3 DEF Holders
  <2>4. ASSUME NEW e \in Ids, LoadGone(v, e) \/ SkipSwitchedOff(v, e) \/ LoadAndPost(v, e)
        PROVE  Holders(d)' \subseteq Holders(d)
    <3>1. CASE LoadGone(v, e)
      BY <1>1, <3>1 DEF LoadGone
    <3>2. CASE SkipSwitchedOff(v, e)
      BY <2>3, <3>2 DEF SkipSwitchedOff, SkipAs, Drop, TypeOK
    <3>3. CASE LoadAndPost(v, e)
      BY <1>2, <3>3 DEF LoadAndPost
    <3> QED
      BY <2>4, <3>1, <3>2, <3>3
  <2>5. CASE Record(v)
    <3>1. CASE RecordGone(v)
      BY <1>1, <3>1 DEF RecordGone
    <3>2. CASE RecordAttempt(v)
      BY <2>3, <3>2 DEF RecordAttempt, RecordTries, TypeOK
    <3> QED
      BY <2>5, <3>1, <3>2 DEF Record, RecordSuccess, RecordRetry, RecordFailure, RecordLast
  <2>6. CASE PruneSelect(v) \/ PruneDelete(v)
    <3>1. CASE Forget(v)
      BY <1>1, <3>1
    <3>2. CASE ~Forget(v)
      BY <1>2, <2>3, <2>6, <3>2 DEF PruneSelect, PruneDelete, Delete, Drop, TypeOK
    <3> QED
      BY <3>1, <3>2
  <2> QED
    BY <1>3, <2>1, <2>2, <2>4, <2>5, <2>6 DEF Tick, Process
<1>4. ASSUME NEW v \in Workers, Crash(v)
      PROVE  Holders(d)' \subseteq Holders(d)
  BY <1>1, <1>4 DEF Crash
<1>5. Clock => UNCHANGED <<picked, mine>>
  BY DEF Clock, RetryComesDue, ClaimLapses, workerVars
<1>6. Team \/ (\E h \in Hooks : Ping(h)) => UNCHANGED <<picked, mine>>
  BY DEF Team, Emit, Ping, Enqueue, workerVars
<1>7. ASSUME NEW h \in Hooks,
             CreateWebhook(h) \/ DeleteWebhook(h) \/ \E want \in BOOLEAN : BeginUpdate(h, want)
      PROVE  UNCHANGED <<picked, mine>>
  BY <1>7 DEF CreateWebhook, DeleteWebhook, BeginUpdate, workerVars
<1>8. CommitUpdate \/ (\E flag \in BOOLEAN : ArchiveTeam(flag)) => UNCHANGED <<picked, mine>>
  BY DEF CommitUpdate, ArchiveTeam, workerVars
<1>9. UNCHANGED vars => UNCHANGED <<picked, mine>>
  BY DEF vars, workerVars
<1> QED
  BY <1>2, <1>3, <1>4, <1>5, <1>6, <1>7, <1>8, <1>9 DEF Next, Admin

\* Whoever settles a row has done with it.
LEMMA HolderLeaves ==
    ASSUME TypeOK, LockInv, PickedInTime, NEW w \in Workers, NEW d \in Ids,
           Tries(w, d) \/ SkipSwitchedOff(w, d)
    PROVE  w \in Holders(d) /\ Holders(d)' = Holders(d) \ {w}
<1>1. d \in mine[w] /\ pc[w] # "selected"
  BY TryOfARow DEF SkipSwitchedOff, SkipAs
<1>2. picked' = picked /\ mine' = [mine EXCEPT ![w] = @ \ {d}]
  BY DEF Tries, RecordSuccess, RecordRetry, RecordFailure, RecordLast, RecordAttempt,
     RecordTries, SkipSwitchedOff, SkipAs, Drop
<1>3. \A v \in Workers : mine'[v] = IF v = w THEN mine[v] \ {d} ELSE mine[v]
  BY <1>2 DEF TypeOK
<1>4. picked[w] = {}
  BY <1>1 DEF PickedInTime
<1> QED
  BY <1>1, <1>2, <1>3, <1>4 DEF Holders

\* Its choice is given up with its claim, or with its tick.
LEMMA PickedStep ==
    ASSUME TypeOK, PickedInTime, [Next]_vars
    PROVE  PickedInTime'
<1>1. ASSUME NEW v \in Workers, Forget(v)
      PROVE  PickedInTime'
  BY <1>1 DEF Forget, PickedInTime, TypeOK
<1>2. ASSUME picked' = picked,
             \A v \in Workers : pc'[v] # pc[v] => pc[v] # "selected"
      PROVE  PickedInTime'
  BY <1>2 DEF PickedInTime
<1>3. ASSUME NEW v \in Workers, Tick(v)
      PROVE  PickedInTime'
  <2>1. CASE Select(v)
    BY <2>1 DEF Select, PickedInTime, TypeOK
  <2>2. CASE Claim(v)
    BY <2>2 DEF Claim, PickedInTime, TypeOK
  <2>3. ASSUME picked' = picked, pc[v] # "selected",
               \A u \in Workers \ {v} : pc'[u] = pc[u]
        PROVE  PickedInTime'
    BY <1>2, <2>3
  <2>4. ASSUME NEW e \in Ids, LoadGone(v, e) \/ SkipSwitchedOff(v, e) \/ LoadAndPost(v, e)
        PROVE  PickedInTime'
    BY <1>1, <2>3, <2>4
    DEF LoadGone, SkipSwitchedOff, SkipAs, Drop, Resume, LoadAndPost, TypeOK
  <2>5. CASE Record(v)
    BY <1>1, <2>3, <2>5
    DEF Record, RecordGone, RecordSuccess, RecordRetry, RecordFailure, RecordLast,
        RecordAttempt, RecordTries, TypeOK
  <2>6. CASE PruneSelect(v) \/ PruneDelete(v)
    BY <1>1, <2>3, <2>6 DEF PruneSelect, PruneDelete, Delete, Drop, Resume, TypeOK
  <2> QED
    BY <1>3, <2>1, <2>2, <2>4, <2>5, <2>6 DEF Tick, Process
<1>4. ASSUME NEW v \in Workers, Crash(v)
      PROVE  PickedInTime'
  BY <1>1, <1>4 DEF Crash
<1>5. CASE UNCHANGED <<picked, pc>>
  BY <1>2, <1>5
<1>6. Clock => UNCHANGED <<picked, pc>>
  BY DEF Clock, RetryComesDue, ClaimLapses, workerVars
<1>7. Team \/ (\E h \in Hooks : Ping(h)) => UNCHANGED <<picked, pc>>
  BY DEF Team, Emit, Ping, Enqueue, workerVars
<1>8. ASSUME NEW h \in Hooks,
             CreateWebhook(h) \/ DeleteWebhook(h) \/ \E want \in BOOLEAN : BeginUpdate(h, want)
      PROVE  UNCHANGED <<picked, pc>>
  BY <1>8 DEF CreateWebhook, DeleteWebhook, BeginUpdate, workerVars
<1>9. CommitUpdate \/ (\E flag \in BOOLEAN : ArchiveTeam(flag)) => UNCHANGED <<picked, pc>>
  BY DEF CommitUpdate, ArchiveTeam, workerVars
<1>10. UNCHANGED vars => UNCHANGED <<picked, pc>>
  BY DEF vars, workerVars
<1> QED
  BY <1>3, <1>4, <1>5, <1>6, <1>7, <1>8, <1>9, <1>10 DEF Next, Admin

(***************************************************************************)
(* How often a row is sent, with any number of loops.                      *)
(***************************************************************************)
\* A row that may still be queued or sent has tries left.
TriesLeft == \A d \in Ids : status[d] \in {"unborn", "pending"} => attempts[d] < MaxAttempts

\* One that is settled can be sent by nobody but the loops it is with.
SendsLeft ==
    \A d \in Ids : status[d] \notin {"unborn", "pending"} =>
        attempts[d] + Cardinality(Holders(d)) <= MaxAttempts + Cardinality(Workers) - 1

SendsInv == PickedInTime /\ TriesLeft /\ SendsLeft

\* The holders of a row are some of the loops.
LEMMA HoldersCounted ==
    ASSUME IsFiniteSet(Workers), NEW d \in Ids
    PROVE  /\ Cardinality(Workers) \in Nat
           /\ IsFiniteSet(Holders(d)) /\ Cardinality(Holders(d)) \in Nat
           /\ Cardinality(Holders(d)) <= Cardinality(Workers)
<1>1. Holders(d) \in SUBSET Workers
  BY DEF Holders
<1> QED
  BY <1>1, FS_Subset, FS_CardinalityType

\* So are those after a step, and fewer holders are no more of them.
LEMMA HoldersCountedNext ==
    ASSUME IsFiniteSet(Workers), NEW d \in Ids
    PROVE  /\ IsFiniteSet(Holders(d)') /\ Cardinality(Holders(d)') \in Nat
           /\ Cardinality(Holders(d)') <= Cardinality(Workers)
           /\ Holders(d)' \subseteq Holders(d) =>
                  Cardinality(Holders(d)') <= Cardinality(Holders(d))
<1>1. Holders(d)' \in SUBSET Workers
  BY DEF Holders
<1>2. IsFiniteSet(Holders(d)') /\ Cardinality(Holders(d)') \in Nat
      /\ Cardinality(Holders(d)') <= Cardinality(Workers)
  BY <1>1, FS_Subset, FS_CardinalityType
<1>3. IsFiniteSet(Holders(d))
  BY HoldersCounted
<1>4. ASSUME Holders(d)' \subseteq Holders(d)
      PROVE  Cardinality(Holders(d)') <= Cardinality(Holders(d))
  BY <1>3, <1>4, FS_Subset
<1> QED
  BY <1>2, <1>4

\* A step that settles a row leaves it to the other loops; one that sends it again
\* takes a loop away.
LEMMA SendsStep ==
    ASSUME IsFiniteSet(Workers), TypeOK, LockInv, SendsInv, [Next]_vars
    PROVE  SendsInv'
<1> USE OutboxAssumption
<1>1. PickedInTime'
  BY PickedStep DEF SendsInv
<1>2. ASSUME NEW d \in Ids
      PROVE  /\ status'[d] \in {"unborn", "pending"} => attempts'[d] < MaxAttempts
             /\ status'[d] \notin {"unborn", "pending"} =>
                    attempts'[d] + Cardinality(Holders(d)') <= MaxAttempts + Cardinality(Workers) - 1
  <2> DEFINE Goal == /\ status'[d] \in {"unborn", "pending"} => attempts'[d] < MaxAttempts
                     /\ status'[d] \notin {"unborn", "pending"} =>
                            attempts'[d] + Cardinality(Holders(d)')
                                <= MaxAttempts + Cardinality(Workers) - 1
  <2>1. attempts[d] \in Nat /\ MaxAttempts \in Nat
    BY DEF TypeOK
  <2>2. /\ status[d] \in {"unborn", "pending"} => attempts[d] < MaxAttempts
        /\ status[d] \notin {"unborn", "pending"} =>
               attempts[d] + Cardinality(Holders(d)) <= MaxAttempts + Cardinality(Workers) - 1
    BY DEF SendsInv, TriesLeft, SendsLeft
  <2>3. /\ Cardinality(Workers) \in Nat
        /\ Cardinality(Holders(d)) \in Nat /\ Cardinality(Holders(d)) <= Cardinality(Workers)
        /\ Cardinality(Holders(d)') \in Nat /\ Cardinality(Holders(d)') <= Cardinality(Workers)
    BY HoldersCounted, HoldersCountedNext
  <2>4. status[d] # "pending" => Cardinality(Holders(d)') <= Cardinality(Holders(d))
    BY HoldersShrink, HoldersCountedNext DEF SendsInv
  <2>5. ASSUME NEW w \in Workers, Tries(w, d) \/ SkipSwitchedOff(w, d)
        PROVE  Goal
    <3>1. w \in Holders(d) /\ Holders(d)' = Holders(d) \ {w}
      BY <2>5, HolderLeaves DEF SendsInv
    <3>2. Cardinality(Holders(d)') = Cardinality(Holders(d)) - 1
      BY <3>1, HoldersCounted, FS_RemoveElement
    <3>3. CASE Tries(w, d)
      <4>1. attempts'[d] = attempts[d] + 1
        BY <3>3, TryOfARow
      <4>2. CASE status[d] = "pending"
        <5>1. attempts[d] + 1 <= MaxAttempts
          BY <2>1, <2>2, <4>2
        <5>2. status'[d] \in {"unborn", "pending"} => attempts[d] + 1 < MaxAttempts
          BY <3>3, <4>2, TryOfARow
        <5> QED
          BY <2>1, <2>3, <3>2, <4>1, <5>1, <5>2
      <4>3. CASE status[d] # "pending"
        <5>1. status[d] \notin {"unborn", "pending"} /\ status'[d] \notin {"unborn", "pending"}
          BY <3>3, <4>3, TryOfARow DEF Rows, RowStatus
        <5> QED
          BY <2>1, <2>2, <2>3, <3>2, <4>1, <5>1
      <4> QED
        BY <4>2, <4>3
    <3>4. CASE SkipSwitchedOff(w, d)
      <4>1. attempts'[d] = attempts[d] /\ status'[d] = "failed" /\ status[d] # "unborn"
        BY <3>4 DEF SkipSwitchedOff, SkipAs, Rows, RowStatus, TypeOK
      <4> QED
        BY <2>1, <2>2, <2>3, <3>2, <4>1
    <3> QED
      BY <2>5, <3>3, <3>4
  <2>6. CASE attempts'[d] = attempts[d] /\ status[d] \in {"unborn", "pending"}
    BY <2>1, <2>2, <2>3, <2>6
  <2>7. CASE attempts'[d] = attempts[d] /\ status[d] \notin {"unborn", "pending"}
             /\ status'[d] \notin {"unborn", "pending"}
    BY <2>1, <2>2, <2>3, <2>4, <2>7
  <2>8. RowStep(d)
    BY EveryRow
  <2> QED
    BY <2>5, <2>6, <2>7, <2>8 DEF RowStep, Forgotten
<1> QED
  BY <1>1, <1>2 DEF SendsInv, TriesLeft, SendsLeft

\* Nothing is queued and nothing held at first.
LEMMA SendsInitially == Init => SendsInv
BY OutboxAssumption DEF Init, SendsInv, PickedInTime, TriesLeft, SendsLeft

\* While every batch finishes within CLAIM_FOR, a delivery is sent MaxAttempts times,
\* and once more by each other loop that had selected it before it settled: no more.
THEOREM SendsCorrect ==
    ASSUME ~Overrun, IsFiniteSet(Workers)
    PROVE  Spec => []ResendsBounded
<1>1. TypeOK /\ SendsInv => ResendsBounded
  <2> SUFFICES ASSUME TypeOK, SendsInv, NEW d \in Ids
               PROVE  attempts[d] <= MaxAttempts + Cardinality(Workers) - 1
    BY DEF ResendsBounded
  <2>1. attempts[d] \in Nat /\ MaxAttempts \in Nat
    BY OutboxAssumption DEF TypeOK
  <2>2. Cardinality(Workers) \in Nat /\ Cardinality(Holders(d)) \in Nat
    BY HoldersCounted
  <2> QED
    BY <2>1, <2>2 DEF SendsInv, TriesLeft, SendsLeft
<1>2. TypeOK /\ LockInv /\ SendsInv /\ [Next]_vars => SendsInv'
  BY SendsStep
<1> QED
  BY <1>1, <1>2, SendsInitially, TypeCorrect, LockCorrect, PTL DEF Spec

(***************************************************************************)
(* One loop: each row is the delivery DeliveryContract promises.           *)
(***************************************************************************)
OneLoop == \A v, w \in Workers : v = w

\* What the loop has is still to be sent, or gone.
HeldIsOpen == \A d \in Ids : Holders(d) # {} => status[d] \in {"pending", "gone"}

LoopInv == SendsInv /\ HeldIsOpen

\* A row is taken up while it is pending, and let go of as it is settled.
LEMMA HeldStep ==
    ASSUME OneLoop, TypeOK, LockInv, PickedInTime, HeldIsOpen, [Next]_vars
    PROVE  HeldIsOpen'
<1> SUFFICES ASSUME NEW d \in Ids, Holders(d)' # {}
             PROVE  status'[d] \in {"pending", "gone"}
  BY DEF HeldIsOpen
<1>1. ~\E w \in Workers : Tries(w, d) \/ SkipSwitchedOff(w, d)
  <2> SUFFICES ASSUME NEW w \in Workers, Tries(w, d) \/ SkipSwitchedOff(w, d)
               PROVE  FALSE
    OBVIOUS
  <2>1. Holders(d)' = Holders(d) \ {w}
    BY HolderLeaves
  <2> QED
    BY <2>1 DEF Holders, OneLoop
<1>2. CASE status[d] = "pending"
  BY <1>1, <1>2, EveryRow DEF RowStep, Forgotten
<1>3. CASE status[d] # "pending"
  <2>1. Holders(d) # {}
    BY <1>3, HoldersShrink
  <2>2. status[d] = "gone"
    BY <1>3, <2>1 DEF HeldIsOpen
  <2> QED
    BY <1>1, <2>2, EveryRow DEF RowStep, Forgotten, RowStatus
<1> QED
  BY <1>2, <1>3

\* What the loop sends or gives up on is pending.
LEMMA SentIsPending ==
    ASSUME TypeOK, LockInv, LoopInv, NEW w \in Workers, NEW d \in Ids,
           Tries(w, d) \/ SkipSwitchedOff(w, d)
    PROVE  status[d] = "pending" /\ attempts[d] < MaxAttempts
<1>1. w \in Holders(d)
  BY HolderLeaves DEF LoopInv, SendsInv
<1>2. d \in Rows
  BY TryOfARow DEF SkipSwitchedOff, SkipAs
<1>3. status[d] = "pending"
  BY <1>1, <1>2 DEF LoopInv, HeldIsOpen, Rows, RowStatus
<1> QED
  BY <1>3 DEF LoopInv, SendsInv, TriesLeft

\* One loop is finitely many.
LEMMA OneIsFinite ==
    ASSUME OneLoop
    PROVE  IsFiniteSet(Workers)
<1>1. CASE Workers = {}
  BY <1>1, FS_EmptySet
<1>2. ASSUME NEW w \in Workers
      PROVE  IsFiniteSet(Workers)
  <2>1. Workers = {} \cup {w}
    BY DEF OneLoop
  <2> QED
    BY <2>1, FS_EmptySet, FS_AddElement
<1> QED
  BY <1>1, <1>2

\* With one loop it holds throughout, beside the types and the lock.
LEMMA LoopKept ==
    ASSUME ~Overrun, OneLoop
    PROVE  Spec => [](TypeOK /\ LockInv /\ LoopInv)
<1>1. Init => LoopInv
  BY SendsInitially DEF Init, LoopInv, HeldIsOpen, Holders
<1>2. TypeOK /\ LockInv /\ LoopInv /\ [Next]_vars => LoopInv'
  BY SendsStep, HeldStep, OneIsFinite DEF LoopInv, SendsInv
<1> QED
  BY <1>1, <1>2, TypeCorrect, LockCorrect, PTL DEF Spec

\* Each step is one of the contract for every row.
LEMMA ContractStep ==
    ASSUME TypeOK, LockInv, LoopInv, [Next]_vars, NEW d \in Ids
    PROVE  \/ Contract!Queue(d) \/ Contract!Try(d) \/ Contract!Cancel(d)
           \/ Contract!Forget(d) \/ Contract!Rest(d)
<1> USE OutboxAssumption
<1>1. ASSUME NEW w \in Workers, Tries(w, d)
      PROVE  Contract!Try(d)
  <2>1. status[d] = "pending" /\ attempts[d] < MaxAttempts
    BY <1>1, SentIsPending
  <2>2. attempts[d] \in Nat /\ MaxAttempts \in Nat
    BY DEF TypeOK
  <2>3. /\ attempts'[d] = attempts[d] + 1
        /\ \/ status'[d] = "succeeded"
           \/ status'[d] = "pending" /\ attempts[d] + 1 < MaxAttempts
           \/ status'[d] = "failed" /\ attempts[d] + 1 >= MaxAttempts
    BY <1>1, <2>1, TryOfARow
  <2> QED
    BY <2>1, <2>2, <2>3 DEF Contract!Try
<1>2. ASSUME NEW w \in Workers, SkipSwitchedOff(w, d)
      PROVE  Contract!Cancel(d)
  <2>1. status[d] = "pending"
    BY <1>2, SentIsPending
  <2>2. status'[d] = "failed" /\ attempts'[d] = attempts[d] /\ d \in Rows
        /\ (archived \/ ~enabled[target[d]])
    BY <1>2 DEF SkipSwitchedOff, SkipAs, TypeOK
  <2>3. target[d] # NoHook
    BY <2>2 DEF TypeOK
  <2> QED
    BY <2>1, <2>2, <2>3 DEF Contract!Cancel, Stopped
<1>3. ASSUME Forgotten(d), attempts'[d] = attempts[d]
      PROVE  Contract!Forget(d)
  <2>1. CASE status[d] # "pending"
    BY <1>3, <2>1 DEF Forgotten, RowStatus, Contract!Forget
  <2>2. CASE status[d] = "pending"
    <3>1. target[d] \in Hooks /\ hookState'[target[d]] = "deleted"
      BY <1>3, <2>2 DEF Forgotten
    <3>2. target'[d] = target[d]
      BY <2>2, TargetOfARow
    <3>3. d \in Orphaned'
      BY <3>1, <3>2 DEF Orphaned
    <3> QED
      BY <1>3, <2>2, <3>3 DEF Forgotten, Contract!Forget
  <2> QED
    BY <2>1, <2>2
<1>4. RowStep(d)
  BY EveryRow
<1> QED
  BY <1>1, <1>2, <1>3, <1>4 DEF RowStep, Contract!Queue, Contract!Rest

\* While every batch of the one loop finishes within CLAIM_FOR, the outbox implements
\* DeliveryContract: tried at most MaxAttempts times, settled once, never forgotten
\* before that unless its webhook goes.
THEOREM OutboxKeepsTheContract ==
    ASSUME ~Overrun, OneLoop
    PROVE  Spec => KeepsTheContract
<1>1. Init => Contract!Init
  BY DEF Init, Contract!Init
<1>2. TypeOK /\ LockInv /\ LoopInv /\ [Next]_vars => [Contract!Next]_<<status, attempts>>
  BY ContractStep DEF Contract!Next
<1> QED
  BY <1>1, <1>2, LoopKept, PTL DEF Spec, KeepsTheContract, Contract!Spec

(***************************************************************************)
(* One loop: what counts against a webhook.                                *)
(***************************************************************************)
\* The deliveries of a webhook that used every try.
Spent(h) == {d \in Ids : target[d] = h /\ attempts[d] >= MaxAttempts}

\* No webhook is charged with more than that, nor by what the loop loaded.
FailInv ==
    /\ \A h \in Hooks : failures[h] <= Cardinality(Spent(h))
    /\ \A w \in Workers, h \in Hooks :
           pc[w] = "posting" /\ snap[w].d \in Rows /\ target[snap[w].d] = h =>
               snap[w].failures <= Cardinality(Spent(h))

\* They are finitely many, and only ever more.
LEMMA SpentGrows ==
    ASSUME TypeOK, LockInv, LoopInv, [Next]_vars, NEW h
    PROVE  /\ Spent(h) \subseteq Spent(h)'
           /\ IsFiniteSet(Spent(h)) /\ IsFiniteSet(Spent(h)')
           /\ Cardinality(Spent(h)) \in Nat /\ Cardinality(Spent(h)') \in Nat
           /\ Cardinality(Spent(h)) <= Cardinality(Spent(h)')
<1> USE OutboxAssumption
<1>1. IsFiniteSet(Ids)
  BY FS_Interval DEF Ids
<1>2. Spent(h) \in SUBSET Ids /\ Spent(h)' \in SUBSET Ids
  BY DEF Spent
<1>3. ASSUME NEW d \in Spent(h)
      PROVE  d \in Spent(h)'
  <2>1. d \in Ids /\ target[d] = h /\ attempts[d] >= MaxAttempts /\ attempts[d] \in Nat
        /\ MaxAttempts \in Nat
    BY DEF Spent, TypeOK
  <2>2. status[d] # "unborn"
    BY <2>1 DEF LoopInv, SendsInv, TriesLeft
  <2>3. target'[d] = target[d]
    BY <2>1, <2>2, TargetOfARow
  <2>4. attempts'[d] >= attempts[d] /\ attempts'[d] \in Nat
    <3>1. ASSUME NEW w \in Workers, SkipSwitchedOff(w, d)
          PROVE  attempts'[d] = attempts[d]
      BY <3>1 DEF SkipSwitchedOff, SkipAs
    <3> QED
      BY <2>1, <3>1, EveryRow, TryOfARow DEF RowStep
  <2> QED
    BY <2>1, <2>3, <2>4 DEF Spent
<1> QED
  BY <1>1, <1>2, <1>3, FS_Subset, FS_CardinalityType

\* The last failed try is of a delivery that had a try left, so it is one more.
LEMMA LastTryIsSpent ==
    ASSUME TypeOK, LockInv, LoopInv, [Next]_vars, NEW w \in Workers, RecordFailure(w),
           NEW h \in Hooks, target[snap[w].d] = h
    PROVE  Cardinality(Spent(h)') >= Cardinality(Spent(h)) + 1
<1> USE OutboxAssumption
<1>0. PICK d \in Ids : snap[w].d = d
  BY DEF RecordFailure, RecordLast, RecordAttempt, RecordTries, Rows
<1>1. pc[w] = "posting" /\ d \in Rows /\ target' = target /\ target[d] = h
  BY <1>0 DEF RecordFailure, RecordLast, RecordAttempt, RecordTries
<1>2. Tries(w, d)
  BY <1>0 DEF Tries
<1>3. status[d] = "pending" /\ attempts[d] < MaxAttempts
  BY <1>2, SentIsPending
<1>4. attempts'[d] = attempts[d] + 1 /\ attempts[d] + 1 >= MaxAttempts
  <2>1. snap[w].attempts = attempts[d] /\ snap[w].attempts + 1 >= MaxAttempts
    BY <1>0, <1>1 DEF RecordFailure, RecordLast, LockInv, SnapIsCurrent
  <2> QED
    BY <1>2, <2>1, TryOfARow
<1>5. attempts[d] \in Nat /\ MaxAttempts \in Nat
  BY DEF TypeOK
<1>6. d \notin Spent(h) /\ d \in Spent(h)'
  <2>1. ~(attempts[d] >= MaxAttempts) /\ attempts'[d] >= MaxAttempts
    BY <1>3, <1>4, <1>5
  <2> QED
    BY <1>1, <2>1 DEF Spent
<1>7. Spent(h) \cup {d} \in SUBSET Spent(h)'
  BY <1>6, SpentGrows
<1>8. /\ Cardinality(Spent(h) \cup {d}) = Cardinality(Spent(h)) + 1
      /\ Cardinality(Spent(h) \cup {d}) <= Cardinality(Spent(h)')
  BY <1>6, <1>7, SpentGrows, FS_AddElement, FS_Subset
<1> QED
  BY <1>8, SpentGrows

\* What changes a webhook's count: a success and an edit reset it, a last try adds.
LEMMA FailuresStep ==
    ASSUME TypeOK, [Next]_vars, NEW h \in Hooks
    PROVE  \/ failures'[h] \in {failures[h], 0}
           \/ \E w \in Workers : /\ RecordFailure(w) /\ target[snap[w].d] = h
                                 /\ failures'[h] = snap[w].failures + 1
<1>1. ASSUME NEW w \in Workers, RecordSuccess(w)
      PROVE  failures'[h] \in {failures[h], 0}
  BY <1>1 DEF RecordSuccess, Put, TypeOK
<1>2. ASSUME NEW w \in Workers, RecordFailure(w), target[snap[w].d] = h
      PROVE  failures'[h] = snap[w].failures + 1
  BY <1>2 DEF RecordFailure, RecordLast, TypeOK
<1>3. ASSUME NEW w \in Workers, RecordFailure(w), target[snap[w].d] # h
      PROVE  failures'[h] = failures[h]
  BY <1>3 DEF RecordFailure, RecordLast, TypeOK
<1>4. ASSUME NEW w \in Workers, Tick(w) \/ Crash(w)
      PROVE  failures' = failures \/ RecordSuccess(w) \/ RecordFailure(w)
  BY <1>4
  DEF Tick, Crash, Select, Claim, Process, LoadGone, SkipSwitchedOff, SkipAs, LoadAndPost, Record,
      RecordGone, RecordRetry, PruneSelect, PruneDelete, Delete, Forget, hookVars
<1>5. CommitUpdate => failures'[h] \in {failures[h], 0}
  BY DEF CommitUpdate, Put, TypeOK
<1>6. Clock \/ Team => failures' = failures
  BY DEF Clock, RetryComesDue, ClaimLapses, Team, Emit, Enqueue, hookVars
<1>7. Admin => failures' = failures \/ CommitUpdate
  BY DEF Admin, CreateWebhook, DeleteWebhook, Ping, Enqueue, BeginUpdate, ArchiveTeam, hookVars
<1> QED
  BY <1>1, <1>2, <1>3, <1>4, <1>5, <1>6, <1>7 DEF Next, vars, hookVars

\* What the loop loaded before its POST stays within what is spent by then.
LEMMA LoadedStep ==
    ASSUME TypeOK, LockInv, LoopInv, FailInv, [Next]_vars, NEW w \in Workers,
           pc'[w] = "posting", snap'[w].d \in Rows', NEW h \in Hooks
    PROVE  /\ snap'[w].d \in Rows
           /\ target[snap'[w].d] = h => snap'[w].failures <= Cardinality(Spent(h)')
<1>1. CASE \E d \in Ids : LoadAndPost(w, d)
  <2>1. PICK d \in Ids : LoadAndPost(w, d)
    BY <1>1
  <2>2. snap'[w].d = d /\ snap'[w].failures = failures[target[d]] /\ d \in Rows
    BY <2>1 DEF LoadAndPost, TypeOK
  <2>3. target[d] \in Hooks
    BY <2>2 DEF TypeOK
  <2>4. failures[h] \in Nat /\ failures[h] <= Cardinality(Spent(h))
    BY <2>3 DEF FailInv, TypeOK
  <2> QED
    BY <2>2, <2>4, SpentGrows
<1>2. CASE pc[w] = "posting" /\ snap'[w] = snap[w] /\ snap[w].d \in Rows
  <2>1. /\ target[snap[w].d] = h => snap[w].failures <= Cardinality(Spent(h))
        /\ snap[w].failures \in Nat
    BY <1>2 DEF FailInv, TypeOK, Snap
  <2> QED
    BY <1>2, <2>1, SpentGrows
<1>3. pc[w] = "posting" /\ snap[w].d \in Rows' => snap[w].d \in Rows
  <2> SUFFICES ASSUME pc[w] = "posting", snap[w].d \in Rows'
               PROVE  snap[w].d \in Rows
    OBVIOUS
  <2>1. PICK d \in Ids : d = snap[w].d /\ d \in mine[w]
    BY DEF LockInv, SnapIsCurrent, TypeOK
  <2>2. Holders(d) # {}
    BY <2>1 DEF Holders
  <2>3. status[d] \in {"pending", "gone"}
    BY <2>2 DEF LoopInv, HeldIsOpen
  <2>4. status[d] = "gone" => status'[d] = "gone"
    BY EveryRow, TryOfARow DEF RowStep, Forgotten, RowStatus, SkipSwitchedOff, SkipAs, Rows
  <2> QED
    BY <2>1, <2>3, <2>4 DEF Rows, RowStatus
<1>4. (\E d \in Ids : LoadAndPost(w, d)) \/ (pc[w] = "posting" /\ snap'[w] = snap[w])
  <2>1. ASSUME NEW v \in Workers, Forget(v)
        PROVE  pc[w] = "posting" /\ snap'[w] = snap[w]
    BY <2>1 DEF Forget, TypeOK
  <2>2. ASSUME NEW v \in Workers, Tick(v)
        PROVE  (\E d \in Ids : LoadAndPost(w, d)) \/ (pc[w] = "posting" /\ snap'[w] = snap[w])
    <3>1. CASE Select(v)
      BY <3>1 DEF Select, TypeOK
    <3>2. CASE Claim(v)
      BY <3>2 DEF Claim, TypeOK
    <3>3. ASSUME NEW d \in Ids, LoadGone(v, d)
          PROVE  pc[w] = "posting" /\ snap'[w] = snap[w]
      BY <2>1, <3>3 DEF LoadGone
    <3>4. ASSUME NEW d \in Ids, SkipSwitchedOff(v, d)
          PROVE  pc[w] = "posting" /\ snap'[w] = snap[w]
      BY <3>4 DEF SkipSwitchedOff, SkipAs, Drop, Resume, TypeOK
    <3>5. ASSUME NEW d \in Ids, LoadAndPost(v, d), v # w
          PROVE  pc[w] = "posting" /\ snap'[w] = snap[w]
      BY <3>5 DEF LoadAndPost, TypeOK
    <3>6. CASE RecordGone(v)
      BY <2>1, <3>6 DEF RecordGone
    <3>7. CASE RecordAttempt(v)
      BY <3>7 DEF RecordAttempt, RecordTries, TypeOK
    <3>8. CASE (PruneSelect(v) /\ ~Forget(v)) \/ PruneDelete(v)
      BY <3>8 DEF PruneSelect, PruneDelete, Delete, Drop, Resume, TypeOK
    <3> QED
      BY <2>1, <2>2, <3>1, <3>2, <3>3, <3>4, <3>5, <3>6, <3>7, <3>8
      DEF Tick, Process, Record, RecordSuccess, RecordRetry, RecordFailure, RecordLast
  <2>3. ASSUME NEW v \in Workers, Crash(v)
        PROVE  pc[w] = "posting" /\ snap'[w] = snap[w]
    BY <2>1, <2>3 DEF Crash
  <2>4. Clock \/ Team \/ Admin \/ UNCHANGED vars => UNCHANGED <<pc, snap>>
    BY DEF Clock, RetryComesDue, ClaimLapses, Team, Emit, Enqueue, Admin, CreateWebhook,
           DeleteWebhook, Ping, BeginUpdate, CommitUpdate, ArchiveTeam, vars, workerVars
  <2> QED
    BY <2>2, <2>3, <2>4 DEF Next
<1> QED
  BY <1>1, <1>2, <1>3, <1>4

\* So no webhook is ever charged with more.
LEMMA FailStep ==
    ASSUME TypeOK, TypeOK', LockInv, LoopInv, FailInv, [Next]_vars
    PROVE  FailInv'
<1>1. ASSUME NEW h \in Hooks
      PROVE  failures'[h] <= Cardinality(Spent(h)')
  <2>1. failures[h] \in Nat /\ failures[h] <= Cardinality(Spent(h))
    BY DEF FailInv, TypeOK
  <2>2. CASE failures'[h] \in {failures[h], 0}
    BY <2>1, <2>2, SpentGrows
  <2>3. ASSUME NEW w \in Workers, RecordFailure(w), target[snap[w].d] = h,
               failures'[h] = snap[w].failures + 1
        PROVE  failures'[h] <= Cardinality(Spent(h)')
    <3>1. pc[w] = "posting" /\ snap[w].d \in Rows
      BY <2>3 DEF RecordFailure, RecordLast, RecordAttempt, RecordTries
    <3>2. snap[w].failures \in Nat /\ snap[w].failures <= Cardinality(Spent(h))
      BY <2>3, <3>1 DEF FailInv, TypeOK, Snap
    <3>3. Cardinality(Spent(h)') >= Cardinality(Spent(h)) + 1
      BY <2>3, LastTryIsSpent
    <3> QED
      BY <2>3, <3>2, <3>3, SpentGrows
  <2> QED
    BY <2>2, <2>3, FailuresStep
<1>2. ASSUME NEW w \in Workers, NEW h \in Hooks, pc'[w] = "posting", snap'[w].d \in Rows',
             target'[snap'[w].d] = h
      PROVE  snap'[w].failures <= Cardinality(Spent(h)')
  <2>1. PICK d \in Ids : snap'[w].d = d
    BY <1>2 DEF Rows
  <2>2. d \in Rows /\ (target[d] = h => snap'[w].failures <= Cardinality(Spent(h)'))
    BY <1>2, <2>1, LoadedStep
  <2>3. target'[d] = target[d]
    BY <2>2, TargetOfARow DEF Rows, RowStatus
  <2> QED
    BY <1>2, <2>1, <2>2, <2>3
<1> QED
  BY <1>1, <1>2 DEF FailInv

\* While every batch of the one loop finishes within CLAIM_FOR, consecutive_failures
\* never exceeds the deliveries that used every try: no retry is charged, and none twice.
THEOREM FailuresCorrect ==
    ASSUME ~Overrun, OneLoop
    PROVE  Spec => []FailuresAreDeliveries
<1>1. Init => FailInv
  <2> SUFFICES ASSUME Init
               PROVE  FailInv
    OBVIOUS
  <2>1. ASSUME NEW h \in Hooks
        PROVE  failures[h] <= Cardinality(Spent(h))
    <3>1. Spent(h) = {}
      BY OutboxAssumption DEF Init, Spent
    <3> QED
      BY <2>1, <3>1, FS_EmptySet DEF Init
  <2> QED
    BY <2>1 DEF FailInv, Init
<1>2. TypeOK /\ TypeOK' /\ LockInv /\ LoopInv /\ FailInv /\ [Next]_vars => FailInv'
  BY FailStep
<1>3. FailInv => FailuresAreDeliveries
  BY DEF FailInv, FailuresAreDeliveries, Spent
<1> QED
  BY <1>1, <1>2, <1>3, LoopKept, PTL DEF Spec

(***************************************************************************)
(* The log, for any number of loops and whether or not they overrun.       *)
(***************************************************************************)
\* The rows of a webhook from this id on.
From(h, n) == {d \in RowsOf(h) : d >= n}

\* A webhook with this floor has its newest Keep rows from there on.
Keeps(h, n) == hookState[h] = "deleted" \/ Cardinality(From(h, n)) >= Keep

NothingAhead == \A d \in Ids : d > last => status[d] = "unborn"

\* A loop has loaded this row, which has been written, and not dropped it.
AtWork(w) == pc[w] \in {"posting", "pruning", "deleting"}
LoadedRow(w) == snap[w].d \in Ids /\ snap[w].d <= last /\ target[snap[w].d] \in Hooks

LogInv ==
    /\ NothingAhead
    /\ \A w \in Workers : AtWork(w) => LoadedRow(w)
    /\ \A w \in Workers : pc[w] = "deleting" => Keeps(target[snap[w].d], floor[w])

\* A webhook's rows are finitely many numbers.
LEMMA RowsFinite ==
    ASSUME NEW h
    PROVE  /\ RowsOf(h) \in SUBSET Ids
           /\ \A R : R \subseteq RowsOf(h) => IsFiniteSet(R) /\ Cardinality(R) \in Nat
<1>1. RowsOf(h) \subseteq Ids
  BY DEF RowsOf, Rows
<1>2. IsFiniteSet(Ids)
  BY ConstantTypes, FS_Interval DEF Ids
<1> QED
  BY <1>1, <1>2, FS_Subset, FS_CardinalityType

\* A set of ids that has any has a highest.
LEMMA HighestId ==
    ASSUME NEW R \in SUBSET Ids, R # {}
    PROVE  \E m \in R : \A e \in R : e <= m
<1> DEFINE left == {MaxDeliveries - d : d \in R}
           less == {ss \in Nat \X Nat : ss[1] < ss[2]}
<1>1. left \in SUBSET Nat /\ left # {}
  <2>1. \A d \in R : MaxDeliveries - d \in Nat
    BY ConstantTypes DEF Ids
  <2>2. PICK d \in R : TRUE
    OBVIOUS
  <2>3. MaxDeliveries - d \in left
    OBVIOUS
  <2> QED
    BY <2>1, <2>3
<1>2. IsWellFoundedOn(less, Nat)
  BY NatLessThanWellFounded DEF OpToRel
<1>3. \E x \in left : \A y \in left : ~ (<<y, x>> \in less)
  <2> HIDE DEF left, less
  <2> QED
    BY <1>1, <1>2, WFMin
<1>4. PICK x \in left : \A y \in left : ~ (y < x)
  BY <1>1, <1>3
<1>5. PICK d \in R : x = MaxDeliveries - d
  BY <1>4
<1>6. ASSUME NEW e \in R
      PROVE  e <= d
  <2>1. ~ (MaxDeliveries - e < MaxDeliveries - d)
    BY <1>4, <1>5
  <2> QED
    BY <2>1, ConstantTypes DEF Ids
<1> QED
  BY <1>5, <1>6

\* A webhook with Keep rows has Keep of them from the oldest that _prune keeps.
LEMMA OldestKept ==
    ASSUME NEW h, Cardinality(RowsOf(h)) >= Keep,
           NEW oldest \in Newest(h), \A d \in Newest(h) : oldest <= d
    PROVE  Cardinality(From(h, oldest)) >= Keep
<1> SUFFICES ASSUME Cardinality(From(h, oldest)) < Keep
             PROVE  FALSE
  BY RowsFinite, OutboxAssumption DEF From
<1> DEFINE older == {d \in RowsOf(h) : d < oldest}
<1>1. \A d \in RowsOf(h) : d \in Int /\ oldest \in Int
  BY RowsFinite DEF Newest, Ids
<1>2. older # {}
  <2> SUFFICES ASSUME older = {}
               PROVE  FALSE
    OBVIOUS
  <2>1. From(h, oldest) = RowsOf(h)
    BY <1>1 DEF From
  <2> QED
    BY <2>1, RowsFinite, OutboxAssumption
<1>3. PICK m \in older : \A e \in older : e <= m
  <2> older \in SUBSET Ids
    BY RowsFinite
  <2> HIDE DEF older
  <2> QED
    BY <1>2, HighestId
<1>4. {e \in RowsOf(h) : e > m} = From(h, oldest)
  BY <1>1, <1>3 DEF From
<1>5. m \in Newest(h)
  BY <1>3, <1>4 DEF Newest
<1> QED
  BY <1>1, <1>3, <1>5

\* Rows that stay from a floor on still count.
LEMMA KeepsOn ==
    ASSUME NEW h, NEW n, NEW k, Keeps(h, n), h \in Hooks,
           hookState[h] = "deleted" => hookState'[h] = "deleted",
           hookState'[h] = "deleted" \/ From(h, n) \subseteq From(h, k)'
    PROVE  Keeps(h, k)'
<1>1. CASE hookState'[h] = "deleted"
  BY <1>1 DEF Keeps
<1>2. CASE hookState'[h] # "deleted"
  <2>0. hookState[h] # "deleted" /\ From(h, n) \subseteq From(h, k)'
    BY <1>2
  <2>1. Cardinality(From(h, n)) >= Keep
    BY <2>0 DEF Keeps
  <2>2. From(h, k)' \subseteq Ids
    <3>1. From(h, k)' = {d \in RowsOf(h)' : d >= k}
      BY DEF From
    <3>2. RowsOf(h)' \subseteq Ids
      BY DEF RowsOf, Rows
    <3> QED
      BY <3>1, <3>2
  <2>3. IsFiniteSet(From(h, k)')
    <3>1. IsFiniteSet(Ids)
      BY ConstantTypes, FS_Interval DEF Ids
    <3> QED
      BY <2>2, <3>1, FS_Subset
  <2>4. Cardinality(From(h, n)) <= Cardinality(From(h, k)')
    BY <2>0, <2>3, FS_Subset
  <2>5. Cardinality(From(h, n)) \in Nat /\ Cardinality(From(h, k)') \in Nat
    BY <2>0, <2>3, FS_Subset, FS_CardinalityType
  <2> QED
    BY <2>1, <2>4, <2>5, OutboxAssumption DEF Keeps
<1> QED
  BY <1>1, <1>2

\* Steps that take no row from a webhook that stays and set no floor.
LEMMA LogQuiet ==
    ASSUME TypeOK, LogInv, NothingAhead', last <= last', last \in Nat, last' \in Nat,
           \A d \in Ids : d <= last => target'[d] = target[d],
           \A v \in Workers : AtWork(v)' => (AtWork(v) /\ snap'[v] = snap[v]) \/ LoadedRow(v)',
           \A v \in Workers : pc'[v] = "deleting" =>
               pc[v] = "deleting" /\ snap'[v] = snap[v] /\ floor'[v] = floor[v],
           \A h \in Hooks : hookState[h] = "deleted" => hookState'[h] = "deleted",
           \A h \in Hooks : hookState'[h] = "deleted" \/ RowsOf(h) \subseteq RowsOf(h)'
    PROVE  LogInv'
<1>1. ASSUME NEW v \in Workers, AtWork(v)'
      PROVE  LoadedRow(v)'
  <2>1. CASE AtWork(v) /\ snap'[v] = snap[v]
    <3>1. snap[v].d \in Ids /\ snap[v].d <= last /\ target[snap[v].d] \in Hooks
      BY <2>1 DEF LogInv, LoadedRow
    <3> QED
      BY <2>1, <3>1 DEF LoadedRow, Ids
  <2> QED
    BY <1>1, <2>1
<1>2. ASSUME NEW v \in Workers, pc'[v] = "deleting"
      PROVE  Keeps(target[snap[v].d], floor[v])'
  <2>1. pc[v] = "deleting" /\ snap'[v] = snap[v] /\ floor'[v] = floor[v]
    BY <1>2
  <2>2. snap[v].d \in Ids /\ snap[v].d <= last /\ target[snap[v].d] \in Hooks
    BY <2>1 DEF LogInv, LoadedRow, AtWork
  <2>3. PICK h \in Hooks : h = target[snap[v].d]
    BY <2>2
  <2>4. PICK n : n = floor[v]
    OBVIOUS
  <2>5. Keeps(h, n)
    BY <2>1, <2>3, <2>4 DEF LogInv
  <2>6. hookState'[h] = "deleted" \/ From(h, n) \subseteq From(h, n)'
    BY DEF From
  <2>7. Keeps(h, n)'
    BY <2>5, <2>6, KeepsOn
  <2> QED
    BY <2>1, <2>2, <2>3, <2>4, <2>7
<1> QED
  BY <1>1, <1>2 DEF LogInv

\* A tick given up loses its floor and no row.
LEMMA LogForget ==
    ASSUME TypeOK, LogInv, NEW w \in Workers, Forget(w)
    PROVE  LogInv'
<1>1. UNCHANGED <<last, target, status, hookState>>
      /\ pc'[w] = "idle"
      /\ \A v \in Workers \ {w} : /\ pc'[v] = pc[v] /\ snap'[v] = snap[v]
                                  /\ floor'[v] = floor[v]
  BY DEF Forget, deliveryVars, hookVars, TypeOK
<1>2. NothingAhead'
  BY <1>1 DEF LogInv, NothingAhead
<1>3. \A h : RowsOf(h)' = RowsOf(h)
  BY <1>1 DEF RowsOf, Rows
<1>4. last \in Nat
  BY ConstantTypes DEF TypeOK
<1> QED
  BY <1>1, <1>2, <1>3, <1>4, LogQuiet DEF AtWork

\* Queueing adds rows above every one loaded.
LEMMA LogEnqueue ==
    ASSUME TypeOK, TypeOK', LogInv, NEW listeners, Enqueue(listeners)
    PROVE  LogInv'
<1>1. PICK m \in (last + 1)..MaxDeliveries : \E f \in [(last + 1)..m -> listeners] :
         /\ last' = m
         /\ target' = [d \in Ids |-> IF d \in (last + 1)..m THEN f[d] ELSE target[d]]
         /\ status' = [d \in Ids |-> IF d \in (last + 1)..m THEN "pending" ELSE status[d]]
         /\ due' = [d \in Ids |-> IF d \in (last + 1)..m THEN TRUE ELSE due[d]]
         /\ UNCHANGED <<attempts, claim, hookVars, workerVars, adminVars, crashes>>
  BY EnqueueStep
<1>2. /\ last \in Nat /\ last' \in Nat /\ last' = m /\ last < m
      /\ \A d \in Ids : d \in Nat
  BY <1>1, ConstantTypes DEF TypeOK, Ids
<1>3. /\ \A d \in Ids : d <= last => target'[d] = target[d] /\ status'[d] = status[d]
      /\ \A d \in Ids : d > m => status'[d] = status[d]
  BY <1>1, <1>2
<1>4. UNCHANGED <<hookState, pc, snap, floor>>
  BY <1>1 DEF hookVars, workerVars
<1>5. NothingAhead'
  BY <1>2, <1>3 DEF LogInv, NothingAhead
<1>6. \A d \in Rows : d \in Ids /\ d <= last
  BY <1>2 DEF LogInv, NothingAhead, Rows, RowStatus
<1>7. \A h : RowsOf(h) \subseteq RowsOf(h)'
  BY <1>3, <1>6 DEF RowsOf, Rows
<1> QED
  BY <1>2, <1>3, <1>4, <1>5, <1>7, LogQuiet DEF AtWork

\* What a loop does before it prunes.
LEMMA LogTick ==
    ASSUME TypeOK, LogInv, NEW w \in Workers,
           Select(w) \/ Claim(w) \/ Process(w) \/ Record(w)
    PROVE  LogInv'
<1>0. last \in Nat /\ \A d \in Rows : d \in Ids /\ d <= last
  BY ConstantTypes DEF TypeOK, LogInv, NothingAhead, Rows, RowStatus, Ids
<1>1. ASSUME UNCHANGED <<last, target, hookState>>,
             \A d \in Ids : status'[d] = status[d] \/ (d \in Rows /\ status'[d] \in RowStatus),
             pc'[w] # "deleting",
             AtWork(w)' => (AtWork(w) /\ snap'[w] = snap[w]) \/ LoadedRow(w)',
             \A v \in Workers \ {w} : /\ pc'[v] = pc[v] /\ snap'[v] = snap[v]
                                      /\ floor'[v] = floor[v]
      PROVE  LogInv'
  <2>1. NothingAhead'
    BY <1>0, <1>1 DEF LogInv, NothingAhead, Ids
  <2>2. \A h : RowsOf(h) \subseteq RowsOf(h)'
    BY <1>1 DEF RowsOf, Rows
  <2> QED
    BY <1>0, <1>1, <2>1, <2>2, LogQuiet DEF AtWork
<1>2. CASE Select(w)
  BY <1>1, <1>2 DEF Select, deliveryVars, hookVars, AtWork, TypeOK
<1>3. CASE Claim(w)
  BY <1>1, <1>3 DEF Claim, hookVars, AtWork, TypeOK
<1>4. ASSUME NEW d \in Ids, LoadGone(w, d)
      PROVE  LogInv'
  BY <1>4, LogForget DEF LoadGone
<1>5. ASSUME NEW d \in Ids, SkipSwitchedOff(w, d)
      PROVE  LogInv'
  BY <1>1, <1>5
  DEF SkipSwitchedOff, SkipAs, Drop, Resume, hookVars, AtWork, TypeOK, RowStatus
<1>6. ASSUME NEW d \in Ids, LoadAndPost(w, d)
      PROVE  LogInv'
  <2>1. /\ UNCHANGED <<last, target, status, hookState, floor>>
        /\ snap'[w].d = d /\ pc'[w] = "posting"
        /\ \A v \in Workers \ {w} : pc'[v] = pc[v] /\ snap'[v] = snap[v]
    BY <1>6 DEF LoadAndPost, deliveryVars, hookVars, TypeOK
  <2>2. LoadedRow(w)'
    BY <1>0, <1>6, <2>1 DEF LoadAndPost, LoadedRow, TypeOK
  <2> QED
    BY <1>1, <2>1, <2>2
<1>7. CASE RecordGone(w)
  BY <1>7, LogForget DEF RecordGone
<1>8. CASE RecordSuccess(w) \/ RecordRetry(w) \/ RecordFailure(w)
  <2>1. RecordAttempt(w)
    BY <1>8 DEF RecordSuccess, RecordRetry, RecordFailure, RecordLast
  <2>2. /\ UNCHANGED <<last, target, hookState, snap, floor>>
        /\ pc[w] = "posting" /\ pc'[w] = "pruning" /\ snap[w].d \in Rows
        /\ \A v \in Workers \ {w} : pc'[v] = pc[v]
    BY <2>1 DEF RecordAttempt, RecordTries, TypeOK
  <2>3. \A d \in Ids : status'[d] = status[d]
                       \/ (d = snap[w].d /\ status'[d] \in {"succeeded", "failed"})
    BY <1>8 DEF RecordSuccess, RecordRetry, RecordFailure, RecordLast, Put, TypeOK
  <2> QED
    BY <1>1, <2>2, <2>3 DEF AtWork, RowStatus
<1> QED
  BY <1>2, <1>3, <1>4, <1>5, <1>6, <1>7, <1>8 DEF Process, Record

\* The floor _prune selects has Keep rows from it on.
LEMMA LogSelect ==
    ASSUME TypeOK, LogInv, NEW w \in Workers, PruneSelect(w)
    PROVE  LogInv'
<1>1. CASE Forget(w)
  BY <1>1, LogForget
<1>2. CASE ~Forget(w)
  <2>1. pc[w] = "pruning" /\ UNCHANGED <<last, target, status, hookState>>
    BY <1>2 DEF PruneSelect, deliveryVars, hookVars
  <2>2. last \in Nat /\ NothingAhead' /\ \A h : RowsOf(h)' = RowsOf(h)
    BY <2>1, ConstantTypes DEF TypeOK, LogInv, NothingAhead, RowsOf, Rows
  <2>3. PICK h \in Hooks : h = target[snap[w].d]
    BY <2>1 DEF LogInv, AtWork, LoadedRow
  <2>4. CASE Cardinality(RowsOf(h)) < Keep
    <3>1. Drop(w, snap[w].d) /\ Resume(w, mine[w]) /\ UNCHANGED floor
      BY <1>2, <2>3, <2>4 DEF PruneSelect
    <3>2. /\ pc'[w] \in {"idle", "claimed"}
          /\ \A v \in Workers \ {w} : pc'[v] = pc[v] /\ snap'[v] = snap[v]
      BY <3>1 DEF Drop, Resume, TypeOK
    <3> QED
      BY <2>1, <2>2, <3>1, <3>2, LogQuiet DEF AtWork
  <2>5. CASE ~(Cardinality(RowsOf(h)) < Keep)
    <3>1. PICK oldest \in Newest(h) :
             /\ \A d \in Newest(h) : oldest <= d
             /\ floor' = [floor EXCEPT ![w] = oldest]
      BY <1>2, <2>3, <2>5 DEF PruneSelect
    <3>2. pc' = [pc EXCEPT ![w] = "deleting"] /\ UNCHANGED snap
      BY <1>2, <2>3, <2>5 DEF PruneSelect
    <3>3. Cardinality(RowsOf(h)) >= Keep
      BY <2>5, RowsFinite, OutboxAssumption
    <3>4. Cardinality(From(h, oldest)) >= Keep
      BY <3>1, <3>3, OldestKept
    <3>5. \A x, n : Keeps(x, n)' <=> Keeps(x, n)
      BY <2>1, <2>2 DEF Keeps, From
    <3>6. floor'[w] = oldest /\ \A v \in Workers \ {w} : floor'[v] = floor[v] /\ pc'[v] = pc[v]
      BY <3>1, <3>2 DEF TypeOK
    <3>7. ASSUME NEW v \in Workers, pc'[v] = "deleting"
          PROVE  Keeps(target[snap[v].d], floor[v])'
      <4>1. PICK x : x = target[snap[v].d]
        OBVIOUS
      <4>2. PICK n : n = floor'[v]
        OBVIOUS
      <4>3. Keeps(x, n)
        <5>1. CASE v = w
          BY <2>3, <3>4, <3>6, <4>1, <4>2, <5>1 DEF Keeps
        <5>2. CASE v # w
          BY <3>6, <3>7, <4>1, <4>2, <5>2 DEF LogInv
        <5> QED
          BY <5>1, <5>2
      <4>4. Keeps(x, n)'
        BY <3>5, <4>3
      <4> QED
        BY <2>1, <3>2, <4>1, <4>2, <4>4
    <3>8. \A v \in Workers : AtWork(v)' => LoadedRow(v)'
      BY <2>1, <3>2 DEF LogInv, AtWork, LoadedRow, TypeOK
    <3> QED
      BY <2>2, <3>7, <3>8 DEF LogInv
  <2> QED
    BY <2>4, <2>5
<1> QED
  BY <1>1, <1>2

\* What one loop prunes leaves Keep rows from every other's floor on.
LEMMA LogDelete ==
    ASSUME TypeOK, LogInv, NEW w \in Workers, PruneDelete(w)
    PROVE  LogInv'
<1>1. /\ pc[w] = "deleting" /\ UNCHANGED <<last, target, hookState>>
      /\ pc'[w] \in {"idle", "claimed"}
      /\ \A v \in Workers \ {w} : /\ pc'[v] = pc[v] /\ snap'[v] = snap[v]
                                  /\ floor'[v] = floor[v]
  BY DEF PruneDelete, Delete, Drop, Resume, hookVars, TypeOK
<1>2. PICK h \in Hooks : h = target[snap[w].d]
  BY <1>1 DEF LogInv, AtWork, LoadedRow
<1>3. PICK m \in Ids \cup {0} : m = floor[w]
  BY DEF TypeOK
<1>4. status' = [d \in Ids |-> IF d \in Settled(h) /\ d < m THEN "gone" ELSE status[d]]
  <2>1. PICK old : /\ old = {d \in Settled(target[snap[w].d]) : d < floor[w]}
                   /\ status' = [d \in Ids |-> IF d \in old THEN "gone" ELSE status[d]]
    BY DEF PruneDelete, Delete
  <2> QED
    BY <1>2, <1>3, <2>1
<1>5. NothingAhead'
  BY <1>1, <1>4 DEF LogInv, NothingAhead, Settled, RowsOf, Rows, RowStatus
<1>6. /\ \A x : x # h => RowsOf(x) \subseteq RowsOf(x)'
      /\ From(h, m) \subseteq RowsOf(h)'
  BY <1>1, <1>3, <1>4 DEF From, Settled, RowsOf, Rows, Ids
<1>7. ASSUME NEW v \in Workers, pc'[v] = "deleting"
      PROVE  Keeps(target[snap[v].d], floor[v])'
  <2>1. v # w /\ pc[v] = "deleting" /\ snap'[v] = snap[v] /\ floor'[v] = floor[v]
    BY <1>1, <1>7
  <2>2. PICK x \in Hooks : x = target[snap[v].d]
    BY <2>1 DEF LogInv, AtWork, LoadedRow
  <2>3. PICK n \in Ids \cup {0} : n = floor[v]
    BY DEF TypeOK
  <2>4. Keeps(x, n)
    BY <2>1, <2>2, <2>3 DEF LogInv
  <2>5. m \in Int /\ n \in Int /\ \A d \in Rows : d \in Int
    BY <1>3, <2>3 DEF Ids, Rows
  <2>6. CASE x # h
    <3>1. From(x, n) \subseteq From(x, n)'
      BY <1>6, <2>6 DEF From
    <3> QED
      BY <1>1, <2>1, <2>2, <2>3, <2>4, <3>1, KeepsOn
  <2>7. CASE x = h /\ m <= n
    <3>1. From(x, n) \subseteq From(x, n)'
      BY <1>6, <2>5, <2>7 DEF From, RowsOf
    <3> QED
      BY <1>1, <2>1, <2>2, <2>3, <2>4, <3>1, KeepsOn
  <2>8. CASE x = h /\ n < m
    <3>1. Keeps(h, m)
      BY <1>1, <1>2, <1>3 DEF LogInv
    <3>2. From(x, m) \subseteq From(x, n)'
      BY <1>6, <2>5, <2>8 DEF From, RowsOf
    <3> QED
      BY <1>1, <2>1, <2>2, <2>3, <2>8, <3>1, <3>2, KeepsOn
  <2> QED
    BY <2>5, <2>6, <2>7, <2>8
<1>8. \A v \in Workers : AtWork(v)' => LoadedRow(v)'
  BY <1>1 DEF LogInv, AtWork, LoadedRow
<1> QED
  BY <1>5, <1>7, <1>8 DEF LogInv

\* The clock and the settings page: a webhook deleted is all that takes rows.
LEMMA LogElsewhere ==
    ASSUME TypeOK, TypeOK', LogInv, Clock \/ Team \/ Admin
    PROVE  LogInv'
<1>0. last \in Nat
  BY ConstantTypes DEF TypeOK
<1>1. CASE Clock \/ CommitUpdate \/ (\E flag \in BOOLEAN : ArchiveTeam(flag))
  <2>1. UNCHANGED <<last, target, status, hookState, pc, snap, floor>>
    BY <1>1 DEF Clock, RetryComesDue, ClaimLapses, hookVars, workerVars, CommitUpdate,
                ArchiveTeam, deliveryVars
  <2>2. NothingAhead' /\ \A h : RowsOf(h)' = RowsOf(h)
    BY <2>1 DEF LogInv, NothingAhead, RowsOf, Rows
  <2> QED
    BY <1>0, <2>1, <2>2, LogQuiet DEF AtWork
<1>2. CASE Team
  BY <1>2, LogEnqueue DEF Team, Emit
<1>3. ASSUME NEW h \in Hooks, Ping(h)
      PROVE  LogInv'
  BY <1>3, LogEnqueue DEF Ping
<1>4. ASSUME NEW h \in Hooks, CreateWebhook(h) \/ \E want \in BOOLEAN : BeginUpdate(h, want)
      PROVE  LogInv'
  <2>1. /\ UNCHANGED <<last, target, status, pc, snap, floor>>
        /\ \A x \in Hooks : hookState[x] = "deleted" => hookState'[x] = "deleted"
    BY <1>4 DEF CreateWebhook, BeginUpdate, deliveryVars, hookVars, workerVars, TypeOK
  <2>2. NothingAhead' /\ \A x : RowsOf(x)' = RowsOf(x)
    BY <2>1 DEF LogInv, NothingAhead, RowsOf, Rows
  <2> QED
    BY <1>0, <2>1, <2>2, LogQuiet DEF AtWork
<1>5. ASSUME NEW h \in Hooks, DeleteWebhook(h)
      PROVE  LogInv'
  <2>1. /\ UNCHANGED <<last, target, pc, snap, floor>>
        /\ status' = [d \in Ids |-> IF d \in RowsOf(h) THEN "gone" ELSE status[d]]
        /\ hookState'[h] = "deleted" /\ \A x \in Hooks \ {h} : hookState'[x] = hookState[x]
    BY <1>5 DEF DeleteWebhook, workerVars, TypeOK
  <2>2. NothingAhead' /\ \A x : x # h => RowsOf(x) \subseteq RowsOf(x)'
    BY <2>1 DEF LogInv, NothingAhead, RowsOf, Rows, RowStatus
  <2> QED
    BY <1>0, <2>1, <2>2, LogQuiet DEF AtWork
<1> QED
  BY <1>1, <1>2, <1>3, <1>4, <1>5 DEF Admin

\* A row of a webhook that stays goes by a loop's prune, below its floor.
LEMMA ForgottenByPrune ==
    ASSUME TypeOK, LogInv, [Next]_vars, NEW h \in Hooks, hookState'[h] = "live",
           NEW d \in RowsOf(h), status'[d] = "gone"
    PROVE  \E w \in Workers : PruneDelete(w) /\ target[snap[w].d] = h /\ d < floor[w]
<1>0. d \in Ids /\ d \in Rows /\ target[d] = h /\ status[d] # "gone"
  BY DEF RowsOf, Rows, RowStatus
<1>1. ASSUME NEW w \in Workers, Tick(w), ~PruneDelete(w)
      PROVE  FALSE
  <2>1. CASE Select(w) \/ Claim(w) \/ Forget(w) \/ PruneSelect(w)
    BY <1>0, <2>1 DEF Select, Claim, Forget, PruneSelect, deliveryVars
  <2>2. ASSUME NEW e \in Ids, LoadGone(w, e) \/ SkipSwitchedOff(w, e) \/ LoadAndPost(w, e)
        PROVE  FALSE
    <3>1. CASE LoadGone(w, e) \/ LoadAndPost(w, e)
      BY <1>0, <3>1 DEF LoadGone, Forget, LoadAndPost, deliveryVars
    <3>2. CASE SkipSwitchedOff(w, e)
      BY <1>0, <3>2 DEF SkipSwitchedOff, SkipAs, TypeOK
    <3> QED
      BY <2>2, <3>1, <3>2
  <2>3. CASE Record(w)
    <3>1. CASE RecordGone(w) \/ RecordRetry(w)
      BY <1>0, <3>1 DEF RecordGone, Forget, RecordRetry, deliveryVars
    <3>2. ASSUME NEW outcome \in {"succeeded", "failed"},
                 status' = [status EXCEPT ![snap[w].d] = Put(snap[w].status, outcome, @)]
          PROVE  FALSE
      <4>1. \A new : Put(snap[w].status, outcome, new) \in {outcome, new}
        BY DEF Put
      <4>2. status'[d] \in {status[d], outcome}
        BY <1>0, <3>2, <4>1 DEF TypeOK
      <4> QED
        BY <1>0, <4>2
    <3>3. CASE RecordSuccess(w) \/ RecordFailure(w)
      BY <3>2, <3>3 DEF RecordSuccess, RecordFailure, RecordLast
    <3> QED
      BY <2>3, <3>1, <3>3 DEF Record
  <2> QED
    BY <1>1, <2>1, <2>2, <2>3 DEF Tick, Process
<1>2. ASSUME NEW w \in Workers, PruneDelete(w)
      PROVE  target[snap[w].d] = h /\ d < floor[w]
  <2>1. PICK old : /\ old = {e \in Settled(target[snap[w].d]) : e < floor[w]}
                   /\ status' = [e \in Ids |-> IF e \in old THEN "gone" ELSE status[e]]
    BY <1>2 DEF PruneDelete, Delete
  <2>2. d \in old
    BY <1>0, <2>1
  <2> QED
    BY <1>0, <2>1, <2>2 DEF Settled, RowsOf
<1>3. ASSUME NEW w \in Workers, Crash(w)
      PROVE  FALSE
  BY <1>0, <1>3 DEF Crash, Forget, deliveryVars
<1>4. ASSUME NEW listeners, Enqueue(listeners)
      PROVE  FALSE
  <2>1. PICK m \in (last + 1)..MaxDeliveries :
           status' = [e \in Ids |-> IF e \in (last + 1)..m THEN "pending" ELSE status[e]]
    BY <1>4, EnqueueStep
  <2> QED
    BY <1>0, <2>1
<1>5. ASSUME NEW x \in Hooks, DeleteWebhook(x)
      PROVE  FALSE
  <2>1. x # h
    BY <1>5 DEF DeleteWebhook, TypeOK
  <2> QED
    BY <1>0, <1>5, <2>1 DEF DeleteWebhook, RowsOf
<1>6. Clock \/ CommitUpdate \/ (\E flag \in BOOLEAN : ArchiveTeam(flag)) => status' = status
  BY DEF Clock, RetryComesDue, ClaimLapses, CommitUpdate, ArchiveTeam, deliveryVars
<1>7. \A x \in Hooks : CreateWebhook(x) \/ (\E want \in BOOLEAN : BeginUpdate(x, want))
                         => status' = status
  BY DEF CreateWebhook, BeginUpdate, deliveryVars
<1>8. UNCHANGED vars => status' = status
  BY DEF vars, deliveryVars
<1> QED
  BY <1>0, <1>1, <1>2, <1>3, <1>4, <1>5, <1>6, <1>7, <1>8 DEF Next, Team, Emit, Admin, Ping

\* However the loops prune, together they leave a webhook that stays its newest
\* Keep deliveries.
THEOREM LogCorrect == Spec => LogKept
<1>1. Init => LogInv
  BY DEF Init, LogInv, NothingAhead, AtWork
<1>2. TypeOK /\ TypeOK' /\ LogInv /\ [Next]_vars => LogInv'
  <2> SUFFICES ASSUME TypeOK, TypeOK', LogInv, [Next]_vars
               PROVE  LogInv'
    OBVIOUS
  <2>1. ASSUME NEW w \in Workers, Tick(w)
        PROVE  LogInv'
    BY <2>1, LogTick, LogSelect, LogDelete DEF Tick
  <2>2. ASSUME NEW w \in Workers, Crash(w)
        PROVE  LogInv'
    BY <2>2, LogForget DEF Crash
  <2>3. CASE UNCHANGED vars
    BY <2>3 DEF vars, deliveryVars, hookVars, workerVars, LogInv, NothingAhead, AtWork, LoadedRow,
                Keeps, From, RowsOf, Rows
  <2> QED
    BY <2>1, <2>2, <2>3, LogElsewhere DEF Next
<1>3. TypeOK /\ LogInv /\ [Next]_vars
        => [\A h \in Hooks : hookState'[h] = "live" =>
               \A d \in RowsOf(h) : status'[d] = "gone" =>
                   Cardinality({e \in RowsOf(h) : e > d}) >= Keep]_vars
  <2> SUFFICES ASSUME TypeOK, LogInv, [Next]_vars, NEW h \in Hooks, hookState'[h] = "live",
                      NEW d \in RowsOf(h), status'[d] = "gone"
               PROVE  Cardinality({e \in RowsOf(h) : e > d}) >= Keep
    OBVIOUS
  <2>1. \E w \in Workers : PruneDelete(w) /\ target[snap[w].d] = h /\ d < floor[w]
    BY ForgottenByPrune
  <2>2. PICK w \in Workers : PruneDelete(w) /\ target[snap[w].d] = h /\ d < floor[w]
    BY <2>1
  <2>3. hookState[h] = "live"
    BY <2>2 DEF PruneDelete, Delete, hookVars
  <2>4. Cardinality(From(h, floor[w])) >= Keep
    BY <2>2, <2>3 DEF PruneDelete, Delete, LogInv, Keeps
  <2>5. From(h, floor[w]) \subseteq {e \in RowsOf(h) : e > d}
    <3>1. PICK n \in Int : n = floor[w]
      BY DEF TypeOK, Ids
    <3>2. d \in Int /\ \A e \in RowsOf(h) : e \in Int
      BY DEF RowsOf, Rows, Ids
    <3>3. d < n
      BY <2>2, <3>1
    <3>4. From(h, n) \subseteq {e \in RowsOf(h) : e > d}
      <4> SUFFICES ASSUME NEW e \in RowsOf(h), e >= n
                   PROVE  e > d
        BY DEF From
      <4> QED
        BY <3>1, <3>2, <3>3
    <3> QED
      BY <3>1, <3>4
  <2>6. /\ IsFiniteSet({e \in RowsOf(h) : e > d})
        /\ Cardinality({e \in RowsOf(h) : e > d}) \in Nat
        /\ Cardinality(From(h, floor[w])) \in Nat
    BY RowsFinite DEF From
  <2>7. Cardinality(From(h, floor[w])) <= Cardinality({e \in RowsOf(h) : e > d})
    BY <2>5, <2>6, FS_Subset
  <2> QED
    BY <2>4, <2>6, <2>7, OutboxAssumption
<1> QED
  BY <1>1, <1>2, <1>3, TypeCorrect, PTL DEF Spec, LogKept
=============================================================================
