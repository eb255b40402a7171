---------------------------- MODULE WebhookOutbox ----------------------------
(***************************************************************************)
(* The outbound webhook outbox of backend/lib_softtrack/outbound.py.       *)
(*                                                                         *)
(* An event is written to the webhookdelivery table in the transaction     *)
(* that causes it.  Delivery loops, one in every API process, select what  *)
(* is due, claim it with one UPDATE, and then load, POST and record each   *)
(* claimed delivery in transactions of their own, while admins edit the    *)
(* webhooks and archive the team.                                          *)
(*                                                                         *)
(* One variable per database column the code decides on, one record of     *)
(* locals per loop.  Clock readings become three flags: a row's `due`      *)
(* says next_attempt_at has come, a claim is "running" until claimed_until *)
(* and "lapsed" after it, and `sawLapsed` remembers which claims were over *)
(* at the one `now` a tick reads when it starts.                           *)
(***************************************************************************)
EXTENDS Naturals, FiniteSets, Functions

CONSTANTS
    Workers,        \* API processes running webhook_loop
    Hooks,          \* outboundwebhook rows that may ever exist
    NoHook,         \* the target of a row not written yet
    MaxDeliveries,  \* bound: how many deliveries are ever queued
    MaxAttempts,    \* MAX_ATTEMPTS
    DisableAfter,   \* DISABLE_AFTER
    Keep,           \* KEEP_DELIVERIES
    Batch,          \* how many due rows one tick selects
    Overrun,        \* whether a batch may take longer than CLAIM_FOR
    CrashBudget,    \* bound: how often a process dies
    EditBudget      \* bound: how many admin requests change a webhook

ASSUME OutboxAssumption ==
    /\ NoHook \notin Hooks
    /\ {MaxDeliveries, MaxAttempts, DisableAfter, Keep, Batch} \subseteq Nat \ {0}
    /\ {CrashBudget, EditBudget} \subseteq Nat
    /\ Overrun \in BOOLEAN

Ids == 1..MaxDeliveries

VARIABLES
    last,       \* the id handed out last
    target,     \* webhook_id
    status,     \* status, with "unborn" and "gone" for a row that is not there
    attempts,   \* attempts
    due,        \* next_attempt_at <= now
    claim,      \* claimed_until: null, in the future, or past
    hookState,  \* whether the outboundwebhook row is there
    enabled,    \* is_enabled
    failures,   \* consecutive_failures
    reason,     \* disabled_reason is set
    archived,   \* the team's archived_at is set
    pc,         \* where each loop is in its tick
    picked,     \* the due ids its SELECT returned
    sawLapsed,  \* of those, the ones whose claim was over at its `now`
    mine,       \* the claimed ids it has not finished
    snap,       \* the row and webhook as loaded before the POST
    floor,      \* the oldest id its _prune keeps
    edit,       \* an update_webhook request between its load and its commit
    crashes, edits

deliveryVars == <<last, target, status, attempts, due, claim>>
hookVars     == <<hookState, enabled, failures, reason, archived>>
workerVars   == <<pc, picked, sawLapsed, mine, snap, floor>>
adminVars    == <<edit, edits>>
vars == <<deliveryVars, hookVars, workerVars, adminVars, crashes>>

RowStatus == {"pending", "succeeded", "failed"}
Rows == {d \in Ids : status[d] \in RowStatus}

NoSnap == [d |-> 0, attempts |-> 0, status |-> "unborn", claimed |-> FALSE,
           failures |-> 0, reason |-> FALSE]
NoEdit == [hook |-> NoHook, want |-> FALSE, enabled |-> FALSE,
           failures |-> 0, reason |-> FALSE]

Snap == [d : Ids \cup {0}, attempts : Nat, status : RowStatus \cup {"unborn"},
         claimed : BOOLEAN, failures : Nat, reason : BOOLEAN]
Edit == [hook : Hooks \cup {NoHook}, want : BOOLEAN, enabled : BOOLEAN,
         failures : Nat, reason : BOOLEAN]

\* Every column holds a value of its kind, every local an id or a loaded row.
TypeOK ==
    /\ last \in 0..MaxDeliveries
    /\ target \in [Ids -> Hooks \cup {NoHook}]
    /\ \A d \in Rows : target[d] \in Hooks
    /\ status \in [Ids -> RowStatus \cup {"unborn", "gone"}]
    /\ attempts \in [Ids -> Nat]
    /\ due \in [Ids -> BOOLEAN]
    /\ claim \in [Ids -> {"none", "running", "lapsed"}]
    /\ hookState \in [Hooks -> {"new", "live", "deleted"}]
    /\ enabled \in [Hooks -> BOOLEAN]
    /\ failures \in [Hooks -> Nat]
    /\ reason \in [Hooks -> BOOLEAN]
    /\ archived \in BOOLEAN
    /\ pc \in [Workers -> {"idle", "selected", "claimed", "posting", "pruning",
                          "deleting"}]
    /\ picked \in [Workers -> SUBSET Ids]
    /\ sawLapsed \in [Workers -> SUBSET Ids]
    /\ mine \in [Workers -> SUBSET Ids]
    /\ snap \in [Workers -> Snap]
    /\ floor \in [Workers -> Ids \cup {0}]
    /\ edit \in Edit
    /\ crashes \in 0..CrashBudget
    /\ edits \in 0..EditBudget

Init ==
    /\ last = 0
    /\ target = [d \in Ids |-> NoHook]
    /\ status = [d \in Ids |-> "unborn"]
    /\ attempts = [d \in Ids |-> 0]
    /\ due = [d \in Ids |-> FALSE]
    /\ claim = [d \in Ids |-> "none"]
    /\ hookState = [h \in Hooks |-> "new"]
    /\ enabled = [h \in Hooks |-> FALSE]
    /\ failures = [h \in Hooks |-> 0]
    /\ reason = [h \in Hooks |-> FALSE]
    /\ archived = FALSE
    /\ pc = [w \in Workers |-> "idle"]
    /\ picked = [w \in Workers |-> {}]
    /\ sawLapsed = [w \in Workers |-> {}]
    /\ mine = [w \in Workers |-> {}]
    /\ snap = [w \in Workers |-> NoSnap]
    /\ floor = [w \in Workers |-> 0]
    /\ edit = NoEdit
    /\ crashes = 0
    /\ edits = 0

(***************************************************************************)
(* SQLAlchemy's UPDATE names only the columns whose value differs from the *)
(* one loaded; the others keep whatever the database holds by then.        *)
(***************************************************************************)
Put(loaded, new, current) == IF new = loaded THEN current ELSE new

(***************************************************************************)
(* Emitting                                                                *)
(***************************************************************************)
Enqueue(listeners) ==
    \E m \in (last + 1)..MaxDeliveries : \E f \in Bijection((last + 1)..m, listeners) :
        LET new == (last + 1)..m
        IN  /\ last' = m
            /\ target' = [d \in Ids |-> IF d \in new THEN f[d] ELSE target[d]]
            /\ status' = [d \in Ids |-> IF d \in new THEN "pending" ELSE status[d]]
            /\ due' = [d \in Ids |-> IF d \in new THEN TRUE ELSE due[d]]
            /\ UNCHANGED <<attempts, claim, hookVars, workerVars, adminVars, crashes>>

Listening(h) == hookState[h] = "live" /\ enabled[h]

\* A change on the team commits together with a row per subscribed webhook.
Emit(subscribed) ==
    /\ ~archived
    /\ {h \in subscribed : Listening(h)} # {}
    /\ Enqueue({h \in subscribed : Listening(h)})

\* An admin's test event, to one webhook.
Ping(h) ==
    /\ Listening(h)
    /\ ~archived
    /\ Enqueue({h})

(***************************************************************************)
(* One tick of a delivery loop                                             *)
(***************************************************************************)
Due == {d \in Ids : status[d] = "pending" /\ due[d]}
FirstDue == {d \in Due : Cardinality({e \in Due : e < d}) < Batch}

\* deliver_due's SELECT: the lowest due ids, held by somebody or not.
Select(w) ==
    /\ pc[w] = "idle"
    /\ Due # {}
    /\ pc' = [pc EXCEPT ![w] = "selected"]
    /\ picked' = [picked EXCEPT ![w] = FirstDue]
    /\ sawLapsed' = [sawLapsed EXCEPT ![w] = {d \in FirstDue : claim[d] = "lapsed"}]
    /\ UNCHANGED <<deliveryVars, hookVars, mine, snap, floor, adminVars, crashes>>

\* Mutant: an UPDATE without its WHERE on claimed_until.
ClaimableHeld(w) == picked[w] \cap Rows

Claimable(w) ==
    {d \in picked[w] \cap Rows :
        \/ claim[d] = "none"
        \/ claim[d] = "lapsed" /\ d \in sawLapsed[w]}

\* _claim: one UPDATE that re-reads claimed_until, and nothing else.
Claim(w) ==
    /\ pc[w] = "selected"
    /\ claim' = [d \in Ids |-> IF d \in Claimable(w) THEN "running" ELSE claim[d]]
    /\ mine' = [mine EXCEPT ![w] = Claimable(w)]
    /\ pc' = [pc EXCEPT ![w] = IF Claimable(w) = {} THEN "idle" ELSE "claimed"]
    /\ picked' = [picked EXCEPT ![w] = {}]
    /\ sawLapsed' = [v \in Workers |->
                        IF v = w THEN {} ELSE sawLapsed[v] \ Claimable(w)]
    /\ UNCHANGED <<last, target, status, attempts, due, hookVars, snap, floor, adminVars,
                   crashes>>

\* An exception, or the process dying: every local of the tick is lost and
\* what it had claimed stays claimed.
Forget(w) ==
    /\ pc' = [pc EXCEPT ![w] = "idle"]
    /\ picked' = [picked EXCEPT ![w] = {}]
    /\ sawLapsed' = [sawLapsed EXCEPT ![w] = {}]
    /\ mine' = [mine EXCEPT ![w] = {}]
    /\ snap' = [snap EXCEPT ![w] = NoSnap]
    /\ floor' = [floor EXCEPT ![w] = 0]
    /\ UNCHANGED <<deliveryVars, hookVars, adminVars>>

\* Done with one delivery; the tick ends with the last of them.
Drop(w, d) ==
    /\ mine' = [mine EXCEPT ![w] = @ \ {d}]
    /\ snap' = [snap EXCEPT ![w] = NoSnap]
    /\ UNCHANGED <<picked, sawLapsed>>

Resume(w, left) == pc' = [pc EXCEPT ![w] = IF left = {} THEN "idle" ELSE "claimed"]

\* The row was pruned or deleted with its webhook since it was claimed:
\* `delivery.webhook_id` on None ends the tick.
LoadGone(w, d) ==
    /\ pc[w] = "claimed" /\ d \in mine[w]
    /\ d \notin Rows
    /\ Forget(w)
    /\ UNCHANGED crashes

\* Queued before the webhook was switched off or the team archived.  Read and
\* commit are one step: no POST lies between, the row is the loop's own while its
\* claim runs, and an admin's request in between writes nothing this commit does.
SkipAs(w, d, outcome) ==
    /\ pc[w] = "claimed" /\ d \in mine[w]
    /\ d \in Rows
    /\ archived \/ ~enabled[target[d]]
    /\ status' = [status EXCEPT ![d] = outcome]
    /\ due' = [due EXCEPT ![d] = FALSE]
    /\ Drop(w, d)
    /\ Resume(w, mine[w] \ {d})
    /\ UNCHANGED <<last, target, attempts, claim, hookVars, floor, adminVars, crashes>>

\* Mutant: the row left pending.
SkipUnsettled(w, d) == SkipAs(w, d, "pending")

SkipSwitchedOff(w, d) == SkipAs(w, d, "failed")

\* The delivery and its webhook as they are now; then the POST begins.
LoadAndPost(w, d) ==
    /\ pc[w] = "claimed" /\ d \in mine[w]
    /\ d \in Rows
    /\ ~archived /\ enabled[target[d]]
    /\ snap' = [snap EXCEPT ![w] =
                   [d |-> d, attempts |-> attempts[d], status |-> status[d],
                    claimed |-> claim[d] # "none",
                    failures |-> failures[target[d]], reason |-> reason[target[d]]]]
    /\ pc' = [pc EXCEPT ![w] = "posting"]
    /\ UNCHANGED <<deliveryVars, hookVars, picked, sawLapsed, mine, floor,
                   adminVars, crashes>>

\* The row went while the POST was out: the UPDATE matches nothing and raises.
RecordGone(w) ==
    /\ pc[w] = "posting"
    /\ snap[w].d \notin Rows
    /\ Forget(w)
    /\ UNCHANGED crashes

\* Columns _attempt writes whatever the outcome.
RecordTries(w, n) ==
    LET d == snap[w].d
    IN  /\ pc[w] = "posting"
        /\ d \in Rows
        /\ attempts' = [attempts EXCEPT ![d] = n]
        /\ claim' = [claim EXCEPT ![d] = IF snap[w].claimed THEN "none" ELSE @]
        /\ due' = [due EXCEPT ![d] = FALSE]
        /\ pc' = [pc EXCEPT ![w] = "pruning"]
        /\ mine' = [mine EXCEPT ![w] = @ \ {d}]
        /\ UNCHANGED <<last, target, picked, sawLapsed, snap, floor, hookState,
                       archived, adminVars, crashes>>

RecordAttempt(w) == RecordTries(w, snap[w].attempts + 1)

\* A 2xx: the delivery is done and the webhook's run of failures ends.
RecordSuccess(w) ==
    LET s == snap[w]
        h == target[s.d]
    IN  /\ RecordAttempt(w)
        /\ status' = [status EXCEPT ![s.d] = Put(s.status, "succeeded", @)]
        /\ failures' = [failures EXCEPT ![h] = Put(s.failures, 0, @)]
        /\ UNCHANGED <<enabled, reason>>

\* Mutants: every failed try counted against the webhook; one try too many.
RecordRetryCounted(w) ==
    /\ RecordAttempt(w)
    /\ snap[w].attempts + 1 < MaxAttempts
    /\ failures' = [failures EXCEPT ![target[snap[w].d]] = @ + 1]
    /\ UNCHANGED <<status, enabled, reason>>
RecordRetryTooOften(w) ==
    /\ RecordAttempt(w)
    /\ snap[w].attempts + 1 <= MaxAttempts
    /\ UNCHANGED <<status, enabled, failures, reason>>

\* Anything else with tries left: next_attempt_at moves into the future.
RecordRetry(w) ==
    /\ RecordAttempt(w)
    /\ snap[w].attempts + 1 < MaxAttempts
    /\ UNCHANGED <<status, enabled, failures, reason>>

\* The last try failed: it counts against the webhook, which may switch off.
RecordLast(w, off) ==
    LET s == snap[w]
        h == target[s.d]
    IN  /\ RecordAttempt(w)
        /\ s.attempts + 1 >= MaxAttempts
        /\ status' = [status EXCEPT ![s.d] = Put(s.status, "failed", @)]
        /\ failures' = [failures EXCEPT ![h] = s.failures + 1]
        /\ enabled' = [enabled EXCEPT ![h] = IF off THEN FALSE ELSE @]
        /\ reason' = [reason EXCEPT ![h] = IF off THEN Put(s.reason, TRUE, @) ELSE @]

RecordFailure(w) == RecordLast(w, snap[w].failures + 1 >= DisableAfter)

RowsOf(h) == {d \in Rows : target[d] = h}
Newest(h) == {d \in RowsOf(h) : Cardinality({e \in RowsOf(h) : e > d}) < Keep}

\* _prune's SELECT, after the attempt is committed.  A webhook deleted in
\* between fails the refresh of `hook.id`.
PruneSelect(w) ==
    LET h == target[snap[w].d]
    IN  /\ pc[w] = "pruning"
        /\ \/ hookState[h] # "live" /\ Forget(w)
           \/ /\ hookState[h] = "live"
              /\ IF Cardinality(RowsOf(h)) < Keep
                 THEN Drop(w, snap[w].d) /\ Resume(w, mine[w]) /\ UNCHANGED floor
                 ELSE /\ \E oldest \in Newest(h) :
                          /\ \A d \in Newest(h) : oldest <= d
                          /\ floor' = [floor EXCEPT ![w] = oldest]
                      /\ pc' = [pc EXCEPT ![w] = "deleting"]
                      /\ UNCHANGED <<picked, sawLapsed, mine, snap>>
              /\ UNCHANGED <<deliveryVars, hookVars, adminVars>>
        /\ UNCHANGED crashes

\* _prune's DELETE, of the rows it names.
Delete(w, old) ==
    /\ pc[w] = "deleting"
    /\ status' = [d \in Ids |-> IF d \in old THEN "gone" ELSE status[d]]
    /\ floor' = [floor EXCEPT ![w] = 0]
    /\ Drop(w, snap[w].d)
    /\ Resume(w, mine[w])
    /\ UNCHANGED <<last, target, attempts, due, claim, hookVars, adminVars, crashes>>

Settled(h) == {d \in RowsOf(h) : status[d] # "pending"}

\* Mutants: pending rows pruned too; the oldest row kept pruned too.
PruneDeletePending(w) == Delete(w, {d \in RowsOf(target[snap[w].d]) : d < floor[w]})
PruneDeleteInclusive(w) == Delete(w, {d \in Settled(target[snap[w].d]) : d <= floor[w]})

\* Settled rows older than the newest Keep the SELECT saw.
PruneDelete(w) == Delete(w, {d \in Settled(target[snap[w].d]) : d < floor[w]})

Crash(w) ==
    /\ pc[w] # "idle"
    /\ crashes < CrashBudget
    /\ crashes' = crashes + 1
    /\ Forget(w)

(***************************************************************************)
(* Time                                                                    *)
(***************************************************************************)
\* BACKOFF has passed since the attempt that failed.
RetryComesDue(d) ==
    /\ status[d] = "pending" /\ ~due[d]
    /\ due' = [due EXCEPT ![d] = TRUE]
    /\ UNCHANGED <<last, target, status, attempts, claim, hookVars, workerVars,
                   adminVars, crashes>>

\* CLAIM_FOR has passed since the claim.  Without Overrun a loop always
\* finishes first, so only an abandoned claim lapses.
ClaimLapses(d) ==
    /\ claim[d] = "running"
    /\ Overrun \/ \A w \in Workers : d \notin mine[w]
    /\ claim' = [claim EXCEPT ![d] = "lapsed"]
    /\ UNCHANGED <<last, target, status, attempts, due, hookVars, workerVars,
                   adminVars, crashes>>

(***************************************************************************)
(* The settings page                                                       *)
(***************************************************************************)
EditAllowed == edits < EditBudget /\ edits' = edits + 1

CreateWebhook(h) ==
    /\ hookState[h] = "new"
    /\ hookState' = [hookState EXCEPT ![h] = "live"]
    /\ enabled' = [enabled EXCEPT ![h] = TRUE]
    /\ UNCHANGED <<deliveryVars, failures, reason, archived, workerVars, adminVars, crashes>>

\* update_webhook loads the row, then may resolve a new URL's host ...
BeginUpdate(h, want) ==
    /\ edit = NoEdit
    /\ hookState[h] = "live"
    /\ EditAllowed
    /\ edit' = [hook |-> h, want |-> want, enabled |-> enabled[h],
                failures |-> failures[h], reason |-> reason[h]]
    /\ UNCHANGED <<deliveryVars, hookVars, workerVars, crashes>>

\* ... and then commits; turning a webhook on is meant as a fresh start.
CommitUpdate ==
    LET h == edit.hook
        fresh == edit.want /\ ~edit.enabled
    IN  /\ edit # NoEdit
        /\ edit' = NoEdit
        /\ IF hookState[h] = "live"
           THEN /\ enabled' = [enabled EXCEPT ![h] = Put(edit.enabled, edit.want, @)]
                /\ failures' = [failures EXCEPT
                       ![h] = IF fresh THEN Put(edit.failures, 0, @) ELSE @]
                /\ reason' = [reason EXCEPT
                       ![h] = IF fresh THEN Put(edit.reason, FALSE, @) ELSE @]
           ELSE UNCHANGED <<enabled, failures, reason>>
        /\ UNCHANGED <<deliveryVars, hookState, archived, workerVars, edits, crashes>>

\* The deliveries go with their webhook, claimed or not.
DeleteWebhook(h) ==
    /\ hookState[h] = "live"
    /\ EditAllowed
    /\ hookState' = [hookState EXCEPT ![h] = "deleted"]
    /\ status' = [d \in Ids |-> IF d \in RowsOf(h) THEN "gone" ELSE status[d]]
    /\ UNCHANGED <<last, target, attempts, due, claim, enabled, failures, reason,
                   archived, workerVars, edit, crashes>>

ArchiveTeam(flag) ==
    /\ archived # flag
    /\ EditAllowed
    /\ archived' = flag
    /\ UNCHANGED <<deliveryVars, hookState, enabled, failures, reason, workerVars,
                   edit, crashes>>

(***************************************************************************)
(* The specification                                                       *)
(***************************************************************************)
Process(w) == \E d \in Ids : LoadGone(w, d) \/ SkipSwitchedOff(w, d) \/ LoadAndPost(w, d)
Record(w) == RecordGone(w) \/ RecordSuccess(w) \/ RecordRetry(w) \/ RecordFailure(w)
Tick(w) == Select(w) \/ Claim(w) \/ Process(w) \/ Record(w) \/ PruneSelect(w) \/ PruneDelete(w)
Clock == \E d \in Ids : RetryComesDue(d) \/ ClaimLapses(d)
Team == \E subscribed \in SUBSET Hooks : Emit(subscribed)
Admin ==
    \/ \E h \in Hooks : \/ CreateWebhook(h) \/ DeleteWebhook(h) \/ Ping(h)
                        \/ \E want \in BOOLEAN : BeginUpdate(h, want)
    \/ CommitUpdate
    \/ \E flag \in BOOLEAN : ArchiveTeam(flag)

Next ==
    \/ \E w \in Workers : Tick(w) \/ Crash(w)
    \/ Clock
    \/ Team
    \/ Admin

Spec == Init /\ [][Next]_vars

\* webhook_loop ticks forever and outlives an exception; the clock advances.
Fairness ==
    /\ \A w \in Workers : WF_vars(Tick(w))
    /\ \A d \in Ids : WF_vars(RetryComesDue(d)) /\ WF_vars(ClaimLapses(d))

FairSpec == Spec /\ Fairness

(***************************************************************************)
(* Properties                                                              *)
(***************************************************************************)
\* The claim is a lock: no two loops hold one delivery at a time.  The reason
\* claimed_until exists, "so two processes never send the same delivery".
NoDoubleHold ==
    \A v, w \in Workers : v # w => mine[v] \cap mine[w] = {}

\* What the claim protects, between the load of a row and the commit of its
\* result: the row still is as it was loaded, so no try is overwritten.
SnapIsCurrent ==
    \A w \in Workers : pc[w] = "posting" =>
        LET s == snap[w]
        IN  /\ s.d \in mine[w]
            /\ claim[s.d] = "running" /\ s.claimed
            /\ s.attempts = attempts[s.d]
            /\ s.d \in Rows => s.status = status[s.d]

\* Ids are handed out in order, and a loop only holds rows that were written.
IdsInOrder ==
    /\ \A d \in Ids : d > last => status[d] = "unborn"
    /\ \A w \in Workers : \A d \in mine[w] : d <= last

\* A claim runs for as long as its loop works on the row.
ClaimOutlastsWork == \A w \in Workers : \A d \in mine[w] : claim[d] = "running"

\* Together they are inductive while no batch overruns its claim.
LockInv == IdsInOrder /\ ClaimOutlastsWork /\ NoDoubleHold /\ SnapIsCurrent

\* The table and the loops over it: every column and local keeps its type, and
\* the claim is a lock.
OutboxSafe == TypeOK /\ LockInv

\* Every try is counted, and once: `attempts` of a row never falls back and
\* never jumps, however many loops send.
TriesCountedOnce ==
    [][\A d \in Ids : attempts'[d] \in {attempts[d], attempts[d] + 1}]_vars

\* A claim says nothing of the row's status, so a loop that selected a row
\* before another settled it sends it again: once per other loop, no more.
ResendsBounded ==
    \A d \in Ids : attempts[d] <= MaxAttempts + Cardinality(Workers) - 1

\* A delivery that fails every try counts against its webhook, once:
\* consecutive_failures never exceeds the deliveries that used every try.
FailuresAreDeliveries ==
    \A h \in Hooks :
        failures[h] <= Cardinality({d \in Ids : target[d] = h /\ attempts[d] >= MaxAttempts})

\* The log keeps the newest Keep deliveries of a live webhook, whichever loops
\* prune it and whatever is queued meanwhile.
LogKept ==
    [][\A h \in Hooks : hookState'[h] = "live" =>
          \A d \in RowsOf(h) : status'[d] = "gone" =>
              Cardinality({e \in RowsOf(h) : e > d}) >= Keep]_vars

\* Deliveries whose webhook takes none just now, and those whose webhook is gone.
Stopped == {d \in Ids : target[d] # NoHook /\ (archived \/ ~enabled[target[d]])}
Orphaned == {d \in Ids : target[d] # NoHook /\ hookState[target[d]] = "deleted"}

Contract == INSTANCE DeliveryContract WITH
                Deliveries <- Ids, tries <- attempts, stopped <- Stopped, orphaned <- Orphaned

\* Each delivery is what DeliveryContract promises of it.
KeepsTheContract == Contract!Spec

\* Nothing queued stays pending: crashes, abandoned claims, retries, webhooks
\* switched off and teams archived included.
EverythingSettles ==
    \A d \in Ids : (status[d] = "pending") ~> (status[d] # "pending")
=============================================================================
