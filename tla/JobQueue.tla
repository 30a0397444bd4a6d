------------------------------ MODULE JobQueue ------------------------------
(***************************************************************************)
(* The Postgres-backed job queue of core/src/queue.ts: the `jobs` table,   *)
(* the store of accepted snapshots and the health event feed, and every    *)
(* transaction the core runs on them.                                      *)
(*                                                                         *)
(* One action is one committed transaction.  Each of them takes row locks  *)
(* (SELECT ... FOR UPDATE) on the rows it decides about, or is a single    *)
(* statement arbitrated by the partial unique index, so a transaction that *)
(* commits is atomic; one that aborts (a crash of the core, a unique       *)
(* violation) leaves the tables alone, which is a stuttering step.         *)
(*                                                                         *)
(* Timestamps are kept relative to now(): `wait` is not_before - now,      *)
(* `lease` is lease_expires_at - now and `budget` is started_at +          *)
(* deadline_s - now, floored where no guard can tell lower values apart.   *)
(* Tick is the passage of one unit of time.                                *)
(***************************************************************************)
EXTENDS Integers, FiniteSets, Sequences

CONSTANTS
    Job,          \* the job ids the core may draw (ulid())
    Key,          \* the (system, type) pairs
    BatchKey,     \* the keys whose type is of class "batch"
    SnapshotKey,  \* the keys whose type is "snapshot"
    Trigger,      \* the enqueue requests producers make, one id per request
    Limits,       \* the [attempts, deferrals, deadline] a request may ask for
    LeaseTtl,     \* cfg.leaseTtlS
    RetryBase,    \* cfg.retryBaseS
    RetryCap,     \* cfg.retryCapS
    RetryAfter,   \* the retry_after_s values runners send with a deferral
    Retention,    \* cfg.snapshotRetention
    None          \* SQL NULL

VARIABLES
    jobs,      \* the jobs table, by job id
    store,     \* accepted_snapshots of a key's system, oldest first, by job id
    health,    \* the health events recorded about jobs, as <<kind, job>>
    accepted,  \* history: the requests some enqueue has accepted
    quiet      \* history: how long the last deferral of a key still forbids a run

vars == <<jobs, store, health, accepted, quiet>>

PositiveLimits == [attempts : Nat \ {0}, deferrals : Nat \ {0}, deadline : Nat \ {0}]

ASSUME KeyAssumption == BatchKey \subseteq Key /\ SnapshotKey \subseteq BatchKey
ASSUME NoneAssumption == None \notin Job /\ None \notin Key
ASSUME LimitsAssumption == Limits \subseteq PositiveLimits
ASSUME TimeAssumption == /\ LeaseTtl \in Nat \ {0}
                         /\ RetryBase \in Nat
                         /\ RetryCap \in Nat
                         /\ RetryAfter \subseteq Nat
ASSUME RetentionAssumption == Retention \in Nat \ {0}

-----------------------------------------------------------------------------
(* The states of a row.  "absent" is an id not drawn yet, "deleted" a row  *)
(* removed when a requeue absorbed it; neither is a row of the table.      *)

LiveState == {"leased", "running"}
TerminalState == {"succeeded", "dead_lettered", "cancelled", "coalesced"}
RowState == {"queued"} \cup LiveState \cup TerminalState
State == RowState \cup {"absent", "deleted"}

ErrorCode == {"none", "failed", "expired", "deferred", "quota", "rejected", "cancelled"}
HealthKind == {"lease_expired", "attempts_exhausted", "job_dead_lettered",
               "job_cancelled", "deferral_cap_reached", "validation_rejected"}

Row == [state     : State,
        key       : Key \cup {None},
        limits    : [attempts : Nat, deferrals : Nat, deadline : Nat],
        attempt   : Nat \ {0},    \* DEFAULT 1
        deferrals : Nat,
        wait      : Nat,
        token     : Nat,          \* lease_token, numbered by grant; 0 is NULL
        lease     : Int,          \* < 0 once lease_expires_at < now()
        started   : BOOLEAN,      \* started_at IS NOT NULL
        budget    : Int,
        cancel    : BOOLEAN,      \* cancel_requested
        triggers  : SUBSET Trigger,
        error     : ErrorCode,
        into      : Job \cup {None},   \* result_meta.coalesced_into
        grants    : Nat,          \* leases granted so far; the last token drawn
        by        : Nat]          \* history: the token that delivered a result

NoRow(s) ==
    [state |-> s, key |-> None,
     limits |-> [attempts |-> 0, deferrals |-> 0, deadline |-> 0],
     attempt |-> 1, deferrals |-> 0, wait |-> 0, token |-> 0, lease |-> 0,
     started |-> FALSE, budget |-> 0, cancel |-> FALSE, triggers |-> {},
     error |-> "none", into |-> None, grants |-> 0, by |-> 0]

NewRow(k, lim, t) ==
    [NoRow("queued") EXCEPT !.key = k, !.limits = lim, !.triggers = {t}]

IsLive(j) == jobs[j].state \in LiveState
QueuedOf(k) == {i \in Job : jobs[i].state = "queued" /\ jobs[i].key = k}
LiveOf(k) == {i \in Job : IsLive(i) /\ jobs[i].key = k}

\* Fault: a requeue that forgets the follower waiting behind it.
FollowersForgotten(j) == {}

\* The queued rows that a requeue or a deferral of j collides with.
Followers(j) == IF jobs[j].key \in BatchKey THEN QueuedOf(jobs[j].key) \ {j} ELSE {}

\* Fault: the lease check of a live row ignores the token.
HoldsAnyToken(j, tok) == IsLive(j)

\* lockLeased: the caller presents its job id and token.  The lease's expiry
\* is not looked at: a lease nobody swept yet is still honoured.
Holds(j, tok) == IsLive(j) /\ jobs[j].token = tok

MinOf(a, b) == IF a <= b THEN a ELSE b
MaxOf(a, b) == IF a >= b THEN a ELSE b

\* backoffSeconds: exponential, capped, with 20% jitter either way; the delay
\* is rounded up to a whole unit of time.
Backoff(failedAttempt) ==
    LET raw == MinOf(RetryBase * 2 ^ (failedAttempt - 1), RetryCap)
    IN  {d \in 0..(2 * RetryCap + 1) : 8 * raw <= 10 * d /\ 10 * d < 12 * raw + 10}

-----------------------------------------------------------------------------
(* What the UPDATE statements make of a row.                               *)

Merged(r, t) == [r EXCEPT !.triggers = @ \cup {t}]

Marked(r) == [r EXCEPT !.cancel = TRUE]

Released(r, s) == [r EXCEPT !.state = s, !.token = 0, !.lease = 0]

CancelTerminal(r) == [Released(r, "cancelled") EXCEPT !.error = "cancelled"]

DeadLetter(r, e) == [Released(r, "dead_lettered") EXCEPT !.error = e]

\* Fault: the absorbed follower's triggers are not carried over.
RequeuedAlone(r, e, delay, T) ==
    [Released(r, "queued") EXCEPT !.attempt = @ + 1, !.wait = delay, !.error = e]

Requeued(r, e, delay, T) ==
    [Released(r, "queued") EXCEPT !.attempt = @ + 1, !.wait = delay,
                                  !.triggers = T, !.error = e]

Leased(r) == [r EXCEPT !.state = "leased", !.grants = @ + 1, !.token = r.grants + 1,
                       !.lease = LeaseTtl]

\* started_at is set by the first start only, and never cleared.
Started(r) == [r EXCEPT !.state = "running", !.lease = LeaseTtl, !.started = TRUE,
                        !.budget = IF r.started THEN @ ELSE r.limits.deadline]

\* Fault: a beat extends the lease past the deadline.
HeartbeatLeaseUncapped(r) == LeaseTtl

\* A beat grants one more TTL, but not past started_at + deadline_s.
HeartbeatLease(r) == IF r.started THEN MinOf(LeaseTtl, r.budget) ELSE LeaseTtl

Beaten(r) == [r EXCEPT !.lease = HeartbeatLease(r)]

\* Fault: a deferral that is not counted.
DeferredUncounted(r, delay) == [Released(r, "queued") EXCEPT !.wait = delay, !.error = "deferred"]

\* Fault: a deferral that gives the attempt back.
DeferredRefunded(r, delay) ==
    [Released(r, "queued") EXCEPT !.attempt = @ - 1, !.deferrals = @ + 1, !.wait = delay,
                                  !.error = "deferred"]

Deferred(r, delay) ==
    [Released(r, "queued") EXCEPT !.deferrals = @ + 1, !.wait = delay, !.error = "deferred"]

Coalesced(r, survivor) == [Released(r, "coalesced") EXCEPT !.into = survivor]

\* Faults: the survivor keeps its own earlier not_before, or only its own triggers.
SurvivorDueEarly(r, delay, T) == [r EXCEPT !.triggers = @ \cup T]
SurvivorAlone(r, delay, T) == [r EXCEPT !.wait = MaxOf(@, delay)]

Survivor(r, delay, T) == [r EXCEPT !.wait = MaxOf(@, delay), !.triggers = @ \cup T]

Succeeded(r, tok) == [Released(r, "succeeded") EXCEPT !.by = tok]

-----------------------------------------------------------------------------
Init == /\ jobs = [j \in Job |-> NoRow("absent")]
        /\ store = [k \in SnapshotKey |-> <<>>]
        /\ health = {}
        /\ accepted = {}
        /\ quiet = [k \in BatchKey |-> 0]

\* Fault: a request merges into the job that is already running.
EnqueueMergedIntoLive(j, k, t) ==
    /\ k \in BatchKey
    /\ j \in QueuedOf(k) \cup LiveOf(k)
    /\ t \notin accepted
    /\ jobs' = [jobs EXCEPT ![j] = Merged(@, t)]
    /\ accepted' = accepted \cup {t}
    /\ UNCHANGED <<store, health, quiet>>

\* enqueue: a batch request merges into the queued row of its key if there is
\* one (the partial unique index arbitrates), any other request inserts a row.
EnqueueMerged(j, k, t) ==
    /\ k \in BatchKey
    /\ j \in QueuedOf(k)
    /\ t \notin accepted
    /\ jobs' = [jobs EXCEPT ![j] = Merged(@, t)]
    /\ accepted' = accepted \cup {t}
    /\ UNCHANGED <<store, health, quiet>>

EnqueueInserted(j, k, t, lim) ==
    /\ jobs[j].state = "absent"
    /\ k \in BatchKey => QueuedOf(k) = {}
    /\ t \notin accepted
    /\ jobs' = [jobs EXCEPT ![j] = NewRow(k, lim, t)]
    /\ accepted' = accepted \cup {t}
    /\ UNCHANGED <<store, health, quiet>>

\* Fault: the claim does not look for a live row of the same key.
ClaimableAnyKey(j) == jobs[j].state = "queued" /\ jobs[j].wait = 0

\* claimOnce: any row that is due and whose key has no live batch row.  Which
\* of them a claim gets depends on the runner's declarations and on the rows
\* other claims have locked (SKIP LOCKED), so the choice is left open.
Claimable(j) ==
    /\ jobs[j].state = "queued"
    /\ jobs[j].wait = 0
    /\ jobs[j].key \in BatchKey => LiveOf(jobs[j].key) = {}

Claim(j) ==
    /\ Claimable(j)
    /\ jobs' = [jobs EXCEPT ![j] = Leased(@)]
    /\ UNCHANGED <<store, health, accepted, quiet>>

\* startJob
Start(j, tok) ==
    /\ Holds(j, tok)
    /\ jobs' = [jobs EXCEPT ![j] = Started(@)]
    /\ UNCHANGED <<store, health, accepted, quiet>>

\* heartbeatJob
Heartbeat(j, tok) ==
    /\ Holds(j, tok)
    /\ jobs' = [jobs EXCEPT ![j] = Beaten(@)]
    /\ UNCHANGED <<store, health, accepted, quiet>>

\* requeueOrDeadLetter, inside the transaction of a failure, of a deferral past
\* its cap or of the sweep, which records `events` as well.  A requeued batch
\* row absorbs the queued follower of its key: the follower is deleted and its
\* triggers move over.
RequeueOrDeadLetter(j, e, events) ==
    \/ /\ jobs[j].cancel
       /\ jobs' = [jobs EXCEPT ![j] = CancelTerminal(@)]
       /\ health' = health \cup events
    \/ /\ ~jobs[j].cancel
       /\ jobs[j].attempt >= jobs[j].limits.attempts
       /\ jobs' = [jobs EXCEPT ![j] = DeadLetter(@, e)]
       /\ health' = health \cup events \cup {<<"attempts_exhausted", j>>}
    \/ /\ ~jobs[j].cancel
       /\ jobs[j].attempt < jobs[j].limits.attempts
       /\ \E delay \in Backoff(jobs[j].attempt) :
            jobs' = [i \in Job |->
                       IF i = j
                       THEN Requeued(jobs[j], e, delay,
                                     jobs[j].triggers \cup UNION {jobs[f].triggers : f \in Followers(j)})
                       ELSE IF i \in Followers(j) THEN NoRow("deleted") ELSE jobs[i]]
       /\ health' = health \cup events

\* failJob: the runner reports `cancelled`, a final error or a retryable one.
FailCancelled(j, tok) ==
    /\ Holds(j, tok)
    /\ jobs' = [jobs EXCEPT ![j] = CancelTerminal(@)]
    /\ health' = health \cup {<<"job_cancelled", j>>}
    /\ UNCHANGED <<store, accepted, quiet>>

FailFinal(j, tok) ==
    /\ Holds(j, tok)
    /\ jobs' = [jobs EXCEPT ![j] = DeadLetter(@, "failed")]
    /\ health' = health \cup {<<"job_dead_lettered", j>>}
    /\ UNCHANGED <<store, accepted, quiet>>

FailRetryable(j, tok) ==
    /\ Holds(j, tok)
    /\ RequeueOrDeadLetter(j, "failed", {})
    /\ UNCHANGED <<store, accepted, quiet>>

\* deferJob: not honoured when a cancel is pending; past the cap it counts as a
\* retryable failure; otherwise the row goes back to the queue, or coalesces
\* into the queued row that already holds its key.
DeferCancelled(j, tok) ==
    /\ Holds(j, tok)
    /\ jobs[j].cancel
    /\ jobs' = [jobs EXCEPT ![j] = CancelTerminal(@)]
    /\ UNCHANGED <<store, health, accepted, quiet>>

DeferCapped(j, tok) ==
    /\ Holds(j, tok)
    /\ ~jobs[j].cancel
    /\ jobs[j].deferrals + 1 > jobs[j].limits.deferrals
    /\ RequeueOrDeadLetter(j, "quota", {<<"deferral_cap_reached", j>>})
    /\ UNCHANGED <<store, accepted, quiet>>

\* Fault: a deferral that overlooks a pending cancel.
DeferAllowedDespiteCancel(j, tok) ==
    /\ Holds(j, tok)
    /\ jobs[j].deferrals + 1 <= jobs[j].limits.deferrals

DeferAllowed(j, tok) ==
    /\ Holds(j, tok)
    /\ ~jobs[j].cancel
    /\ jobs[j].deferrals + 1 <= jobs[j].limits.deferrals

\* The time a source asked to be left alone binds the whole batch key.
Quieted(j, delay) ==
    [k \in BatchKey |-> IF k = jobs[j].key THEN delay ELSE quiet[k]]

DeferCoalesced(j, tok, delay, survivor) ==
    /\ DeferAllowed(j, tok)
    /\ survivor \in Followers(j)
    /\ jobs' = [jobs EXCEPT ![j] = Coalesced(@, survivor),
                            ![survivor] = Survivor(@, delay, jobs[j].triggers)]
    /\ quiet' = Quieted(j, delay)
    /\ UNCHANGED <<store, health, accepted>>

DeferRequeued(j, tok, delay) ==
    /\ DeferAllowed(j, tok)
    /\ Followers(j) = {}
    /\ jobs' = [jobs EXCEPT ![j] = Deferred(@, delay)]
    /\ quiet' = Quieted(j, delay)
    /\ UNCHANGED <<store, health, accepted>>

\* Fault: retention off by one.
PrunedOneTooMany(s) == IF Len(s) >= Retention THEN SubSeq(s, Len(s) - Retention + 2, Len(s)) ELSE s

\* succeedSnapshot: store the body, keep the newest Retention of the system,
\* succeed the row.  A pending cancel is ignored.
Pruned(s) == IF Len(s) > Retention THEN SubSeq(s, Len(s) - Retention + 1, Len(s)) ELSE s

SucceedSnapshot(j, tok) ==
    /\ Holds(j, tok)
    /\ jobs[j].key \in SnapshotKey
    /\ store' = [store EXCEPT ![jobs[j].key] = Pruned(Append(@, j))]
    /\ jobs' = [jobs EXCEPT ![j] = Succeeded(@, tok)]
    /\ UNCHANGED <<health, accepted, quiet>>

\* Fault: a rejected delivery that nobody hears of.
RejectDeliverySilently(j, tok) ==
    /\ Holds(j, tok)
    /\ jobs[j].key \in SnapshotKey
    /\ jobs' = [jobs EXCEPT ![j] = DeadLetter(@, "rejected")]
    /\ UNCHANGED <<store, health, accepted, quiet>>

\* rejectDelivery: the delivery gate refused the snapshot.
RejectDelivery(j, tok) ==
    /\ Holds(j, tok)
    /\ jobs[j].key \in SnapshotKey
    /\ jobs' = [jobs EXCEPT ![j] = DeadLetter(@, "rejected")]
    /\ health' = health \cup {<<"validation_rejected", j>>}
    /\ UNCHANGED <<store, accepted, quiet>>

\* succeedInline: every other type keeps its result on the row.
SucceedInline(j, tok) ==
    /\ Holds(j, tok)
    /\ jobs[j].key \notin SnapshotKey
    /\ jobs' = [jobs EXCEPT ![j] = Succeeded(@, tok)]
    /\ UNCHANGED <<store, health, accepted, quiet>>

\* cancelJob: a queued row ends at once, a live one is only marked.  Cancelling
\* the queued row of a key forgets the wait its source had asked for.
CancelQueued(j) ==
    /\ jobs[j].state = "queued"
    /\ jobs' = [jobs EXCEPT ![j] = CancelTerminal(@)]
    /\ quiet' = Quieted(j, 0)
    /\ UNCHANGED <<store, health, accepted>>

CancelLive(j) ==
    /\ IsLive(j)
    /\ jobs' = [jobs EXCEPT ![j] = Marked(@)]
    /\ UNCHANGED <<store, health, accepted, quiet>>

\* sweepExpiredLeases: the code sweeps in one transaction every expired row that
\* is not locked (SKIP LOCKED).  The batch rows among them have different keys,
\* so sweeping one after the other reaches the same tables.
Sweep(j) ==
    /\ IsLive(j)
    /\ jobs[j].lease < 0
    /\ RequeueOrDeadLetter(j, "expired", {<<"lease_expired", j>>})
    /\ UNCHANGED <<store, accepted, quiet>>

\* One unit of time passes: now() of the database moves on against the absolute
\* timestamps of the rows.
Aged(r) ==
    [r EXCEPT !.wait = IF r.state = "queued" THEN MaxOf(@ - 1, 0) ELSE @,
              !.lease = IF r.state \in LiveState THEN MaxOf(@ - 1, -1) ELSE @,
              !.budget = IF r.started /\ r.state \notin TerminalState
                         THEN MaxOf(@ - 1, -1) ELSE @]

Tick == /\ jobs' = [j \in Job |-> Aged(jobs[j])]
        /\ quiet' = [k \in BatchKey |-> MaxOf(quiet[k] - 1, 0)]
        /\ UNCHANGED <<store, health, accepted>>

\* A call of a runner with a token it was granted, current or not.
RunnerCall(j, tok) ==
    \/ Start(j, tok)
    \/ Heartbeat(j, tok)
    \/ FailCancelled(j, tok)
    \/ FailFinal(j, tok)
    \/ FailRetryable(j, tok)
    \/ DeferCancelled(j, tok)
    \/ DeferCapped(j, tok)
    \/ \E delay \in RetryAfter :
         \/ DeferRequeued(j, tok, delay)
         \/ \E survivor \in Job : DeferCoalesced(j, tok, delay, survivor)
    \/ SucceedSnapshot(j, tok)
    \/ RejectDelivery(j, tok)
    \/ SucceedInline(j, tok)

Next ==
    \/ \E j \in Job, k \in Key, t \in Trigger :
         \/ EnqueueMerged(j, k, t)
         \/ \E lim \in Limits : EnqueueInserted(j, k, t, lim)
    \/ \E j \in Job :
         \/ Claim(j)
         \/ \E tok \in 1..jobs[j].grants : RunnerCall(j, tok)
         \/ CancelQueued(j)
         \/ CancelLive(j)
         \/ Sweep(j)
    \/ Tick

Spec == Init /\ [][Next]_vars

-----------------------------------------------------------------------------
(* Properties                                                              *)

\* The tables hold rows of their column types (migrations/0001_jobs.sql).
TypeOK ==
    /\ jobs \in [Job -> Row]
    /\ store \in [SnapshotKey -> Seq(Job)]
    /\ health \subseteq HealthKind \X Job
    /\ accepted \subseteq Trigger
    /\ quiet \in [BatchKey -> Nat]

\* Dedupe (module comment of queue.ts, partial unique index of 0001): however
\* enqueues, claims, retries, deferrals and sweeps interleave, a batch key has
\* at most one queued row, so no requeue can hit the index.
OneQueuedPerKey ==
    \A i, j \in Job :
        /\ jobs[i].state = "queued" /\ jobs[j].state = "queued"
        /\ jobs[i].key = jobs[j].key /\ jobs[i].key \in BatchKey
        => i = j

\* "at most one running per key" (module comment of queue.ts): two runners never
\* hold leases for the same batch work.
OneLivePerKey ==
    \A i, j \in Job :
        /\ IsLive(i) /\ IsLive(j)
        /\ jobs[i].key = jobs[j].key /\ jobs[i].key \in BatchKey
        => i = j

\* Fencing (lockLeased): a result that was recorded came from the runner that
\* held the last lease granted on the job, never from a runner whose lease was
\* swept and granted again to another.
DeliveredByLastHolder ==
    \A j \in Job : jobs[j].state = "succeeded" => jobs[j].by = jobs[j].grants

\* "no accepted trigger loses its record" (coalesceIntoQueued): every request the
\* queue ever accepted is recorded on a row that was neither absorbed nor
\* coalesced away, after any number of merges, absorptions and coalescings.
TriggersAccounted ==
    \A t \in accepted : \E j \in Job :
        jobs[j].state \in RowState \ {"coalesced"} /\ t \in jobs[j].triggers

\* Persistent failure ends (requeueOrDeadLetter, deferJob): a job is handed to a
\* runner at most max_attempts + max_deferrals times, whatever mixture of failures,
\* deferrals, expiries and absorptions it goes through.
BoundedExecution ==
    \A j \in Job : jobs[j].grants <= jobs[j].limits.attempts + jobs[j].limits.deferrals

\* A job marked for cancellation while a runner holds it never returns to the
\* queue: failure, deferral and lease expiry all end it (requeueOrDeadLetter,
\* deferJob).
CancelSticks ==
    [][\A j \in Job : IsLive(j) /\ jobs[j].cancel => jobs'[j].state # "queued"]_vars

\* "a survivor that ran at its own earlier time would walk straight back into the
\* same wall" (coalesceIntoQueued): while the wait a deferral asked for lasts, no
\* runner holds a job of that batch key and the queued row is not due before it.
DeferralHonoured ==
    \A k \in BatchKey : quiet[k] > 0 =>
        /\ LiveOf(k) = {}
        /\ \A j \in QueuedOf(k) : jobs[j].wait >= quiet[k]

\* A coalesced row's result_meta.coalesced_into names a row that still exists and
\* that holds every trigger of the coalesced one, unless it coalesced in its turn:
\* the survivor of a coalescing is never itself absorbed.
CoalescedIntoResolves ==
    \A j \in Job : jobs[j].state = "coalesced" =>
        /\ jobs[j].into \in Job
        /\ LET s == jobs[jobs[j].into]
           IN  s.state \in RowState /\ jobs[j].triggers \subseteq s.triggers

\* Acceptance and retention agree with the job history (succeedSnapshot): a key's
\* store holds as many snapshots as jobs of it succeeded, up to Retention, each
\* from a different succeeded job of that key.
StoreMatchesHistory ==
    \A k \in SnapshotKey :
        LET done == {j \in Job : jobs[j].state = "succeeded" /\ jobs[j].key = k}
        IN  /\ Len(store[k]) = MinOf(Retention, Cardinality(done))
            /\ \A m \in 1..Len(store[k]) : store[k][m] \in done
            /\ \A m, n \in 1..Len(store[k]) : store[k][m] = store[k][n] => m = n

\* The health feed agrees with the outcome of jobs (deadLetter is the one writer of
\* error-severity events): a job has raised an alarm exactly when it is dead-lettered,
\* so no retry, deferral or cancellation raises one and no dead job stays silent.
Alarm == {"attempts_exhausted", "job_dead_lettered", "validation_rejected"}
AlarmedIffDead ==
    \A j \in Job : jobs[j].state = "dead_lettered" <=> \E a \in Alarm : <<a, j>> \in health

-----------------------------------------------------------------------------
(* The queue implements RequestService on its batch keys: the triggers of  *)
(* the queued row wait, those of the live row are being served.            *)

TriggersOf(k, S) == UNION {jobs[j].triggers : j \in {i \in Job : jobs[i].key = k /\ jobs[i].state \in S}}

waitingBar == [k \in BatchKey |-> TriggersOf(k, {"queued"})]
servingBar == [k \in BatchKey |-> TriggersOf(k, LiveState)]
servedBar  == [k \in BatchKey |-> TriggersOf(k, {"succeeded"})]
droppedBar == [k \in BatchKey |-> TriggersOf(k, {"dead_lettered", "cancelled"})]

RS == INSTANCE RequestService WITH Key <- BatchKey, Request <- Trigger,
        waiting <- waitingBar, serving <- servingBar,
        served <- servedBar, dropped <- droppedBar

\* A request is accepted once and served by a run that began after it was
\* accepted; a run that fails or is deferred hands its requests back to whatever
\* row waits next (enqueue, requeueOrDeadLetter, coalesceIntoQueued).
ImplementsRequestService == RS!Spec
=============================================================================
