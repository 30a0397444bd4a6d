------------------------ MODULE JobQueueServiceProofs ------------------------
(***************************************************************************)
(* What the queue promises over time, for every instance: the waits that   *)
(* sources ask for, the records of coalesced jobs, the alarms, the store   *)
(* of snapshots, and that the queue implements RequestService.             *)
(*                                                                         *)
(* The proofs look at a transaction through its shape: which row it moves, *)
(* between which states, and what becomes of the row's key and triggers.   *)
(* Every transaction of queue.ts has one of the shapes below.              *)
(***************************************************************************)
EXTENDS JobQueueProofs, FiniteSetTheorems

-----------------------------------------------------------------------------
(* Shapes                                                                  *)

\* Row j goes from a state of `from` to one of `to` with its key and triggers.
Moves(j, from, to) ==
    /\ jobs[j].state \in from
    /\ jobs'[j].state \in to
    /\ jobs'[j].key = jobs[j].key
    /\ jobs'[j].triggers = jobs[j].triggers
    /\ \A i \in Job : i # j => jobs'[i] = jobs[i]

Alarmed(j) == \E a \in Alarm : <<a, j>> \in health

AlarmsKept == \A i \in Job : Alarmed(i)' <=> Alarmed(i)

\* A request is accepted: merged into the queued row of its key, or inserted.
Accepts(j, k, t) ==
    /\ t \notin accepted
    /\ accepted' = accepted \cup {t}
    /\ jobs'[j].state = "queued" /\ jobs'[j].key = k
    /\ \/ /\ jobs[j].state = "queued" /\ jobs[j].key = k /\ k \in BatchKey
          /\ jobs'[j].triggers = jobs[j].triggers \cup {t}
          /\ jobs'[j].wait = jobs[j].wait
       \/ /\ jobs[j].state = "absent"
          /\ k \in BatchKey => QueuedOf(k) = {}
          /\ jobs'[j].triggers = {t}
    /\ \A i \in Job : i # j => jobs'[i] = jobs[i]
    /\ AlarmsKept
    /\ UNCHANGED <<store, quiet>>

\* A queued row that is due is leased.
Leases(j) ==
    /\ Moves(j, {"queued"}, LiveState)
    /\ jobs[j].wait = 0
    /\ jobs[j].key \in BatchKey => LiveOf(jobs[j].key) = {}
    /\ AlarmsKept
    /\ UNCHANGED <<store, accepted, quiet>>

\* A live row stays live.
Stays(j) ==
    /\ Moves(j, LiveState, LiveState)
    /\ AlarmsKept
    /\ UNCHANGED <<store, accepted, quiet>>

\* A live row is cancelled.
Ends(j) ==
    /\ Moves(j, LiveState, {"cancelled"})
    /\ AlarmsKept
    /\ UNCHANGED <<store, accepted, quiet>>

\* A live row is dead-lettered, with an alarm about it and about no other row.
Dies(j) ==
    /\ Moves(j, LiveState, {"dead_lettered"})
    /\ Alarmed(j)'
    /\ \A i \in Job : i # j => (Alarmed(i)' <=> Alarmed(i))
    /\ UNCHANGED <<store, accepted, quiet>>

\* A live row succeeds, and stores its snapshot if it is one.
Succeeds(j) ==
    /\ Moves(j, LiveState, {"succeeded"})
    /\ IF jobs[j].key \in SnapshotKey
       THEN store' = [store EXCEPT ![jobs[j].key] = Pruned(Append(@, j))]
       ELSE UNCHANGED store
    /\ AlarmsKept
    /\ UNCHANGED <<accepted, quiet>>

\* A queued row is cancelled.
Withdraws(j) ==
    /\ Moves(j, {"queued"}, {"cancelled"})
    /\ AlarmsKept
    /\ quiet' = Quieted(j, 0)
    /\ UNCHANGED <<store, accepted>>

\* A live row returns to the queue and takes its follower's triggers and place.
Absorbs(j) ==
    /\ IsLive(j)
    /\ jobs'[j].state = "queued" /\ jobs'[j].key = jobs[j].key
    /\ jobs'[j].triggers = jobs[j].triggers \cup UNION {jobs[f].triggers : f \in Followers(j)}
    /\ \A i \in Followers(j) : jobs'[i] = NoRow("deleted")
    /\ \A i \in Job : i # j /\ i \notin Followers(j) => jobs'[i] = jobs[i]
    /\ AlarmsKept
    /\ UNCHANGED <<store, accepted, quiet>>

\* A live row without a follower is deferred by d.
Defers(j, d) ==
    /\ Moves(j, LiveState, {"queued"})
    /\ Followers(j) = {}
    /\ jobs'[j].wait = d
    /\ AlarmsKept
    /\ quiet' = Quieted(j, d)
    /\ UNCHANGED <<store, accepted>>

\* A live row that is deferred by d coalesces into its follower s.
Coalesces(j, s, d) ==
    /\ IsLive(j)
    /\ s \in Followers(j)
    /\ jobs'[j].state = "coalesced" /\ jobs'[j].into = s /\ jobs'[j].key = jobs[j].key
    /\ jobs'[j].triggers = jobs[j].triggers
    /\ jobs'[s].state = "queued" /\ jobs'[s].key = jobs[s].key
    /\ jobs'[s].triggers = jobs[s].triggers \cup jobs[j].triggers
    /\ jobs'[s].wait = MaxOf(jobs[s].wait, d)
    /\ \A i \in Job : i # j /\ i # s => jobs'[i] = jobs[i]
    /\ AlarmsKept
    /\ quiet' = Quieted(j, d)
    /\ UNCHANGED <<store, accepted>>

\* Time passes.
Ages ==
    /\ \A j \in Job : /\ jobs'[j].state = jobs[j].state
                      /\ jobs'[j].key = jobs[j].key
                      /\ jobs'[j].triggers = jobs[j].triggers
                      /\ jobs'[j].into = jobs[j].into
                      /\ jobs[j].state = "queued" => jobs'[j].wait = MaxOf(jobs[j].wait - 1, 0)
    /\ AlarmsKept
    /\ quiet' = [k \in BatchKey |-> MaxOf(quiet[k] - 1, 0)]
    /\ UNCHANGED <<store, accepted>>

Shaped ==
    \/ \E j \in Job, k \in Key, t \in Trigger : Accepts(j, k, t)
    \/ \E j \in Job : \/ Leases(j) \/ Stays(j) \/ Ends(j) \/ Dies(j) \/ Succeeds(j)
                      \/ Withdraws(j) \/ Absorbs(j)
                      \/ \E d \in Nat : Defers(j, d) \/ \E s \in Job : Coalesces(j, s, d)
    \/ Ages

-----------------------------------------------------------------------------
(* Every transaction has a shape.                                          *)

LEMMA MovesByRewrite ==
  ASSUME TypeOK, NEW j \in Job, NEW q, jobs' = [jobs EXCEPT ![j] = q],
         NEW from, NEW to, jobs[j].state \in from, q.state \in to,
         q.key = jobs[j].key, q.triggers = jobs[j].triggers
  PROVE  Moves(j, from, to)
  BY DEF TypeOK, Moves

\* Events of other kinds than alarms raise none.
LEMMA AlarmsKeptBy ==
  ASSUME NEW E, health' = health \cup E, \A a \in Alarm, i \in Job : <<a, i>> \notin E
  PROVE  AlarmsKept
  BY DEF AlarmsKept, Alarmed

LEMMA AlarmsKeptSame == ASSUME UNCHANGED health PROVE AlarmsKept
  BY DEF AlarmsKept, Alarmed

LEMMA AlarmsRaised ==
  ASSUME NEW j \in Job, NEW a \in Alarm, NEW E,
         health' = health \cup E \cup {<<a, j>>},
         \A b \in Alarm, i \in Job : <<b, i>> \notin E
  PROVE  Alarmed(j)' /\ \A i \in Job : i # j => (Alarmed(i)' <=> Alarmed(i))
  BY DEF Alarmed

LEMMA LiveIsActive ==
  ASSUME QueueInv, NEW j \in Job, IsLive(j)
  PROVE  /\ TypeOK /\ jobs[j] \in Row /\ RowInv(jobs[j])
         /\ jobs[j].state \in LiveState /\ jobs[j].state \in ActiveState
  BY DEF QueueInv, TableInv, IsLive, ActiveState

LEMMA ShapeOfRequeueOrDeadLetter ==
  ASSUME QueueInv, NEW j \in Job, IsLive(j), NEW e \in ErrorCode, NEW E,
         \A a \in Alarm, i \in Job : <<a, i>> \notin E,
         RequeueOrDeadLetter(j, e, E), UNCHANGED <<store, accepted, quiet>>
  PROVE  Ends(j) \/ Dies(j) \/ Absorbs(j)
  <1>0. /\ TypeOK /\ jobs[j] \in Row /\ RowInv(jobs[j])
        /\ jobs[j].state \in LiveState /\ jobs[j].state \in ActiveState
    BY LiveIsActive
  <1>1. CASE jobs' = [jobs EXCEPT ![j] = CancelTerminal(@)] /\ health' = health \cup E
    <2> DEFINE q == CancelTerminal(jobs[j])
    <2>1. q.state = "cancelled" /\ q.key = jobs[j].key /\ q.triggers = jobs[j].triggers
      BY <1>0, CancelTerminalRow
    <2>2. jobs' = [jobs EXCEPT ![j] = q]
      BY <1>1
    <2> HIDE DEF q
    <2>3. Moves(j, LiveState, {"cancelled"})
      BY <1>0, <2>1, <2>2, MovesByRewrite
    <2> QED BY <1>1, <2>3, AlarmsKeptBy DEF Ends
  <1>2. CASE /\ jobs' = [jobs EXCEPT ![j] = DeadLetter(@, e)]
             /\ health' = health \cup E \cup {<<"attempts_exhausted", j>>}
    <2> DEFINE q == DeadLetter(jobs[j], e)
    <2>1. q.state = "dead_lettered" /\ q.key = jobs[j].key /\ q.triggers = jobs[j].triggers
      BY <1>0, DeadLetterRow
    <2>2. jobs' = [jobs EXCEPT ![j] = q]
      BY <1>2
    <2> HIDE DEF q
    <2>3. Moves(j, LiveState, {"dead_lettered"})
      BY <1>0, <2>1, <2>2, MovesByRewrite
    <2>4. "attempts_exhausted" \in Alarm
      BY DEF Alarm
    <2> QED BY <1>2, <2>3, <2>4, AlarmsRaised DEF Dies
  <1> DEFINE T == jobs[j].triggers \cup UNION {jobs[f].triggers : f \in Followers(j)}
  <1>3. ASSUME NEW delay \in Backoff(jobs[j].attempt), jobs[j].attempt < jobs[j].limits.attempts,
               jobs' = [i \in Job |-> IF i = j THEN Requeued(jobs[j], e, delay, T)
                                      ELSE IF i \in Followers(j) THEN NoRow("deleted") ELSE jobs[i]],
               health' = health \cup E
        PROVE  Absorbs(j)
    <2> DEFINE q == Requeued(jobs[j], e, delay, T)
    <2>1. \A f \in Job : jobs[f].triggers \subseteq Trigger
      BY <1>0 DEF TypeOK, Row
    <2>2. Followers(j) \subseteq Job /\ j \notin Followers(j)
      BY DEF Followers, QueuedOf
    <2>3. T \in SUBSET Trigger
      BY <2>1, <2>2
    <2>4. delay \in Nat
      BY <1>3, BackoffType
    <2>5. q.state = "queued" /\ q.key = jobs[j].key /\ q.triggers = T
      <3> HIDE DEF T
      <3> QED BY <1>0, <1>3, <2>3, <2>4, RequeuedRow
    <2>6. /\ jobs'[j] = q
          /\ \A i \in Followers(j) : jobs'[i] = NoRow("deleted")
          /\ \A i \in Job : i # j /\ i \notin Followers(j) => jobs'[i] = jobs[i]
      <3> HIDE DEF T
      <3> QED BY <1>3, <2>2
    <2>7. AlarmsKept
      BY <1>3, AlarmsKeptBy
    <2> HIDE DEF q
    <2> QED BY <2>5, <2>6, <2>7 DEF Absorbs
  <1> QED BY <1>1, <1>2, <1>3, Zenon DEF RequeueOrDeadLetter

LEMMA ShapeOfEnqueue ==
  ASSUME QueueInv, NEW j \in Job, NEW k \in Key, NEW t \in Trigger,
         EnqueueMerged(j, k, t) \/ \E lim \in Limits : EnqueueInserted(j, k, t, lim)
  PROVE  Accepts(j, k, t)
  <1>0. TypeOK /\ jobs[j] \in Row /\ RowInv(jobs[j])
    BY DEF QueueInv, TableInv
  <1>1. CASE EnqueueMerged(j, k, t)
    <2> DEFINE q == Merged(jobs[j], t)
    <2>1. jobs[j].state = "queued" /\ jobs[j].key = k
      BY <1>1 DEF EnqueueMerged, QueuedOf
    <2>2. /\ q.state = "queued" /\ q.key = k /\ q.triggers = jobs[j].triggers \cup {t}
      BY <1>0, <2>1, MergedRow
    <2>3. q.wait = jobs[j].wait
      BY <1>0 DEF Merged, Row
    <2>4. jobs'[j] = q /\ \A i \in Job : i # j => jobs'[i] = jobs[i]
      BY <1>0, <1>1 DEF EnqueueMerged, TypeOK
    <2> HIDE DEF q
    <2> QED BY <1>1, <2>1, <2>2, <2>3, <2>4, AlarmsKeptSame DEF Accepts, EnqueueMerged
  <1>2. ASSUME NEW lim \in Limits, EnqueueInserted(j, k, t, lim)
        PROVE  Accepts(j, k, t)
    <2> DEFINE q == NewRow(k, lim, t)
    <2>1. q.state = "queued" /\ q.key = k /\ q.triggers = {t}
      BY NewRowRow
    <2>2. jobs'[j] = q /\ \A i \in Job : i # j => jobs'[i] = jobs[i]
      BY <1>0, <1>2 DEF EnqueueInserted, TypeOK
    <2> HIDE DEF q
    <2> QED BY <1>2, <2>1, <2>2, AlarmsKeptSame DEF Accepts, EnqueueInserted
  <1> QED BY <1>1, <1>2

LEMMA ShapeOfClaim ==
  ASSUME QueueInv, NEW j \in Job, Claim(j)
  PROVE  Leases(j)
  <1>0. TypeOK /\ jobs[j] \in Row /\ RowInv(jobs[j]) /\ jobs[j].state = "queued"
    BY DEF QueueInv, TableInv, Claim, Claimable
  <1> DEFINE q == Leased(jobs[j])
  <1>1. q.state \in LiveState /\ q.key = jobs[j].key /\ q.triggers = jobs[j].triggers
    BY <1>0, LeasedRow DEF LiveState
  <1>2. jobs' = [jobs EXCEPT ![j] = q]
    BY DEF Claim
  <1> HIDE DEF q
  <1>3. Moves(j, {"queued"}, LiveState)
    BY <1>0, <1>1, <1>2 DEF Moves, TypeOK
  <1> QED BY <1>3, AlarmsKeptSame DEF Leases, Claim, Claimable

\* The calls that leave a live row live.
LEMMA ShapeOfStay ==
  ASSUME QueueInv, NEW j \in Job, NEW tok,
         Start(j, tok) \/ Heartbeat(j, tok) \/ CancelLive(j)
  PROVE  Stays(j)
  <1>0. IsLive(j)
    BY DEF Start, Heartbeat, CancelLive, Holds
  <1>1. /\ TypeOK /\ jobs[j] \in Row /\ RowInv(jobs[j]) /\ jobs[j].state \in LiveState
    BY <1>0, LiveIsActive
  <1>2. PICK q \in {Started(jobs[j]), Beaten(jobs[j]), Marked(jobs[j])} :
             jobs' = [jobs EXCEPT ![j] = q]
    BY DEF Start, Heartbeat, CancelLive
  <1>3. q.state \in LiveState /\ q.key = jobs[j].key /\ q.triggers = jobs[j].triggers
    BY <1>1, StartedRow, BeatenRow, MarkedRow DEF LiveState
  <1>4. Moves(j, LiveState, LiveState)
    BY <1>1, <1>2, <1>3, MovesByRewrite
  <1>5. UNCHANGED <<store, health, accepted, quiet>>
    BY DEF Start, Heartbeat, CancelLive
  <1> QED BY <1>4, <1>5, AlarmsKeptSame DEF Stays

\* A live row is cancelled by its holder or by a deferral that is not honoured.
LEMMA ShapeOfCancelled ==
  ASSUME QueueInv, NEW j \in Job, NEW tok, FailCancelled(j, tok) \/ DeferCancelled(j, tok)
  PROVE  Ends(j)
  <1>0. IsLive(j)
    BY DEF FailCancelled, DeferCancelled, Holds
  <1>1. /\ TypeOK /\ jobs[j] \in Row /\ RowInv(jobs[j])
        /\ jobs[j].state \in LiveState /\ jobs[j].state \in ActiveState
    BY <1>0, LiveIsActive
  <1> DEFINE q == CancelTerminal(jobs[j])
  <1>2. q.state \in {"cancelled"} /\ q.key = jobs[j].key /\ q.triggers = jobs[j].triggers
    BY <1>1, CancelTerminalRow
  <1>3. jobs' = [jobs EXCEPT ![j] = q]
    BY DEF FailCancelled, DeferCancelled
  <1> HIDE DEF q
  <1>4. Moves(j, LiveState, {"cancelled"})
    BY <1>1, <1>2, <1>3, MovesByRewrite
  <1>5. AlarmsKept
    <2>1. CASE FailCancelled(j, tok)
      <3>1. \A a \in Alarm, i \in Job : <<a, i>> \notin {<<"job_cancelled", j>>}
        BY DEF Alarm
      <3> QED BY <2>1, <3>1, AlarmsKeptBy DEF FailCancelled
    <2>2. CASE DeferCancelled(j, tok)
      BY <2>2, AlarmsKeptSame DEF DeferCancelled
    <2> QED BY <2>1, <2>2
  <1> QED BY <1>4, <1>5 DEF Ends, FailCancelled, DeferCancelled

LEMMA ShapeOfDeath ==
  ASSUME QueueInv, NEW j \in Job, NEW tok, FailFinal(j, tok) \/ RejectDelivery(j, tok)
  PROVE  Dies(j)
  <1>0. IsLive(j)
    BY DEF FailFinal, RejectDelivery, Holds
  <1>1. /\ TypeOK /\ jobs[j] \in Row /\ RowInv(jobs[j])
        /\ jobs[j].state \in LiveState /\ jobs[j].state \in ActiveState
    BY <1>0, LiveIsActive
  <1>2. PICK e \in ErrorCode, a \in Alarm :
             jobs' = [jobs EXCEPT ![j] = DeadLetter(@, e)] /\ health' = health \cup {<<a, j>>}
    BY DEF FailFinal, RejectDelivery, ErrorCode, Alarm
  <1> DEFINE q == DeadLetter(jobs[j], e)
  <1>3. q.state \in {"dead_lettered"} /\ q.key = jobs[j].key /\ q.triggers = jobs[j].triggers
    BY <1>1, DeadLetterRow
  <1>4. jobs' = [jobs EXCEPT ![j] = q]
    BY <1>2
  <1> HIDE DEF q
  <1>5. Moves(j, LiveState, {"dead_lettered"})
    BY <1>1, <1>3, <1>4, MovesByRewrite
  <1>6. Alarmed(j)' /\ \A i \in Job : i # j => (Alarmed(i)' <=> Alarmed(i))
    BY <1>2 DEF Alarmed
  <1> QED BY <1>5, <1>6 DEF Dies, FailFinal, RejectDelivery

LEMMA ShapeOfSuccess ==
  ASSUME QueueInv, NEW j \in Job, NEW tok, SucceedSnapshot(j, tok) \/ SucceedInline(j, tok)
  PROVE  Succeeds(j)
  <1>0. IsLive(j) /\ jobs[j].token = tok
    BY DEF SucceedSnapshot, SucceedInline, Holds
  <1>1. TypeOK /\ jobs[j] \in Row /\ RowInv(jobs[j]) /\ jobs[j].state \in LiveState
    BY <1>0, LiveIsActive
  <1> DEFINE q == Succeeded(jobs[j], jobs[j].token)
  <1>2. q.state \in {"succeeded"} /\ q.key = jobs[j].key /\ q.triggers = jobs[j].triggers
    BY <1>1, SucceededRow
  <1>3. jobs' = [jobs EXCEPT ![j] = q]
    BY <1>0 DEF SucceedSnapshot, SucceedInline
  <1> HIDE DEF q
  <1>4. Moves(j, LiveState, {"succeeded"})
    BY <1>1, <1>2, <1>3, MovesByRewrite
  <1> QED BY <1>4, AlarmsKeptSame DEF Succeeds, SucceedSnapshot, SucceedInline

LEMMA ShapeOfWithdrawal ==
  ASSUME QueueInv, NEW j \in Job, CancelQueued(j)
  PROVE  Withdraws(j)
  <1>1. TypeOK /\ jobs[j] \in Row /\ RowInv(jobs[j]) /\ jobs[j].state \in ActiveState
    BY DEF QueueInv, TableInv, CancelQueued, ActiveState
  <1> DEFINE q == CancelTerminal(jobs[j])
  <1>2. q.state \in {"cancelled"} /\ q.key = jobs[j].key /\ q.triggers = jobs[j].triggers
    BY <1>1, CancelTerminalRow
  <1>3. jobs' = [jobs EXCEPT ![j] = q] /\ jobs[j].state \in {"queued"}
    BY DEF CancelQueued
  <1> HIDE DEF q
  <1>4. Moves(j, {"queued"}, {"cancelled"})
    BY <1>1, <1>2, <1>3 DEF Moves, TypeOK
  <1> QED BY <1>4, AlarmsKeptSame DEF Withdraws, CancelQueued

LEMMA ShapeOfDeferral ==
  ASSUME QueueInv, NEW j \in Job, NEW tok, NEW d \in RetryAfter, DeferRequeued(j, tok, d)
  PROVE  Defers(j, d)
  <1>0. d \in Nat /\ IsLive(j) /\ jobs[j].deferrals + 1 <= jobs[j].limits.deferrals
    BY TimeAssumption DEF DeferRequeued, DeferAllowed, Holds
  <1>1. TypeOK /\ jobs[j] \in Row /\ RowInv(jobs[j]) /\ jobs[j].state \in LiveState
    BY <1>0, LiveIsActive
  <1> DEFINE q == Deferred(jobs[j], d)
  <1>2. /\ q.state \in {"queued"} /\ q.key = jobs[j].key /\ q.triggers = jobs[j].triggers
        /\ q.wait = d
    BY <1>0, <1>1, DeferredRow
  <1>3. jobs' = [jobs EXCEPT ![j] = q]
    BY DEF DeferRequeued
  <1> HIDE DEF q
  <1>4. Moves(j, LiveState, {"queued"}) /\ jobs'[j] = q
    BY <1>1, <1>2, <1>3, MovesByRewrite DEF TypeOK
  <1> QED BY <1>2, <1>4, AlarmsKeptSame DEF Defers, DeferRequeued

LEMMA ShapeOfCoalescing ==
  ASSUME QueueInv, NEW j \in Job, NEW tok, NEW d \in RetryAfter, NEW s \in Job,
         DeferCoalesced(j, tok, d, s)
  PROVE  Coalesces(j, s, d)
  <1>0. d \in Nat /\ IsLive(j) /\ s \in Followers(j)
    BY TimeAssumption DEF DeferCoalesced, DeferAllowed, Holds
  <1>1. TypeOK /\ jobs[j] \in Row /\ RowInv(jobs[j]) /\ jobs[j].state \in LiveState
    BY <1>0, LiveIsActive
  <1>2. jobs[s] \in Row /\ RowInv(jobs[s]) /\ jobs[s].state = "queued" /\ s # j
    BY <1>0 DEF QueueInv, TableInv, Followers, QueuedOf
  <1> DEFINE q == Coalesced(jobs[j], s)
             p == Survivor(jobs[s], d, jobs[j].triggers)
  <1>3. /\ q.state = "coalesced" /\ q.into = s /\ q.key = jobs[j].key
        /\ q.triggers = jobs[j].triggers
    BY <1>1, CoalescedRow
  <1>4. jobs[j].triggers \in SUBSET Trigger
    BY <1>1 DEF Row
  <1>5. /\ p.state = "queued" /\ p.key = jobs[s].key
        /\ p.triggers = jobs[s].triggers \cup jobs[j].triggers
        /\ p.wait = MaxOf(jobs[s].wait, d)
    BY <1>0, <1>2, <1>4, SurvivorRow
  <1>6. jobs' = [jobs EXCEPT ![j] = q, ![s] = p]
    BY <1>2 DEF DeferCoalesced, QueueInv, TypeOK
  <1> HIDE DEF q, p
  <1>7. jobs'[j] = q /\ jobs'[s] = p /\ \A i \in Job : i # j /\ i # s => jobs'[i] = jobs[i]
    BY <1>1, <1>2, <1>6 DEF TypeOK
  <1> QED BY <1>0, <1>3, <1>5, <1>7, AlarmsKeptSame DEF Coalesces, DeferCoalesced

LEMMA AgedFields ==
  ASSUME NEW r \in Row
  PROVE  /\ Aged(r).into = r.into
         /\ r.state = "queued" => Aged(r).wait = MaxOf(r.wait - 1, 0)
  BY DEF Aged, Row

LEMMA ShapeOfTick == ASSUME QueueInv, Tick PROVE Ages
  <1>1. \A j \in Job : jobs[j] \in Row /\ RowInv(jobs[j]) /\ jobs'[j] = Aged(jobs[j])
    BY DEF QueueInv, TableInv, Tick
  <1>2. \A j \in Job : /\ jobs'[j].state = jobs[j].state
                       /\ jobs'[j].key = jobs[j].key
                       /\ jobs'[j].triggers = jobs[j].triggers
                       /\ jobs'[j].into = jobs[j].into
                       /\ jobs[j].state = "queued" => jobs'[j].wait = MaxOf(jobs[j].wait - 1, 0)
    BY <1>1, AgedRow, AgedFields
  <1> QED BY <1>2, AlarmsKeptSame DEF Ages, Tick

LEMMA EveryStepShaped == ASSUME QueueInv, Next PROVE Shaped
  <1>0. \A j \in Job, i \in Job, a \in Alarm :
           <<a, i>> \notin {<<"lease_expired", j>>} /\ <<a, i>> \notin {<<"deferral_cap_reached", j>>}
    BY DEF Alarm
  <1>1. ASSUME NEW j \in Job, NEW k \in Key, NEW t \in Trigger,
               EnqueueMerged(j, k, t) \/ \E lim \in Limits : EnqueueInserted(j, k, t, lim)
        PROVE  Shaped
    BY <1>1, ShapeOfEnqueue DEF Shaped
  <1>2. ASSUME NEW j \in Job, NEW tok \in 1..jobs[j].grants, RunnerCall(j, tok)
        PROVE  Shaped
    <2>1. CASE Start(j, tok) \/ Heartbeat(j, tok)
      BY <2>1, ShapeOfStay DEF Shaped
    <2>2. CASE FailCancelled(j, tok) \/ DeferCancelled(j, tok)
      BY <2>2, ShapeOfCancelled DEF Shaped
    <2>3. CASE FailFinal(j, tok) \/ RejectDelivery(j, tok)
      BY <2>3, ShapeOfDeath DEF Shaped
    <2>4. CASE FailRetryable(j, tok)
      <3>1. /\ IsLive(j) /\ "failed" \in ErrorCode /\ RequeueOrDeadLetter(j, "failed", {})
            /\ UNCHANGED <<store, accepted, quiet>>
        BY <2>4 DEF FailRetryable, Holds, ErrorCode
      <3> QED BY <3>1, ShapeOfRequeueOrDeadLetter DEF Shaped
    <2>5. CASE DeferCapped(j, tok)
      <3>1. /\ IsLive(j) /\ "quota" \in ErrorCode
            /\ RequeueOrDeadLetter(j, "quota", {<<"deferral_cap_reached", j>>})
            /\ UNCHANGED <<store, accepted, quiet>>
        BY <2>5 DEF DeferCapped, Holds, ErrorCode
      <3> QED BY <1>0, <3>1, ShapeOfRequeueOrDeadLetter DEF Shaped
    <2>6. ASSUME NEW d \in RetryAfter,
                 DeferRequeued(j, tok, d) \/ \E s \in Job : DeferCoalesced(j, tok, d, s)
          PROVE  Shaped
      <3>1. d \in Nat
        BY TimeAssumption
      <3> QED BY <2>6, <3>1, ShapeOfDeferral, ShapeOfCoalescing DEF Shaped
    <2>7. CASE SucceedSnapshot(j, tok) \/ SucceedInline(j, tok)
      BY <2>7, ShapeOfSuccess DEF Shaped
    <2> QED BY <1>2, <2>1, <2>2, <2>3, <2>4, <2>5, <2>6, <2>7 DEF RunnerCall
  <1>3. ASSUME NEW j \in Job, Claim(j) \/ CancelQueued(j) \/ CancelLive(j)
        PROVE  Shaped
    BY <1>3, ShapeOfClaim, ShapeOfWithdrawal, ShapeOfStay DEF Shaped
  <1>4. ASSUME NEW j \in Job, Sweep(j)
        PROVE  Shaped
    <2>1. /\ IsLive(j) /\ "expired" \in ErrorCode
          /\ RequeueOrDeadLetter(j, "expired", {<<"lease_expired", j>>})
          /\ UNCHANGED <<store, accepted, quiet>>
      BY <1>4 DEF Sweep, ErrorCode
    <2> QED BY <1>0, <2>1, ShapeOfRequeueOrDeadLetter DEF Shaped
  <1>5. CASE Tick
    BY <1>5, ShapeOfTick DEF Shaped
  <1> QED BY <1>1, <1>2, <1>3, <1>4, <1>5 DEF Next

-----------------------------------------------------------------------------
(* Alarms                                                                  *)

LEMMA LiveStateFacts ==
  /\ "queued" \notin LiveState /\ "absent" \notin LiveState /\ "deleted" \notin LiveState
  /\ "succeeded" \notin LiveState /\ "dead_lettered" \notin LiveState
  /\ "cancelled" \notin LiveState /\ "coalesced" \notin LiveState
  BY DEF LiveState

LEMMA DeletedRow ==
  /\ NoRow("deleted").state = "deleted" /\ NoRow("deleted").key = None
  /\ NoRow("deleted").triggers = {}
  BY DEF NoRow

LEMMA FollowerFacts ==
  ASSUME NEW j \in Job, NEW f \in Followers(j)
  PROVE  f \in Job /\ f # j /\ jobs[f].state = "queued" /\ jobs[f].key = jobs[j].key
         /\ jobs[j].key \in BatchKey
  BY DEF Followers, QueuedOf

\* The two exclusions, about states.
OneQueued ==
    \A i, j \in Job : (/\ jobs[i].state = "queued" /\ jobs[j].state = "queued"
                       /\ jobs[i].key = jobs[j].key /\ jobs[i].key \in BatchKey) => i = j
OneLive ==
    \A i, j \in Job : (/\ jobs[i].state \in LiveState /\ jobs[j].state \in LiveState
                       /\ jobs[i].key = jobs[j].key /\ jobs[i].key \in BatchKey) => i = j

LEMMA IndexFacts == ASSUME QueueInv PROVE OneQueued /\ OneLive
  BY DEF QueueInv, TableInv, OneQueuedPerKey, OneLivePerKey, OneQueued, OneLive, IsLive

LEMMA AlarmedIffDeadNext ==
  ASSUME QueueInv, AlarmedIffDead, [Next]_vars
  PROVE  AlarmedIffDead'
  <1> USE LiveStateFacts
  <1>0. \A j \in Job : jobs[j].state = "dead_lettered" <=> Alarmed(j)
    BY DEF AlarmedIffDead, Alarmed
  <1>1. SUFFICES ASSUME NEW i \in Job PROVE jobs'[i].state = "dead_lettered" <=> Alarmed(i)'
    BY DEF AlarmedIffDead, Alarmed
  <1>2. ASSUME NEW j \in Job, NEW k \in Key, NEW t \in Trigger, Accepts(j, k, t)
        PROVE  jobs'[i].state = "dead_lettered" <=> Alarmed(i)'
    BY <1>0, <1>2 DEF Accepts, AlarmsKept
  <1>3. ASSUME NEW j \in Job, Leases(j) \/ Stays(j) \/ Ends(j) \/ Succeeds(j) \/ Withdraws(j)
        PROVE  jobs'[i].state = "dead_lettered" <=> Alarmed(i)'
    BY <1>0, <1>3 DEF Leases, Stays, Ends, Succeeds, Withdraws, Moves, AlarmsKept
  <1>4. ASSUME NEW j \in Job, Dies(j)
        PROVE  jobs'[i].state = "dead_lettered" <=> Alarmed(i)'
    BY <1>0, <1>4 DEF Dies, Moves
  <1>5. ASSUME NEW j \in Job, Absorbs(j)
        PROVE  jobs'[i].state = "dead_lettered" <=> Alarmed(i)'
    BY <1>0, <1>5, FollowerFacts, DeletedRow DEF Absorbs, AlarmsKept, IsLive
  <1>6. ASSUME NEW j \in Job, NEW d \in Nat, Defers(j, d)
        PROVE  jobs'[i].state = "dead_lettered" <=> Alarmed(i)'
    BY <1>0, <1>6 DEF Defers, Moves, AlarmsKept
  <1>7. ASSUME NEW j \in Job, NEW d \in Nat, NEW s \in Job, Coalesces(j, s, d)
        PROVE  jobs'[i].state = "dead_lettered" <=> Alarmed(i)'
    BY <1>0, <1>7, FollowerFacts DEF Coalesces, AlarmsKept, IsLive
  <1>8. CASE Ages
    BY <1>0, <1>8 DEF Ages, AlarmsKept
  <1>9. CASE UNCHANGED vars
    BY <1>0, <1>9 DEF vars, Alarmed
  <1> QED BY <1>2, <1>3, <1>4, <1>5, <1>6, <1>7, <1>8, <1>9, EveryStepShaped DEF Shaped

\* The health feed and the outcome of jobs agree (deadLetter): a job has raised an
\* alarm exactly when it is dead-lettered.
THEOREM AlarmsMatchDeaths == Spec => []AlarmedIffDead
  <1>1. Init => AlarmedIffDead
    BY DEF Init, AlarmedIffDead, NoRow
  <1>2. QueueInv /\ AlarmedIffDead /\ [Next]_vars => AlarmedIffDead'
    BY AlarmedIffDeadNext
  <1> QED BY <1>1, <1>2, QueueInvHolds, PTL DEF Spec

-----------------------------------------------------------------------------
(* Deferrals                                                               *)

\* While a key is to be left alone its row waits in the queue: nobody can have
\* claimed it, because it is not due.
QuietAt(k) ==
    quiet[k] > 0 =>
        /\ \E i \in Job : jobs[i].state = "queued" /\ jobs[i].key = k
        /\ \A i \in Job : jobs[i].key = k => jobs[i].state \notin LiveState
        /\ \A i \in Job : jobs[i].state = "queued" /\ jobs[i].key = k => jobs[i].wait >= quiet[k]
QuietInv == \A k \in BatchKey : QuietAt(k)

LEMMA QuietNext ==
  ASSUME QueueInv, QuietInv, [Next]_vars
  PROVE  QuietInv'
  <1> USE LiveStateFacts
  <1>0. /\ \A k \in BatchKey : quiet[k] \in Nat
        /\ \A i \in Job : jobs[i].wait \in Nat
        /\ OneQueued /\ OneLive
    BY IndexFacts DEF QueueInv, TypeOK, Row
  <1> USE DEF OneQueued, OneLive
  <1> SUFFICES ASSUME NEW k \in BatchKey PROVE QuietAt(k)'
    BY DEF QuietInv
  <1>1. QuietAt(k)
    BY DEF QuietInv
  <1>2. ASSUME NEW j \in Job, NEW m \in Key, NEW t \in Trigger, Accepts(j, m, t)
        PROVE  QuietAt(k)'
    BY <1>0, <1>1, <1>2 DEF Accepts, QuietAt, QueuedOf
  <1>3. ASSUME NEW j \in Job, Leases(j)
        PROVE  QuietAt(k)'
    BY <1>0, <1>1, <1>3 DEF Leases, Moves, QuietAt
  <1>4. ASSUME NEW j \in Job, Stays(j) \/ Ends(j) \/ Dies(j) \/ Succeeds(j)
        PROVE  QuietAt(k)'
    BY <1>0, <1>1, <1>4 DEF Stays, Ends, Dies, Succeeds, Moves, QuietAt
  <1>5. ASSUME NEW j \in Job, Withdraws(j)
        PROVE  QuietAt(k)'
    BY <1>0, <1>1, <1>5 DEF Withdraws, Moves, QuietAt, Quieted
  <1>6. ASSUME NEW j \in Job, Absorbs(j)
        PROVE  QuietAt(k)'
    BY <1>0, <1>1, <1>6, FollowerFacts, DeletedRow, NoneAssumption, KeyAssumption
    DEF Absorbs, QuietAt, IsLive
  <1>7. ASSUME NEW j \in Job, NEW d \in Nat, Defers(j, d)
        PROVE  QuietAt(k)'
    BY <1>0, <1>1, <1>7 DEF Defers, Moves, QuietAt, Quieted, Followers, QueuedOf
  <1>8. ASSUME NEW j \in Job, NEW d \in Nat, NEW s \in Job, Coalesces(j, s, d)
        PROVE  QuietAt(k)'
    <2>1. /\ s # j /\ jobs[s].state = "queued" /\ jobs[s].key = jobs[j].key
          /\ jobs[j].key \in BatchKey /\ jobs[j].state \in LiveState
      BY <1>8, FollowerFacts DEF Coalesces, IsLive
    <2>2. CASE jobs[j].key = k
      <3>1. quiet'[k] = d /\ jobs'[s].wait >= d
        BY <1>0, <1>8, <2>2 DEF Coalesces, Quieted, MaxOf
      <3> QED BY <1>0, <1>8, <2>1, <2>2, <3>1 DEF Coalesces, QuietAt
    <2>3. CASE jobs[j].key # k
      <3>1. quiet'[k] = quiet[k]
        BY <1>8, <2>3 DEF Coalesces, Quieted
      <3> QED BY <1>1, <1>8, <2>1, <2>3, <3>1 DEF Coalesces, QuietAt
    <2> QED BY <2>2, <2>3
  <1>9. CASE Ages
    BY <1>0, <1>1, <1>9 DEF Ages, QuietAt, MaxOf
  <1>10. CASE UNCHANGED vars
    BY <1>1, <1>10 DEF vars, QuietAt
  <1> QED BY <1>2, <1>3, <1>4, <1>5, <1>6, <1>7, <1>8, <1>9, <1>10, EveryStepShaped DEF Shaped

\* While the wait a deferral asked for lasts, no runner holds a job of that batch key
\* and its queued row is not due (deferJob, coalesceIntoQueued).
THEOREM DeferralsHonoured == Spec => []DeferralHonoured
  <1>1. Init => QuietInv
    BY DEF Init, QuietInv, QuietAt
  <1>2. QueueInv /\ QuietInv /\ [Next]_vars => QuietInv'
    BY QuietNext
  <1>3. QuietInv => DeferralHonoured
    BY DEF QuietInv, QuietAt, DeferralHonoured, LiveOf, QueuedOf, IsLive
  <1> QED BY <1>1, <1>2, <1>3, QueueInvHolds, PTL DEF Spec

-----------------------------------------------------------------------------
(* Coalesced jobs                                                          *)

\* A survivor that waits in the queue has no live row of its key ahead of it, so no
\* requeue can absorb it: the coalesced row was the live one, and the index lets no
\* other row be claimed before the survivor.
ResolvesAt(j) ==
    jobs[j].state = "coalesced" =>
        /\ jobs[j].into \in Job
        /\ jobs[jobs[j].into].state \in RowState
        /\ jobs[jobs[j].into].key \in BatchKey
        /\ jobs[j].triggers \subseteq jobs[jobs[j].into].triggers
        /\ jobs[jobs[j].into].state = "queued" =>
             \A i \in Job : jobs[i].key = jobs[jobs[j].into].key => jobs[i].state \notin LiveState
ResolveInv == \A j \in Job : ResolvesAt(j)

LEMMA ResolveNext ==
  ASSUME QueueInv, ResolveInv, [Next]_vars
  PROVE  ResolveInv'
  <1> USE LiveStateFacts
  <1>0. OneQueued /\ OneLive /\ (\A i \in Job : jobs[i].state \in RowState => jobs[i].key \in Key)
    BY IndexFacts DEF QueueInv, TableInv, RowInv
  <1>a. "deleted" \notin RowState /\ "absent" \notin RowState /\ LiveState \subseteq RowState
        /\ {"queued", "succeeded", "dead_lettered", "cancelled", "coalesced"} \subseteq RowState
    BY DEF RowState, LiveState, TerminalState
  <1> USE DEF OneQueued, OneLive
  <1> SUFFICES ASSUME NEW c \in Job PROVE ResolvesAt(c)'
    BY DEF ResolveInv
  <1>1. ResolvesAt(c)
    BY DEF ResolveInv
  <1>2. ASSUME NEW j \in Job, NEW m \in Key, NEW t \in Trigger, Accepts(j, m, t)
        PROVE  ResolvesAt(c)'
    BY <1>0, <1>a, <1>1, <1>2 DEF Accepts, ResolvesAt, QueuedOf
  <1>3. ASSUME NEW j \in Job, Leases(j)
        PROVE  ResolvesAt(c)'
    BY <1>0, <1>a, <1>1, <1>3 DEF Leases, Moves, ResolvesAt
  <1>4. ASSUME NEW j \in Job, Stays(j) \/ Ends(j) \/ Dies(j) \/ Succeeds(j)
        PROVE  ResolvesAt(c)'
    BY <1>0, <1>a, <1>1, <1>4 DEF Stays, Ends, Dies, Succeeds, Moves, ResolvesAt
  <1>5. ASSUME NEW j \in Job, Withdraws(j)
        PROVE  ResolvesAt(c)'
    BY <1>0, <1>a, <1>1, <1>5 DEF Withdraws, Moves, ResolvesAt
  <1>6. ASSUME NEW j \in Job, Absorbs(j)
        PROVE  ResolvesAt(c)'
    BY <1>0, <1>a, <1>1, <1>6, FollowerFacts, DeletedRow, NoneAssumption, KeyAssumption
    DEF Absorbs, ResolvesAt, IsLive
  <1>7. ASSUME NEW j \in Job, NEW d \in Nat, Defers(j, d)
        PROVE  ResolvesAt(c)'
    BY <1>0, <1>a, <1>1, <1>7 DEF Defers, Moves, ResolvesAt
  <1>8. ASSUME NEW j \in Job, NEW d \in Nat, NEW s \in Job, Coalesces(j, s, d)
        PROVE  ResolvesAt(c)'
    BY <1>0, <1>a, <1>1, <1>8, FollowerFacts DEF Coalesces, ResolvesAt, IsLive
  <1>9. CASE Ages
    BY <1>0, <1>1, <1>9 DEF Ages, ResolvesAt
  <1>10. CASE UNCHANGED vars
    BY <1>1, <1>10 DEF vars, ResolvesAt
  <1> QED BY <1>2, <1>3, <1>4, <1>5, <1>6, <1>7, <1>8, <1>9, <1>10, EveryStepShaped DEF Shaped

\* The row a coalesced job points to still exists and holds its triggers
\* (coalesceIntoQueued).
THEOREM CoalescedResolve == Spec => []CoalescedIntoResolves
  <1>1. Init => ResolveInv
    BY DEF Init, ResolveInv, ResolvesAt, NoRow
  <1>2. QueueInv /\ ResolveInv /\ [Next]_vars => ResolveInv'
    BY ResolveNext
  <1>3. ResolveInv => CoalescedIntoResolves
    BY DEF ResolveInv, ResolvesAt, CoalescedIntoResolves
  <1> QED BY <1>1, <1>2, <1>3, QueueInvHolds, PTL DEF Spec

-----------------------------------------------------------------------------
(* The store of snapshots                                                  *)

Done(k) == {j \in Job : jobs[j].state = "succeeded" /\ jobs[j].key = k}

\* A store of the jobs of D, without repetition, as many of them as retention allows.
Keeps(s, D) ==
    /\ IsFiniteSet(D)
    /\ Len(s) = MinOf(Retention, Cardinality(D))
    /\ \A m \in 1..Len(s) : s[m] \in D
    /\ \A m, n \in 1..Len(s) : s[m] = s[n] => m = n
StoreInv == \A k \in SnapshotKey : Keeps(store[k], Done(k))

\* Pruning after an append drops the oldest element when the store was full, and
\* nothing otherwise.
LEMMA PrunedAppend ==
  ASSUME NEW s \in Seq(Job), NEW j \in Job, Len(s) <= Retention
  PROVE  LET p == Pruned(Append(s, j))
             off == IF Len(s) = Retention THEN 1 ELSE 0
         IN  /\ Len(p) = Len(s) + 1 - off
             /\ \A m \in 1..Len(p) : p[m] = Append(s, j)[m + off]
  <1> DEFINE a == Append(s, j)
  <1>1. a \in Seq(Job) /\ Len(a) = Len(s) + 1 /\ Len(s) \in Nat /\ Retention \in Nat /\ Retention >= 1
    BY RetentionAssumption
  <1> HIDE DEF a
  <1>2. CASE Len(s) = Retention
    <2>1. Pruned(a) = SubSeq(a, 2, Len(a))
      BY <1>1, <1>2 DEF Pruned
    <2>2. /\ Len(SubSeq(a, 2, Len(a))) = Len(s)
          /\ \A m \in 1..Len(s) : SubSeq(a, 2, Len(a))[m] = a[m + 1]
      BY <1>1
    <2> QED BY <1>1, <1>2, <2>1, <2>2 DEF a
  <1>3. CASE Len(s) # Retention
    <2>1. Pruned(a) = a
      BY <1>1, <1>3 DEF Pruned
    <2> QED BY <1>1, <1>3, <2>1 DEF a
  <1> QED BY <1>2, <1>3

LEMMA KeepsOneMore ==
  ASSUME NEW s \in Seq(Job), NEW D \in SUBSET Job, NEW j \in Job, j \notin D, Keeps(s, D)
  PROVE  Keeps(Pruned(Append(s, j)), D \cup {j})
  <1> DEFINE E == D \cup {j}
             p == Pruned(Append(s, j))
             off == IF Len(s) = Retention THEN 1 ELSE 0
  <1>1. IsFiniteSet(E) /\ Cardinality(E) = Cardinality(D) + 1
    BY FS_AddElement DEF Keeps
  <1>2. Cardinality(D) \in Nat /\ Retention \in Nat /\ Len(s) \in Nat
    BY FS_CardinalityType, RetentionAssumption DEF Keeps
  <1>3. Len(s) = MinOf(Retention, Cardinality(D)) /\ Len(s) <= Retention
    BY <1>2 DEF Keeps, MinOf
  <1>4. /\ Len(p) = Len(s) + 1 - off
        /\ \A m \in 1..Len(p) : p[m] = Append(s, j)[m + off]
    BY <1>3, PrunedAppend
  <1>5. Len(p) = MinOf(Retention, Cardinality(E))
    BY <1>1, <1>2, <1>3, <1>4 DEF MinOf
  <1>6. \A n \in 1..(Len(s) + 1) : Append(s, j)[n] = IF n = Len(s) + 1 THEN j ELSE s[n]
    BY <1>2
  <1>7. \A m \in 1..Len(p) : m + off \in 1..(Len(s) + 1)
    BY <1>2, <1>4
  <1> HIDE DEF p, off
  <1>8. \A m \in 1..Len(p) : p[m] = IF m + off = Len(s) + 1 THEN j ELSE s[m + off]
    BY <1>4, <1>6, <1>7
  <1>9. ASSUME NEW m \in 1..Len(p)
        PROVE  p[m] \in E
    <2> DEFINE x == m + off
    <2>1. x \in 1..(Len(s) + 1) /\ p[m] = IF x = Len(s) + 1 THEN j ELSE s[x]
      BY <1>7, <1>8
    <2> HIDE DEF x
    <2>2. x \in 1..Len(s) => s[x] \in D
      BY DEF Keeps
    <2> QED BY <1>2, <2>1, <2>2
  <1>10. \A m, n \in 1..Len(p) : p[m] = p[n] => m = n
    <2> SUFFICES ASSUME NEW m \in 1..Len(p), NEW n \in 1..Len(p), p[m] = p[n] PROVE m = n
      OBVIOUS
    <2>1. off \in Nat /\ Len(p) \in Nat
      BY <1>2, <1>4 DEF off
    <2>2. m + off \in 1..Len(s) => s[m + off] # j
      BY DEF Keeps
    <2>3. n + off \in 1..Len(s) => s[n + off] # j
      BY DEF Keeps
    <2>4. m + off \in 1..(Len(s) + 1) /\ n + off \in 1..(Len(s) + 1)
      BY <1>7
    <2>5. /\ p[m] = IF m + off = Len(s) + 1 THEN j ELSE s[m + off]
          /\ p[n] = IF n + off = Len(s) + 1 THEN j ELSE s[n + off]
      BY <1>8
    <2>6. \A x, y \in 1..Len(s) : s[x] = s[y] => x = y
      BY DEF Keeps
    <2>7. m + off = n + off
      <3> DEFINE x == m + off
                 y == n + off
      <3>1. x \in 1..(Len(s) + 1) /\ y \in 1..(Len(s) + 1)
        BY <2>4
      <3>2. (IF x = Len(s) + 1 THEN j ELSE s[x]) = (IF y = Len(s) + 1 THEN j ELSE s[y])
        BY <2>5
      <3>3. (x \in 1..Len(s) => s[x] # j) /\ (y \in 1..Len(s) => s[y] # j)
        BY <2>2, <2>3
      <3> HIDE DEF x, y
      <3>4. x = y
        BY <1>2, <2>6, <3>1, <3>2, <3>3, SMTT(30)
      <3> QED BY <3>4 DEF x, y
    <2> QED BY <2>1, <2>7
  <1> QED BY <1>1, <1>5, <1>9, <1>10 DEF Keeps, p

LEMMA StoreNext ==
  ASSUME QueueInv, StoreInv, [Next]_vars
  PROVE  StoreInv'
  <1> USE LiveStateFacts
  <1>0. store \in [SnapshotKey -> Seq(Job)]
    BY DEF QueueInv, TypeOK
  <1> DEFINE SameDone == \A i \in Job : (jobs'[i].state = "succeeded" <=> jobs[i].state = "succeeded")
                                         /\ (jobs[i].state = "succeeded" => jobs'[i].key = jobs[i].key)
  <1>1. ASSUME SameDone, UNCHANGED store
        PROVE  StoreInv'
    <2>1. \A k \in SnapshotKey : Done(k)' = Done(k)
      BY <1>1 DEF Done
    <2> QED BY <1>1, <2>1 DEF StoreInv
  <1>2. ASSUME NEW j \in Job, NEW m \in Key, NEW t \in Trigger, Accepts(j, m, t)
        PROVE  StoreInv'
    <2>1. SameDone /\ UNCHANGED store
      BY <1>2 DEF Accepts
    <2> QED BY <1>1, <2>1
  <1>3. ASSUME NEW j \in Job, Leases(j) \/ Stays(j) \/ Ends(j) \/ Dies(j) \/ Withdraws(j)
        PROVE  StoreInv'
    <2>1. SameDone /\ UNCHANGED store
      BY <1>3 DEF Leases, Stays, Ends, Dies, Withdraws, Moves
    <2> QED BY <1>1, <2>1
  <1>4. ASSUME NEW j \in Job, Succeeds(j)
        PROVE  StoreInv'
    <2>1. /\ jobs[j].state # "succeeded" /\ jobs'[j].state = "succeeded"
          /\ jobs'[j].key = jobs[j].key
          /\ \A i \in Job : i # j => jobs'[i] = jobs[i]
      BY <1>4 DEF Succeeds, Moves
    <2> SUFFICES ASSUME NEW k \in SnapshotKey PROVE Keeps(store'[k], Done(k)')
      BY DEF StoreInv, Keeps
    <2>2. Keeps(store[k], Done(k)) /\ store[k] \in Seq(Job) /\ Done(k) \in SUBSET Job
      BY <1>0 DEF StoreInv, Done
    <2>3. CASE jobs[j].key = k
      <3>1. Done(k)' = Done(k) \cup {j} /\ j \notin Done(k)
        BY <2>1, <2>3 DEF Done
      <3>2. store'[k] = Pruned(Append(store[k], j))
        BY <1>0, <1>4, <2>3 DEF Succeeds
      <3> QED BY <2>2, <3>1, <3>2, KeepsOneMore
    <2>4. CASE jobs[j].key # k
      <3>1. Done(k)' = Done(k)
        BY <2>1, <2>4 DEF Done
      <3>2. store'[k] = store[k]
        BY <1>0, <1>4, <2>4 DEF Succeeds
      <3> QED BY <2>2, <3>1, <3>2
    <2> QED BY <2>3, <2>4
  <1>5. ASSUME NEW j \in Job, Absorbs(j)
        PROVE  StoreInv'
    <2>1. SameDone /\ UNCHANGED store
      BY <1>5, FollowerFacts, DeletedRow DEF Absorbs, IsLive
    <2> QED BY <1>1, <2>1
  <1>6. ASSUME NEW j \in Job, NEW d \in Nat, Defers(j, d)
        PROVE  StoreInv'
    <2>1. SameDone /\ UNCHANGED store
      BY <1>6 DEF Defers, Moves
    <2> QED BY <1>1, <2>1
  <1>7. ASSUME NEW j \in Job, NEW d \in Nat, NEW s \in Job, Coalesces(j, s, d)
        PROVE  StoreInv'
    <2>1. SameDone /\ UNCHANGED store
      BY <1>7, FollowerFacts DEF Coalesces, IsLive
    <2> QED BY <1>1, <2>1
  <1>8. CASE Ages
    <2>1. SameDone /\ UNCHANGED store
      BY <1>8 DEF Ages
    <2> QED BY <1>1, <2>1
  <1>9. CASE UNCHANGED vars
    BY <1>9 DEF vars, StoreInv, Done
  <1> QED BY <1>2, <1>3, <1>4, <1>5, <1>6, <1>7, <1>8, <1>9, EveryStepShaped DEF Shaped

\* The store of a key agrees with its job history: as many snapshots as jobs succeeded,
\* up to retention, each from a different succeeded job (succeedSnapshot).
THEOREM StoreAgrees == Spec => []StoreMatchesHistory
  <1>1. Init => StoreInv
    <2> SUFFICES ASSUME Init, NEW k \in SnapshotKey PROVE Keeps(store[k], Done(k))
      BY DEF StoreInv
    <2>1. store[k] = <<>> /\ Done(k) = {}
      BY DEF Init, Done, NoRow
    <2>2. Len(<<>>) = 0 /\ MinOf(Retention, 0) = 0
      BY RetentionAssumption DEF MinOf
    <2> QED BY <2>1, <2>2, FS_EmptySet DEF Keeps
  <1>2. QueueInv /\ StoreInv /\ [Next]_vars => StoreInv'
    BY StoreNext
  <1>3. StoreInv => StoreMatchesHistory
    BY DEF StoreInv, Keeps, Done, StoreMatchesHistory
  <1> QED BY <1>1, <1>2, <1>3, QueueInvHolds, PTL DEF Spec

-----------------------------------------------------------------------------
(* The queue implements RequestService                                     *)

\* A row that waits or runs does so for some request, and rows record accepted
\* requests only.
RecordAt(j) ==
    /\ jobs[j].triggers \subseteq accepted
    /\ jobs[j].state \in ActiveState => jobs[j].triggers # {}
RecordInv == \A j \in Job : RecordAt(j)

LEMMA RecordNext ==
  ASSUME QueueInv, RecordInv, [Next]_vars
  PROVE  RecordInv'
  <1> USE LiveStateFacts DEF ActiveState
  <1> SUFFICES ASSUME NEW c \in Job PROVE RecordAt(c)'
    BY DEF RecordInv
  <1>1. RecordAt(c) /\ \A i \in Job : RecordAt(i)
    BY DEF RecordInv
  <1>2. ASSUME NEW j \in Job, NEW m \in Key, NEW t \in Trigger, Accepts(j, m, t)
        PROVE  RecordAt(c)'
    BY <1>1, <1>2 DEF Accepts, RecordAt
  <1>3. ASSUME NEW j \in Job,
               Leases(j) \/ Stays(j) \/ Ends(j) \/ Dies(j) \/ Succeeds(j) \/ Withdraws(j)
        PROVE  RecordAt(c)'
    BY <1>1, <1>3 DEF Leases, Stays, Ends, Dies, Succeeds, Withdraws, Moves, RecordAt
  <1>4. ASSUME NEW j \in Job, Absorbs(j)
        PROVE  RecordAt(c)'
    <2>1. \A f \in Followers(j) : f \in Job
      BY FollowerFacts
    <2>2. jobs[j].triggers # {} /\ jobs[j].triggers \subseteq accepted
      BY <1>1, <1>4 DEF Absorbs, RecordAt, IsLive
    <2>3. jobs'[j].triggers # {} /\ jobs'[j].triggers \subseteq accepted
      BY <1>1, <1>4, <2>1, <2>2 DEF Absorbs, RecordAt
    <2> QED BY <1>1, <1>4, <2>3, DeletedRow DEF Absorbs, RecordAt
  <1>5. ASSUME NEW j \in Job, NEW d \in Nat, Defers(j, d)
        PROVE  RecordAt(c)'
    BY <1>1, <1>5 DEF Defers, Moves, RecordAt
  <1>6. ASSUME NEW j \in Job, NEW d \in Nat, NEW s \in Job, Coalesces(j, s, d)
        PROVE  RecordAt(c)'
    BY <1>1, <1>6, FollowerFacts DEF Coalesces, RecordAt
  <1>7. CASE Ages
    BY <1>1, <1>7 DEF Ages, RecordAt
  <1>8. CASE UNCHANGED vars
    BY <1>1, <1>8 DEF vars, RecordAt
  <1> QED BY <1>2, <1>3, <1>4, <1>5, <1>6, <1>7, <1>8, EveryStepShaped DEF Shaped

LEMMA RecordInvHolds == Spec => []RecordInv
  <1>1. Init => RecordInv
    BY DEF Init, RecordInv, RecordAt, NoRow, ActiveState, LiveState
  <1>2. QueueInv /\ RecordInv /\ [Next]_vars => RecordInv'
    BY RecordNext
  <1> QED BY <1>1, <1>2, QueueInvHolds, PTL DEF Spec

LEMMA InTriggersOf ==
  ASSUME NEW k, NEW S, NEW t
  PROVE  t \in TriggersOf(k, S) <=>
           \E i \in Job : jobs[i].key = k /\ jobs[i].state \in S /\ t \in jobs[i].triggers
  BY DEF TriggersOf

LEMMA InTriggersOfNext ==
  ASSUME NEW k, NEW S, NEW t
  PROVE  t \in TriggersOf(k, S)' <=>
           \E i \in Job : jobs'[i].key = k /\ jobs'[i].state \in S /\ t \in jobs'[i].triggers
  BY DEF TriggersOf

\* What a move does to the triggers recorded in a class C of states.
LEMMA MoveOutside ==
  ASSUME NEW j \in Job, NEW from, NEW to, NEW C, Moves(j, from, to), NEW k,
         \/ from \cap C = {} /\ to \cap C = {}
         \/ from \subseteq C /\ to \subseteq C
         \/ jobs[j].key # k
  PROVE  TriggersOf(k, C)' = TriggersOf(k, C)
  <1>1. \A i \in Job : (jobs'[i].key = k /\ jobs'[i].state \in C) <=>
                       (jobs[i].key = k /\ jobs[i].state \in C)
    BY DEF Moves
  <1>2. \A i \in Job : jobs'[i].triggers = jobs[i].triggers
    BY DEF Moves
  <1>3. \A t : t \in TriggersOf(k, C)' <=> t \in TriggersOf(k, C)
    BY <1>1, <1>2, InTriggersOf, InTriggersOfNext
  <1> QED BY <1>3

HasKey(j, k) == jobs[j].key = k

Alone(j, k, C) == \A i \in Job : jobs[i].key = k /\ jobs[i].state \in C => i = j

LEMMA MoveInto ==
  ASSUME NEW j \in Job, NEW from, NEW to, NEW C, Moves(j, from, to), NEW k,
         from \cap C = {}, to \subseteq C, HasKey(j, k)
  PROVE  TriggersOf(k, C)' = TriggersOf(k, C) \cup jobs[j].triggers
  <1>1. \A i \in Job : i # j => ((jobs'[i].key = k /\ jobs'[i].state \in C) <=>
                                 (jobs[i].key = k /\ jobs[i].state \in C))
    BY DEF Moves, HasKey
  <1>2. /\ \A i \in Job : jobs'[i].triggers = jobs[i].triggers
        /\ jobs'[j].key = k /\ jobs'[j].state \in C /\ jobs[j].state \notin C
    BY DEF Moves, HasKey
  <1>3. \A t : t \in TriggersOf(k, C)' <=> t \in TriggersOf(k, C) \/ t \in jobs[j].triggers
    BY <1>1, <1>2, InTriggersOf, InTriggersOfNext
  <1> QED BY <1>3

QueuedClass == {"queued"}
ServedClass == {"succeeded"}
DroppedClass == {"dead_lettered", "cancelled"}
Classes == {QueuedClass, LiveState, ServedClass, DroppedClass}

LEMMA ClassesDisjoint ==
  /\ \A A, B \in Classes : A # B => A \cap B = {}
  /\ QueuedClass # LiveState /\ QueuedClass # ServedClass /\ QueuedClass # DroppedClass
  /\ LiveState # ServedClass /\ LiveState # DroppedClass /\ ServedClass # DroppedClass
  BY DEF Classes, QueuedClass, ServedClass, DroppedClass, LiveState

\* The refinement mapping, by class.
LEMMA BarsByClass ==
  /\ waitingBar = [k \in BatchKey |-> TriggersOf(k, QueuedClass)]
  /\ servingBar = [k \in BatchKey |-> TriggersOf(k, LiveState)]
  /\ servedBar = [k \in BatchKey |-> TriggersOf(k, ServedClass)]
  /\ droppedBar = [k \in BatchKey |-> TriggersOf(k, DroppedClass)]
  /\ waitingBar' = [k \in BatchKey |-> TriggersOf(k, QueuedClass)']
  /\ servingBar' = [k \in BatchKey |-> TriggersOf(k, LiveState)']
  /\ servedBar' = [k \in BatchKey |-> TriggersOf(k, ServedClass)']
  /\ droppedBar' = [k \in BatchKey |-> TriggersOf(k, DroppedClass)']
  BY DEF waitingBar, servingBar, servedBar, droppedBar, QueuedClass, ServedClass, DroppedClass

LEMMA ServiceStutters ==
  ASSUME \A k \in BatchKey, C \in Classes : TriggersOf(k, C)' = TriggersOf(k, C)
  PROVE  UNCHANGED RS!vars
  <1>1. \A k \in BatchKey : /\ TriggersOf(k, QueuedClass)' = TriggersOf(k, QueuedClass)
                            /\ TriggersOf(k, LiveState)' = TriggersOf(k, LiveState)
                            /\ TriggersOf(k, ServedClass)' = TriggersOf(k, ServedClass)
                            /\ TriggersOf(k, DroppedClass)' = TriggersOf(k, DroppedClass)
    BY DEF Classes
  <1> QED BY <1>1, BarsByClass DEF RS!vars

\* The service does not see rows of interactive keys, nor ids without a row.
Unseen(j) == jobs[j].key \notin BatchKey \/ jobs[j].state \notin RowState

LEMMA UnseenStutters ==
  ASSUME NEW j \in Job, \A i \in Job : i # j => jobs'[i] = jobs[i], Unseen(j), Unseen(j)'
  PROVE  UNCHANGED RS!vars
  <1>1. ASSUME NEW k \in BatchKey, NEW C \in Classes
        PROVE  TriggersOf(k, C)' = TriggersOf(k, C)
    <2>1. C \subseteq RowState
      BY DEF Classes, QueuedClass, ServedClass, DroppedClass, RowState, TerminalState
    <2>2. \A i \in Job : (jobs'[i].key = k /\ jobs'[i].state \in C) <=>
                         (jobs[i].key = k /\ jobs[i].state \in C)
      BY <2>1 DEF Unseen
    <2>3. \A i \in Job : jobs[i].key = k /\ jobs[i].state \in C => jobs'[i] = jobs[i]
      BY <2>1 DEF Unseen
    <2>4. \A t : t \in TriggersOf(k, C)' <=> t \in TriggersOf(k, C)
      BY <2>2, <2>3, InTriggersOf, InTriggersOfNext
    <2> QED BY <2>4
  <1> QED BY <1>1, ServiceStutters

\* A move from class A, where the row is the only one of its key, to class B.
LEMMA ClassMove ==
  ASSUME NEW j \in Job, NEW K \in BatchKey, HasKey(j, K),
         NEW from, NEW to, Moves(j, from, to),
         NEW A \in Classes, NEW B \in Classes, A # B, from \subseteq A, to \subseteq B,
         Alone(j, K, A)
  PROVE  /\ \A k \in BatchKey, C \in Classes : k # K \/ (C # A /\ C # B) =>
              TriggersOf(k, C)' = TriggersOf(k, C)
         /\ TriggersOf(K, A) = jobs[j].triggers
         /\ TriggersOf(K, A)' = {}
         /\ TriggersOf(K, B)' = TriggersOf(K, B) \cup jobs[j].triggers
  <1>0. from \cap B = {} /\ to \cap A = {}
        /\ \A C \in Classes : C # A /\ C # B => from \cap C = {} /\ to \cap C = {}
    BY ClassesDisjoint
  <1>1. ASSUME NEW k \in BatchKey, NEW C \in Classes, k # K \/ (C # A /\ C # B)
        PROVE  TriggersOf(k, C)' = TriggersOf(k, C)
    BY <1>0, <1>1, MoveOutside DEF HasKey
  <1>2. TriggersOf(K, A) = jobs[j].triggers /\ TriggersOf(K, A)' = {}
    <2>1. /\ \A i \in Job : ~(jobs'[i].key = K /\ jobs'[i].state \in A)
          /\ jobs[j].state \in A
      BY <1>0 DEF Moves, HasKey, Alone
    <2>2. \A t : t \notin TriggersOf(K, A)'
      BY <2>1, InTriggersOfNext
    <2>3. \A t : t \in TriggersOf(K, A) <=> t \in jobs[j].triggers
      BY <2>1, InTriggersOf DEF HasKey, Alone
    <2> QED BY <2>2, <2>3
  <1>3. TriggersOf(K, B)' = TriggersOf(K, B) \cup jobs[j].triggers
    BY <1>0, MoveInto
  <1> QED BY <1>1, <1>2, <1>3

\* The live row of a batch key holds what the key's run serves, and its queued row
\* what waits.
LEMMA LiveRowServes ==
  ASSUME QueueInv, RecordInv, NEW j \in Job, NEW K \in BatchKey, HasKey(j, K),
         jobs[j].state \in LiveState
  PROVE  /\ Alone(j, K, LiveState)
         /\ TriggersOf(K, LiveState) = jobs[j].triggers
         /\ jobs[j].triggers # {}
  <1>1. Alone(j, K, LiveState)
    BY IndexFacts DEF HasKey, Alone, OneLive
  <1>2. \A t : t \in TriggersOf(K, LiveState) <=> t \in jobs[j].triggers
    BY <1>1, InTriggersOf DEF HasKey, Alone
  <1> QED BY <1>1, <1>2 DEF RecordInv, RecordAt, ActiveState

LEMMA QueuedRowWaits ==
  ASSUME QueueInv, RecordInv, NEW j \in Job, NEW K \in BatchKey, HasKey(j, K),
         jobs[j].state \in QueuedClass
  PROVE  /\ Alone(j, K, QueuedClass)
         /\ TriggersOf(K, QueuedClass) = jobs[j].triggers
         /\ jobs[j].triggers # {}
  <1>1. Alone(j, K, QueuedClass)
    BY IndexFacts DEF HasKey, Alone, OneQueued, QueuedClass
  <1>2. \A t : t \in TriggersOf(K, QueuedClass) <=> t \in jobs[j].triggers
    BY <1>1, InTriggersOf DEF HasKey, Alone
  <1> QED BY <1>1, <1>2 DEF RecordInv, RecordAt, ActiveState, QueuedClass

LEMMA RunDropped ==
  ASSUME QueueInv, RecordInv, NEW j \in Job, NEW K \in BatchKey, HasKey(j, K),
         NEW to, to \subseteq DroppedClass, Moves(j, LiveState, to)
  PROVE  RS!Drop(K)
  <1>1. jobs[j].state \in LiveState
    BY DEF Moves
  <1>2. LiveState \in Classes /\ DroppedClass \in Classes /\ QueuedClass \in Classes
        /\ ServedClass \in Classes
    BY DEF Classes
  <1>3. /\ \A k \in BatchKey, C \in Classes : k # K \/ (C # LiveState /\ C # DroppedClass) =>
             TriggersOf(k, C)' = TriggersOf(k, C)
        /\ TriggersOf(K, LiveState) = jobs[j].triggers
        /\ TriggersOf(K, LiveState)' = {}
        /\ TriggersOf(K, DroppedClass)' = TriggersOf(K, DroppedClass) \cup jobs[j].triggers
    BY <1>1, <1>2, ClassMove, ClassesDisjoint, LiveRowServes
  <1>4. jobs[j].triggers # {}
    BY <1>1, LiveRowServes
  <1>5. servingBar[K] # {}
    BY <1>3, <1>4, BarsByClass
  <1>6. droppedBar' = [droppedBar EXCEPT ![K] = @ \cup servingBar[K]]
    BY <1>2, <1>3, ClassesDisjoint, BarsByClass
  <1>7. servingBar' = [servingBar EXCEPT ![K] = {}]
    BY <1>2, <1>3, ClassesDisjoint, BarsByClass
  <1>8. waitingBar' = waitingBar /\ servedBar' = servedBar
    BY <1>2, <1>3, ClassesDisjoint, BarsByClass
  <1> QED BY <1>5, <1>6, <1>7, <1>8 DEF RS!Drop

LEMMA RunServed ==
  ASSUME QueueInv, RecordInv, NEW j \in Job, NEW K \in BatchKey, HasKey(j, K),
         Moves(j, LiveState, ServedClass)
  PROVE  RS!Serve(K)
  <1>1. jobs[j].state \in LiveState
    BY DEF Moves
  <1>2. LiveState \in Classes /\ DroppedClass \in Classes /\ QueuedClass \in Classes
        /\ ServedClass \in Classes
    BY DEF Classes
  <1>3. /\ \A k \in BatchKey, C \in Classes : k # K \/ (C # LiveState /\ C # ServedClass) =>
             TriggersOf(k, C)' = TriggersOf(k, C)
        /\ TriggersOf(K, LiveState) = jobs[j].triggers
        /\ TriggersOf(K, LiveState)' = {}
        /\ TriggersOf(K, ServedClass)' = TriggersOf(K, ServedClass) \cup jobs[j].triggers
    BY <1>1, <1>2, ClassMove, ClassesDisjoint, LiveRowServes
  <1>4. jobs[j].triggers # {}
    BY <1>1, LiveRowServes
  <1>5. servingBar[K] # {}
    BY <1>3, <1>4, BarsByClass
  <1>6. servedBar' = [servedBar EXCEPT ![K] = @ \cup servingBar[K]]
    BY <1>2, <1>3, ClassesDisjoint, BarsByClass
  <1>7. servingBar' = [servingBar EXCEPT ![K] = {}]
    BY <1>2, <1>3, ClassesDisjoint, BarsByClass
  <1>8. waitingBar' = waitingBar /\ droppedBar' = droppedBar
    BY <1>2, <1>3, ClassesDisjoint, BarsByClass
  <1> QED BY <1>5, <1>6, <1>7, <1>8 DEF RS!Serve

LEMMA RequestsWithdrawn ==
  ASSUME QueueInv, RecordInv, NEW j \in Job, NEW K \in BatchKey, HasKey(j, K),
         NEW to, to \subseteq DroppedClass, Moves(j, QueuedClass, to)
  PROVE  RS!Withdraw(K)
  <1>1. jobs[j].state \in QueuedClass
    BY DEF Moves
  <1>2. LiveState \in Classes /\ DroppedClass \in Classes /\ QueuedClass \in Classes
        /\ ServedClass \in Classes
    BY DEF Classes
  <1>3. /\ \A k \in BatchKey, C \in Classes : k # K \/ (C # QueuedClass /\ C # DroppedClass) =>
             TriggersOf(k, C)' = TriggersOf(k, C)
        /\ TriggersOf(K, QueuedClass) = jobs[j].triggers
        /\ TriggersOf(K, QueuedClass)' = {}
        /\ TriggersOf(K, DroppedClass)' = TriggersOf(K, DroppedClass) \cup jobs[j].triggers
    BY <1>1, <1>2, ClassMove, ClassesDisjoint, QueuedRowWaits
  <1>4. jobs[j].triggers # {}
    BY <1>1, QueuedRowWaits
  <1>5. waitingBar[K] # {}
    BY <1>3, <1>4, BarsByClass
  <1>6. droppedBar' = [droppedBar EXCEPT ![K] = @ \cup waitingBar[K]]
    BY <1>2, <1>3, ClassesDisjoint, BarsByClass
  <1>7. waitingBar' = [waitingBar EXCEPT ![K] = {}]
    BY <1>2, <1>3, ClassesDisjoint, BarsByClass
  <1>8. servingBar' = servingBar /\ servedBar' = servedBar
    BY <1>2, <1>3, ClassesDisjoint, BarsByClass
  <1> QED BY <1>5, <1>6, <1>7, <1>8 DEF RS!Withdraw

LEMMA RunBegun ==
  ASSUME QueueInv, RecordInv, NEW j \in Job, NEW K \in BatchKey, HasKey(j, K),
         LiveOf(K) = {}, Moves(j, QueuedClass, LiveState)
  PROVE  RS!Begin(K)
  <1>1. jobs[j].state \in QueuedClass
    BY DEF Moves
  <1>2. LiveState \in Classes /\ DroppedClass \in Classes /\ QueuedClass \in Classes
        /\ ServedClass \in Classes
    BY DEF Classes
  <1>3. /\ \A k \in BatchKey, C \in Classes : k # K \/ (C # QueuedClass /\ C # LiveState) =>
             TriggersOf(k, C)' = TriggersOf(k, C)
        /\ TriggersOf(K, QueuedClass) = jobs[j].triggers
        /\ TriggersOf(K, QueuedClass)' = {}
        /\ TriggersOf(K, LiveState)' = TriggersOf(K, LiveState) \cup jobs[j].triggers
    BY <1>1, <1>2, ClassMove, ClassesDisjoint, QueuedRowWaits
  <1>4. jobs[j].triggers # {}
    BY <1>1, QueuedRowWaits
  <1>5. TriggersOf(K, LiveState) = {}
    <2>1. \A t : t \notin TriggersOf(K, LiveState)
      BY InTriggersOf DEF LiveOf, IsLive
    <2> QED BY <2>1
  <1>6. waitingBar[K] # {} /\ servingBar[K] = {}
    BY <1>3, <1>4, <1>5, BarsByClass
  <1>7. servingBar' = [servingBar EXCEPT ![K] = waitingBar[K]]
    BY <1>2, <1>3, <1>5, ClassesDisjoint, BarsByClass
  <1>8. waitingBar' = [waitingBar EXCEPT ![K] = {}]
    BY <1>2, <1>3, ClassesDisjoint, BarsByClass
  <1>9. servedBar' = servedBar /\ droppedBar' = droppedBar
    BY <1>2, <1>3, ClassesDisjoint, BarsByClass
  <1> QED BY <1>6, <1>7, <1>8, <1>9 DEF RS!Begin

LEMMA HandedBack ==
  ASSUME NEW K \in BatchKey,
         \A k \in BatchKey, C \in Classes : k # K \/ (C # QueuedClass /\ C # LiveState) =>
           TriggersOf(k, C)' = TriggersOf(k, C),
         TriggersOf(K, LiveState) # {}, TriggersOf(K, LiveState)' = {},
         TriggersOf(K, QueuedClass)' = TriggersOf(K, QueuedClass) \cup TriggersOf(K, LiveState)
  PROVE  RS!HandBack(K)
  <1>1. LiveState \in Classes /\ DroppedClass \in Classes /\ QueuedClass \in Classes
        /\ ServedClass \in Classes
    BY DEF Classes
  <1>2. servingBar[K] # {}
    BY BarsByClass
  <1>3. waitingBar' = [waitingBar EXCEPT ![K] = @ \cup servingBar[K]]
    BY <1>1, ClassesDisjoint, BarsByClass
  <1>4. servingBar' = [servingBar EXCEPT ![K] = {}]
    BY <1>1, ClassesDisjoint, BarsByClass
  <1>5. servedBar' = servedBar /\ droppedBar' = droppedBar
    BY <1>1, ClassesDisjoint, BarsByClass
  <1> QED BY <1>2, <1>3, <1>4, <1>5 DEF RS!HandBack

\* A deferral returns the row to the queue with its requests.
LEMMA RunDeferred ==
  ASSUME QueueInv, RecordInv, NEW j \in Job, NEW K \in BatchKey, HasKey(j, K),
         Moves(j, LiveState, QueuedClass)
  PROVE  RS!HandBack(K)
  <1>1. jobs[j].state \in LiveState
    BY DEF Moves
  <1>2. LiveState \in Classes /\ QueuedClass \in Classes
    BY DEF Classes
  <1>3. /\ \A k \in BatchKey, C \in Classes : k # K \/ (C # LiveState /\ C # QueuedClass) =>
             TriggersOf(k, C)' = TriggersOf(k, C)
        /\ TriggersOf(K, LiveState) = jobs[j].triggers
        /\ TriggersOf(K, LiveState)' = {}
        /\ TriggersOf(K, QueuedClass)' = TriggersOf(K, QueuedClass) \cup jobs[j].triggers
    BY <1>1, <1>2, ClassMove, ClassesDisjoint, LiveRowServes
  <1>4. jobs[j].triggers # {}
    BY <1>1, LiveRowServes
  <1> QED BY <1>3, <1>4, HandedBack

\* A deferred row that coalesces hands its requests to the survivor.
LEMMA RunCoalesced ==
  ASSUME QueueInv, RecordInv, NEW j \in Job, NEW s \in Job, NEW d \in Nat, Coalesces(j, s, d)
  PROVE  jobs[j].key \in BatchKey /\ RS!HandBack(jobs[j].key)
  <1> USE LiveStateFacts
  <1>0. /\ s # j /\ jobs[s].state = "queued" /\ jobs[s].key = jobs[j].key
        /\ jobs[j].key \in BatchKey /\ jobs[j].state \in LiveState
    BY FollowerFacts DEF Coalesces, IsLive
  <1>1. PICK K \in BatchKey : HasKey(j, K)
    BY <1>0 DEF HasKey
  <1>2. /\ Alone(j, K, LiveState) /\ TriggersOf(K, LiveState) = jobs[j].triggers
        /\ jobs[j].triggers # {}
    BY <1>0, <1>1, LiveRowServes
  <1>3. ASSUME NEW k \in BatchKey, NEW C \in Classes, k # K \/ (C # QueuedClass /\ C # LiveState)
        PROVE  TriggersOf(k, C)' = TriggersOf(k, C)
    <2>1. k # K \/ ({"queued", "coalesced"} \cap C = {} /\ LiveState \cap C = {})
      BY <1>3 DEF Classes, QueuedClass, ServedClass, DroppedClass, LiveState
    <2>2. \A i \in Job : (jobs'[i].key = k /\ jobs'[i].state \in C) <=>
                         (jobs[i].key = k /\ jobs[i].state \in C)
      BY <1>0, <1>1, <2>1 DEF Coalesces, HasKey
    <2>3. \A i \in Job : jobs[i].key = k /\ jobs[i].state \in C => jobs'[i] = jobs[i]
      BY <1>0, <1>1, <2>1 DEF Coalesces, HasKey
    <2>4. \A t : t \in TriggersOf(k, C)' <=> t \in TriggersOf(k, C)
      BY <2>2, <2>3, InTriggersOf, InTriggersOfNext
    <2> QED BY <2>4
  <1>4. TriggersOf(K, LiveState)' = {}
    <2>1. \A i \in Job : ~(jobs'[i].key = K /\ jobs'[i].state \in LiveState)
      BY <1>0, <1>1, <1>2 DEF Coalesces, HasKey, Alone
    <2>2. \A t : t \notin TriggersOf(K, LiveState)'
      BY <2>1, InTriggersOfNext
    <2> QED BY <2>2
  <1>5. TriggersOf(K, QueuedClass)' = TriggersOf(K, QueuedClass) \cup jobs[j].triggers
    <2>1. HasKey(s, K) /\ jobs[s].state \in QueuedClass
      BY <1>0, <1>1 DEF HasKey, QueuedClass
    <2>2. Alone(s, K, QueuedClass) /\ TriggersOf(K, QueuedClass) = jobs[s].triggers
      BY <2>1, QueuedRowWaits
    <2>3. \A i \in Job : jobs'[i].key = K /\ jobs'[i].state \in QueuedClass <=> i = s
      BY <1>0, <2>1, <2>2 DEF Coalesces, HasKey, Alone, QueuedClass
    <2>4. \A t : t \in TriggersOf(K, QueuedClass)' <=> t \in jobs'[s].triggers
      BY <2>3, InTriggersOfNext
    <2> QED BY <2>2, <2>4 DEF Coalesces
  <1>6. RS!HandBack(K)
    BY <1>2, <1>3, <1>4, <1>5, HandedBack
  <1> QED BY <1>0, <1>1, <1>6 DEF HasKey

\* A retried row takes its own requests and those of the follower it absorbs.
LEMMA RunRetried ==
  ASSUME QueueInv, RecordInv, NEW j \in Job, NEW K \in BatchKey, HasKey(j, K), Absorbs(j)
  PROVE  RS!HandBack(K)
  <1> USE LiveStateFacts
  <1>0. jobs[j].state \in LiveState /\ K # None
    BY KeyAssumption, NoneAssumption DEF Absorbs, IsLive
  <1>2. /\ Alone(j, K, LiveState) /\ TriggersOf(K, LiveState) = jobs[j].triggers
        /\ jobs[j].triggers # {}
    BY <1>0, LiveRowServes
  <1>a. \A f : f \in Followers(j) <=> f \in Job /\ jobs[f].state = "queued" /\ jobs[f].key = K
    BY <1>0 DEF Followers, QueuedOf, HasKey
  <1>b. \A i \in Job : \/ i = j \/ i \in Followers(j)
                       \/ i # j /\ i \notin Followers(j) /\ jobs'[i] = jobs[i]
    BY DEF Absorbs
  <1>c. \A f \in Followers(j) : jobs'[f].state = "deleted" /\ jobs'[f].key = None
    BY DeletedRow DEF Absorbs
  <1>3. ASSUME NEW k \in BatchKey, NEW C \in Classes, k # K \/ (C # QueuedClass /\ C # LiveState)
        PROVE  TriggersOf(k, C)' = TriggersOf(k, C)
    <2>0. k # None
      BY KeyAssumption, NoneAssumption
    <2>1. k # K \/ ("queued" \notin C /\ LiveState \cap C = {})
      BY <1>3 DEF Classes, QueuedClass, ServedClass, DroppedClass, LiveState
    <2>2. \A i \in Job : (jobs'[i].key = k /\ jobs'[i].state \in C) <=>
                         (jobs[i].key = k /\ jobs[i].state \in C)
      BY <1>0, <1>a, <1>b, <1>c, <2>0, <2>1 DEF Absorbs, HasKey
    <2>3. \A i \in Job : jobs[i].key = k /\ jobs[i].state \in C => jobs'[i] = jobs[i]
      BY <1>0, <1>a, <1>b, <2>1 DEF Absorbs, HasKey
    <2>4. \A t : t \in TriggersOf(k, C)' <=> t \in TriggersOf(k, C)
      BY <2>2, <2>3, InTriggersOf, InTriggersOfNext
    <2> QED BY <2>4
  <1>4. TriggersOf(K, LiveState)' = {}
    <2>1. \A i \in Job : ~(jobs'[i].key = K /\ jobs'[i].state \in LiveState)
      BY <1>0, <1>2, <1>b, <1>c DEF Absorbs, HasKey, Alone
    <2>2. \A t : t \notin TriggersOf(K, LiveState)'
      BY <2>1, InTriggersOfNext
    <2> QED BY <2>2
  <1>5. TriggersOf(K, QueuedClass)' = TriggersOf(K, QueuedClass) \cup jobs[j].triggers
    <2>1. \A i \in Job : jobs'[i].key = K /\ jobs'[i].state \in QueuedClass <=> i = j
      BY <1>0, <1>a, <1>b, <1>c DEF Absorbs, HasKey, QueuedClass
    <2>2. \A t : t \in TriggersOf(K, QueuedClass)' <=> t \in jobs'[j].triggers
      BY <2>1, InTriggersOfNext
    <2>3. \A t : t \in jobs'[j].triggers <=>
                   t \in jobs[j].triggers \/ \E f \in Followers(j) : t \in jobs[f].triggers
      BY DEF Absorbs
    <2>4. \A t : t \in TriggersOf(K, QueuedClass) <=> \E f \in Followers(j) : t \in jobs[f].triggers
      BY <1>a, InTriggersOf DEF QueuedClass
    <2>5. \A t : t \in TriggersOf(K, QueuedClass)' <=>
                   t \in TriggersOf(K, QueuedClass) \/ t \in jobs[j].triggers
      BY <2>2, <2>3, <2>4
    <2> QED BY <2>5
  <1> QED BY <1>2, <1>3, <1>4, <1>5, HandedBack

LEMMA RequestSubmitted ==
  ASSUME QueueInv, RecordInv, NEW j \in Job, NEW K \in BatchKey, NEW t \in Trigger, Accepts(j, K, t)
  PROVE  RS!Submit(K, t)
  <1> USE LiveStateFacts
  <1>0. jobs[j].state \in RowState \/ jobs[j].triggers = {}
    BY DEF QueueInv, TableInv, RowInv
  <1>1. LiveState \in Classes /\ DroppedClass \in Classes /\ QueuedClass \in Classes
        /\ ServedClass \in Classes
    BY DEF Classes
  <1>2. t \notin RS!Submitted
    <2>1. \A k, C : t \notin TriggersOf(k, C)
      BY InTriggersOf DEF RecordInv, RecordAt, Accepts
    <2>2. \A k \in BatchKey : t \notin waitingBar[k] /\ t \notin servingBar[k]
                              /\ t \notin servedBar[k] /\ t \notin droppedBar[k]
      BY <2>1, BarsByClass
    <2> QED BY <2>2 DEF RS!Submitted
  <1>3. ASSUME NEW k \in BatchKey, NEW C \in Classes, k # K \/ C # QueuedClass
        PROVE  TriggersOf(k, C)' = TriggersOf(k, C)
    <2>1. (k # K \/ "queued" \notin C) /\ "absent" \notin C
      BY <1>3 DEF Classes, QueuedClass, ServedClass, DroppedClass, LiveState
    <2>2. \A i \in Job : (jobs'[i].key = k /\ jobs'[i].state \in C) <=>
                         (jobs[i].key = k /\ jobs[i].state \in C)
      BY <2>1 DEF Accepts
    <2>3. \A i \in Job : jobs[i].key = k /\ jobs[i].state \in C => jobs'[i] = jobs[i]
      BY <2>1 DEF Accepts
    <2>4. \A u : u \in TriggersOf(k, C)' <=> u \in TriggersOf(k, C)
      BY <2>2, <2>3, InTriggersOf, InTriggersOfNext
    <2> QED BY <2>4
  <1>4. TriggersOf(K, QueuedClass)' = TriggersOf(K, QueuedClass) \cup {t}
    <2>1. /\ \A i \in Job : jobs'[i].key = K /\ jobs'[i].state \in QueuedClass <=>
                            i = j \/ (jobs[i].key = K /\ jobs[i].state \in QueuedClass)
          /\ \A i \in Job : i # j => jobs'[i].triggers = jobs[i].triggers
      BY DEF Accepts, QueuedClass
    <2>2. \/ /\ jobs'[j].triggers = jobs[j].triggers \cup {t}
             /\ jobs[j].key = K /\ jobs[j].state \in QueuedClass
          \/ jobs'[j].triggers = {t} /\ jobs[j].state \notin QueuedClass
      BY DEF Accepts, QueuedClass
    <2>3. \A u : u \in TriggersOf(K, QueuedClass)' <=> u \in TriggersOf(K, QueuedClass) \/ u = t
      BY <2>1, <2>2, InTriggersOf, InTriggersOfNext
    <2> QED BY <2>3
  <1>5. waitingBar' = [waitingBar EXCEPT ![K] = @ \cup {t}]
    BY <1>1, <1>3, <1>4, BarsByClass
  <1>6. servingBar' = servingBar /\ servedBar' = servedBar /\ droppedBar' = droppedBar
    BY <1>1, <1>3, ClassesDisjoint, BarsByClass
  <1> QED BY <1>2, <1>5, <1>6 DEF RS!Submit

LEMMA AgingStutters == ASSUME Ages PROVE UNCHANGED RS!vars
  <1>1. ASSUME NEW k \in BatchKey, NEW C \in Classes
        PROVE  TriggersOf(k, C)' = TriggersOf(k, C)
    <2>1. \A t : t \in TriggersOf(k, C)' <=> t \in TriggersOf(k, C)
      BY InTriggersOf, InTriggersOfNext DEF Ages
    <2> QED BY <2>1
  <1> QED BY <1>1, ServiceStutters

LEMMA StayingStutters ==
  ASSUME NEW j \in Job, Moves(j, LiveState, LiveState)
  PROVE  UNCHANGED RS!vars
  <1>1. ASSUME NEW k \in BatchKey, NEW C \in Classes
        PROVE  TriggersOf(k, C)' = TriggersOf(k, C)
    <2>1. LiveState \subseteq C \/ LiveState \cap C = {}
      BY ClassesDisjoint DEF Classes
    <2> QED BY <2>1, MoveOutside
  <1> QED BY <1>1, ServiceStutters

\* Each transaction is a step of the service or leaves it alone.
LEMMA ServiceStep ==
  ASSUME QueueInv, RecordInv, [Next]_vars
  PROVE  [RS!Next]_RS!vars
  <1> USE LiveStateFacts
  <1> DEFINE Seen == RS!Next \/ UNCHANGED RS!vars
  <1>a. ASSUME NEW j \in Job, NEW K \in BatchKey,
               RS!Begin(K) \/ RS!HandBack(K) \/ RS!Serve(K) \/ RS!Drop(K) \/ RS!Withdraw(K)
        PROVE  Seen
    BY <1>a DEF RS!Next
  <1>b. \A j \in Job : jobs[j].key \in BatchKey => \E K \in BatchKey : HasKey(j, K)
    BY DEF HasKey
  <1>c. ASSUME NEW j \in Job, NEW from, NEW to, Moves(j, from, to), jobs[j].key \notin BatchKey
        PROVE  Seen
    <2>1. Unseen(j) /\ Unseen(j)' /\ \A i \in Job : i # j => jobs'[i] = jobs[i]
      BY <1>c DEF Moves, Unseen
    <2> QED BY <2>1, UnseenStutters
  <1>1. ASSUME NEW j \in Job, NEW k \in Key, NEW t \in Trigger, Accepts(j, k, t)
        PROVE  Seen
    <2>1. CASE k \in BatchKey
      BY <1>1, <2>1, RequestSubmitted DEF RS!Next
    <2>2. CASE k \notin BatchKey
      <3>1. "absent" \notin RowState
        BY DEF RowState, LiveState, TerminalState
      <3>2. Unseen(j) /\ Unseen(j)' /\ \A i \in Job : i # j => jobs'[i] = jobs[i]
        BY <1>1, <2>2, <3>1 DEF Accepts, Unseen
      <3> QED BY <3>2, UnseenStutters
    <2> QED BY <2>1, <2>2
  <1>2. ASSUME NEW j \in Job, Leases(j)
        PROVE  Seen
    <2>1. Moves(j, QueuedClass, LiveState)
      BY <1>2 DEF Leases, QueuedClass
    <2>2. ASSUME NEW K \in BatchKey, HasKey(j, K) PROVE Seen
      <3>1. LiveOf(K) = {}
        BY <1>2, <2>2 DEF Leases, HasKey
      <3> QED BY <1>a, <2>1, <2>2, <3>1, RunBegun
    <2> QED BY <1>b, <1>c, <2>1, <2>2
  <1>3. ASSUME NEW j \in Job, Stays(j)
        PROVE  Seen
    BY <1>3, StayingStutters DEF Stays
  <1>4. ASSUME NEW j \in Job, Ends(j) \/ Dies(j)
        PROVE  Seen
    <2>1. PICK to \in {{"cancelled"}, {"dead_lettered"}} : Moves(j, LiveState, to)
      BY <1>4 DEF Ends, Dies
    <2>2. to \subseteq DroppedClass
      BY DEF DroppedClass
    <2> QED BY <1>a, <1>b, <1>c, <2>1, <2>2, RunDropped
  <1>5. ASSUME NEW j \in Job, Succeeds(j)
        PROVE  Seen
    <2>1. Moves(j, LiveState, ServedClass)
      BY <1>5 DEF Succeeds, ServedClass
    <2> QED BY <1>a, <1>b, <1>c, <2>1, RunServed
  <1>6. ASSUME NEW j \in Job, Withdraws(j)
        PROVE  Seen
    <2>1. PICK to \in {{"cancelled"}} : Moves(j, QueuedClass, to)
      BY <1>6 DEF Withdraws, QueuedClass
    <2>2. to \subseteq DroppedClass
      BY DEF DroppedClass
    <2> QED BY <1>a, <1>b, <1>c, <2>1, <2>2, RequestsWithdrawn
  <1>7. ASSUME NEW j \in Job, Absorbs(j)
        PROVE  Seen
    <2>1. CASE jobs[j].key \notin BatchKey
      <3>1. Unseen(j) /\ Unseen(j)' /\ \A i \in Job : i # j => jobs'[i] = jobs[i]
        BY <1>7, <2>1 DEF Absorbs, Unseen, Followers
      <3> QED BY <3>1, UnseenStutters
    <2> QED BY <1>7, <1>a, <1>b, <2>1, RunRetried
  <1>8. ASSUME NEW j \in Job, NEW d \in Nat, Defers(j, d)
        PROVE  Seen
    <2>1. Moves(j, LiveState, QueuedClass)
      BY <1>8 DEF Defers, QueuedClass
    <2> QED BY <1>a, <1>b, <1>c, <2>1, RunDeferred
  <1>9. ASSUME NEW j \in Job, NEW d \in Nat, NEW s \in Job, Coalesces(j, s, d)
        PROVE  Seen
    <2>1. jobs[j].key \in BatchKey /\ RS!HandBack(jobs[j].key)
      BY <1>9, RunCoalesced
    <2> QED BY <2>1 DEF RS!Next
  <1>10. CASE Ages
    BY <1>10, AgingStutters
  <1>11. CASE UNCHANGED vars
    BY <1>11 DEF vars, RS!vars, waitingBar, servingBar, servedBar, droppedBar, TriggersOf
  <1> QED BY <1>1, <1>2, <1>3, <1>4, <1>5, <1>6, <1>7, <1>8, <1>9, <1>10, <1>11,
             EveryStepShaped DEF Shaped

\* The queue implements the service its producers rely on: a batch request is accepted
\* once and is served by a run that began after it was accepted, handed back whole when
\* that run fails or is deferred, or dropped with it (enqueue, claimOnce,
\* requeueOrDeadLetter, coalesceIntoQueued, succeedSnapshot, cancelJob).
THEOREM ServiceImplemented == Spec => ImplementsRequestService
  <1>1. Init => RS!Init
    <2> SUFFICES ASSUME Init PROVE RS!Init
      OBVIOUS
    <2>1. \A k, C : TriggersOf(k, C) = {}
      <3>1. \A j \in Job : jobs[j].triggers = {}
        BY DEF Init, NoRow
      <3> QED BY <3>1 DEF TriggersOf
    <2> QED BY <2>1 DEF RS!Init, waitingBar, servingBar, servedBar, droppedBar
  <1>2. QueueInv /\ RecordInv /\ [Next]_vars => [RS!Next]_RS!vars
    BY ServiceStep
  <1> QED BY <1>1, <1>2, QueueInvHolds, RecordInvHolds, PTL
      DEF Spec, ImplementsRequestService, RS!Spec
=============================================================================
