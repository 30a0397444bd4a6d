-------------------------- MODULE RunnerFleetProofs --------------------------
(***************************************************************************)
(* Theorems about RunnerFleet for every number of runners, jobs and keys:  *)
(* the fleet only ever steps the queue as JobQueue allows, and no two of   *)
(* its runners hold the same work.                                         *)
(***************************************************************************)
EXTENDS RunnerFleet, JobQueueServiceProofs

-----------------------------------------------------------------------------
(* Leases granted                                                          *)

\* No update of a row but a claim changes the number of leases granted on it.
LEMMA GrantsOfRow ==
  ASSUME NEW r \in Row, NEW t, NEW e, NEW d, NEW T, NEW s, NEW tok
  PROVE  /\ Merged(r, t).grants = r.grants
         /\ Marked(r).grants = r.grants
         /\ CancelTerminal(r).grants = r.grants
         /\ DeadLetter(r, e).grants = r.grants
         /\ Requeued(r, e, d, T).grants = r.grants
         /\ Started(r).grants = r.grants
         /\ Beaten(r).grants = r.grants
         /\ Deferred(r, d).grants = r.grants
         /\ Coalesced(r, s).grants = r.grants
         /\ Survivor(r, d, T).grants = r.grants
         /\ Succeeded(r, tok).grants = r.grants
         /\ Aged(r).grants = r.grants
         /\ Leased(r).grants = r.grants + 1
         /\ Leased(r).token = r.grants + 1
  BY DEF Row, Released, Merged, Marked, CancelTerminal, DeadLetter, Requeued, Started, Beaten,
         Deferred, Coalesced, Survivor, Succeeded, Aged, Leased

\* A row's grants only grow while it is a row, and a deleted row does not come back.
GrantsGrow(i) ==
    /\ jobs[i].state \in RowState =>
         \/ jobs'[i].state = "deleted"
         \/ jobs'[i].state \in RowState /\ jobs'[i].grants >= jobs[i].grants
    /\ jobs[i].state = "deleted" => jobs'[i].state = "deleted"

LEMMA RowsStay ==
  ASSUME QueueInv, Next, NEW i \in Job
  PROVE  /\ jobs[i].state \in RowState => jobs'[i].state = "deleted" \/ jobs'[i].state \in RowState
         /\ jobs[i].state = "deleted" => jobs'[i].state = "deleted"
  <1> DEFINE Goal == /\ jobs[i].state \in RowState =>
                          jobs'[i].state = "deleted" \/ jobs'[i].state \in RowState
                     /\ jobs[i].state = "deleted" => jobs'[i].state = "deleted"
  <1> USE LiveStateFacts
  <1>a. /\ "deleted" \notin RowState /\ "absent" \notin RowState /\ LiveState \subseteq RowState
        /\ {"queued", "succeeded", "dead_lettered", "cancelled", "coalesced"} \subseteq RowState
    BY DEF RowState, LiveState, TerminalState
  <1>1. ASSUME NEW j \in Job, NEW m \in Key, NEW t \in Trigger, Accepts(j, m, t) PROVE Goal
    BY <1>a, <1>1 DEF Accepts
  <1>2. ASSUME NEW j \in Job,
               Leases(j) \/ Stays(j) \/ Ends(j) \/ Dies(j) \/ Succeeds(j) \/ Withdraws(j)
        PROVE  Goal
    BY <1>a, <1>2 DEF Leases, Stays, Ends, Dies, Succeeds, Withdraws, Moves
  <1>3. ASSUME NEW j \in Job, Absorbs(j) PROVE Goal
    BY <1>a, <1>3, FollowerFacts, DeletedRow DEF Absorbs, IsLive
  <1>4. ASSUME NEW j \in Job, NEW d \in Nat, Defers(j, d) PROVE Goal
    BY <1>a, <1>4 DEF Defers, Moves
  <1>5. ASSUME NEW j \in Job, NEW d \in Nat, NEW s \in Job, Coalesces(j, s, d) PROVE Goal
    BY <1>a, <1>5, FollowerFacts DEF Coalesces, IsLive
  <1>6. CASE Ages
    BY <1>6 DEF Ages
  <1> QED BY <1>1, <1>2, <1>3, <1>4, <1>5, <1>6, EveryStepShaped DEF Shaped

\* What the actions do to the grants of row i, if it was and is a row.
LEMMA GrantsAfterRequeue ==
  ASSUME QueueInv, NEW j \in Job, NEW e, NEW E, RequeueOrDeadLetter(j, e, E), NEW i \in Job
  PROVE  jobs'[i].state = "deleted" \/ jobs'[i].grants = jobs[i].grants
  <1>0. TypeOK /\ jobs[j] \in Row
    BY DEF QueueInv, TableInv
  <1>1. CASE jobs' = [jobs EXCEPT ![j] = CancelTerminal(@)]
    <2>1. CancelTerminal(jobs[j]).grants = jobs[j].grants
      BY <1>0, GrantsOfRow
    <2> QED BY <1>0, <1>1, <2>1 DEF TypeOK
  <1>2. CASE jobs' = [jobs EXCEPT ![j] = DeadLetter(@, e)]
    <2>1. DeadLetter(jobs[j], e).grants = jobs[j].grants
      BY <1>0, GrantsOfRow
    <2> QED BY <1>0, <1>2, <2>1 DEF TypeOK
  <1> DEFINE T == jobs[j].triggers \cup UNION {jobs[f].triggers : f \in Followers(j)}
  <1>3. ASSUME NEW delay \in Backoff(jobs[j].attempt),
               jobs' = [f \in Job |-> IF f = j THEN Requeued(jobs[j], e, delay, T)
                                      ELSE IF f \in Followers(j) THEN NoRow("deleted") ELSE jobs[f]]
        PROVE  jobs'[i].state = "deleted" \/ jobs'[i].grants = jobs[i].grants
    <2> HIDE DEF T
    <2>1. Requeued(jobs[j], e, delay, T).grants = jobs[j].grants
      BY <1>0, GrantsOfRow
    <2> QED BY <1>3, <2>1, DeletedRow
  <1> QED BY <1>1, <1>2, <1>3, Zenon DEF RequeueOrDeadLetter

LEMMA GrantsAfterRewrite ==
  ASSUME TypeOK, NEW j \in Job, NEW q, jobs' = [jobs EXCEPT ![j] = q],
         q.grants = jobs[j].grants, NEW i \in Job
  PROVE  jobs'[i].grants = jobs[i].grants
  BY DEF TypeOK

LEMMA GrantsAfterCall ==
  ASSUME QueueInv, NEW j \in Job, NEW tok, RunnerCall(j, tok), NEW i \in Job
  PROVE  jobs'[i].state = "deleted" \/ jobs'[i].grants = jobs[i].grants
  <1>0. TypeOK /\ jobs[j] \in Row
    BY DEF QueueInv, TableInv
  <1>1. ASSUME NEW q \in {Started(jobs[j]), Beaten(jobs[j]), CancelTerminal(jobs[j]),
                          DeadLetter(jobs[j], "failed"), DeadLetter(jobs[j], "rejected"),
                          Succeeded(jobs[j], tok)},
               jobs' = [jobs EXCEPT ![j] = q]
        PROVE  jobs'[i].grants = jobs[i].grants
    <2>1. /\ Started(jobs[j]).grants = jobs[j].grants /\ Beaten(jobs[j]).grants = jobs[j].grants
          /\ CancelTerminal(jobs[j]).grants = jobs[j].grants
          /\ DeadLetter(jobs[j], "failed").grants = jobs[j].grants
          /\ DeadLetter(jobs[j], "rejected").grants = jobs[j].grants
          /\ Succeeded(jobs[j], tok).grants = jobs[j].grants
      BY <1>0, GrantsOfRow
    <2>2. q.grants = jobs[j].grants
      BY <2>1
    <2> QED BY <1>0, <1>1, <2>2, GrantsAfterRewrite
  <1>2. CASE Start(j, tok) \/ Heartbeat(j, tok) \/ FailCancelled(j, tok) \/ FailFinal(j, tok)
             \/ DeferCancelled(j, tok) \/ SucceedSnapshot(j, tok) \/ RejectDelivery(j, tok)
             \/ SucceedInline(j, tok)
    <2>1. PICK q \in {Started(jobs[j]), Beaten(jobs[j]), CancelTerminal(jobs[j]),
                      DeadLetter(jobs[j], "failed"), DeadLetter(jobs[j], "rejected"),
                      Succeeded(jobs[j], tok)} : jobs' = [jobs EXCEPT ![j] = q]
      BY <1>2 DEF Start, Heartbeat, FailCancelled, FailFinal, DeferCancelled, SucceedSnapshot,
                  RejectDelivery, SucceedInline
    <2> QED BY <1>1, <2>1
  <1>3. CASE FailRetryable(j, tok) \/ DeferCapped(j, tok)
    BY <1>3, GrantsAfterRequeue DEF FailRetryable, DeferCapped
  <1>4. ASSUME NEW d, DeferRequeued(j, tok, d)
        PROVE  jobs'[i].grants = jobs[i].grants
    <2> DEFINE q == Deferred(jobs[j], d)
    <2>1. q.grants = jobs[j].grants
      BY <1>0, GrantsOfRow
    <2>2. jobs' = [jobs EXCEPT ![j] = q]
      BY <1>4 DEF DeferRequeued
    <2> HIDE DEF q
    <2> QED BY <1>0, <2>1, <2>2, GrantsAfterRewrite
  <1>5. ASSUME NEW d, NEW s \in Job, DeferCoalesced(j, tok, d, s)
        PROVE  jobs'[i].grants = jobs[i].grants
    <2> DEFINE q == Coalesced(jobs[j], s)
               p == Survivor(jobs[s], d, jobs[j].triggers)
    <2>1. jobs[s] \in Row /\ s # j
      BY <1>0, <1>5, FollowerFacts DEF DeferCoalesced, TypeOK
    <2>2. q.grants = jobs[j].grants /\ p.grants = jobs[s].grants
      <3>1. Coalesced(jobs[j], s).grants = jobs[j].grants
        BY <1>0, GrantsOfRow
      <3>2. Survivor(jobs[s], d, jobs[j].triggers).grants = jobs[s].grants
        BY <2>1, GrantsOfRow, SMTT(30)
      <3> QED BY <3>1, <3>2
    <2>3. jobs' = [jobs EXCEPT ![j] = q, ![s] = p]
      BY <1>0, <1>5, <2>1 DEF DeferCoalesced, TypeOK
    <2> HIDE DEF q, p
    <2> QED BY <1>0, <2>1, <2>2, <2>3 DEF TypeOK
  <1> QED BY <1>2, <1>3, <1>4, <1>5 DEF RunnerCall

LEMMA GrantsGrowNext ==
  ASSUME QueueInv, Next, NEW i \in Job
  PROVE  GrantsGrow(i)
  <1>0. TypeOK /\ \A j \in Job : jobs[j] \in Row /\ jobs[j].grants \in Nat
    BY DEF QueueInv, TableInv, TypeOK, Row
  <1>a. SUFFICES jobs[i].state \in RowState =>
                   jobs'[i].state = "deleted" \/ jobs'[i].grants >= jobs[i].grants
    BY RowsStay DEF GrantsGrow
  <1> DEFINE Goal == jobs[i].state \in RowState =>
                       jobs'[i].state = "deleted" \/ jobs'[i].grants >= jobs[i].grants
  <1>b. jobs'[i].grants = jobs[i].grants => Goal
    BY <1>0
  <1>1. ASSUME NEW j \in Job, NEW k \in Key, NEW t \in Trigger, EnqueueMerged(j, k, t)
        PROVE  Goal
    <2> DEFINE q == Merged(jobs[j], t)
    <2>1. q.grants = jobs[j].grants /\ jobs' = [jobs EXCEPT ![j] = q]
      BY <1>0, <1>1, GrantsOfRow DEF EnqueueMerged
    <2> HIDE DEF q
    <2> QED BY <1>0, <1>b, <2>1, GrantsAfterRewrite
  <1>2. ASSUME NEW j \in Job, NEW k \in Key, NEW t \in Trigger, NEW lim \in Limits,
               EnqueueInserted(j, k, t, lim)
        PROVE  Goal
    <2>1. "absent" \notin RowState
      BY DEF RowState, LiveState, TerminalState
    <2>2. jobs[j].state = "absent" /\ (i # j => jobs'[i] = jobs[i])
      BY <1>0, <1>2 DEF EnqueueInserted, TypeOK
    <2> QED BY <1>b, <2>1, <2>2
  <1>3. ASSUME NEW j \in Job, Claim(j)
        PROVE  Goal
    <2> DEFINE q == Leased(jobs[j])
    <2>1. q.grants = jobs[j].grants + 1 /\ jobs' = [jobs EXCEPT ![j] = q]
      BY <1>0, <1>3, GrantsOfRow DEF Claim
    <2> HIDE DEF q
    <2> QED BY <1>0, <2>1 DEF TypeOK
  <1>4. ASSUME NEW j \in Job, CancelQueued(j) \/ CancelLive(j)
        PROVE  Goal
    <2>1. PICK q \in {CancelTerminal(jobs[j]), Marked(jobs[j])} : jobs' = [jobs EXCEPT ![j] = q]
      BY <1>4 DEF CancelQueued, CancelLive
    <2>2. q.grants = jobs[j].grants
      BY <1>0, GrantsOfRow, ZenonT(40)
    <2> QED BY <1>0, <1>b, <2>1, <2>2, GrantsAfterRewrite
  <1>5. ASSUME NEW j \in Job, Sweep(j)
        PROVE  Goal
    BY <1>b, <1>5, GrantsAfterRequeue DEF Sweep
  <1>6. ASSUME NEW j \in Job, NEW tok, RunnerCall(j, tok)
        PROVE  Goal
    BY <1>b, <1>6, GrantsAfterCall
  <1>7. CASE Tick
    <2>1. jobs'[i] = Aged(jobs[i])
      BY <1>7 DEF Tick
    <2>2. jobs'[i].grants = jobs[i].grants
      BY <1>0, <2>1, GrantsOfRow
    <2> QED BY <1>b, <2>2
  <1> QED BY <1>1, <1>2, <1>3, <1>4, <1>5, <1>6, <1>7 DEF Next

-----------------------------------------------------------------------------
(* The fleet steps the queue                                               *)

\* The job and token of a busy runner were granted to it; others may have been
\* granted later, and the row may be gone.
Granted(r) ==
    Busy(r) =>
        /\ runner[r].job \in Job /\ runner[r].token >= 1
        /\ jobs[runner[r].job].state \in RowState \cup {"deleted"}
        /\ jobs[runner[r].job].state \in RowState =>
             runner[r].token <= jobs[runner[r].job].grants

\* No token is given to two runners.
Apart(r, s) ==
    r # s /\ Busy(r) /\ Busy(s) /\ runner[r].job = runner[s].job =>
        runner[r].token # runner[s].token

FleetInv ==
    /\ runner \in [Runner -> RunnerState]
    /\ \A r \in Runner : Granted(r)
    /\ \A r, s \in Runner : Apart(r, s)

\* A busy runner has a job and a token some claim drew.
LEMMA BusyHolds ==
  ASSUME NEW r \in Runner, runner[r] \in RunnerState, Busy(r)
  PROVE  /\ runner[r].job \in Job /\ runner[r].token \in Nat /\ runner[r].token >= 1
         /\ runner[r] \in Holding \cup Reporting
  BY DEF RunnerState, Holding, Reporting, Idle, Busy

\* The token of a live row is its last one, so a runner the core still answers makes a
\* call that JobQueue knows.
LEMMA CallIsKnown ==
  ASSUME QueueInv, FleetInv, NEW r \in Runner, Busy(r), Holds(runner[r].job, runner[r].token),
         RunnerCall(runner[r].job, runner[r].token)
  PROVE  Next
  <1>1. runner[r].job \in Job /\ runner[r].token \in Nat /\ runner[r].token >= 1
    BY BusyHolds DEF FleetInv
  <1>2. runner[r].token = jobs[runner[r].job].grants
    BY <1>1 DEF Holds, IsLive, QueueInv, TableInv, RowInv
  <1>3. runner[r].token \in 1..jobs[runner[r].job].grants
    BY <1>1, <1>2
  <1> QED BY <1>1, <1>3 DEF Next

LEMMA TerminalIsCall ==
  ASSUME NEW j, NEW tok, NEW o, TerminalCall(j, tok, o)
  PROVE  Holds(j, tok) /\ RunnerCall(j, tok)
  <1>1. RunnerCall(j, tok)
    BY DEF TerminalCall, RunnerCall
  <1>2. Holds(j, tok)
    BY DEF TerminalCall, FailCancelled, FailFinal, FailRetryable, DeferCancelled, DeferCapped,
           DeferRequeued, DeferCoalesced, DeferAllowed, SucceedSnapshot, RejectDelivery, SucceedInline
  <1> QED BY <1>1, <1>2

LEMMA StartIsCall ==
  ASSUME NEW j, NEW tok, Start(j, tok) \/ Heartbeat(j, tok)
  PROVE  Holds(j, tok) /\ RunnerCall(j, tok)
  BY DEF Start, Heartbeat, RunnerCall

LEMMA FleetStepsQueue ==
  ASSUME QueueInv, FleetInv, [FleetNext]_fleetVars
  PROVE  [Next]_vars
  <1>1. CASE CoreStep
    BY <1>1 DEF CoreStep, Enqueue, Cancel, Next
  <1>2. ASSUME NEW r \in Runner, RunnerStep(r)
        PROVE  [Next]_vars
    <2>1. CASE \E j \in Job : RunnerClaim(r, j) \/ ClaimAnswerLost(r, j)
      BY <2>1 DEF RunnerClaim, ClaimAnswerLost, Next
    <2>2. CASE Refuse(r) \/ WorkEnds(r) \/ LeaseLost(r) \/ Gone(r)
      BY <2>2 DEF Refuse, WorkEnds, LeaseLost, Gone
    <2>3. CASE StartWork(r) \/ StartUnresolved(r) \/ StartAnswerLost(r)
      <3>1. Busy(r) /\ Start(runner[r].job, runner[r].token)
        BY <2>3 DEF StartWork, StartUnresolved, StartAnswerLost, Busy
      <3> QED BY <3>1, StartIsCall, CallIsKnown
    <2>4. CASE Beat(r) \/ BeatAnswerLost(r)
      <3>1. Busy(r) /\ Heartbeat(runner[r].job, runner[r].token)
        BY <2>4 DEF Beat, BeatAnswerLost, Busy
      <3> QED BY <3>1, StartIsCall, CallIsKnown
    <2>5. CASE Deliver(r) \/ DeliverAnswerLost(r)
      <3>1. Busy(r) /\ TerminalCall(runner[r].job, runner[r].token, runner[r].outcome)
        BY <2>5 DEF Deliver, DeliverAnswerLost, Busy
      <3> QED BY <3>1, TerminalIsCall, CallIsKnown
    <2> QED BY <1>2, <2>1, <2>2, <2>3, <2>4, <2>5 DEF RunnerStep
  <1>3. CASE UNCHANGED fleetVars
    BY <1>3 DEF fleetVars
  <1> QED BY <1>1, <1>2, <1>3 DEF FleetNext

-----------------------------------------------------------------------------
(* What a step does to the runners                                         *)

\* Runner r keeps its job and token, or lets go of them.
KeepsOrDrops(r) ==
    /\ runner'[r] \in RunnerState
    /\ \/ runner'[r].phase = "idle"
       \/ /\ Busy(r)
          /\ runner'[r].job = runner[r].job /\ runner'[r].token = runner[r].token
    /\ \A s \in Runner : s # r => runner'[s] = runner[s]

LEMMA RunnerMoves ==
  ASSUME QueueInv, FleetInv, NEW r \in Runner, RunnerStep(r)
  PROVE  \/ UNCHANGED runner
         \/ KeepsOrDrops(r) /\ runner' \in [Runner -> RunnerState]
         \/ \E j \in Job : RunnerClaim(r, j)
  <1>0. runner \in [Runner -> RunnerState]
    BY DEF FleetInv
  <1>1. Idle \in RunnerState /\ Idle.phase = "idle"
    BY DEF Idle, RunnerState
  <1>2. ASSUME NEW q \in RunnerState, Becomes(r, q),
               q.phase = "idle" \/ (Busy(r) /\ q.job = runner[r].job /\ q.token = runner[r].token)
        PROVE  KeepsOrDrops(r) /\ runner' \in [Runner -> RunnerState]
    BY <1>0, <1>2 DEF Becomes, KeepsOrDrops
  <1>3. ASSUME Busy(r), NEW o \in Outcome
        PROVE  /\ Delivering(r, o) \in RunnerState
               /\ Delivering(r, o).job = runner[r].job
               /\ Delivering(r, o).token = runner[r].token
    <2>1. runner[r] \in Holding \cup Reporting
      BY <1>0, <1>3, BusyHolds
    <2>2. /\ Delivering(r, o) \in Reporting
          /\ Delivering(r, o).job = runner[r].job
          /\ Delivering(r, o).token = runner[r].token
      BY <2>1 DEF Delivering, Holding, Reporting
    <2> QED BY <2>2 DEF RunnerState
  <1>4. ASSUME runner[r].phase = "claimed"
        PROVE  /\ [runner[r] EXCEPT !.phase = "working"] \in RunnerState
               /\ [runner[r] EXCEPT !.phase = "working"].job = runner[r].job
               /\ [runner[r] EXCEPT !.phase = "working"].token = runner[r].token
    <2>1. runner[r] \in Holding
      BY <1>0, <1>4 DEF RunnerState, Holding, Reporting, Idle
    <2>2. /\ [runner[r] EXCEPT !.phase = "working"] \in Holding
          /\ [runner[r] EXCEPT !.phase = "working"].job = runner[r].job
          /\ [runner[r] EXCEPT !.phase = "working"].token = runner[r].token
      BY <2>1 DEF Holding
    <2> QED BY <2>2 DEF RunnerState
  <1>5. CASE Becomes(r, Idle)
    BY <1>1, <1>2, <1>5
  <1>6. ASSUME Busy(r), NEW o \in Outcome, Becomes(r, Delivering(r, o))
        PROVE  KeepsOrDrops(r) /\ runner' \in [Runner -> RunnerState]
    BY <1>2, <1>3, <1>6
  <1>7. CASE Busy(r) /\ Becomes(r, runner[r])
    BY <1>0, <1>2, <1>7
  <1>8. CASE Refuse(r) \/ StartUnresolved(r) \/ WorkEnds(r)
    <2>1. Busy(r) /\ \E o \in Outcome : Becomes(r, Delivering(r, o))
      BY <1>8 DEF Refuse, StartUnresolved, WorkEnds, Busy, Outcome
    <2> QED BY <1>6, <2>1
  <1>9. CASE StartWork(r)
    <2>1. /\ Busy(r) /\ runner[r].phase = "claimed" /\ "cancelled" \in Outcome
          /\ \/ Becomes(r, Delivering(r, "cancelled"))
             \/ Becomes(r, [runner[r] EXCEPT !.phase = "working"])
      BY <1>9 DEF StartWork, Busy, Outcome
    <2> QED BY <1>2, <1>4, <1>6, <2>1
  <1>12. CASE Beat(r)
    <2>1. /\ Busy(r) /\ "cancelled" \in Outcome
          /\ Becomes(r, Delivering(r, "cancelled")) \/ Becomes(r, runner[r])
      BY <1>12 DEF Beat, Busy, Outcome
    <2> QED BY <1>6, <1>7, <2>1
  <1>10. CASE StartAnswerLost(r) \/ Deliver(r) \/ LeaseLost(r) \/ Gone(r)
    BY <1>5, <1>10 DEF StartAnswerLost, Deliver, LeaseLost, Gone
  <1>11. CASE BeatAnswerLost(r) \/ DeliverAnswerLost(r) \/ \E j \in Job : ClaimAnswerLost(r, j)
    BY <1>11 DEF BeatAnswerLost, DeliverAnswerLost, ClaimAnswerLost
  <1> QED BY <1>8, <1>9, <1>10, <1>11, <1>12 DEF RunnerStep

\* A grant outlives whatever the queue does, for as long as its row exists.
LEMMA GrantStands ==
  ASSUME QueueInv, [Next]_vars, NEW r \in Runner, Granted(r), runner[r] \in RunnerState,
         \/ runner'[r].phase = "idle"
         \/ /\ Busy(r)
            /\ runner'[r].job = runner[r].job /\ runner'[r].token = runner[r].token
  PROVE  Granted(r)'
  <1>1. CASE runner'[r].phase = "idle"
    BY <1>1 DEF Granted, Busy
  <1>2. ASSUME Busy(r), runner'[r].job = runner[r].job, runner'[r].token = runner[r].token
        PROVE  Granted(r)'
    <2> DEFINE j == runner[r].job
    <2>1. /\ j \in Job /\ runner[r].token >= 1 /\ jobs[j].state \in RowState \cup {"deleted"}
          /\ jobs[j].state \in RowState => runner[r].token <= jobs[j].grants
      BY <1>2 DEF Granted
    <2>2. GrantsGrow(j) \/ UNCHANGED jobs
      BY <2>1, GrantsGrowNext DEF vars
    <2>3. jobs[j].grants \in Nat /\ jobs'[j].grants \in Nat /\ runner[r].token \in Nat
      BY <1>2, <2>1, BusyHolds, QueueInvNext DEF QueueInv, TypeOK, Row
    <2> DEFINE tok == runner[r].token
    <2>4. /\ jobs'[j].state \in RowState \cup {"deleted"}
          /\ jobs'[j].state \in RowState => jobs[j].state \in RowState /\ jobs'[j].grants >= jobs[j].grants
      <3>1. "deleted" \notin RowState
        BY DEF RowState, LiveState, TerminalState
      <3> HIDE DEF j
      <3> QED BY <2>1, <2>2, <2>3, <3>1 DEF GrantsGrow
    <2>5. jobs'[j].state \in RowState => tok <= jobs'[j].grants
      <3> HIDE DEF j, tok
      <3> QED BY <2>1, <2>3, <2>4 DEF tok
    <2>6. runner'[r].job = j /\ runner'[r].token = tok
      BY <1>2
    <2> HIDE DEF j, tok
    <2>7. tok >= 1
      BY <2>1 DEF tok
    <2> QED BY <2>1, <2>4, <2>5, <2>6, <2>7 DEF Granted
  <1> QED BY <1>1, <1>2

LEMMA FleetInvNext ==
  ASSUME QueueInv, FleetInv, [FleetNext]_fleetVars
  PROVE  FleetInv'
  <1>0. /\ runner \in [Runner -> RunnerState]
        /\ \A r \in Runner : Granted(r)
        /\ \A r, s \in Runner : Apart(r, s)
        /\ [Next]_vars
    BY FleetStepsQueue DEF FleetInv
  <1>1. ASSUME UNCHANGED runner
        PROVE  FleetInv'
    <2>1. \A r \in Runner : runner[r] \in RunnerState
      BY <1>0
    <2>2. ASSUME NEW r \in Runner PROVE Granted(r)'
      <3>1. CASE Busy(r)
        BY <1>0, <1>1, <2>1, <3>1, GrantStands
      <3>2. CASE ~Busy(r)
        BY <1>1, <3>2 DEF Granted, Busy
      <3> QED BY <3>1, <3>2
    <2>3. \A r, s \in Runner : Apart(r, s)'
      BY <1>0, <1>1 DEF Apart, Busy
    <2> QED BY <1>0, <1>1, <2>2, <2>3 DEF FleetInv
  <1>2. ASSUME NEW r \in Runner, KeepsOrDrops(r), runner' \in [Runner -> RunnerState]
        PROVE  FleetInv'
    <2>1. ASSUME NEW s \in Runner PROVE Granted(s)'
      <3>0. runner[s] \in RunnerState
        BY <1>0
      <3>1. CASE s = r \/ Busy(s)
        BY <1>0, <1>2, <3>0, <3>1, GrantStands DEF KeepsOrDrops
      <3>2. CASE s # r /\ ~Busy(s)
        BY <1>2, <3>2 DEF KeepsOrDrops, Granted, Busy
      <3> QED BY <3>1, <3>2
    <2>2. \A s \in Runner : Busy(s)' => Busy(s) /\ runner'[s].job = runner[s].job
                                               /\ runner'[s].token = runner[s].token
      BY <1>2 DEF KeepsOrDrops, Busy
    <2>3. \A s, u \in Runner : Apart(s, u)'
      BY <1>0, <2>2 DEF Apart
    <2> QED BY <1>2, <2>1, <2>3 DEF FleetInv
  <1>3. ASSUME NEW r \in Runner, NEW j \in Job, RunnerClaim(r, j)
        PROVE  FleetInv'
    <2>1. /\ TypeOK /\ jobs[j] \in Row /\ jobs[j].grants \in Nat /\ jobs[j].state = "queued"
          /\ RowInv(jobs[j])
      BY <1>3 DEF QueueInv, TableInv, TypeOK, Row, RunnerClaim, Claim, Claimable
    <2> DEFINE g == jobs[j].grants + 1
               q == [Idle EXCEPT !.phase = "claimed", !.job = j, !.token = g]
    <2>2. Leased(jobs[j]).grants = g /\ Leased(jobs[j]).token = g /\ Leased(jobs[j]).state = "leased"
      BY <2>1, GrantsOfRow, LeasedRow
    <2>3. jobs'[j] = Leased(jobs[j])
      BY <1>3, <2>1 DEF RunnerClaim, Claim, TypeOK
    <2>4. jobs'[j].grants = g /\ jobs'[j].token = g /\ jobs'[j].state = "leased"
      BY <2>2, <2>3
    <2>5. g \in Nat /\ g >= 1 /\ g > jobs[j].grants
      BY <2>1
    <2> HIDE DEF g
    <2>6. q \in RunnerState /\ q.job = j /\ q.token = g /\ q.phase = "claimed"
      <3>1. q.job = j /\ q.token = g /\ q.phase = "claimed"
        BY DEF Idle
      <3>2. g \in Nat \ {0}
        BY <2>5
      <3>3. q \in Holding
        BY <3>2 DEF Idle, Holding
      <3> QED BY <3>1, <3>3 DEF RunnerState
    <2>7. runner' = [runner EXCEPT ![r] = q]
      BY <1>3, <2>4 DEF RunnerClaim, Becomes
    <2> HIDE DEF q
    <2>8. /\ runner' \in [Runner -> RunnerState] /\ runner'[r] = q
          /\ \A s \in Runner : s # r => runner'[s] = runner[s]
      BY <1>0, <2>6, <2>7
    <2>9. ASSUME NEW s \in Runner PROVE Granted(s)'
      <3>1. CASE s = r
        <4>1. "leased" \in RowState
          BY DEF RowState, LiveState
        <4>2. g <= g
          BY <2>5
        <4> QED BY <2>4, <2>5, <2>6, <2>8, <3>1, <4>1, <4>2 DEF Granted
      <3>2. CASE s # r /\ Busy(s)
        <4>1. runner[s] \in RunnerState /\ runner'[s] = runner[s]
          BY <1>0, <2>8, <3>2
        <4> QED BY <1>0, <3>2, <4>1, GrantStands
      <3>3. CASE s # r /\ ~Busy(s)
        BY <2>8, <3>3 DEF Granted, Busy
      <3> QED BY <3>1, <3>2, <3>3
    <2>10. ASSUME NEW s \in Runner, s # r, Busy(s), runner[s].job = j PROVE runner[s].token # g
      <3>1. runner[s].token <= jobs[j].grants /\ runner[s].token \in Nat
        <4>1. "queued" \in RowState
          BY DEF RowState
        <4> QED BY <1>0, <2>1, <2>10, <4>1, BusyHolds DEF Granted
      <3> QED BY <2>1, <2>5, <3>1
    <2>11. ASSUME NEW s \in Runner, NEW u \in Runner PROVE Apart(s, u)'
      <3>1. CASE s # r /\ u # r
        <4>1. Apart(s, u) /\ runner'[s] = runner[s] /\ runner'[u] = runner[u]
          BY <1>0, <2>8, <3>1
        <4> QED BY <4>1 DEF Apart, Busy
      <3>2. CASE s = r /\ u # r
        BY <2>6, <2>8, <2>10, <3>2 DEF Apart, Busy
      <3>3. CASE s # r /\ u = r
        BY <2>6, <2>8, <2>10, <3>3 DEF Apart, Busy
      <3>4. CASE s = u
        BY <3>4 DEF Apart
      <3> QED BY <3>1, <3>2, <3>3, <3>4
    <2> QED BY <2>8, <2>9, <2>11 DEF FleetInv
  <1>4. CASE CoreStep \/ UNCHANGED fleetVars
    BY <1>1, <1>4 DEF CoreStep, fleetVars
  <1>5. ASSUME NEW r \in Runner, RunnerStep(r) PROVE FleetInv'
    BY <1>1, <1>2, <1>3, <1>5, RunnerMoves
  <1> QED BY <1>4, <1>5 DEF FleetNext

LEMMA FleetInvHolds == FleetSpec => [](QueueInv /\ FleetInv)
  <1>1. FleetInit => QueueInv /\ FleetInv
    <2>1. FleetInit => QueueInv
      BY QueueInvInit DEF FleetInit
    <2>2. FleetInit => FleetInv
      BY DEF FleetInit, FleetInv, Idle, RunnerState, Granted, Apart, Busy
    <2> QED BY <2>1, <2>2
  <1>2. QueueInv /\ FleetInv /\ [FleetNext]_fleetVars => (QueueInv /\ FleetInv)'
    BY FleetStepsQueue, FleetInvNext, QueueInvNext
  <1> QED BY <1>1, <1>2, PTL DEF FleetSpec

-----------------------------------------------------------------------------
(* Theorems                                                                *)

\* The runners' calls, losses and crashes are steps of the queue or leave its tables
\* alone (protocol.py against queue.ts): whatever JobQueue promises holds with any
\* fleet of runners.
THEOREM FleetRunsQueue == FleetSpec => Spec
  <1>1. FleetInit => Init
    BY DEF FleetInit
  <1>2. QueueInv /\ FleetInv /\ [FleetNext]_fleetVars => [Next]_vars
    BY FleetStepsQueue
  <1> QED BY <1>1, <1>2, FleetInvHolds, PTL DEF FleetSpec, Spec

\* Rows keep their types under the fleet's calls and runners theirs
\* (connectors/sdk/service.py).
THEOREM FleetTypeCorrect == FleetSpec => []FleetTypeOK
  <1>1. QueueInv /\ FleetInv => FleetTypeOK
    BY DEF QueueInv, FleetInv, FleetTypeOK
  <1> QED BY <1>1, FleetInvHolds, PTL

\* "at most one running per key" (module comment of queue.ts), seen from the runners:
\* of two runners whose calls the core still accepts, no two serve the same job or the
\* same batch key, whatever leases were swept and granted again in between and however
\* late a runner learns of it.
RunnersExclude ==
    \A r, s \in Runner :
        r # s /\ HoldsLease(r) /\ HoldsLease(s) =>
            /\ runner[r].job # runner[s].job
            /\ jobs[runner[r].job].key = jobs[runner[s].job].key =>
                 jobs[runner[r].job].key \notin BatchKey

\* No two runners whose calls the core accepts work on the same job or on the same
\* batch key (claimOnce, lockLeased).
THEOREM RunnersApart == FleetSpec => []RunnersExclude
  <1>1. QueueInv /\ FleetInv => RunnersExclude
    <2> SUFFICES ASSUME QueueInv, FleetInv, NEW r \in Runner, NEW s \in Runner, r # s,
                        HoldsLease(r), HoldsLease(s)
                 PROVE  /\ runner[r].job # runner[s].job
                        /\ jobs[runner[r].job].key = jobs[runner[s].job].key =>
                             jobs[runner[r].job].key \notin BatchKey
      BY DEF RunnersExclude
    <2>1. /\ runner[r].job \in Job /\ runner[s].job \in Job /\ Busy(r) /\ Busy(s)
          /\ Apart(r, s)
      BY DEF FleetInv, Granted, HoldsLease
    <2>2. /\ IsLive(runner[r].job) /\ jobs[runner[r].job].token = runner[r].token
          /\ IsLive(runner[s].job) /\ jobs[runner[s].job].token = runner[s].token
      BY DEF HoldsLease, Holds
    <2>3. runner[r].job # runner[s].job
      BY <2>1, <2>2 DEF Apart
    <2> QED BY <2>1, <2>2, <2>3 DEF QueueInv, TableInv, OneLivePerKey
  <1> QED BY <1>1, FleetInvHolds, PTL

\* With any fleet of runners the queue serves requests as RequestService says.
THEOREM FleetServesRequests == FleetSpec => ImplementsRequestService
  BY FleetRunsQueue, ServiceImplemented, PTL
=============================================================================
