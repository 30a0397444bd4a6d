---------------------------- MODULE RunnerFleet -----------------------------
(***************************************************************************)
(* The runner daemons of connectors/sdk/service.py, each driving one job   *)
(* at a time through the six wire calls of connectors/sdk/protocol.py      *)
(* against the queue of JobQueue.                                          *)
(*                                                                         *)
(* A call may be lost before it reaches the core, or commit there and lose *)
(* its answer; a runner may crash at any point and come back idle; the     *)
(* work itself (the connector, in its own thread) may never end.  The      *)
(* heartbeat thread and the main loop are one process here: a beat that is *)
(* in flight while the work ends commutes with the end of the work.        *)
(***************************************************************************)
EXTENDS JobQueue

CONSTANT Runner

VARIABLE runner   \* what each runner holds: its phase, job, lease token and outcome

fleetVars == <<vars, runner>>

\* What the worker thread's JobOutcome, or the runner itself, will report.
Outcome == {"complete", "defer", "retryable", "final", "cancelled"}

Idle == [phase |-> "idle", job |-> None, token |-> 0, outcome |-> "none"]

\* A runner with a job holds a token some claim drew; what it will report is known
\* when it delivers and not before.
Holding ==
    [phase : {"claimed", "working"}, job : Job, token : Nat \ {0}, outcome : {"none"}]
Reporting ==
    [phase : {"delivering"}, job : Job, token : Nat \ {0}, outcome : Outcome]
RunnerState == {Idle} \cup Holding \cup Reporting

FleetInit == Init /\ runner = [r \in Runner |-> Idle]

Busy(r) == runner[r].phase # "idle"
HoldsLease(r) == Busy(r) /\ Holds(runner[r].job, runner[r].token)

Becomes(r, s) == runner' = [runner EXCEPT ![r] = s]

\* Fault: the worker died and its outcome box is empty, but is delivered all the same.
DeliveringNothing(r, o) == [runner[r] EXCEPT !.phase = "delivering"]

Delivering(r, o) == [runner[r] EXCEPT !.phase = "delivering", !.outcome = o]

-----------------------------------------------------------------------------
\* run_forever: the long-poll claim answers with a job and its lease, or grants
\* it and loses the answer (the runner backs off and claims again).
RunnerClaim(r, j) ==
    /\ ~Busy(r)
    /\ Claim(j)
    /\ Becomes(r, [Idle EXCEPT !.phase = "claimed", !.job = j, !.token = jobs'[j].token])

ClaimAnswerLost(r, j) ==
    /\ ~Busy(r)
    /\ Claim(j)
    /\ UNCHANGED runner

\* execute: a job this runner cannot or may not serve fails without a start, and so
\* does, retryably, one whose payload trips the runner.
Refuse(r) ==
    /\ runner[r].phase = "claimed"
    /\ \E o \in {"final", "retryable"} : Becomes(r, Delivering(r, o))
    /\ UNCHANGED vars

\* execute: start, then work, unless the answer carries cancel_requested.
StartWork(r) ==
    /\ runner[r].phase = "claimed"
    /\ Start(runner[r].job, runner[r].token)
    /\ Becomes(r, IF jobs[runner[r].job].cancel THEN Delivering(r, "cancelled")
                  ELSE [runner[r] EXCEPT !.phase = "working"])

\* execute: the credentials did not resolve; start only to fail.
StartUnresolved(r) ==
    /\ runner[r].phase = "claimed"
    /\ Start(runner[r].job, runner[r].token)
    /\ \E o \in {"retryable", "final"} : Becomes(r, Delivering(r, o))

\* execute: the start was recorded but its answer was lost: abandon the job.
StartAnswerLost(r) ==
    /\ runner[r].phase = "claimed"
    /\ Start(runner[r].job, runner[r].token)
    /\ Becomes(r, Idle)

\* _HeartbeatLoop: a beat is answered, with cancel_requested or without.
Beat(r) ==
    /\ runner[r].phase = "working"
    /\ Heartbeat(runner[r].job, runner[r].token)
    /\ Becomes(r, IF jobs[runner[r].job].cancel THEN Delivering(r, "cancelled") ELSE runner[r])

BeatAnswerLost(r) ==
    /\ runner[r].phase = "working"
    /\ Heartbeat(runner[r].job, runner[r].token)
    /\ UNCHANGED runner

\* run_job ended: a result, a deferral, or an error of either kind.
WorkEnds(r) ==
    /\ runner[r].phase = "working"
    /\ \E o \in Outcome \ {"cancelled"} : Becomes(r, Delivering(r, o))
    /\ UNCHANGED vars

\* The core's side of the terminal call that reports outcome o.
TerminalCall(j, tok, o) ==
    \/ /\ o = "complete"
       /\ SucceedSnapshot(j, tok) \/ RejectDelivery(j, tok) \/ SucceedInline(j, tok)
    \/ /\ o = "defer"
       /\ \/ DeferCancelled(j, tok)
          \/ DeferCapped(j, tok)
          \/ \E delay \in RetryAfter :
               \/ DeferRequeued(j, tok, delay)
               \/ \E survivor \in Job : DeferCoalesced(j, tok, delay, survivor)
    \/ o = "retryable" /\ FailRetryable(j, tok)
    \/ o = "final" /\ FailFinal(j, tok)
    \/ o = "cancelled" /\ FailCancelled(j, tok)

\* _deliver: the terminal call commits; if its answer is lost the client sends the
\* same call again.
Deliver(r) ==
    /\ runner[r].phase = "delivering"
    /\ TerminalCall(runner[r].job, runner[r].token, runner[r].outcome)
    /\ Becomes(r, Idle)

DeliverAnswerLost(r) ==
    /\ runner[r].phase = "delivering"
    /\ TerminalCall(runner[r].job, runner[r].token, runner[r].outcome)
    /\ UNCHANGED runner

\* Fault: only the terminal call notices that the lease is gone.
LeaseLostAtDelivery(r) ==
    /\ runner[r].phase = "delivering"
    /\ ~HoldsLease(r)
    /\ Becomes(r, Idle)
    /\ UNCHANGED vars

\* Any call answered 409 lease_lost: abandon the work.
LeaseLost(r) ==
    /\ Busy(r)
    /\ ~HoldsLease(r)
    /\ Becomes(r, Idle)
    /\ UNCHANGED vars

\* The process dies and restarts, or gives up on a call it could not get through
\* (start once, terminal calls after deliver_retries).
Gone(r) ==
    /\ Busy(r)
    /\ Becomes(r, Idle)
    /\ UNCHANGED vars

-----------------------------------------------------------------------------
\* What the runners do not do: producers, the sweeper, time.
Enqueue ==
    \E j \in Job, k \in Key, t \in Trigger :
        \/ EnqueueMerged(j, k, t)
        \/ \E lim \in Limits : EnqueueInserted(j, k, t, lim)

Cancel == \E j \in Job : CancelQueued(j) \/ CancelLive(j)

CoreStep == (Enqueue \/ Cancel \/ (\E j \in Job : Sweep(j)) \/ Tick) /\ UNCHANGED runner

RunnerStep(r) ==
    \/ \E j \in Job : RunnerClaim(r, j) \/ ClaimAnswerLost(r, j)
    \/ Refuse(r)
    \/ StartWork(r)
    \/ StartUnresolved(r)
    \/ StartAnswerLost(r)
    \/ Beat(r)
    \/ BeatAnswerLost(r)
    \/ WorkEnds(r)
    \/ Deliver(r)
    \/ DeliverAnswerLost(r)
    \/ LeaseLost(r)
    \/ Gone(r)

FleetNext == CoreStep \/ \E r \in Runner : RunnerStep(r)

\* Time passes, the sweeper runs on its interval, some runner keeps polling, and a
\* runner that lives keeps making its calls.  Nothing obliges the work to end, a
\* producer to act, or an answer to get lost.
Fairness ==
    /\ WF_fleetVars(Tick /\ UNCHANGED runner)
    /\ \A j \in Job : WF_fleetVars(Sweep(j) /\ UNCHANGED runner)
    /\ \A j \in Job : WF_fleetVars(\E r \in Runner : RunnerClaim(r, j))
    /\ \A r \in Runner : /\ WF_fleetVars(StartWork(r))
                         /\ WF_fleetVars(Beat(r))
                         /\ WF_fleetVars(Deliver(r))
                         /\ WF_fleetVars(LeaseLost(r))

FleetSpec == FleetInit /\ [][FleetNext]_fleetVars /\ Fairness

-----------------------------------------------------------------------------
\* Rows keep their types under the fleet's calls, and every runner is in a known phase.
FleetTypeOK == TypeOK /\ runner \in [Runner -> RunnerState]

\* No request waits for ever (deadline cap of heartbeatJob, sweepExpiredLeases,
\* requeueOrDeadLetter): whatever crashes, losses and hung workers it meets, a
\* request the queue accepted ends up on a row that succeeded, failed for good or
\* was cancelled.
Settled(t) ==
    \E j \in Job : /\ jobs[j].state \in {"succeeded", "dead_lettered", "cancelled"}
                   /\ t \in jobs[j].triggers
EveryRequestSettles == \A t \in Trigger : t \in accepted ~> Settled(t)

\* A hung worker occupies its runner no longer than the deadline allows (heartbeat.lost
\* in service.py, deadline cap of heartbeatJob, sweepExpiredLeases): whatever a runner
\* has taken on, it is some time free for other work, although nothing obliges the
\* work to end and any answer may get lost.
RunnerFreed == \A r \in Runner : Busy(r) ~> ~Busy(r)
=============================================================================
