----------------------------- MODULE MCJobQueue -----------------------------
(***************************************************************************)
(* Instances of JobQueue for TLC.                                          *)
(***************************************************************************)
EXTENDS JobQueue, TLC

CONSTANTS j1, j2, j3, t1, t2, t3, snap, harvest, probe

\* Two attempts and one deferral: the smallest limits under which a job can be
\* retried, deferred and still run out of both.
MCLimits == {[attempts |-> 2, deferrals |-> 1, deadline |-> 2]}

\* A retried job and one that may be tried only once, as interactive jobs are.
MCMixedLimits == {[attempts |-> a, deferrals |-> 1, deadline |-> 1] : a \in {1, 2}}

\* What no guard and no property of a run looks at is left out of the fingerprint:
\* the error envelopes, and the counters and timers of rows that ended (no action
\* touches such a row again).  QueueView leaves out the health feed as well.
ViewedRow(r) ==
    IF r.state \in TerminalState
    THEN [r EXCEPT !.error = "none", !.attempt = 0, !.deferrals = 0, !.wait = 0,
                   !.budget = 0, !.started = FALSE, !.cancel = FALSE]
    ELSE [r EXCEPT !.error = "none"]

QueueView == <<[j \in Job |-> ViewedRow(jobs[j])], store, accepted, quiet>>
HealthView == <<QueueView, health>>

RequestSymmetry == Permutations(Job) \cup Permutations(Trigger)
=============================================================================
