--------------------------- MODULE MCRunnerFleet ----------------------------
(***************************************************************************)
(* Instances of RunnerFleet for TLC.                                       *)
(***************************************************************************)
EXTENDS RunnerFleet

CONSTANTS j1, j2, t1, t2, r1, r2, snap, probe

\* A job may be retried once and deferred once, and may run for one TTL.
MCLimits == {[attempts |-> 2, deferrals |-> 1, deadline |-> 1]}

\* As in MCJobQueue: health events, error envelopes and the counters and timers of
\* ended rows enable nothing and occur in no property of the run.
ViewedRow(r) ==
    IF r.state \in TerminalState
    THEN [r EXCEPT !.error = "none", !.attempt = 0, !.deferrals = 0, !.wait = 0,
                   !.budget = 0, !.started = FALSE, !.cancel = FALSE, !.grants = 0, !.by = 0]
    ELSE [r EXCEPT !.error = "none"]

FleetView == <<[j \in Job |-> ViewedRow(jobs[j])], accepted, runner>>
=============================================================================
