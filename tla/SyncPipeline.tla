---------------------------- MODULE SyncPipeline ----------------------------
(***************************************************************************)
(* Drift runs: core/src/triggers.ts (a trigger enqueues a snapshot job and *)
(* marks its system pending) and core/src/pipeline.ts (a run takes the     *)
(* marks, waits for the jobs, compares snapshots with the pins of the      *)
(* knowledge base's merged HEAD and opens a pull request that supersedes   *)
(* the open ones).                                                         *)
(*                                                                         *)
(* The job queue is JobQueue seen from outside: what is kept of a row is   *)
(* whether it waits, runs or has ended, and how.  Retry counts, leases and *)
(* timers are left to JobQueue, so here a job may be retried any number of *)
(* times, and may never end.  The Python stages (diff, lineage, severity,  *)
(* scan, statuses, render) are deterministic functions of the clone and    *)
(* the snapshots: a stage either does its work or fails the run.           *)
(***************************************************************************)
EXTENDS Integers, FiniteSets, Sequences

CONSTANTS
    System,       \* the registered systems (sync_systems)
    Job,          \* the job ids the core may draw
    Trigger,      \* the trigger calls, one id each
    Manual,       \* the triggers of kind "manual"
    Content,      \* what a source can look like
    Retention,    \* cfg.snapshotRetention
    PrRetries,    \* cfg.sync.prRetries
    MaxHead,      \* bound: how often HEAD moves
    MaxRestart,   \* bound: how often the core restarts
    MaxAttest,    \* bound: gateway attestations recorded
    None

ASSUME SyncAssumption ==
    /\ Manual \subseteq Trigger
    /\ None \notin Job /\ None \notin Content
    /\ Retention \in Nat \ {0} /\ PrRetries \in Nat \ {0}
    /\ MaxHead \in Nat /\ MaxRestart \in Nat /\ MaxAttest \in Nat

VARIABLES
    jobs,       \* the snapshot jobs
    accepted,   \* accepted_snapshots by system, oldest first
    attested,   \* how many gateway attestations are recorded
    marking,    \* triggers that enqueued their job and have not marked it yet
    pending,    \* sync_pending
    run,        \* executeRun in the core's memory
    row,        \* the latest row of the runs table
    head,       \* the merged HEAD of the knowledge base
    prs,        \* the open sync pull requests
    restarts,   \* how often the core restarted
    made,       \* history: the triggers whose enqueue committed, by system
    marked,     \* history: the triggers whose mark committed
    settled,    \* history: the triggers whose run ended, other than to be run again
    lost        \* history: marks taken off the table whose run has no row, or never ended it

jobVars == <<jobs, accepted>>
history == <<made, marked, settled, lost>>
vars == <<jobVars, attested, marking, pending, run, row, head, prs, restarts, history>>

-----------------------------------------------------------------------------
(* A snapshot carries its acceptance number and, as history, the triggers  *)
(* that had been made when its job was claimed: those it can answer.       *)
Snap == [id : Nat, content : Content \cup {None}, covers : SUBSET Trigger]
NoSnap == [id |-> 0, content |-> None, covers |-> {}]

JobState == {"absent", "queued", "live", "succeeded", "ended", "coalesced", "deleted"}
JobRow == [state : JobState, system : System \cup {None}, sees : SUBSET Trigger, snap : Nat]
NoJob(s) == [state |-> s, system |-> None, sees |-> {}, snap |-> 0]

JobsOf(s, st) == {j \in Job : jobs[j].state = st /\ jobs[j].system = s}

\* A row of sync_pending; `last` is history: the trigger that named the job.
Mark == [job : Job, triggers : SUBSET Trigger, last : Trigger]
NoMark == [job |-> None, triggers |-> {}, last |-> None]
Marks == [System -> Mark \cup {NoMark}]
NoMarks == [s \in System |-> NoMark]
Marked(m) == {s \in System : m[s] # NoMark}
TriggersIn(m) == UNION {m[s].triggers : s \in System}

Kb == [rev : Nat, pins : [System -> Snap], wheel : BOOLEAN, graph : Nat]

Pr == [n : Nat, changed : SUBSET System, stated : [System -> Snap],
       wheel : BOOLEAN, graph : Nat]
NoPr == [n |-> 0, changed |-> {}, stated |-> [s \in System |-> NoSnap],
         wheel |-> FALSE, graph |-> 0]
EmptyKb == [rev |-> 0, pins |-> [s \in System |-> NoSnap], wheel |-> TRUE, graph |-> 0]

Phase == {"idle", "consumed", "cloning", "acquiring", "authoring", "opening",
          "opened", "superseding", "remarking"}
Outcome == {"none", "running", "succeeded", "no-op", "failed",
            "failed_acquisition", "retry_head_moved"}

Idle == [phase |-> "idle", marks |-> NoMarks, base |-> EmptyKb,
         got |-> [s \in System |-> NoSnap], excluded |-> {}, attempt |-> 0,
         pr |-> NoPr, priors |-> {}]

Init == /\ jobs = [j \in Job |-> NoJob("absent")]
        /\ accepted = [s \in System |-> <<>>]
        /\ attested = 0
        /\ marking = {}
        /\ pending = NoMarks
        /\ run = Idle
        /\ row = [n |-> 0, outcome |-> "none", triggers |-> {}]
        /\ head \in {[EmptyKb EXCEPT !.wheel = w] : w \in BOOLEAN}
        /\ prs = {}
        /\ restarts = 0
        /\ made = [s \in System |-> {}]
        /\ marked = {}
        /\ settled = {}
        /\ lost = {}

-----------------------------------------------------------------------------
(* Triggers                                                                *)

\* triggerSystem, first transaction: enqueue answers with the queued job of the
\* system, or with a new one.
TriggerEnqueue(t, s, j) ==
    /\ \A x \in System : t \notin made[x]
    /\ \/ j \in JobsOf(s, "queued") /\ UNCHANGED jobs
       \/ /\ JobsOf(s, "queued") = {}
          /\ jobs[j].state = "absent"
          /\ jobs' = [jobs EXCEPT ![j] = [NoJob("queued") EXCEPT !.system = s]]
    /\ made' = [made EXCEPT ![s] = @ \cup {t}]
    /\ marking' = marking \cup {[trigger |-> t, system |-> s, job |-> j]}
    /\ UNCHANGED <<accepted, attested, pending, run, row, head, prs, restarts,
                   marked, settled, lost>>

\* triggerSystem, second transaction: the mark takes the job id of the call that
\* marks last, whichever enqueued last.
TriggerMark(i) ==
    /\ pending' = [pending EXCEPT ![i.system] =
                     [job |-> i.job, triggers |-> @.triggers \cup {i.trigger}, last |-> i.trigger]]
    /\ marking' = marking \ {i}
    /\ marked' = marked \cup {i.trigger}
    /\ UNCHANGED <<jobVars, attested, run, row, head, prs, restarts, made, settled, lost>>

-----------------------------------------------------------------------------
(* The queue, from outside                                                 *)

JobStep == UNCHANGED <<attested, marking, pending, run, row, head, prs, restarts, history>>

JobClaimed(j) ==
    /\ jobs[j].state = "queued"
    /\ JobsOf(jobs[j].system, "live") = {}
    /\ jobs' = [jobs EXCEPT ![j].state = "live", ![j].sees = made[jobs[j].system]]
    /\ UNCHANGED accepted
    /\ JobStep

Pruned(q) == IF Len(q) > Retention THEN SubSeq(q, Len(q) - Retention + 1, Len(q)) ELSE q

LatestOf(s) == IF accepted[s] = <<>> THEN NoSnap ELSE accepted[s][Len(accepted[s])]

JobSucceeded(j, c) ==
    /\ jobs[j].state = "live"
    /\ LET s == jobs[j].system
           snap == [id |-> LatestOf(s).id + 1, content |-> c, covers |-> jobs[j].sees]
       IN  /\ jobs' = [jobs EXCEPT ![j].state = "succeeded", ![j].sees = {}, ![j].snap = snap.id]
           /\ accepted' = [accepted EXCEPT ![s] = Pruned(Append(@, snap))]
    /\ JobStep

\* Dead-lettered or cancelled.
JobEnded(j) ==
    /\ jobs[j].state \in {"queued", "live"}
    /\ jobs' = [jobs EXCEPT ![j].state = "ended", ![j].sees = {}]
    /\ UNCHANGED accepted
    /\ JobStep

\* A retry absorbs the queued follower; a deferral coalesces into it.
JobRequeued(j) ==
    /\ jobs[j].state = "live"
    /\ jobs' = [i \in Job |->
                  IF i = j THEN [jobs[j] EXCEPT !.state = "queued", !.sees = {}]
                  ELSE IF i \in JobsOf(jobs[j].system, "queued") THEN NoJob("deleted")
                  ELSE jobs[i]]
    /\ UNCHANGED accepted
    /\ JobStep

JobCoalesced(j) ==
    /\ jobs[j].state = "live"
    /\ JobsOf(jobs[j].system, "queued") # {}
    /\ jobs' = [jobs EXCEPT ![j].state = "coalesced", ![j].sees = {}]
    /\ UNCHANGED accepted
    /\ JobStep

-----------------------------------------------------------------------------
(* The run                                                                 *)

RunStep == UNCHANGED <<jobVars, attested, marking, restarts, made, marked>>

Finished(o) ==
    /\ run' = Idle
    /\ row' = [row EXCEPT !.outcome = o]
    /\ settled' = IF o = "retry_head_moved" THEN settled ELSE settled \cup row.triggers

\* consumePending: the marks leave the table before the run has a row.
Consume ==
    /\ run.phase = "idle"
    /\ Marked(pending) # {}
    /\ run' = [Idle EXCEPT !.phase = "consumed", !.marks = pending]
    /\ pending' = NoMarks
    /\ UNCHANGED <<row, head, prs, settled, lost>>
    /\ RunStep

Begin ==
    /\ run.phase = "consumed"
    /\ run' = [run EXCEPT !.phase = "cloning"]
    /\ row' = [n |-> row.n + 1, outcome |-> "running", triggers |-> TriggersIn(run.marks)]
    /\ UNCHANGED <<pending, head, prs, settled, lost>>
    /\ RunStep

\* The insert of the run row throws outside executeRun's try: the loop logs it.
BeginFails ==
    /\ run.phase = "consumed"
    /\ run' = Idle
    /\ lost' = lost \cup TriggersIn(run.marks)
    /\ UNCHANGED <<pending, row, head, prs, settled>>
    /\ RunStep

\* cloneKb pins HEAD.
Clone ==
    /\ run.phase = "cloning"
    /\ run' = [run EXCEPT !.phase = "acquiring", !.base = head]
    /\ UNCHANGED <<pending, row, head, prs, settled, lost>>
    /\ RunStep

\* Stage 2 polls the job of each mark.  (The code takes the systems in
\* alphabetical order; here any order.)
Awaited(s) ==
    /\ run.phase = "acquiring"
    /\ s \in Marked(run.marks) \ run.excluded
    /\ run.got[s] = NoSnap

SnapOf(j) == {a \in {accepted[jobs[j].system][m] : m \in 1..Len(accepted[jobs[j].system])} :
                a.id = jobs[j].snap}

Acquired(s) ==
    /\ Awaited(s)
    /\ jobs[run.marks[s].job].state = "succeeded"
    /\ \E a \in SnapOf(run.marks[s].job) : run' = [run EXCEPT !.got[s] = a]
    /\ UNCHANGED <<pending, row, head, prs, settled, lost>>
    /\ RunStep

Excluded(s) == run' = [run EXCEPT !.excluded = @ \cup {s}]

\* The job vanished, ended without a snapshot, or its snapshot was pruned.
AcquireFails(s) ==
    /\ Awaited(s)
    /\ LET j == run.marks[s].job
       IN  \/ jobs[j].state \in {"deleted", "ended"}
           \/ jobs[j].state = "succeeded" /\ SnapOf(j) = {}
    /\ Excluded(s)
    /\ UNCHANGED <<pending, row, head, prs, settled, lost>>
    /\ RunStep

\* Fault: the budget bounds only the wait for a job that is still under way.
AcquireTimesOutUnderWay(s) ==
    /\ Awaited(s)
    /\ jobs[run.marks[s].job].state \in {"queued", "live"}
    /\ Excluded(s)
    /\ UNCHANGED <<pending, row, head, prs, settled, lost>>
    /\ RunStep

\* The acquisition budget runs out; a coalesced job is waited for until it does.
AcquireTimesOut(s) ==
    /\ Awaited(s)
    /\ jobs[run.marks[s].job].state \in {"queued", "live", "coalesced"}
    /\ Excluded(s)
    /\ UNCHANGED <<pending, row, head, prs, settled, lost>>
    /\ RunStep

Resolved == run.phase = "acquiring" /\ \A s \in System : ~Awaited(s)
GotAny == \E s \in System : run.got[s] # NoSnap

NothingAcquired ==
    /\ Resolved
    /\ ~GotAny
    /\ Finished("failed_acquisition")
    /\ UNCHANGED <<pending, head, prs, lost>>
    /\ RunStep

\* Fault: only the triggered systems are stated.
StatedTriggeredOnly(s) == IF run.got[s] # NoSnap THEN run.got[s] ELSE run.base.pins[s]

\* Restatement: a system the run did not acquire rides on its latest acceptance.
Stated(s) ==
    IF run.got[s] # NoSnap THEN run.got[s]
    ELSE IF accepted[s] # <<>> THEN LatestOf(s)
    ELSE run.base.pins[s]

Changed == {s \in System : Stated(s).content # run.base.pins[s].content}
GraphDue == attested > run.base.graph
GraphCarried ==
    GraphDue /\ (Changed # {} \/ \E s \in System : run.base.pins[s] # NoSnap)
ManualRun == TriggersIn(run.marks) \cap Manual # {}
WheelDue == ~run.base.wheel

\* There is something to say, and saying it changes a byte (commitAll).
HasNews == Changed # {} \/ GraphDue \/ (WheelDue /\ ManualRun)
HasCommit == Changed # {} \/ GraphCarried \/ WheelDue
HasDrift == HasNews /\ HasCommit

NoOp ==
    /\ Resolved
    /\ GotAny
    /\ ~HasDrift
    /\ Finished("no-op")
    /\ UNCHANGED <<pending, head, prs, lost>>
    /\ RunStep

\* Stages 3 to 10: diff, lineage, scan, renders and commit, in the clone.
Compose ==
    /\ Resolved
    /\ GotAny
    /\ HasDrift
    /\ run' = [run EXCEPT !.phase = "authoring",
                          !.pr = [n |-> row.n, changed |-> Changed,
                                  stated |-> [s \in System |-> Stated(s)],
                                  wheel |-> WheelDue,
                                  graph |-> IF GraphCarried THEN attested ELSE run.base.graph]]
    /\ UNCHANGED <<pending, row, head, prs, settled, lost>>
    /\ RunStep

\* A clone, a stage or a database call throws.
StageFails ==
    /\ run.phase \in {"cloning", "acquiring", "remarking"}
    /\ Finished("failed")
    /\ UNCHANGED <<pending, head, prs, lost>>
    /\ RunStep

-----------------------------------------------------------------------------
(* Authoring the pull request                                              *)

\* Fault: one attempt too many.
MoreAttemptsOffByOne == run.phase = "authoring" /\ run.attempt <= PrRetries

MoreAttempts == run.phase = "authoring" /\ run.attempt < PrRetries

HeadAsPinned ==
    /\ MoreAttempts
    /\ head.rev = run.base.rev
    /\ run' = [run EXCEPT !.phase = "opening"]
    /\ UNCHANGED <<pending, row, head, prs, settled, lost>>
    /\ RunStep

HeadUnreadable ==
    /\ MoreAttempts
    /\ run' = [run EXCEPT !.attempt = @ + 1]
    /\ UNCHANGED <<pending, row, head, prs, settled, lost>>
    /\ RunStep

HeadMoved ==
    /\ MoreAttempts
    /\ head.rev # run.base.rev
    /\ run' = [run EXCEPT !.phase = "remarking"]
    /\ UNCHANGED <<pending, row, head, prs, settled, lost>>
    /\ RunStep

\* Faults: the mark put back overrides the job of one that came in meanwhile, or
\* gives way to it.
RemarkedOverrides(m, mine) ==
    IF m = NoMark THEN mine
    ELSE [m EXCEPT !.job = mine.job, !.triggers = mine.triggers \cup @]
RemarkedForgets(m, mine) == IF m = NoMark THEN mine ELSE m

\* remarkPending, one upsert per system: a mark that came in meanwhile keeps its job.
Remarked(m, mine) ==
    IF m = NoMark THEN mine ELSE [m EXCEPT !.triggers = mine.triggers \cup @]

Remark(s) ==
    /\ run.phase = "remarking"
    /\ run.marks[s] # NoMark
    /\ pending' = [pending EXCEPT ![s] = Remarked(@, run.marks[s])]
    /\ run' = [run EXCEPT !.marks[s] = NoMark]
    /\ UNCHANGED <<row, head, prs, settled, lost>>
    /\ RunStep

RunAgain ==
    /\ run.phase = "remarking"
    /\ run.marks = NoMarks
    /\ Finished("retry_head_moved")
    /\ UNCHANGED <<pending, head, prs, lost>>
    /\ RunStep

\* push and openPr; the provider refuses a second pull request for a branch.
OpenPr ==
    /\ run.phase = "opening"
    /\ \A p \in prs : p.n # run.pr.n
    /\ prs' = prs \cup {run.pr}
    /\ run' = [run EXCEPT !.phase = "opened"]
    /\ UNCHANGED <<pending, row, head, settled, lost>>
    /\ RunStep

\* The pull request exists but the call throws (its answer, or the labels, failed).
OpenPrAnswerLost ==
    /\ run.phase = "opening"
    /\ \A p \in prs : p.n # run.pr.n
    /\ prs' = prs \cup {run.pr}
    /\ run' = [run EXCEPT !.phase = "authoring", !.attempt = @ + 1]
    /\ UNCHANGED <<pending, row, head, settled, lost>>
    /\ RunStep

OpenPrFails ==
    /\ run.phase = "opening"
    /\ run' = [run EXCEPT !.phase = "authoring", !.attempt = @ + 1]
    /\ UNCHANGED <<pending, row, head, prs, settled, lost>>
    /\ RunStep

\* Out of attempts: delete the branch, best effort; the provider closes the pull
\* request of a branch that is gone.
GiveUp ==
    /\ run.phase = "authoring"
    /\ run.attempt >= PrRetries
    /\ \/ prs' = {p \in prs : p.n # run.pr.n}
       \/ UNCHANGED prs
    /\ Finished("failed")
    /\ UNCHANGED <<pending, head, lost>>
    /\ RunStep

Others == {p \in prs : p.n # run.pr.n}

ListPriors ==
    /\ run.phase = "opened"
    /\ run' = [run EXCEPT !.phase = "superseding", !.priors = Others]
    /\ UNCHANGED <<pending, row, head, prs, settled, lost>>
    /\ RunStep

ClosePrior(p) ==
    /\ run.phase = "superseding"
    /\ p \in run.priors
    /\ prs' = prs \ {p}
    /\ run' = [run EXCEPT !.priors = @ \ {p}]
    /\ UNCHANGED <<pending, row, head, settled, lost>>
    /\ RunStep

\* Fault: an error of the supersede is logged and the run goes on.
SupersedeErrorSwallowed ==
    /\ run.phase \in {"opened", "superseding"}
    /\ Finished("succeeded")
    /\ UNCHANGED <<pending, head, prs, lost>>
    /\ RunStep

\* listOpenSyncPrs or closePr throws, or the outcome cannot be recorded: the run is
\* recorded as failed.
SupersedeFails ==
    /\ run.phase \in {"opened", "superseding"}
    /\ Finished("failed")
    /\ UNCHANGED <<pending, head, prs, lost>>
    /\ RunStep

Superseded ==
    /\ run.phase = "superseding"
    /\ run.priors = {}
    /\ Finished("succeeded")
    /\ UNCHANGED <<pending, head, prs, lost>>
    /\ RunStep

\* The failure handler fails as well (the database is away): the row stays running until
\* the core restarts.
HandlerFails ==
    /\ run.phase \notin {"idle", "consumed"}
    /\ run' = Idle
    /\ lost' = lost \cup row.triggers
    /\ UNCHANGED <<pending, row, head, prs, settled>>
    /\ RunStep

\* The core dies and starts again: failStaleRunningRuns closes the row left running.
Restart ==
    /\ restarts < MaxRestart
    /\ restarts' = restarts + 1
    /\ run' = Idle
    /\ marking' = {}
    /\ lost' = IF run.phase = "consumed" THEN lost \cup TriggersIn(run.marks) ELSE lost
    /\ IF row.outcome = "running"
       THEN row' = [row EXCEPT !.outcome = "failed"] /\ settled' = settled \cup row.triggers
       ELSE UNCHANGED <<row, settled>>
    /\ UNCHANGED <<jobVars, attested, pending, head, prs, made, marked>>

-----------------------------------------------------------------------------
(* People and the publish gateway                                          *)

Outside == UNCHANGED <<jobVars, marking, pending, run, row, restarts, history>>

MergePr(p) ==
    /\ p \in prs
    /\ head.rev < MaxHead
    /\ head' = [rev |-> head.rev + 1,
                pins |-> [s \in System |-> IF s \in p.changed THEN p.stated[s] ELSE head.pins[s]],
                wheel |-> head.wheel \/ p.wheel,
                graph |-> IF p.graph > head.graph THEN p.graph ELSE head.graph]
    /\ prs' = prs \ {p}
    /\ UNCHANGED attested
    /\ Outside

RejectPr(p) ==
    /\ p \in prs
    /\ prs' = prs \ {p}
    /\ UNCHANGED <<head, attested>>
    /\ Outside

\* An enrichment is merged.
HeadMoves ==
    /\ head.rev < MaxHead
    /\ head' = [head EXCEPT !.rev = @ + 1]
    /\ UNCHANGED <<prs, attested>>
    /\ Outside

Attest ==
    /\ attested < MaxAttest
    /\ attested' = attested + 1
    /\ UNCHANGED <<head, prs>>
    /\ Outside

-----------------------------------------------------------------------------
Acquire(s) == Acquired(s) \/ AcquireFails(s) \/ AcquireTimesOut(s)

\* What a live core does next in a run.
Progress ==
    \/ Consume \/ Begin \/ Clone
    \/ \E s \in System : Acquire(s)
    \/ NothingAcquired \/ NoOp \/ Compose
    \/ HeadAsPinned \/ HeadUnreadable \/ HeadMoved
    \/ \E s \in System : Remark(s)
    \/ RunAgain
    \/ OpenPr \/ OpenPrAnswerLost \/ OpenPrFails \/ GiveUp
    \/ ListPriors
    \/ \E p \in run.priors : ClosePrior(p)
    \/ SupersedeFails \/ Superseded

Next ==
    \/ \E t \in Trigger, s \in System, j \in Job : TriggerEnqueue(t, s, j)
    \/ \E i \in marking : TriggerMark(i)
    \/ \E j \in Job : \/ JobClaimed(j)
                      \/ \E c \in Content : JobSucceeded(j, c)
                      \/ JobEnded(j)
                      \/ JobRequeued(j)
                      \/ JobCoalesced(j)
    \/ Progress
    \/ BeginFails
    \/ StageFails
    \/ HandlerFails
    \/ Restart
    \/ \E p \in prs : MergePr(p) \/ RejectPr(p)
    \/ HeadMoves
    \/ Attest

Spec == Init /\ [][Next]_vars

\* The run loop of index.ts wakes at least every minute, and a run in the core's
\* memory goes on.  No job need end, nobody need merge.
FairSpec == Spec /\ WF_vars(Progress)

-----------------------------------------------------------------------------
(* Properties                                                              *)

\* The tables, the run in memory and the repository have their types.
SyncTypeOK ==
    /\ jobs \in [Job -> JobRow]
    /\ accepted \in [System -> Seq(Snap)]
    /\ attested \in 0..MaxAttest
    /\ marking \subseteq [trigger : Trigger, system : System, job : Job]
    /\ pending \in Marks
    /\ run \in [phase : Phase, marks : Marks, base : Kb, got : [System -> Snap],
                excluded : SUBSET System, attempt : 0..PrRetries, pr : Pr, priors : SUBSET Pr]
    /\ row \in [n : Nat, outcome : Outcome, triggers : SUBSET Trigger]
    /\ head \in Kb
    /\ prs \subseteq Pr
    /\ restarts \in 0..MaxRestart
    /\ made \in [System -> SUBSET Trigger]
    /\ marked \cup settled \cup lost \subseteq Trigger

\* The snapshot a run takes for a system answers the trigger that marked it last:
\* its job was claimed after that trigger was made.  Absorbed, coalesced and pruned
\* jobs, and marks put back after HEAD moved, never make a run use an older one.
LastMarkServed ==
    \A s \in System : run.got[s] # NoSnap /\ run.marks[s] # NoMark =>
        run.marks[s].last \in run.got[s].covers

\* "opening it auto-closes the orchestrator's own prior unmerged sync PRs" (sync spec,
\* SY-3): after a run that succeeded there is one open sync PR at most, however many
\* failed and interrupted runs left theirs behind.
OneCurrentPr == row.outcome = "succeeded" => Cardinality(prs) <= 1

\* Supersede keeps the drift of the systems a run was not triggered for, or could not
\* acquire (restatement): the new PR states for them a snapshot at least as new as any
\* PR it closes.
RestatementKeepsDrift ==
    run.phase = "superseding" =>
        \A p \in run.priors, s \in System :
            run.got[s] = NoSnap => run.pr.stated[s].id >= p.stated[s].id

\* A mark that left sync_pending is in the hands of the run, back in the table, or on a
\* run row that ended; it gets lost only between consumePending and the insert, and when
\* the outcome of the run cannot be recorded.
MarksKept ==
    marked \subseteq TriggersIn(pending) \cup TriggersIn(run.marks) \cup settled \cup lost

\* Single-flight runs end (acquisition budget, bounded PR retries), so a trigger does
\* not stay outstanding for ever behind a job that never ends.
Outstanding(t) == t \in TriggersIn(pending) \cup TriggersIn(run.marks)
TriggersConclude == \A t \in Trigger : Outstanding(t) ~> ~Outstanding(t)
=============================================================================
