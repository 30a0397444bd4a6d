------------------------- MODULE SyncPipelineProofs -------------------------
(***************************************************************************)
(* What SyncPipeline promises for any systems, jobs, triggers, contents    *)
(* and bounds: its types, that no mark gets lost but in the two places the *)
(* code loses one, that a successful run leaves one open pull request,     *)
(* that a run uses no snapshot older than its last mark, and that a pull   *)
(* request states for the systems its run did not acquire at least what    *)
(* the ones it closes stated.                                              *)
(***************************************************************************)
EXTENDS SyncPipeline, FiniteSetTheorems, SequenceTheorems, TLAPS

(* A run with a row of its own.                                            *)
Active == run.phase \notin {"idle", "consumed"}

(* The types, with what the steps rely on: a job that is queued, live or   *)
(* has delivered belongs to a system, and a pull request is opened only    *)
(* with an attempt left.                                                   *)
SyncTyped ==
    /\ SyncTypeOK
    /\ \A j \in Job : jobs[j].state \in {"queued", "live", "succeeded"} =>
                          jobs[j].system \in System
    /\ run.phase = "opening" => run.attempt < PrRetries

(* Where the marks are.  A run in progress has the latest row, still       *)
(* running, and that row names every trigger whose mark the run holds.     *)
MarksInv ==
    /\ MarksKept
    /\ run.phase = "idle" => run.marks = NoMarks
    /\ Active => row.outcome = "running" /\ TriggersIn(run.marks) \subseteq row.triggers

(* No two open pull requests have a branch in common; a run that           *)
(* supersedes has listed every other one.                                  *)
PrInv ==
    /\ \A p, q \in prs : p.n = q.n => p = q
    /\ Active => row.outcome = "running"
    /\ run.phase = "superseding" => \A p \in prs : p.n = run.pr.n \/ p \in run.priors
    /\ row.outcome = "succeeded" => \A p, q \in prs : p = q

(* The acceptance numbers of a system never exceed the latest one, in the  *)
(* store and in what was taken from it.                                    *)
StoreInv ==
    /\ \A s \in System : \A m \in 1 .. Len(accepted[s]) : accepted[s][m].id <= LatestOf(s).id
    /\ \A j \in Job : jobs[j].state = "succeeded" => jobs[j].snap <= LatestOf(jobs[j].system).id

(* A trigger that named job j for system s is answered by what the job     *)
(* brings: it was made before the job was claimed.                         *)
Answers(j, s, t) ==
    /\ t \in made[s]
    /\ jobs[j].state # "absent"
    /\ jobs[j].state # "deleted" => jobs[j].system = s
    /\ jobs[j].state = "live" => t \in jobs[j].sees
    /\ jobs[j].state = "succeeded" =>
           \A m \in 1 .. Len(accepted[s]) :
               accepted[s][m].id = jobs[j].snap => t \in accepted[s][m].covers

NamesInv ==
    /\ \A i \in marking : Answers(i.job, i.system, i.trigger)
    /\ \A s \in System : pending[s] # NoMark => Answers(pending[s].job, s, pending[s].last)
    /\ \A s \in System : run.marks[s] # NoMark => Answers(run.marks[s].job, s, run.marks[s].last)

ServedInv ==
    /\ LastMarkServed
    /\ run.phase \in {"idle", "consumed"} => \A s \in System : run.got[s] = NoSnap

(* Nobody has a snapshot newer than the store.                             *)
BehindInv ==
    \A s \in System :
        /\ run.got[s].id <= LatestOf(s).id
        /\ run.base.pins[s].id <= LatestOf(s).id
        /\ run.pr.stated[s].id <= LatestOf(s).id
        /\ head.pins[s].id <= LatestOf(s).id
        /\ \A p \in prs : p.stated[s].id <= LatestOf(s).id

Composed == {"authoring", "opening", "opened", "superseding", "remarking"}

(* From its composition on the run's pull request states, for the systems  *)
(* it did not acquire, at least what every open one states.                *)
RestatedInv ==
    \A s \in System :
        /\ run.phase \in Composed =>
               \A p \in prs \cup run.priors :
                   run.got[s] = NoSnap => run.pr.stated[s].id >= p.stated[s].id
        /\ run.phase # "superseding" => run.priors = {}

-----------------------------------------------------------------------------
(* The types                                                               *)

RunType == [phase : Phase, marks : Marks, base : Kb, got : [System -> Snap],
            excluded : SUBSET System, attempt : 0..PrRetries, pr : Pr, priors : SUBSET Pr]
RowType == [n : Nat, outcome : Outcome, triggers : SUBSET Trigger]

(* The values everything starts from.                                      *)
LEMMA Blanks ==
    /\ NoSnap \in Snap /\ NoMarks \in Marks /\ NoPr \in Pr /\ EmptyKb \in Kb
    /\ Idle \in RunType /\ Idle.phase = "idle" /\ Idle.marks = NoMarks
    /\ Idle.priors = {} /\ Idle.got = [s \in System |-> NoSnap]
    /\ Idle.base = EmptyKb /\ Idle.pr = NoPr
<1>1. NoSnap \in Snap
  BY DEF NoSnap, Snap
<1>2. NoMarks \in Marks
  BY DEF NoMarks, Marks
<1>3. [s \in System |-> NoSnap] \in [System -> Snap]
  BY <1>1
<1>4. NoPr \in Pr
  BY <1>3 DEF NoPr, Pr
<1>5. EmptyKb \in Kb
  BY <1>3 DEF EmptyKb, Kb
<1>6. 0 \in 0 .. PrRetries
  BY SyncAssumption
<1>7. Idle \in RunType
  BY <1>2, <1>3, <1>4, <1>5, <1>6 DEF Idle, RunType, Phase
<1> QED  BY <1>1, <1>2, <1>4, <1>5, <1>7 DEF Idle

(* A system has a mark exactly when its row names a job.                   *)
LEMMA MarkOrNone ==
    ASSUME NEW m \in Marks, NEW s \in System
    PROVE  /\ m[s] \in Mark \cup {NoMark}
           /\ m[s] # NoMark <=> m[s] \in Mark
           /\ m[s].triggers \subseteq Trigger
<1>1. m[s] \in Mark \cup {NoMark}
  BY DEF Marks
<1>2. NoMark \notin Mark
  BY SyncAssumption DEF NoMark, Mark
<1>3. NoMark.triggers = {}
  BY DEF NoMark
<1>4. CASE m[s] \in Mark
  BY <1>2, <1>4 DEF Mark
<1>5. CASE m[s] = NoMark
  BY <1>2, <1>3, <1>5
<1> QED  BY <1>1, <1>4, <1>5

LEMMA TriggersTyped ==
    ASSUME NEW m \in Marks
    PROVE  TriggersIn(m) \subseteq Trigger
BY MarkOrNone DEF TriggersIn

(* The latest acceptance is a snapshot, the blank one included.            *)
LEMMA LatestTyped ==
    ASSUME SyncTypeOK, NEW s \in System
    PROVE  LatestOf(s) \in Snap
<1>1. accepted[s] \in Seq(Snap)
  BY DEF SyncTypeOK
<1>2. CASE accepted[s] = <<>>
  BY <1>2, Blanks DEF LatestOf
<1>3. CASE accepted[s] # <<>>
  <2>1. Len(accepted[s]) \in 1 .. Len(accepted[s])
    BY <1>1, <1>3
  <2> QED  BY <1>1, <1>3, <2>1 DEF LatestOf
<1> QED  BY <1>2, <1>3

LEMMA StatedTyped ==
    ASSUME SyncTypeOK, NEW s \in System
    PROVE  Stated(s) \in Snap
<1>1. run.got[s] \in Snap /\ run.base.pins[s] \in Snap
  BY DEF SyncTypeOK, Kb
<1> QED  BY <1>1, LatestTyped DEF Stated

(* What is pruned from a sequence is a tail of it that keeps its last one. *)
LEMMA PrunedTail ==
    ASSUME NEW S, NEW q \in Seq(S), q # <<>>
    PROVE  /\ Pruned(q) \in Seq(S) /\ Pruned(q) # <<>>
           /\ Pruned(q)[Len(Pruned(q))] = q[Len(q)]
           /\ \A m \in 1 .. Len(Pruned(q)) : \E k \in 1 .. Len(q) : Pruned(q)[m] = q[k]
<1>1. CASE Len(q) <= Retention
  BY <1>1, SyncAssumption DEF Pruned
<1>2. CASE Len(q) > Retention
  <2> DEFINE a == Len(q) - Retention + 1
  <2>1. a \in 1 .. Len(q) /\ Len(q) \in Nat /\ Retention \in Nat \ {0}
    BY <1>2, SyncAssumption
  <2>2. Pruned(q) = SubSeq(q, a, Len(q))
    BY <1>2 DEF Pruned
  <2>3. /\ SubSeq(q, a, Len(q)) \in Seq(S) /\ Len(SubSeq(q, a, Len(q))) = Retention
        /\ \A m \in 1 .. Retention : SubSeq(q, a, Len(q))[m] = q[a + m - 1]
    BY <2>1
  <2>4. \A m \in 1 .. Retention : a + m - 1 \in 1 .. Len(q)
    BY <2>1
  <2>5. Retention \in 1 .. Retention /\ a + Retention - 1 = Len(q)
    BY <2>1
  <2>6. Pruned(q) # <<>>
    <3>1. Len(Pruned(q)) # 0
      BY <2>1, <2>2, <2>3
    <3> QED  BY <3>1
  <2> QED  BY <2>2, <2>3, <2>4, <2>5, <2>6
<1> QED  BY <1>1, <1>2, SyncAssumption

LEMMA InitTyped == Init => SyncTyped
<1> SUFFICES ASSUME Init PROVE SyncTyped
  OBVIOUS
<1> USE SyncAssumption
<1>1. \A st \in JobState : NoJob(st) \in JobRow
  BY DEF NoJob, JobRow
<1>2. jobs \in [Job -> JobRow] /\ \A j \in Job : jobs[j].state = "absent"
  <2>1. jobs = [j \in Job |-> NoJob("absent")] /\ "absent" \in JobState
    BY DEF Init, JobState
  <2> QED  BY <1>1, <2>1 DEF NoJob
<1>3. accepted \in [System -> Seq(Snap)]
  BY DEF Init
<1>4. attested \in 0..MaxAttest /\ restarts \in 0..MaxRestart
  BY DEF Init
<1>5. pending \in Marks /\ run \in RunType /\ run.phase = "idle"
  BY Blanks DEF Init
<1>6. row \in RowType
  BY DEF Init, RowType, Outcome
<1>7. head \in Kb
  <2>1. PICK w \in BOOLEAN : head = [EmptyKb EXCEPT !.wheel = w]
    BY DEF Init
  <2> QED  BY <2>1, Blanks DEF Kb
<1>8. made \in [System -> SUBSET Trigger]
  BY DEF Init
<1>9. SyncTypeOK
  BY <1>2, <1>3, <1>4, <1>5, <1>6, <1>7, <1>8 DEF SyncTypeOK, Init, RunType, RowType
<1> QED  BY <1>2, <1>5, <1>9 DEF SyncTyped

(* A step of the run keeps the types when it keeps those of what it        *)
(* changes.                                                                *)
LEMMA RunStepTyped ==
    ASSUME SyncTyped, RunStep,
           pending' \in Marks, run' \in RunType, row' \in RowType, head' = head,
           prs' \subseteq Pr, settled' \cup lost' \subseteq Trigger,
           run'.phase = "opening" => run'.attempt < PrRetries
    PROVE  SyncTyped'
BY DEF SyncTyped, SyncTypeOK, RunStep, jobVars, RunType, RowType

(* What ends a run leaves typed.                                           *)
LEMMA FinishedTyped ==
    ASSUME SyncTyped, NEW o \in Outcome, Finished(o)
    PROVE  /\ run' \in RunType /\ row' \in RowType /\ run'.phase # "opening"
           /\ settled \subseteq Trigger /\ settled' \subseteq Trigger
<1>1. row \in RowType /\ settled \subseteq Trigger
  BY DEF SyncTyped, SyncTypeOK, RowType
<1>2. row.triggers \subseteq Trigger
  BY <1>1 DEF RowType
<1>3. row' \in RowType
  BY <1>1 DEF Finished, RowType
<1>4. run' \in RunType /\ run'.phase # "opening"
  BY Blanks DEF Finished
<1>5. settled' \subseteq Trigger
  BY <1>1, <1>2 DEF Finished
<1> QED  BY <1>1, <1>3, <1>4, <1>5

(* The steps a run takes keep the types.                                   *)
LEMMA ProgressTyped ==
    ASSUME SyncTyped, Progress
    PROVE  SyncTyped'
<1> USE SyncAssumption
<1>1. /\ run \in RunType /\ row \in RowType /\ pending \in Marks /\ prs \subseteq Pr
      /\ settled \cup lost \subseteq Trigger /\ head \in Kb /\ attested \in 0..MaxAttest
      /\ run.phase = "opening" => run.attempt < PrRetries
  BY DEF SyncTyped, SyncTypeOK, RunType, RowType
<1>2. /\ run.marks \in Marks /\ run.got \in [System -> Snap] /\ run.attempt \in 0..PrRetries
      /\ run.pr \in Pr /\ run.priors \subseteq Pr /\ run.base \in Kb
      /\ run.phase \in Phase /\ run.excluded \subseteq System
  BY <1>1 DEF RunType
<1>3. CASE Consume
  <2>1. run' = [Idle EXCEPT !.phase = "consumed", !.marks = pending] /\ pending' = NoMarks
    BY <1>3 DEF Consume
  <2>2. run' \in RunType /\ run'.phase = "consumed"
    BY <1>1, <2>1, Blanks DEF RunType, Phase
  <2> QED  BY <1>1, <1>3, <2>1, <2>2, Blanks, RunStepTyped DEF Consume
<1>4. CASE Begin
  <2>1. run' \in RunType /\ run'.phase = "cloning"
    BY <1>1, <1>4 DEF Begin, RunType, Phase
  <2>2. row' \in RowType
    BY <1>1, <1>2, <1>4, TriggersTyped DEF Begin, RowType, Outcome
  <2> QED  BY <1>1, <1>4, <2>1, <2>2, RunStepTyped DEF Begin
<1>5. CASE Clone
  <2>1. run' \in RunType /\ run'.phase = "acquiring"
    BY <1>1, <1>5 DEF Clone, RunType, Phase
  <2> QED  BY <1>1, <1>5, <2>1, RunStepTyped DEF Clone
<1>6. ASSUME NEW s \in System, Acquire(s) PROVE SyncTyped'
  <2>1. run' \in RunType /\ run'.phase = run.phase /\ run.phase = "acquiring"
    <3>1. CASE Acquired(s)
      <4>1. PICK a \in SnapOf(run.marks[s].job) : run' = [run EXCEPT !.got[s] = a]
        BY <3>1 DEF Acquired
      <4> DEFINE j == run.marks[s].job
      <4>2. run.marks[s] \in Mark /\ jobs[j].state = "succeeded"
        BY <1>2, <3>1, MarkOrNone DEF Acquired, Awaited, Marked
      <4>3. j \in Job
        BY <4>2 DEF Mark
      <4>4. accepted[jobs[j].system] \in Seq(Snap)
        BY <4>2, <4>3 DEF SyncTyped, SyncTypeOK
      <4> HIDE DEF j
      <4>5. a \in Snap
        BY <4>1, <4>4, SMTT(30) DEF SnapOf, j
      <4> QED  BY <1>1, <3>1, <4>1, <4>5 DEF RunType, Acquired, Awaited
    <3>2. CASE AcquireFails(s) \/ AcquireTimesOut(s)
      BY <1>1, <3>2 DEF AcquireFails, AcquireTimesOut, Excluded, RunType, Awaited
    <3> QED  BY <1>6, <3>1, <3>2 DEF Acquire
  <2>2. RunStep /\ UNCHANGED <<pending, row, head, prs, settled, lost>>
    BY <1>6 DEF Acquire, Acquired, AcquireFails, AcquireTimesOut
  <2> QED  BY <1>1, <2>1, <2>2, RunStepTyped
<1>7. CASE NothingAcquired \/ NoOp \/ SupersedeFails \/ Superseded \/ RunAgain
  <2>1. /\ RunStep /\ UNCHANGED <<pending, head, prs, lost>>
        /\ \E o \in Outcome : Finished(o)
    BY <1>7 DEF NothingAcquired, NoOp, SupersedeFails, Superseded, RunAgain, Outcome
  <2> QED  BY <1>1, <2>1, FinishedTyped, RunStepTyped
<1>8. CASE Compose
  <2>1. [s \in System |-> Stated(s)] \in [System -> Snap]
    BY StatedTyped DEF SyncTyped
  <2>2. Changed \subseteq System /\ WheelDue \in BOOLEAN /\ row.n \in Nat
    BY <1>1 DEF Changed, WheelDue, RowType
  <2>3. (IF GraphCarried THEN attested ELSE run.base.graph) \in Nat
    BY <1>1, <1>2 DEF Kb
  <2> DEFINE p == [n |-> row.n, changed |-> Changed,
                   stated |-> [s \in System |-> Stated(s)],
                   wheel |-> WheelDue,
                   graph |-> IF GraphCarried THEN attested ELSE run.base.graph]
  <2>4. p \in Pr
    BY <2>1, <2>2, <2>3 DEF Pr
  <2>5. run' = [run EXCEPT !.phase = "authoring", !.pr = p]
    BY <1>8 DEF Compose
  <2> HIDE DEF p
  <2>6. run' \in RunType /\ run'.phase = "authoring"
    BY <1>1, <2>4, <2>5 DEF RunType, Phase
  <2> QED  BY <1>1, <1>8, <2>6, RunStepTyped DEF Compose
<1>9. CASE HeadAsPinned
  <2>1. run' \in RunType /\ run'.phase = "opening" /\ run'.attempt < PrRetries
    BY <1>1, <1>2, <1>9 DEF HeadAsPinned, MoreAttempts, RunType, Phase
  <2> QED  BY <1>1, <1>9, <2>1, RunStepTyped DEF HeadAsPinned
<1>10. CASE HeadUnreadable
  <2>1. run.attempt + 1 \in 0..PrRetries /\ run.phase = "authoring"
    BY <1>2, <1>10 DEF HeadUnreadable, MoreAttempts
  <2>2. run' \in RunType /\ run'.phase = "authoring"
    BY <1>1, <1>2, <1>10, <2>1 DEF HeadUnreadable, RunType
  <2> QED  BY <1>1, <1>10, <2>2, RunStepTyped DEF HeadUnreadable
<1>11. CASE HeadMoved
  <2>1. run' \in RunType /\ run'.phase = "remarking"
    BY <1>1, <1>11 DEF HeadMoved, RunType, Phase
  <2> QED  BY <1>1, <1>11, <2>1, RunStepTyped DEF HeadMoved
<1>12. ASSUME NEW s \in System, Remark(s) PROVE SyncTyped'
  <2>1. pending[s] \in Mark \cup {NoMark} /\ run.marks[s] \in Mark
    BY <1>1, <1>2, <1>12, MarkOrNone DEF Remark
  <2>2. Remarked(pending[s], run.marks[s]) \in Mark
    BY <2>1 DEF Remarked, Mark
  <2>3. pending' \in Marks
    BY <1>1, <1>12, <2>2 DEF Remark, Marks
  <2>4. run' = [run EXCEPT !.marks = [run.marks EXCEPT ![s] = NoMark]]
    BY <1>1, <1>12 DEF Remark, RunType
  <2>5. [run.marks EXCEPT ![s] = NoMark] \in Marks
    BY <1>2 DEF Marks
  <2>6. run' \in RunType /\ run'.phase = run.phase /\ run.phase = "remarking"
    BY <1>1, <1>12, <2>4, <2>5 DEF Remark, RunType
  <2> QED  BY <1>1, <1>12, <2>3, <2>6, RunStepTyped DEF Remark
<1>13. CASE OpenPr
  <2>1. run' \in RunType /\ run'.phase = "opened" /\ prs' \subseteq Pr
    BY <1>1, <1>2, <1>13 DEF OpenPr, RunType, Phase
  <2> QED  BY <1>1, <1>13, <2>1, RunStepTyped DEF OpenPr
<1>14. CASE OpenPrAnswerLost \/ OpenPrFails
  <2>1. run.attempt + 1 \in 0..PrRetries
    BY <1>1, <1>2, <1>14 DEF OpenPrAnswerLost, OpenPrFails
  <2>2. run' \in RunType /\ run'.phase = "authoring"
    BY <1>1, <1>14, <2>1 DEF OpenPrAnswerLost, OpenPrFails, RunType, Phase
  <2>3. prs' \subseteq Pr
    BY <1>1, <1>2, <1>14 DEF OpenPrAnswerLost, OpenPrFails
  <2> QED  BY <1>1, <1>14, <2>2, <2>3, RunStepTyped DEF OpenPrAnswerLost, OpenPrFails
<1>15. CASE GiveUp
  <2>1. prs' \subseteq Pr /\ Finished("failed") /\ "failed" \in Outcome
    BY <1>1, <1>15 DEF GiveUp, Outcome
  <2> QED  BY <1>1, <1>15, <2>1, FinishedTyped, RunStepTyped DEF GiveUp
<1>16. CASE ListPriors
  <2>1. Others \subseteq Pr
    BY <1>1 DEF Others
  <2>2. run' \in RunType /\ run'.phase = "superseding"
    BY <1>1, <1>16, <2>1 DEF ListPriors, RunType, Phase
  <2> QED  BY <1>1, <1>16, <2>2, RunStepTyped DEF ListPriors
<1>17. ASSUME NEW p \in run.priors, ClosePrior(p) PROVE SyncTyped'
  <2>1. run' \in RunType /\ run'.phase = run.phase /\ run.phase = "superseding"
    BY <1>1, <1>17 DEF ClosePrior, RunType
  <2> QED  BY <1>1, <1>17, <2>1, RunStepTyped DEF ClosePrior
<1> QED  BY <1>3, <1>4, <1>5, <1>6, <1>7, <1>8, <1>9, <1>10, <1>11, <1>12, <1>13, <1>14,
            <1>15, <1>16, <1>17 DEF Progress

(* So do the triggers.                                                     *)
LEMMA TriggersKeepTypes ==
    ASSUME SyncTyped,
           \/ \E t \in Trigger, s \in System, j \in Job : TriggerEnqueue(t, s, j)
           \/ \E i \in marking : TriggerMark(i)
    PROVE  SyncTyped'
<1>1. ASSUME NEW t \in Trigger, NEW s \in System, NEW j \in Job, TriggerEnqueue(t, s, j)
      PROVE  SyncTyped'
  <2>1. [NoJob("queued") EXCEPT !.system = s] \in JobRow
    BY DEF NoJob, JobRow, JobState
  <2>2. [NoJob("queued") EXCEPT !.system = s].system = s
    BY DEF NoJob
  <2>3. /\ jobs' \in [Job -> JobRow]
        /\ \A i \in Job : jobs'[i] = jobs[i] \/ jobs'[i].system = s
    BY <1>1, <2>1, <2>2, ZenonT(40) DEF TriggerEnqueue, SyncTyped, SyncTypeOK
  <2>4. \A i \in Job : jobs'[i].state \in {"queued", "live", "succeeded"} =>
                           jobs'[i].system \in System
    BY <2>3 DEF SyncTyped
  <2>5. made' \in [System -> SUBSET Trigger]
    BY <1>1 DEF TriggerEnqueue, SyncTyped, SyncTypeOK
  <2>6. marking' \subseteq [trigger : Trigger, system : System, job : Job]
    BY <1>1 DEF TriggerEnqueue, SyncTyped, SyncTypeOK
  <2> QED  BY <1>1, <2>3, <2>4, <2>5, <2>6 DEF TriggerEnqueue, SyncTyped, SyncTypeOK
<1>2. ASSUME NEW i \in marking, TriggerMark(i) PROVE SyncTyped'
  <2>1. i.trigger \in Trigger /\ i.system \in System /\ i.job \in Job
    BY DEF SyncTyped, SyncTypeOK
  <2>2. pending \in Marks /\ pending[i.system].triggers \subseteq Trigger
    BY <2>1, MarkOrNone DEF SyncTyped, SyncTypeOK
  <2>3. [job |-> i.job, triggers |-> pending[i.system].triggers \cup {i.trigger},
         last |-> i.trigger] \in Mark
    BY <2>1, <2>2 DEF Mark
  <2>4. pending' \in Marks
    BY <1>2, <2>2, <2>3 DEF TriggerMark, Marks
  <2> QED  BY <1>2, <2>1, <2>4 DEF TriggerMark, SyncTyped, SyncTypeOK, jobVars
<1> QED  BY <1>1, <1>2

(* One step of a job, whichever.                                           *)
JobMoves(j) ==
    \/ JobClaimed(j)
    \/ \E c \in Content : JobSucceeded(j, c)
    \/ JobEnded(j)
    \/ JobRequeued(j)
    \/ JobCoalesced(j)

LEMMA JobsKeepTypes ==
    ASSUME SyncTyped, NEW j \in Job, JobMoves(j)
    PROVE  SyncTyped'
<1>1. jobs \in [Job -> JobRow] /\ accepted \in [System -> Seq(Snap)]
  BY DEF SyncTyped, SyncTypeOK
<1>2. JobStep
  BY DEF JobMoves, JobClaimed, JobSucceeded, JobEnded, JobRequeued, JobCoalesced
<1>3. SUFFICES /\ jobs' \in [Job -> JobRow] /\ accepted' \in [System -> Seq(Snap)]
               /\ \A i \in Job : jobs'[i].state \in {"queued", "live", "succeeded"} =>
                                     jobs'[i].system \in System
  BY <1>2 DEF JobStep, SyncTyped, SyncTypeOK, history
<1>4. CASE JobClaimed(j)
  <2>1. made[jobs[j].system] \subseteq Trigger
    BY <1>4 DEF JobClaimed, SyncTyped, SyncTypeOK
  <2>2. jobs' = [jobs EXCEPT ![j] = [jobs[j] EXCEPT !.state = "live",
                                                    !.sees = made[jobs[j].system]]]
    BY <1>1, <1>4 DEF JobClaimed
  <2>3. jobs[j].system \in System
    BY <1>4 DEF JobClaimed, SyncTyped
  <2>4. jobs' \in [Job -> JobRow]
    BY <1>1, <2>1, <2>2 DEF JobRow, JobState
  <2>5. \A i \in Job : jobs'[i] = jobs[i] \/ jobs'[i].system = jobs[j].system
    BY <1>1, <2>2 DEF JobRow
  <2> QED  BY <1>1, <1>4, <2>3, <2>4, <2>5 DEF JobClaimed, SyncTyped
<1>5. ASSUME NEW c \in Content, JobSucceeded(j, c)
      PROVE  /\ jobs' \in [Job -> JobRow] /\ accepted' \in [System -> Seq(Snap)]
             /\ \A i \in Job : jobs'[i].state \in {"queued", "live", "succeeded"} =>
                                   jobs'[i].system \in System
  <2> DEFINE s == jobs[j].system
             snap == [id |-> LatestOf(s).id + 1, content |-> c, covers |-> jobs[j].sees]
  <2>1. s \in System /\ jobs[j] \in JobRow
    BY <1>1, <1>5 DEF JobSucceeded, SyncTyped
  <2>2. LatestOf(s).id \in Nat
    BY <2>1, LatestTyped DEF SyncTyped, Snap
  <2>3. snap \in Snap /\ snap.id \in Nat
    BY <2>1, <2>2 DEF Snap, JobRow
  <2>4. /\ jobs' = [jobs EXCEPT ![j] = [jobs[j] EXCEPT !.state = "succeeded", !.sees = {},
                                                       !.snap = snap.id]]
        /\ accepted' = [accepted EXCEPT ![s] = Pruned(Append(accepted[s], snap))]
    BY <1>1, <1>5 DEF JobSucceeded
  <2> HIDE DEF s, snap
  <2>5. Append(accepted[s], snap) \in Seq(Snap) /\ Append(accepted[s], snap) # <<>>
    BY <1>1, <2>1, <2>3
  <2>6. Pruned(Append(accepted[s], snap)) \in Seq(Snap)
    BY <2>5, PrunedTail
  <2>7. jobs' \in [Job -> JobRow]
    BY <1>1, <2>1, <2>3, <2>4 DEF JobRow, JobState
  <2>8. \A i \in Job : jobs'[i] = jobs[i] \/ jobs'[i].system = s
    BY <1>1, <2>1, <2>4 DEF JobRow, s
  <2> QED  BY <1>1, <2>1, <2>4, <2>6, <2>7, <2>8 DEF SyncTyped
<1>6. CASE JobEnded(j) \/ JobCoalesced(j)
  <2>1. PICK st \in {"ended", "coalesced"} :
            jobs' = [jobs EXCEPT ![j] = [jobs[j] EXCEPT !.state = st, !.sees = {}]]
    BY <1>1, <1>6 DEF JobEnded, JobCoalesced
  <2>2. jobs' \in [Job -> JobRow]
    BY <1>1, <2>1 DEF JobRow, JobState
  <2>3. \A i \in Job : jobs'[i] = jobs[i] \/ jobs'[i].state = st
    BY <1>1, <2>1 DEF JobRow
  <2> QED  BY <1>1, <1>6, <2>2, <2>3 DEF SyncTyped, JobEnded, JobCoalesced
<1>7. CASE JobRequeued(j)
  <2>1. jobs[j].system \in System /\ jobs[j] \in JobRow
    BY <1>1, <1>7 DEF JobRequeued, SyncTyped
  <2>2. NoJob("deleted") \in JobRow /\ NoJob("deleted").state = "deleted"
    BY DEF NoJob, JobRow, JobState
  <2>3. [jobs[j] EXCEPT !.state = "queued", !.sees = {}] \in JobRow
    BY <2>1 DEF JobRow, JobState
  <2>4. jobs' \in [Job -> JobRow]
    BY <1>1, <1>7, <2>2, <2>3 DEF JobRequeued
  <2>5. \A i \in Job : \/ jobs'[i] = jobs[i] \/ jobs'[i] = NoJob("deleted")
                       \/ jobs'[i] = [jobs[j] EXCEPT !.state = "queued", !.sees = {}]
    BY <1>7 DEF JobRequeued
  <2>6. [jobs[j] EXCEPT !.state = "queued", !.sees = {}].system \in System
    BY <2>1 DEF JobRow
  <2> QED  BY <1>1, <1>7, <2>2, <2>4, <2>5, <2>6 DEF SyncTyped, JobRequeued
<1> QED  BY <1>4, <1>5, <1>6, <1>7 DEF JobMoves

(* And the faults, the restart, people and the gateway.                    *)
LEMMA FaultsKeepTypes ==
    ASSUME SyncTyped, BeginFails \/ StageFails \/ HandlerFails \/ Restart
    PROVE  SyncTyped'
<1>1. /\ run \in RunType /\ row \in RowType /\ settled \cup lost \subseteq Trigger
      /\ pending \in Marks /\ prs \subseteq Pr
  BY DEF SyncTyped, SyncTypeOK, RunType, RowType
<1>2. TriggersIn(run.marks) \subseteq Trigger /\ row.triggers \subseteq Trigger
  BY <1>1, TriggersTyped DEF RunType, RowType
<1>3. CASE BeginFails \/ HandlerFails
  <2>1. lost' \subseteq Trigger /\ run' = Idle
    BY <1>1, <1>2, <1>3 DEF BeginFails, HandlerFails
  <2> QED  BY <1>1, <1>3, <2>1, Blanks, RunStepTyped DEF BeginFails, HandlerFails
<1>4. CASE StageFails
  <2>1. Finished("failed") /\ "failed" \in Outcome
    BY <1>4 DEF StageFails, Outcome
  <2> QED  BY <1>1, <1>4, <2>1, FinishedTyped, RunStepTyped DEF StageFails
<1>5. CASE Restart
  <2>1. run' \in RunType /\ run'.phase = "idle"
    BY <1>5, Blanks DEF Restart
  <2>2. row' \in RowType /\ settled' \subseteq Trigger
    BY <1>1, <1>2, <1>5 DEF Restart, RowType, Outcome
  <2>3. lost' \subseteq Trigger
    BY <1>1, <1>2, <1>5 DEF Restart
  <2>4. restarts' \in 0..MaxRestart /\ marking' = {}
    BY <1>5, SyncAssumption DEF Restart, SyncTyped, SyncTypeOK
  <2> QED  BY <1>5, <2>1, <2>2, <2>3, <2>4
              DEF Restart, SyncTyped, SyncTypeOK, RunType, RowType, jobVars
<1> QED  BY <1>3, <1>4, <1>5

LEMMA OutsideKeepsTypes ==
    ASSUME SyncTyped,
           (\E p \in prs : MergePr(p) \/ RejectPr(p)) \/ HeadMoves \/ Attest
    PROVE  SyncTyped'
<1>1. head \in Kb /\ prs \subseteq Pr /\ attested \in 0..MaxAttest
  BY DEF SyncTyped, SyncTypeOK
<1>2. Outside
  BY DEF MergePr, RejectPr, HeadMoves, Attest
<1>3. SUFFICES head' \in Kb /\ prs' \subseteq Pr /\ attested' \in 0..MaxAttest
  BY <1>2 DEF Outside, SyncTyped, SyncTypeOK, jobVars, history
<1>4. ASSUME NEW p \in prs, MergePr(p)
      PROVE  head' \in Kb /\ prs' \subseteq Pr /\ attested' \in 0..MaxAttest
  <2>1. p \in Pr
    BY <1>1
  <2> DEFINE pins == [s \in System |-> IF s \in p.changed THEN p.stated[s] ELSE head.pins[s]]
  <2>2. pins \in [System -> Snap]
    BY <1>1, <2>1 DEF Pr, Kb
  <2>3. head' = [rev |-> head.rev + 1, pins |-> pins, wheel |-> head.wheel \/ p.wheel,
                 graph |-> IF p.graph > head.graph THEN p.graph ELSE head.graph]
    BY <1>4 DEF MergePr
  <2> HIDE DEF pins
  <2>4. /\ head.rev + 1 \in Nat /\ (head.wheel \/ p.wheel) \in BOOLEAN
        /\ (IF p.graph > head.graph THEN p.graph ELSE head.graph) \in Nat
    BY <1>1, <2>1 DEF Pr, Kb
  <2>5. head' \in Kb
    BY <2>2, <2>3, <2>4 DEF Kb
  <2> QED  BY <1>1, <1>4, <2>5 DEF MergePr
<1>5. ASSUME NEW p \in prs, RejectPr(p)
      PROVE  head' \in Kb /\ prs' \subseteq Pr /\ attested' \in 0..MaxAttest
  BY <1>1, <1>5 DEF RejectPr
<1>6. CASE HeadMoves
  BY <1>1, <1>6 DEF HeadMoves, Kb
<1>7. CASE Attest
  BY <1>1, <1>7, SyncAssumption DEF Attest
<1> QED  BY <1>4, <1>5, <1>6, <1>7

(* The steps of the specification, in the groups the proofs treat them in. *)
LEMMA StepKinds ==
    ASSUME Next
    PROVE  \/ \E t \in Trigger, s \in System, j \in Job : TriggerEnqueue(t, s, j)
           \/ \E i \in marking : TriggerMark(i)
           \/ \E j \in Job : JobMoves(j)
           \/ Progress
           \/ BeginFails \/ StageFails \/ HandlerFails \/ Restart
           \/ (\E p \in prs : MergePr(p) \/ RejectPr(p)) \/ HeadMoves \/ Attest
BY DEF Next, JobMoves

LEMMA TypedStep ==
    ASSUME SyncTyped, [Next]_vars
    PROVE  SyncTyped'
<1>1. CASE Next
  BY <1>1, StepKinds, TriggersKeepTypes, JobsKeepTypes, ProgressTyped, FaultsKeepTypes,
     OutsideKeepsTypes
<1>2. CASE UNCHANGED vars
  BY <1>2 DEF vars, jobVars, history, SyncTyped, SyncTypeOK
<1> QED  BY <1>1, <1>2

LEMMA Typed == Spec => []SyncTyped
BY InitTyped, TypedStep, PTL DEF Spec

(* The tables of triggers.ts and the runs of pipeline.ts keep their types  *)
(* (SyncTypeOK), and no run asks for a pull request more often than        *)
(* cfg.sync.prRetries allows, whatever the systems, jobs and bounds are.   *)
THEOREM SyncTypeCorrect == Spec => []SyncTypeOK
<1>1. SyncTyped => SyncTypeOK
  BY DEF SyncTyped
<1> QED  BY <1>1, Typed, PTL

-----------------------------------------------------------------------------
(* Where the marks are                                                     *)

LEMMA NoTriggers == TriggersIn(NoMarks) = {}
BY DEF TriggersIn, NoMarks, NoMark

LEMMA InTriggers ==
    ASSUME NEW m, NEW t
    PROVE  t \in TriggersIn(m) <=> \E s \in System : t \in m[s].triggers
BY DEF TriggersIn

LEMMA InitMarks == Init => MarksInv
<1> SUFFICES ASSUME Init PROVE MarksInv
  OBVIOUS
<1>1. run = Idle /\ marked = {}
  BY DEF Init
<1> QED  BY <1>1, Blanks DEF MarksInv, MarksKept, Active

(* A step that leaves the marks where they are, and the row under them.    *)
MarksStay ==
    /\ UNCHANGED <<pending, row, marked, settled, lost>>
    /\ run'.marks = run.marks
    /\ \/ run'.phase = run.phase
       \/ run.phase \notin {"idle", "consumed"} /\ run'.phase \notin {"idle", "consumed"}

LEMMA MarksStayKept ==
    ASSUME MarksInv, MarksStay
    PROVE  MarksInv'
BY DEF MarksInv, MarksKept, MarksStay, Active, TriggersIn

(* A run that ends while its row is running takes its triggers there.      *)
LEMMA FinishedKept ==
    ASSUME MarksInv, Active, NEW o, Finished(o),
           o = "retry_head_moved" => run.marks = NoMarks,
           UNCHANGED <<pending, marked, lost>>
    PROVE  MarksInv'
<1>1. run'.phase = "idle" /\ run'.marks = NoMarks /\ TriggersIn(run'.marks) = {}
  BY Blanks, NoTriggers DEF Finished
<1>2. marked \subseteq TriggersIn(pending) \cup TriggersIn(run.marks) \cup settled \cup lost
  BY DEF MarksInv, MarksKept
<1>3. TriggersIn(run.marks) \cup settled \subseteq settled'
  <2>1. CASE o = "retry_head_moved"
    BY <2>1, NoTriggers DEF Finished
  <2>2. CASE o # "retry_head_moved"
    BY <2>2 DEF Finished, MarksInv
  <2> QED  BY <2>1, <2>2
<1>4. TriggersIn(pending') = TriggersIn(pending)
  OBVIOUS
<1>5. MarksKept'
  BY <1>1, <1>2, <1>3, <1>4 DEF MarksKept
<1> QED  BY <1>1, <1>5 DEF MarksInv, Active

LEMMA ProgressKeepsMarks ==
    ASSUME SyncTyped, MarksInv, Progress
    PROVE  MarksInv'
<1>1. /\ run \in RunType /\ pending \in Marks /\ run.marks \in Marks
  BY DEF SyncTyped, SyncTypeOK, RunType
<1>2. marked \subseteq TriggersIn(pending) \cup TriggersIn(run.marks) \cup settled \cup lost
  BY DEF MarksInv, MarksKept
<1>3. CASE Consume
  <2>1. run'.phase = "consumed" /\ run'.marks = pending /\ pending' = NoMarks
    BY <1>3, Blanks DEF Consume, RunType
  <2>2. TriggersIn(run.marks) = {}
    BY <1>3, NoTriggers DEF Consume, MarksInv
  <2>3. UNCHANGED <<marked, settled, lost>>
    BY <1>3 DEF Consume, RunStep
  <2>4. TriggersIn(run'.marks) = TriggersIn(pending)
    BY <2>1
  <2>5. MarksKept'
    BY <1>2, <2>2, <2>3, <2>4 DEF MarksKept
  <2> QED  BY <2>1, <2>5 DEF MarksInv, Active
<1>4. CASE Begin
  <2>1. run'.phase = "cloning" /\ run'.marks = run.marks
    BY <1>1, <1>4 DEF Begin, RunType
  <2>2. row'.outcome = "running" /\ row'.triggers = TriggersIn(run.marks)
    BY <1>4 DEF Begin
  <2>3. UNCHANGED <<pending, marked, settled, lost>>
    BY <1>4 DEF Begin, RunStep
  <2>4. TriggersIn(run'.marks) = TriggersIn(run.marks) /\ TriggersIn(pending') = TriggersIn(pending)
    BY <2>1, <2>3
  <2>5. MarksKept'
    BY <1>2, <2>3, <2>4 DEF MarksKept
  <2> QED  BY <2>1, <2>2, <2>4, <2>5 DEF MarksInv
<1>5. CASE Clone
  <2>1. MarksStay
    BY <1>1, <1>5 DEF Clone, MarksStay, RunType, RunStep
  <2> QED  BY <2>1, MarksStayKept
<1>6. ASSUME NEW s \in System, Acquire(s) PROVE MarksInv'
  <2>1. MarksStay
    BY <1>1, <1>6 DEF Acquire, Acquired, AcquireFails, AcquireTimesOut, Excluded, MarksStay,
                      RunType, RunStep
  <2> QED  BY <2>1, MarksStayKept
<1>7. CASE NothingAcquired \/ NoOp \/ SupersedeFails \/ Superseded \/ GiveUp
  <2>1. Active /\ UNCHANGED <<pending, marked, lost>>
    BY <1>7 DEF NothingAcquired, NoOp, SupersedeFails, Superseded, GiveUp, Active, Resolved,
                RunStep
  <2>2. PICK o : Finished(o) /\ o # "retry_head_moved"
    BY <1>7 DEF NothingAcquired, NoOp, SupersedeFails, Superseded, GiveUp
  <2> QED  BY <2>1, <2>2, FinishedKept
<1>8. CASE Compose
  <2> DEFINE p == [n |-> row.n, changed |-> Changed,
                   stated |-> [s \in System |-> Stated(s)],
                   wheel |-> WheelDue,
                   graph |-> IF GraphCarried THEN attested ELSE run.base.graph]
  <2>1. run' = [run EXCEPT !.phase = "authoring", !.pr = p] /\ run.phase = "acquiring"
    BY <1>8 DEF Compose, Resolved
  <2> HIDE DEF p
  <2>2. MarksStay
    BY <1>1, <1>8, <2>1 DEF Compose, MarksStay, RunType, RunStep
  <2> QED  BY <2>2, MarksStayKept
<1>9. CASE HeadAsPinned \/ HeadUnreadable \/ HeadMoved
  <2>1. MarksStay
    BY <1>1, <1>9 DEF HeadAsPinned, HeadUnreadable, HeadMoved, MoreAttempts, MarksStay,
                      RunType, RunStep
  <2> QED  BY <2>1, MarksStayKept
<1>10. ASSUME NEW s \in System, Remark(s) PROVE MarksInv'
  <2>1. pending[s] \in Mark \cup {NoMark} /\ run.marks[s] \in Mark
    BY <1>1, <1>10, MarkOrNone DEF Remark
  <2>2. Remarked(pending[s], run.marks[s]).triggers = pending[s].triggers \cup run.marks[s].triggers
    BY <2>1 DEF Remarked, Mark, NoMark
  <2>3. /\ pending' = [pending EXCEPT ![s] = Remarked(pending[s], run.marks[s])]
        /\ run'.marks = [run.marks EXCEPT ![s] = NoMark]
        /\ run'.phase = "remarking" /\ run.phase = "remarking"
        /\ UNCHANGED <<row, marked, settled, lost>>
    BY <1>1, <1>10 DEF Remark, RunType, RunStep
  <2>4. \A x \in System : run'.marks[x].triggers \subseteq run.marks[x].triggers
    BY <1>1, <2>3 DEF Marks, NoMark
  <2>5. TriggersIn(run'.marks) \subseteq TriggersIn(run.marks)
    BY <2>4 DEF TriggersIn
  <2>6. \A x \in System : x # s => run'.marks[x] = run.marks[x] /\ pending'[x] = pending[x]
    BY <1>1, <2>3 DEF Marks
  <2>7. pending'[s].triggers = pending[s].triggers \cup run.marks[s].triggers
    BY <1>1, <2>2, <2>3 DEF Marks
  <2>8. TriggersIn(pending) \cup TriggersIn(run.marks)
            \subseteq TriggersIn(pending') \cup TriggersIn(run'.marks)
    BY <2>6, <2>7 DEF TriggersIn
  <2>9. MarksKept'
    BY <1>2, <2>3, <2>8 DEF MarksKept
  <2> QED  BY <2>3, <2>5, <2>9 DEF MarksInv, Active
<1>11. CASE RunAgain
  <2>1. Active /\ UNCHANGED <<pending, marked, lost>> /\ run.marks = NoMarks
    BY <1>11 DEF RunAgain, Active, RunStep
  <2> QED  BY <1>11, <2>1, FinishedKept DEF RunAgain
<1>12. CASE OpenPr \/ OpenPrAnswerLost \/ OpenPrFails \/ ListPriors
  <2>1. MarksStay
    BY <1>1, <1>12 DEF OpenPr, OpenPrAnswerLost, OpenPrFails, ListPriors, MarksStay, RunType,
                       RunStep
  <2> QED  BY <2>1, MarksStayKept
<1>13. ASSUME NEW p \in run.priors, ClosePrior(p) PROVE MarksInv'
  <2>1. MarksStay
    BY <1>1, <1>13 DEF ClosePrior, MarksStay, RunType, RunStep
  <2> QED  BY <2>1, MarksStayKept
<1> QED  BY <1>3, <1>4, <1>5, <1>6, <1>7, <1>8, <1>9, <1>10, <1>11, <1>12, <1>13 DEF Progress

LEMMA MarksStep ==
    ASSUME SyncTyped, MarksInv, [Next]_vars
    PROVE  MarksInv'
<1>1. /\ run \in RunType /\ pending \in Marks
      /\ marked \subseteq TriggersIn(pending) \cup TriggersIn(run.marks) \cup settled \cup lost
  BY DEF SyncTyped, SyncTypeOK, RunType, MarksInv, MarksKept
<1>2. TriggersIn(Idle.marks) = {}
  BY Blanks, NoTriggers
<1>3. ASSUME NEW t \in Trigger, NEW s \in System, NEW j \in Job, TriggerEnqueue(t, s, j)
      PROVE  MarksInv'
  BY <1>3, MarksStayKept DEF TriggerEnqueue, MarksStay
<1>4. ASSUME NEW i \in marking, TriggerMark(i) PROVE MarksInv'
  <2>1. i.system \in System
    BY DEF SyncTyped, SyncTypeOK
  <2>2. /\ \A x \in System : pending[x].triggers \subseteq pending'[x].triggers
        /\ i.trigger \in pending'[i.system].triggers
    BY <1>1, <1>4, <2>1 DEF TriggerMark, Marks
  <2>3. TriggersIn(pending) \cup {i.trigger} \subseteq TriggersIn(pending')
    BY <2>1, <2>2 DEF TriggersIn
  <2>4. marked' = marked \cup {i.trigger} /\ UNCHANGED <<run, row, settled, lost>>
    BY <1>4 DEF TriggerMark
  <2>5. MarksKept'
    BY <1>1, <2>3, <2>4 DEF MarksKept
  <2> QED  BY <2>4, <2>5 DEF MarksInv, Active
<1>5. ASSUME NEW j \in Job, JobMoves(j) PROVE MarksInv'
  <2>1. JobStep
    BY <1>5 DEF JobMoves, JobClaimed, JobSucceeded, JobEnded, JobRequeued, JobCoalesced
  <2> QED  BY <2>1, MarksStayKept DEF JobStep, history, MarksStay
<1>6. CASE BeginFails
  <2>1. /\ run' = Idle /\ lost' = lost \cup TriggersIn(run.marks)
        /\ UNCHANGED <<pending, row, marked, settled>>
    BY <1>6 DEF BeginFails, RunStep
  <2>2. MarksKept'
    BY <1>1, <2>1 DEF MarksKept
  <2> QED  BY <2>1, <2>2, Blanks DEF MarksInv, Active
<1>7. CASE StageFails
  BY <1>7, FinishedKept DEF StageFails, Active, RunStep
<1>8. CASE HandlerFails
  <2>1. /\ run' = Idle /\ lost' = lost \cup row.triggers
        /\ UNCHANGED <<pending, row, marked, settled>>
        /\ TriggersIn(run.marks) \subseteq row.triggers
    BY <1>8 DEF HandlerFails, RunStep, MarksInv, Active
  <2>2. MarksKept'
    BY <1>1, <2>1 DEF MarksKept
  <2> QED  BY <2>1, <2>2, Blanks DEF MarksInv, Active
<1>9. CASE Restart
  <2>1. run' = Idle /\ UNCHANGED <<pending, marked>>
    BY <1>9 DEF Restart
  <2>2. TriggersIn(run.marks) \cup settled \cup lost \subseteq settled' \cup lost'
    <3>1. CASE run.phase = "idle"
      BY <1>9, <3>1, NoTriggers DEF Restart, MarksInv
    <3>2. CASE run.phase = "consumed"
      BY <1>9, <3>2 DEF Restart
    <3>3. CASE Active
      <4>1. row.outcome = "running" /\ TriggersIn(run.marks) \subseteq row.triggers
        BY <3>3 DEF MarksInv
      <4> QED  BY <1>9, <3>3, <4>1 DEF Restart, Active
    <3> QED  BY <3>1, <3>2, <3>3 DEF Active
  <2>3. MarksKept'
    BY <1>1, <2>1, <2>2 DEF MarksKept
  <2> QED  BY <2>1, <2>3, Blanks DEF MarksInv, Active
<1>10. CASE (\E p \in prs : MergePr(p) \/ RejectPr(p)) \/ HeadMoves \/ Attest
  <2>1. Outside
    BY <1>10 DEF MergePr, RejectPr, HeadMoves, Attest
  <2> QED  BY <2>1, MarksStayKept DEF Outside, history, MarksStay
<1>11. CASE UNCHANGED vars
  BY <1>11, MarksStayKept DEF vars, history, MarksStay
<1> QED  BY <1>3, <1>4, <1>5, <1>6, <1>7, <1>8, <1>9, <1>10, <1>11, StepKinds,
            ProgressKeepsMarks

(* A mark that consumePending took off the table is in the hands of a run, *)
(* back in the table, or on a run row that ended, save where the run could *)
(* not be recorded (MarksKept); however runs, restarts and moves of HEAD   *)
(* interleave with the triggers.                                           *)
THEOREM NoMarkDropped == Spec => []MarksKept
<1>1. MarksInv => MarksKept
  BY DEF MarksInv
<1> QED  BY <1>1, InitMarks, MarksStep, Typed, PTL DEF Spec

-----------------------------------------------------------------------------
(* The open pull requests                                                  *)

LEMMA InitPrs == Init => PrInv
<1> SUFFICES ASSUME Init PROVE PrInv
  OBVIOUS
<1>1. run = Idle /\ prs = {}
  BY DEF Init
<1> QED  BY <1>1, Blanks DEF PrInv, Active

(* A step that opens no pull request, ends no run and lists nothing.       *)
PrsStay ==
    /\ prs' \subseteq prs
    /\ row' = row
    /\ run'.phase # "idle" => run'.phase = "consumed" \/ run.phase \notin {"idle", "consumed"}
    /\ run'.phase = "superseding" =>
           run.phase = "superseding" /\ run'.pr = run.pr /\ run'.priors = run.priors

LEMMA PrsStayApart ==
    ASSUME PrInv, PrsStay
    PROVE  PrInv'
BY DEF PrInv, PrsStay, Active

(* A run that ends otherwise than "succeeded".                             *)
LEMMA FailedApart ==
    ASSUME PrInv, NEW o, Finished(o), o # "succeeded", row \in RowType, prs' \subseteq prs
    PROVE  PrInv'
<1>1. run'.phase = "idle" /\ row'.outcome = o
  BY Blanks DEF Finished, RowType
<1> QED  BY <1>1 DEF PrInv, Active

LEMMA ProgressKeepsPrs ==
    ASSUME SyncTyped, PrInv, Progress
    PROVE  PrInv'
<1>1. run \in RunType /\ row \in RowType
  BY DEF SyncTyped, SyncTypeOK, RunType, RowType
<1>2. CASE Consume
  <2>1. run'.phase = "consumed"
    BY <1>2, Blanks DEF Consume, RunType
  <2> QED  BY <1>2, <2>1, PrsStayApart DEF Consume, PrsStay
<1>3. CASE Begin
  <2>1. run'.phase = "cloning" /\ row'.outcome = "running" /\ prs' = prs
    BY <1>1, <1>3 DEF Begin, RunType
  <2> QED  BY <2>1 DEF PrInv, Active
<1>4. CASE Clone
  <2>1. run'.phase = "acquiring" /\ run.phase = "cloning"
    BY <1>1, <1>4 DEF Clone, RunType
  <2> QED  BY <1>4, <2>1, PrsStayApart DEF Clone, PrsStay
<1>5. ASSUME NEW s \in System, Acquire(s) PROVE PrInv'
  <2>1. run'.phase = "acquiring" /\ run.phase = "acquiring"
    BY <1>1, <1>5 DEF Acquire, Acquired, AcquireFails, AcquireTimesOut, Excluded, Awaited,
                      RunType
  <2>2. UNCHANGED <<row, prs>>
    BY <1>5 DEF Acquire, Acquired, AcquireFails, AcquireTimesOut
  <2> QED  BY <2>1, <2>2, PrsStayApart DEF PrsStay
<1>6. CASE NothingAcquired \/ NoOp \/ RunAgain \/ SupersedeFails \/ GiveUp
  <2>1. prs' \subseteq prs /\ \E o : Finished(o) /\ o # "succeeded"
    BY <1>6 DEF NothingAcquired, NoOp, RunAgain, SupersedeFails, GiveUp
  <2> QED  BY <1>1, <2>1, FailedApart
<1>7. CASE Compose
  <2> DEFINE p == [n |-> row.n, changed |-> Changed,
                   stated |-> [s \in System |-> Stated(s)],
                   wheel |-> WheelDue,
                   graph |-> IF GraphCarried THEN attested ELSE run.base.graph]
  <2>1. run' = [run EXCEPT !.phase = "authoring", !.pr = p] /\ run.phase = "acquiring"
    BY <1>7 DEF Compose, Resolved
  <2> HIDE DEF p
  <2>2. run'.phase = "authoring"
    BY <1>1, <2>1 DEF RunType
  <2> QED  BY <1>7, <2>1, <2>2, PrsStayApart DEF Compose, PrsStay
<1>8. CASE HeadAsPinned \/ HeadUnreadable \/ HeadMoved
  <2>1. run'.phase \in {"opening", "authoring", "remarking"} /\ run.phase = "authoring"
    BY <1>1, <1>8 DEF HeadAsPinned, HeadUnreadable, HeadMoved, MoreAttempts, RunType
  <2> QED  BY <1>8, <2>1, PrsStayApart DEF HeadAsPinned, HeadUnreadable, HeadMoved, PrsStay
<1>9. ASSUME NEW s \in System, Remark(s) PROVE PrInv'
  <2>1. run'.phase = "remarking" /\ run.phase = "remarking"
    BY <1>1, <1>9 DEF Remark, RunType
  <2> QED  BY <1>9, <2>1, PrsStayApart DEF Remark, PrsStay
<1>10. CASE OpenPr \/ OpenPrAnswerLost
  <2>1. run'.phase \in {"opened", "authoring"} /\ run.phase = "opening"
    BY <1>1, <1>10 DEF OpenPr, OpenPrAnswerLost, RunType
  <2>2. (\A p \in prs : p.n # run.pr.n) /\ prs' = prs \cup {run.pr} /\ row' = row
    BY <1>10 DEF OpenPr, OpenPrAnswerLost
  <2>3. row.outcome = "running"
    BY <2>1 DEF PrInv, Active
  <2>4. \A p, q \in prs' : p.n = q.n => p = q
    BY <2>2 DEF PrInv
  <2> QED  BY <2>1, <2>2, <2>3, <2>4 DEF PrInv, Active
<1>11. CASE OpenPrFails
  <2>1. run'.phase = "authoring" /\ run.phase = "opening"
    BY <1>1, <1>11 DEF OpenPrFails, RunType
  <2> QED  BY <1>11, <2>1, PrsStayApart DEF OpenPrFails, PrsStay
<1>12. CASE ListPriors
  <2>1. run'.priors = Others /\ run'.pr = run.pr /\ Active
    BY <1>1, <1>12 DEF ListPriors, RunType, Active
  <2>2. \A p \in prs : p.n = run'.pr.n \/ p \in run'.priors
    BY <2>1 DEF Others
  <2>3. row' = row /\ prs' = prs /\ row.outcome = "running"
    BY <1>12, <2>1 DEF ListPriors, PrInv
  <2> QED  BY <2>2, <2>3 DEF PrInv, Active
<1>13. ASSUME NEW p \in run.priors, ClosePrior(p) PROVE PrInv'
  <2>1. /\ run'.priors = run.priors \ {p} /\ run'.pr = run.pr
        /\ run.phase = "superseding" /\ row' = row /\ prs' = prs \ {p}
    BY <1>1, <1>13 DEF ClosePrior, RunType
  <2>2. \A q \in prs' : q.n = run'.pr.n \/ q \in run'.priors
    BY <2>1 DEF PrInv
  <2>3. row.outcome = "running"
    BY <2>1 DEF PrInv, Active
  <2> QED  BY <2>1, <2>2, <2>3 DEF PrInv, Active
<1>14. CASE Superseded
  <2>1. run'.phase = "idle" /\ prs' = prs
    BY <1>14, Blanks DEF Superseded, Finished
  <2>2. \A p \in prs : p.n = run.pr.n
    BY <1>14 DEF Superseded, PrInv
  <2>3. \A p, q \in prs : p = q
    BY <2>2 DEF PrInv
  <2> QED  BY <2>1, <2>3 DEF PrInv, Active
<1> QED  BY <1>2, <1>3, <1>4, <1>5, <1>6, <1>7, <1>8, <1>9, <1>10, <1>11, <1>12, <1>13, <1>14
            DEF Progress

LEMMA PrsStep ==
    ASSUME SyncTyped, PrInv, [Next]_vars
    PROVE  PrInv'
<1>1. row \in RowType
  BY DEF SyncTyped, SyncTypeOK, RowType
<1>2. ASSUME NEW t \in Trigger, NEW s \in System, NEW j \in Job, TriggerEnqueue(t, s, j)
      PROVE  PrInv'
  BY <1>2, PrsStayApart DEF TriggerEnqueue, PrsStay, PrInv
<1>3. ASSUME NEW i \in marking, TriggerMark(i) PROVE PrInv'
  BY <1>3 DEF TriggerMark, PrInv, Active
<1>4. ASSUME NEW j \in Job, JobMoves(j) PROVE PrInv'
  <2>1. JobStep
    BY <1>4 DEF JobMoves, JobClaimed, JobSucceeded, JobEnded, JobRequeued, JobCoalesced
  <2> QED  BY <2>1 DEF JobStep, PrInv, Active
<1>5. CASE BeginFails \/ HandlerFails
  <2>1. run' = Idle /\ row' = row /\ prs' = prs
    BY <1>5 DEF BeginFails, HandlerFails
  <2> QED  BY <2>1, Blanks, PrsStayApart DEF PrsStay
<1>6. CASE StageFails
  BY <1>1, <1>6, FailedApart DEF StageFails
<1>7. CASE Restart
  <2>1. /\ run'.phase = "idle" /\ prs' = prs
        /\ row' = row \/ row'.outcome = "failed"
    BY <1>1, <1>7, Blanks DEF Restart, RowType
  <2> QED  BY <2>1 DEF PrInv, Active
<1>8. CASE (\E p \in prs : MergePr(p) \/ RejectPr(p)) \/ HeadMoves \/ Attest
  <2>1. run' = run /\ row' = row /\ prs' \subseteq prs
    BY <1>8 DEF MergePr, RejectPr, HeadMoves, Attest, Outside
  <2> QED  BY <2>1 DEF PrInv, Active
<1>9. CASE UNCHANGED vars
  BY <1>9 DEF vars, PrInv, Active
<1> QED  BY <1>2, <1>3, <1>4, <1>5, <1>6, <1>7, <1>8, <1>9, StepKinds, ProgressKeepsPrs

(* However many failed and interrupted runs left pull requests behind,     *)
(* after a run that succeeded one sync pull request is open at most        *)
(* (OneCurrentPr): supersedePriorPrs closed every other one.               *)
THEOREM OneOpenPr == Spec => []OneCurrentPr
<1>1. ASSUME PrInv PROVE OneCurrentPr
  <2> SUFFICES ASSUME row.outcome = "succeeded" PROVE Cardinality(prs) <= 1
    BY DEF OneCurrentPr
  <2>1. \A p, q \in prs : p = q
    BY <1>1 DEF PrInv
  <2>2. CASE prs = {}
    BY <2>2, FS_EmptySet
  <2>3. CASE prs # {}
    <3>1. PICK p \in prs : TRUE
      BY <2>3
    <3>2. prs = {p}
      BY <2>1
    <3> QED  BY <3>2, FS_Singleton
  <2> QED  BY <2>2, <2>3
<1> QED  BY <1>1, InitPrs, PrsStep, Typed, PTL DEF Spec

-----------------------------------------------------------------------------
(* The snapshots and the triggers they answer                              *)

LEMMA InitNames == Init => StoreInv /\ NamesInv
<1> SUFFICES ASSUME Init PROVE StoreInv /\ NamesInv
  OBVIOUS
<1>1. \A s \in System : accepted[s] = <<>> /\ pending[s] = NoMark /\ run.marks[s] = NoMark
  BY Blanks DEF Init, NoMarks
<1>2. \A j \in Job : jobs[j].state = "absent"
  BY DEF Init, NoJob
<1>3. marking = {}
  BY DEF Init
<1> QED  BY <1>1, <1>2, <1>3 DEF StoreInv, NamesInv

(* An acceptance: the store of the job's system gets a snapshot with the   *)
(* next number, which covers what the job saw; what stays besides it was   *)
(* there.                                                                  *)
Accepts(k, s) ==
    /\ LatestOf(s).id \in Nat
    /\ LatestOf(s)'.id = LatestOf(s).id + 1
    /\ \A m \in 1 .. Len(accepted'[s]) :
           \/ /\ accepted'[s][m].id = LatestOf(s).id + 1
              /\ accepted'[s][m].covers = jobs[k].sees
           \/ \E i \in 1 .. Len(accepted[s]) : accepted'[s][m] = accepted[s][i]
    /\ \A x \in System : x # s => accepted'[x] = accepted[x]
    /\ jobs'[k].state = "succeeded" /\ jobs'[k].system = s
    /\ jobs'[k].snap = LatestOf(s).id + 1

LEMMA Acceptance ==
    ASSUME SyncTyped, NEW k \in Job, NEW c \in Content, JobSucceeded(k, c)
    PROVE  \E s \in System : s = jobs[k].system /\ Accepts(k, s)
<1>0. PICK s \in System : s = jobs[k].system
  BY DEF JobSucceeded, SyncTyped
<1>1. jobs \in [Job -> JobRow] /\ accepted \in [System -> Seq(Snap)]
  BY DEF SyncTyped, SyncTypeOK
<1>2. LatestOf(s).id \in Nat
  BY LatestTyped DEF SyncTyped, Snap
<1> DEFINE snap == [id |-> LatestOf(s).id + 1, content |-> c, covers |-> jobs[k].sees]
           q == Append(accepted[s], snap)
<1>3. snap \in Snap /\ snap.id = LatestOf(s).id + 1 /\ snap.covers = jobs[k].sees
  BY <1>1, <1>2 DEF Snap, JobRow
<1>4. /\ jobs' = [jobs EXCEPT ![k] = [jobs[k] EXCEPT !.state = "succeeded", !.sees = {},
                                                     !.snap = snap.id]]
      /\ accepted' = [accepted EXCEPT ![s] = Pruned(q)]
  BY <1>0, <1>1 DEF JobSucceeded
<1> HIDE DEF snap
<1>5. /\ q \in Seq(Snap) /\ q # <<>> /\ q[Len(q)] = snap
      /\ \A i \in 1 .. Len(q) :
             \/ q[i] = snap
             \/ i \in 1 .. Len(accepted[s]) /\ q[i] = accepted[s][i]
  <2>1. /\ q \in Seq(Snap) /\ q # <<>> /\ Len(q) = Len(accepted[s]) + 1
        /\ \A i \in 1 .. Len(accepted[s]) : q[i] = accepted[s][i]
        /\ q[Len(accepted[s]) + 1] = snap
    BY <1>1, <1>3, AppendProperties
  <2>2. Len(accepted[s]) \in Nat
    BY <1>1
  <2> HIDE DEF q
  <2>3. \A i \in 1 .. Len(q) : i \in 1 .. Len(accepted[s]) \/ i = Len(accepted[s]) + 1
    BY <2>1, <2>2
  <2> QED  BY <2>1, <2>3
<1> HIDE DEF q
<1>6. /\ Pruned(q) \in Seq(Snap) /\ Pruned(q) # <<>> /\ Pruned(q)[Len(Pruned(q))] = snap
      /\ \A m \in 1 .. Len(Pruned(q)) : \E i \in 1 .. Len(q) : Pruned(q)[m] = q[i]
  BY <1>5, PrunedTail
<1>7. accepted'[s] = Pruned(q) /\ \A x \in System : x # s => accepted'[x] = accepted[x]
  BY <1>1, <1>4
<1>8. LatestOf(s)' = snap
  BY <1>6, <1>7 DEF LatestOf
<1>9. \A m \in 1 .. Len(accepted'[s]) :
          \/ accepted'[s][m] = snap
          \/ \E i \in 1 .. Len(accepted[s]) : accepted'[s][m] = accepted[s][i]
  BY <1>5, <1>6, <1>7
<1>10. jobs'[k].state = "succeeded" /\ jobs'[k].system = s /\ jobs'[k].snap = snap.id
  BY <1>0, <1>1, <1>4 DEF JobRow
<1>11. Accepts(k, s)
  BY <1>2, <1>3, <1>7, <1>8, <1>9, <1>10 DEF Accepts
<1> QED  BY <1>0, <1>11

(* Only triggers and the queue change the jobs, and only an acceptance     *)
(* changes the store.                                                      *)
LEMMA QueueChange ==
    ASSUME [Next]_vars
    PROVE  \/ UNCHANGED <<jobs, accepted, made>>
           \/ \E t \in Trigger, s \in System, j \in Job : TriggerEnqueue(t, s, j)
           \/ \E j \in Job : JobMoves(j)
<1>1. CASE UNCHANGED vars
  BY <1>1 DEF vars, jobVars, history
<1>2. CASE Progress
  <2>1. RunStep
    BY <1>2 DEF Progress, Consume, Begin, Clone, Acquire, Acquired, AcquireFails,
                AcquireTimesOut, NothingAcquired, NoOp, Compose, HeadAsPinned, HeadUnreadable,
                HeadMoved, Remark, RunAgain, OpenPr, OpenPrAnswerLost, OpenPrFails, GiveUp,
                ListPriors, ClosePrior, SupersedeFails, Superseded
  <2> QED  BY <2>1 DEF RunStep, jobVars
<1>3. CASE BeginFails \/ StageFails \/ HandlerFails \/ Restart
  BY <1>3 DEF BeginFails, StageFails, HandlerFails, Restart, RunStep, jobVars
<1>4. CASE (\E p \in prs : MergePr(p) \/ RejectPr(p)) \/ HeadMoves \/ Attest
  BY <1>4 DEF MergePr, RejectPr, HeadMoves, Attest, Outside, jobVars, history
<1>5. CASE \E i \in marking : TriggerMark(i)
  BY <1>5 DEF TriggerMark, jobVars
<1> QED  BY <1>1, <1>2, <1>3, <1>4, <1>5, StepKinds

LEMMA StoreChange ==
    ASSUME [Next]_vars, accepted' # accepted
    PROVE  \E k \in Job, c \in Content : JobSucceeded(k, c)
<1>1. ASSUME NEW t, NEW s, NEW j, TriggerEnqueue(t, s, j) PROVE accepted' = accepted
  BY <1>1 DEF TriggerEnqueue
<1>2. ASSUME NEW j \in Job, JobMoves(j) PROVE \E c \in Content : JobSucceeded(j, c)
  BY <1>2 DEF JobMoves, JobClaimed, JobEnded, JobRequeued, JobCoalesced
<1> QED  BY <1>1, <1>2, QueueChange

(* The latest acceptance number never goes back, pruning included.         *)
LEMMA LatestGrows ==
    ASSUME SyncTyped, [Next]_vars, NEW s \in System
    PROVE  LatestOf(s).id \in Nat /\ LatestOf(s)'.id \in Nat /\ LatestOf(s).id <= LatestOf(s)'.id
<1>1. LatestOf(s).id \in Nat
  BY LatestTyped DEF SyncTyped, Snap
<1>2. CASE accepted'[s] = accepted[s]
  <2>1. LatestOf(s)' = LatestOf(s)
    BY <1>2 DEF LatestOf
  <2> QED  BY <1>1, <2>1
<1>3. CASE accepted'[s] # accepted[s]
  <2>1. PICK k \in Job, c \in Content : JobSucceeded(k, c)
    BY <1>3, StoreChange
  <2>2. PICK x \in System : x = jobs[k].system /\ Accepts(k, x)
    BY <2>1, Acceptance
  <2>3. s = x
    BY <1>3, <2>2 DEF Accepts
  <2> QED  BY <1>1, <2>2, <2>3 DEF Accepts
<1> QED  BY <1>2, <1>3

(* What the queue does to one job, as its row shows it.                    *)
RowSame(j) == jobs'[j] = jobs[j]
RowQueued(j) ==
    /\ jobs'[j].state = "queued"
    /\ \/ jobs[j].state = "absent"
       \/ jobs[j].state = "live" /\ jobs'[j].system = jobs[j].system
RowClaimed(j) ==
    /\ jobs[j].state = "queued"
    /\ jobs'[j].state = "live" /\ jobs'[j].system = jobs[j].system
    /\ jobs'[j].sees = made[jobs[j].system]
RowGone(j) ==
    \/ jobs'[j].state = "deleted"
    \/ /\ jobs'[j].state \in {"ended", "coalesced"} /\ jobs'[j].system = jobs[j].system
       /\ jobs[j].state \in {"queued", "live"}
RowDelivered(j) == jobs[j].state = "live" /\ \E c \in Content : JobSucceeded(j, c)

LEMMA RowChange ==
    ASSUME SyncTyped, [Next]_vars, NEW j \in Job
    PROVE  RowSame(j) \/ RowQueued(j) \/ RowClaimed(j) \/ RowGone(j) \/ RowDelivered(j)
<1>1. jobs \in [Job -> JobRow]
  BY DEF SyncTyped, SyncTypeOK
<1>2. CASE jobs' = jobs
  BY <1>2 DEF RowSame
<1>3. ASSUME NEW t \in Trigger, NEW s \in System, NEW k \in Job, TriggerEnqueue(t, s, k)
      PROVE  RowSame(j) \/ RowQueued(j)
  <2>1. [NoJob("queued") EXCEPT !.system = s].state = "queued"
    BY DEF NoJob
  <2> QED  BY <1>1, <1>3, <2>1 DEF TriggerEnqueue, RowSame, RowQueued
<1>4. ASSUME NEW k \in Job, JobMoves(k)
      PROVE  RowSame(j) \/ RowQueued(j) \/ RowClaimed(j) \/ RowGone(j) \/ RowDelivered(j)
  <2>1. CASE JobClaimed(k)
    <3>1. CASE j = k
      BY <1>1, <2>1, <3>1 DEF JobClaimed, RowClaimed, JobRow
    <3>2. CASE j # k
      BY <1>1, <2>1, <3>2 DEF JobClaimed, RowSame
    <3> QED  BY <3>1, <3>2
  <2>2. CASE \E c \in Content : JobSucceeded(k, c)
    <3>1. CASE j = k
      BY <2>2, <3>1 DEF JobSucceeded, RowDelivered
    <3>2. CASE j # k
      BY <1>1, <2>2, <3>2 DEF JobSucceeded, RowSame
    <3> QED  BY <3>1, <3>2
  <2>3. CASE JobEnded(k) \/ JobCoalesced(k)
    <3>1. CASE j = k
      BY <1>1, <2>3, <3>1 DEF JobEnded, JobCoalesced, RowGone, JobRow
    <3>2. CASE j # k
      BY <1>1, <2>3, <3>2 DEF JobEnded, JobCoalesced, RowSame
    <3> QED  BY <3>1, <3>2
  <2>4. CASE JobRequeued(k)
    <3>1. CASE j = k
      BY <1>1, <2>4, <3>1 DEF JobRequeued, RowQueued, JobRow
    <3>2. CASE j # k /\ j \in JobsOf(jobs[k].system, "queued")
      BY <2>4, <3>2 DEF JobRequeued, RowGone, NoJob
    <3>3. CASE j # k /\ j \notin JobsOf(jobs[k].system, "queued")
      BY <2>4, <3>3 DEF JobRequeued, RowSame
    <3> QED  BY <3>1, <3>2, <3>3
  <2> QED  BY <1>4, <2>1, <2>2, <2>3, <2>4 DEF JobMoves
<1> QED  BY <1>2, <1>3, <1>4, QueueChange

LEMMA StoreStep ==
    ASSUME SyncTyped, StoreInv, [Next]_vars
    PROVE  StoreInv'
<1>1. ASSUME NEW s \in System, NEW m \in 1 .. Len(accepted'[s])
      PROVE  accepted'[s][m].id <= LatestOf(s)'.id
  <2>1. CASE accepted'[s] = accepted[s]
    <3>1. LatestOf(s)' = LatestOf(s)
      BY <2>1 DEF LatestOf
    <3> QED  BY <1>1, <2>1, <3>1 DEF StoreInv
  <2>2. CASE accepted'[s] # accepted[s]
    <3>1. PICK k \in Job, c \in Content : JobSucceeded(k, c)
      BY <2>2, StoreChange
    <3>2. PICK x \in System : x = jobs[k].system /\ Accepts(k, x)
      BY <3>1, Acceptance
    <3>3. s = x
      BY <2>2, <3>2 DEF Accepts
    <3>4. accepted[s] \in Seq(Snap)
      BY DEF SyncTyped, SyncTypeOK
    <3>5. /\ LatestOf(s).id \in Nat
          /\ LatestOf(s)'.id = LatestOf(s).id + 1
          /\ \/ accepted'[s][m].id = LatestOf(s).id + 1
             \/ \E i \in 1 .. Len(accepted[s]) : accepted'[s][m] = accepted[s][i]
      BY <1>1, <3>2, <3>3 DEF Accepts
    <3>6. CASE accepted'[s][m].id = LatestOf(s).id + 1
      BY <3>5, <3>6
    <3>7. ASSUME NEW i \in 1 .. Len(accepted[s]), accepted'[s][m] = accepted[s][i]
          PROVE  accepted'[s][m].id <= LatestOf(s)'.id
      <4>1. accepted[s][i].id <= LatestOf(s).id /\ accepted[s][i].id \in Nat
        <5>1. accepted[s][i] \in Snap
          BY <3>4
        <5> QED  BY <5>1 DEF StoreInv, Snap
      <4> QED  BY <3>5, <3>7, <4>1
    <3> QED  BY <3>5, <3>6, <3>7
  <2> QED  BY <2>1, <2>2
<1>2. ASSUME NEW j \in Job, jobs'[j].state = "succeeded"
      PROVE  jobs'[j].snap <= LatestOf(jobs[j].system)'.id /\ jobs'[j].system = jobs[j].system
  <2>1. CASE RowSame(j)
    <3>1. PICK s \in System : s = jobs[j].system
      BY <1>2, <2>1 DEF RowSame, SyncTyped
    <3>2. jobs[j].snap <= LatestOf(s).id /\ jobs[j].snap \in Nat
      BY <1>2, <2>1, <3>1 DEF RowSame, StoreInv, SyncTyped, SyncTypeOK, JobRow
    <3>3. jobs'[j].snap <= LatestOf(s)'.id
      BY <2>1, <3>2, LatestGrows DEF RowSame
    <3> QED  BY <2>1, <3>1, <3>3 DEF RowSame
  <2>2. CASE RowDelivered(j)
    <3>1. PICK c \in Content : JobSucceeded(j, c)
      BY <2>2 DEF RowDelivered
    <3>2. PICK s \in System : s = jobs[j].system /\ Accepts(j, s)
      BY <3>1, Acceptance
    <3>3. jobs'[j].snap = LatestOf(s)'.id /\ jobs'[j].system = s /\ jobs'[j].snap \in Nat
      BY <3>2 DEF Accepts
    <3> QED  BY <3>2, <3>3
  <2> QED  BY <1>2, <2>1, <2>2, RowChange DEF RowQueued, RowClaimed, RowGone
<1> QED  BY <1>1, <1>2 DEF StoreInv

(* No step takes away that a job answers a trigger: jobs are claimed after *)
(* the trigger was made, and no later acceptance gets the job's number.    *)
LEMMA AnswersStay ==
    ASSUME SyncTyped, StoreInv, [Next]_vars,
           NEW j \in Job, NEW s \in System, NEW t, Answers(j, s, t)
    PROVE  Answers(j, s, t)'
<1>1. t \in made'[s]
  <2>1. made[s] \subseteq made'[s]
    <3>1. CASE made' = made
      BY <3>1
    <3>2. ASSUME NEW u \in Trigger, NEW x \in System, NEW k \in Job, TriggerEnqueue(u, x, k)
          PROVE  made[s] \subseteq made'[s]
      BY <3>2 DEF TriggerEnqueue, SyncTyped, SyncTypeOK
    <3>3. ASSUME NEW k \in Job, JobMoves(k) PROVE made' = made
      BY <3>3 DEF JobMoves, JobClaimed, JobSucceeded, JobEnded, JobRequeued, JobCoalesced,
                  JobStep, history
    <3> QED  BY <3>1, <3>2, <3>3, QueueChange
  <2> QED  BY <2>1 DEF Answers
<1>2. CASE RowSame(j)
  <2>1. SUFFICES ASSUME jobs[j].state = "succeeded", NEW m \in 1 .. Len(accepted'[s]),
                        accepted'[s][m].id = jobs[j].snap
                 PROVE  t \in accepted'[s][m].covers
    BY <1>1, <1>2 DEF RowSame, Answers
  <2>2. jobs[j].system = s
    BY <2>1 DEF Answers
  <2>3. CASE accepted'[s] = accepted[s]
    BY <2>1, <2>3 DEF Answers
  <2>4. CASE accepted'[s] # accepted[s]
    <3>1. PICK k \in Job, c \in Content : JobSucceeded(k, c)
      BY <2>4, StoreChange
    <3>2. PICK x \in System : x = jobs[k].system /\ Accepts(k, x)
      BY <3>1, Acceptance
    <3>3. s = x
      BY <2>4, <3>2 DEF Accepts
    <3>4. /\ LatestOf(s).id \in Nat
          /\ \/ accepted'[s][m].id = LatestOf(s).id + 1
             \/ \E i \in 1 .. Len(accepted[s]) : accepted'[s][m] = accepted[s][i]
      BY <2>1, <3>2, <3>3 DEF Accepts
    <3>5. jobs[j].snap <= LatestOf(s).id /\ jobs[j].snap \in Nat
      BY <2>1, <2>2 DEF StoreInv, SyncTyped, SyncTypeOK, JobRow
    <3>6. accepted'[s][m].id # LatestOf(s).id + 1
      BY <2>1, <3>4, <3>5
    <3> QED  BY <2>1, <3>4, <3>6 DEF Answers
  <2> QED  BY <2>3, <2>4
<1>3. CASE RowQueued(j)
  BY <1>1, <1>3 DEF RowQueued, Answers
<1>4. CASE RowClaimed(j)
  BY <1>1, <1>4 DEF RowClaimed, Answers
<1>5. CASE RowGone(j)
  BY <1>1, <1>5 DEF RowGone, Answers
<1>6. CASE RowDelivered(j)
  <2>1. PICK c \in Content : JobSucceeded(j, c)
    BY <1>6 DEF RowDelivered
  <2>2. s = jobs[j].system /\ t \in jobs[j].sees
    BY <1>6 DEF RowDelivered, Answers
  <2>3. /\ LatestOf(s).id \in Nat
        /\ \A m \in 1 .. Len(accepted'[s]) :
               \/ accepted'[s][m].covers = jobs[j].sees
               \/ \E i \in 1 .. Len(accepted[s]) : accepted'[s][m] = accepted[s][i]
        /\ jobs'[j].state = "succeeded" /\ jobs'[j].system = s
        /\ jobs'[j].snap = LatestOf(s).id + 1
    BY <2>1, <2>2, Acceptance DEF Accepts
  <2>4. \A i \in 1 .. Len(accepted[s]) : accepted[s][i].id # LatestOf(s).id + 1
    <3>1. \A i \in 1 .. Len(accepted[s]) :
              accepted[s][i].id \in Nat /\ accepted[s][i].id <= LatestOf(s).id
      <4>1. accepted[s] \in Seq(Snap)
        BY DEF SyncTyped, SyncTypeOK
      <4>2. \A i \in 1 .. Len(accepted[s]) : accepted[s][i] \in Snap
        BY <4>1
      <4> QED  BY <4>2 DEF StoreInv, Snap
    <3> QED  BY <2>3, <3>1
  <2>5. ASSUME NEW m \in 1 .. Len(accepted'[s]), accepted'[s][m].id = jobs'[j].snap
        PROVE  t \in accepted'[s][m].covers
    BY <2>2, <2>3, <2>4, <2>5
  <2> QED  BY <1>1, <2>3, <2>5 DEF Answers
<1> QED  BY <1>2, <1>3, <1>4, <1>5, <1>6, RowChange

(* What a new trigger names answers it: the job is queued.                 *)
LEMMA EnqueuedAnswers ==
    ASSUME SyncTyped, NEW t \in Trigger, NEW s \in System, NEW j \in Job, TriggerEnqueue(t, s, j)
    PROVE  Answers(j, s, t)'
<1>1. t \in made'[s]
  BY DEF TriggerEnqueue, SyncTyped, SyncTypeOK
<1>2. jobs'[j].state = "queued" /\ jobs'[j].system = s
  <2>1. CASE j \in JobsOf(s, "queued") /\ jobs' = jobs
    BY <2>1 DEF JobsOf
  <2>2. CASE jobs' = [jobs EXCEPT ![j] = [NoJob("queued") EXCEPT !.system = s]]
    BY <2>2 DEF NoJob, SyncTyped, SyncTypeOK
  <2> QED  BY <2>1, <2>2 DEF TriggerEnqueue
<1> QED  BY <1>1, <1>2 DEF Answers

(* Where the names of a state come from: the calls in between, the table   *)
(* and the run hand marks on and make none up.                             *)
NamedBefore(j, s, t) ==
    \/ \E i \in marking : i.job = j /\ i.system = s /\ i.trigger = t
    \/ pending[s] # NoMark /\ pending[s].job = j /\ pending[s].last = t
    \/ run.marks[s] # NoMark /\ run.marks[s].job = j /\ run.marks[s].last = t

LEMMA NamedAnswers ==
    ASSUME SyncTyped, NamesInv, NEW s \in System, NEW j, NEW t, NamedBefore(j, s, t)
    PROVE  j \in Job /\ Answers(j, s, t)
<1>1. \A i \in marking : i.job \in Job
  BY DEF SyncTyped, SyncTypeOK
<1>2. /\ pending[s] # NoMark => pending[s].job \in Job
      /\ run.marks[s] # NoMark => run.marks[s].job \in Job
  <2>1. pending \in Marks /\ run.marks \in Marks
    BY DEF SyncTyped, SyncTypeOK
  <2> QED  BY <2>1, MarkOrNone DEF Mark
<1> QED  BY <1>1, <1>2 DEF NamedBefore, NamesInv

(* A step that leaves the marks of a system in place, or drops the run's.  *)
KeepsMarks(s) ==
    /\ marking' = marking
    /\ pending'[s] = pending[s]
    /\ run'.marks[s] = run.marks[s] \/ run'.marks[s] = NoMark

LEMMA MarksComeFrom ==
    ASSUME SyncTyped, MarksInv, [Next]_vars, NEW s \in System
    PROVE  /\ \A i \in marking' : i.system = s =>
                  \/ i \in marking
                  \/ i.job \in Job /\ i.trigger \in Trigger /\ TriggerEnqueue(i.trigger, s, i.job)
           /\ pending'[s] # NoMark => NamedBefore(pending'[s].job, s, pending'[s].last)
           /\ run'.marks[s] # NoMark =>
                  /\ NamedBefore(run'.marks[s].job, s, run'.marks[s].last)
                  /\ run'.phase # "consumed" => run'.marks[s] = run.marks[s]
<1>1. /\ run \in RunType /\ pending \in Marks /\ run.marks \in Marks
      /\ marking \subseteq [trigger : Trigger, system : System, job : Job]
  BY DEF SyncTyped, SyncTypeOK, RunType
<1>2. NoMarks[s] = NoMark
  BY DEF NoMarks
<1> DEFINE G == /\ \A i \in marking' : i.system = s =>
                    \/ i \in marking
                    \/ /\ i.job \in Job /\ i.trigger \in Trigger
                       /\ TriggerEnqueue(i.trigger, s, i.job)
                /\ pending'[s] # NoMark => NamedBefore(pending'[s].job, s, pending'[s].last)
                /\ run'.marks[s] # NoMark =>
                    /\ NamedBefore(run'.marks[s].job, s, run'.marks[s].last)
                    /\ run'.phase # "consumed" => run'.marks[s] = run.marks[s]
<1>3. KeepsMarks(s) => G
  BY DEF KeepsMarks, NamedBefore
<1> SUFFICES G
  OBVIOUS
<1> HIDE DEF G
<1>5. ASSUME NEW t \in Trigger, NEW x \in System, NEW j \in Job, TriggerEnqueue(t, x, j)
      PROVE  G
  <2>1. /\ pending' = pending /\ run' = run
        /\ marking' = marking \cup {[trigger |-> t, system |-> x, job |-> j]}
    BY <1>5 DEF TriggerEnqueue
  <2>2. ASSUME NEW i \in marking', i.system = s
        PROVE  \/ i \in marking
               \/ /\ i.job \in Job /\ i.trigger \in Trigger
                  /\ TriggerEnqueue(i.trigger, s, i.job)
    <3>1. CASE i = [trigger |-> t, system |-> x, job |-> j]
      <4>1. i.trigger = t /\ i.job = j /\ x = s
        BY <2>2, <3>1
      <4> QED  BY <1>5, <4>1
    <3> QED  BY <2>1, <2>2, <3>1
  <2> QED  BY <2>1, <2>2 DEF G, NamedBefore
<1>6. ASSUME NEW i \in marking, TriggerMark(i) PROVE G
  <2>1. marking' \subseteq marking /\ run' = run
    BY <1>6 DEF TriggerMark
  <2>2. pending'[s] = pending[s] \/ (i.system = s /\ pending'[s].job = i.job
                                        /\ pending'[s].last = i.trigger)
    BY <1>1, <1>6 DEF TriggerMark, Marks
  <2>3. pending'[s] # NoMark => NamedBefore(pending'[s].job, s, pending'[s].last)
    BY <2>2 DEF NamedBefore
  <2> QED  BY <2>1, <2>3 DEF G, NamedBefore
<1>7. ASSUME NEW k \in Job, JobMoves(k) PROVE G
  <2>1. JobStep
    BY <1>7 DEF JobMoves, JobClaimed, JobSucceeded, JobEnded, JobRequeued, JobCoalesced
  <2> QED  BY <1>3, <2>1 DEF JobStep, KeepsMarks
<1>8. CASE Consume
  <2>1. run'.marks = pending /\ run'.phase = "consumed" /\ pending' = NoMarks
        /\ marking' = marking
    BY <1>8, Blanks DEF Consume, RunStep, RunType
  <2> QED  BY <1>2, <2>1 DEF G, NamedBefore
<1>9. CASE Begin \/ Clone \/ HeadAsPinned \/ HeadUnreadable \/ HeadMoved \/ OpenPr
           \/ OpenPrAnswerLost \/ OpenPrFails \/ ListPriors
           \/ \E p \in run.priors : ClosePrior(p)
  <2>1. run'.marks = run.marks /\ pending' = pending /\ RunStep
    BY <1>1, <1>9 DEF Begin, Clone, HeadAsPinned, HeadUnreadable, HeadMoved, OpenPr,
                      OpenPrAnswerLost, OpenPrFails, ListPriors, ClosePrior, RunType
  <2> QED  BY <1>3, <2>1 DEF RunStep, KeepsMarks
<1>10. ASSUME NEW x \in System, Acquire(x) PROVE G
  <2>1. run'.marks = run.marks /\ pending' = pending /\ RunStep
    BY <1>1, <1>10 DEF Acquire, Acquired, AcquireFails, AcquireTimesOut, Excluded, RunType
  <2> QED  BY <1>3, <2>1 DEF RunStep, KeepsMarks
<1>11. CASE Compose
  <2>1. run'.marks = run.marks /\ pending' = pending /\ RunStep
    BY <1>1, <1>11 DEF Compose, RunType
  <2> QED  BY <1>3, <2>1 DEF RunStep, KeepsMarks
<1>12. CASE NothingAcquired \/ NoOp \/ RunAgain \/ SupersedeFails \/ Superseded \/ GiveUp
            \/ BeginFails \/ StageFails \/ HandlerFails
  <2>1. run' = Idle /\ pending' = pending /\ RunStep
    BY <1>12 DEF NothingAcquired, NoOp, RunAgain, SupersedeFails, Superseded, GiveUp,
                 BeginFails, StageFails, HandlerFails, Finished
  <2> QED  BY <1>2, <1>3, <2>1, Blanks DEF RunStep, KeepsMarks
<1>13. ASSUME NEW x \in System, Remark(x) PROVE G
  <2>1. pending[x] \in Mark \cup {NoMark} /\ run.marks[x] \in Mark
    BY <1>1, <1>13, MarkOrNone DEF Remark
  <2>2. /\ pending' = [pending EXCEPT ![x] = Remarked(pending[x], run.marks[x])]
        /\ run'.marks = [run.marks EXCEPT ![x] = NoMark]
        /\ marking' = marking /\ run'.phase = run.phase
    BY <1>1, <1>13 DEF Remark, RunType, RunStep
  <2>3. CASE x # s
    <3>1. pending'[s] = pending[s] /\ run'.marks[s] = run.marks[s]
      BY <1>1, <2>2, <2>3 DEF Marks
    <3> QED  BY <1>3, <2>2, <3>1 DEF KeepsMarks
  <2>4. CASE x = s
    <3>1. pending'[s] = Remarked(pending[s], run.marks[s]) /\ run'.marks[s] = NoMark
      BY <1>1, <2>2, <2>4 DEF Marks
    <3>2. CASE pending[s] = NoMark
      BY <1>13, <2>2, <2>4, <3>1, <3>2 DEF G, Remarked, NamedBefore, Remark
    <3>3. CASE pending[s] # NoMark
      <4>1. pending'[s].job = pending[s].job /\ pending'[s].last = pending[s].last
        BY <2>1, <2>4, <3>1, <3>3 DEF Remarked, Mark
      <4> QED  BY <2>2, <3>1, <3>3, <4>1 DEF G, NamedBefore
    <3> QED  BY <3>2, <3>3
  <2> QED  BY <2>3, <2>4
<1>14. CASE Restart
  <2>1. run' = Idle /\ pending' = pending /\ marking' = {}
    BY <1>14 DEF Restart
  <2> QED  BY <1>2, <2>1, Blanks DEF G, NamedBefore
<1>15. CASE (\E p \in prs : MergePr(p) \/ RejectPr(p)) \/ HeadMoves \/ Attest
  <2>1. Outside
    BY <1>15 DEF MergePr, RejectPr, HeadMoves, Attest
  <2> QED  BY <1>3, <2>1 DEF Outside, KeepsMarks
<1>16. CASE UNCHANGED vars
  BY <1>3, <1>16 DEF vars, KeepsMarks
<1> QED
  BY <1>5, <1>6, <1>7, <1>8, <1>9, <1>10, <1>11, <1>12, <1>13, <1>14, <1>15, <1>16, StepKinds
     DEF Progress

LEMMA NamesStep ==
    ASSUME SyncTyped, MarksInv, StoreInv, NamesInv, [Next]_vars
    PROVE  NamesInv'
<1>1. SyncTyped'
  BY TypedStep
<1>2. ASSUME NEW s \in System, NEW j, NEW t, NamedBefore(j, s, t)
      PROVE  Answers(j, s, t)'
  BY <1>2, NamedAnswers, AnswersStay
<1>3. ASSUME NEW i \in marking' PROVE Answers(i.job, i.system, i.trigger)'
  <2>1. i.system \in System /\ i.job \in Job
    BY <1>1 DEF SyncTyped, SyncTypeOK
  <2>2. CASE i \in marking
    BY <1>2, <2>1, <2>2 DEF NamedBefore
  <2>3. CASE i.trigger \in Trigger /\ TriggerEnqueue(i.trigger, i.system, i.job)
    BY <2>1, <2>3, EnqueuedAnswers
  <2> QED  BY <2>1, <2>2, <2>3, MarksComeFrom
<1>4. ASSUME NEW s \in System, pending'[s] # NoMark
      PROVE  Answers(pending[s].job, s, pending[s].last)'
  <2>1. PICK j, t : j = pending'[s].job /\ t = pending'[s].last
    OBVIOUS
  <2>2. Answers(j, s, t)'
    BY <1>2, <1>4, <2>1, MarksComeFrom
  <2> QED  BY <2>1, <2>2 DEF Answers
<1>5. ASSUME NEW s \in System, run'.marks[s] # NoMark
      PROVE  Answers(run.marks[s].job, s, run.marks[s].last)'
  <2>1. PICK j, t : j = run'.marks[s].job /\ t = run'.marks[s].last
    OBVIOUS
  <2>2. Answers(j, s, t)'
    BY <1>2, <1>5, <2>1, MarksComeFrom
  <2> QED  BY <2>1, <2>2 DEF Answers
<1> QED  BY <1>3, <1>4, <1>5 DEF NamesInv

(* What a step does to the snapshots the run holds, to its pull request    *)
(* and to the open ones.                                                   *)
GotFrom(s) ==
    \/ /\ run'.got[s] = run.got[s]
       /\ run'.phase \in {"idle", "consumed"} => run.phase \in {"idle", "consumed"}
    \/ run'.got[s] = NoSnap
    \/ /\ Acquired(s) /\ run'.got[s] \in SnapOf(run.marks[s].job)
       /\ run'.phase \notin {"idle", "consumed"}

StatedFrom(s) ==
    /\ run'.base = run.base \/ run'.base = EmptyKb \/ run'.base = head
    /\ \/ run'.pr = run.pr
       \/ run'.pr = NoPr
       \/ Compose /\ run'.pr.stated[s] = Stated(s)
    /\ \/ head'.pins[s] = head.pins[s]
       \/ \E p \in prs : head'.pins[s] = p.stated[s]

PrsFrom == prs' \subseteq prs \cup {run.pr} /\ run'.priors \subseteq prs \cup run.priors

ComposedFrom(s) ==
    /\ run'.phase \in Composed =>
           \/ /\ Compose /\ run'.pr.stated[s] = Stated(s) /\ run'.got = run.got
              /\ prs' = prs /\ run'.priors = run.priors /\ run.phase = "acquiring"
           \/ run.phase \in Composed /\ run'.got = run.got /\ run'.pr = run.pr
    /\ run'.phase # "superseding" =>
           run'.priors = {} \/ (run'.priors = run.priors /\ run.phase # "superseding")

SnapsMove(s) == GotFrom(s) /\ StatedFrom(s) /\ PrsFrom /\ ComposedFrom(s)

LEMMA RunIdles ==
    ASSUME run' = Idle, head' = head, prs' \subseteq prs, NEW s \in System
    PROVE  SnapsMove(s)
<1>1. run'.got[s] = NoSnap /\ run'.base = EmptyKb /\ run'.pr = NoPr /\ run'.priors = {}
  BY Blanks
<1>2. run'.phase \notin Composed /\ run'.phase # "superseding"
  BY Blanks DEF Composed
<1> QED  BY <1>1, <1>2 DEF SnapsMove, GotFrom, StatedFrom, PrsFrom, ComposedFrom

(* A step of the run that only moves it on.                                *)
LEMMA RunMovesOn ==
    ASSUME head' = head, prs' = prs, NEW s \in System,
           run'.got = run.got, run'.pr = run.pr, run'.priors = run.priors,
           run'.base = run.base \/ run'.base = head,
           run'.phase \in Composed => run.phase \in Composed,
           run'.phase \in {"idle", "consumed"} => run.phase \in {"idle", "consumed"},
           run'.phase # "superseding" => run.phase # "superseding"
    PROVE  SnapsMove(s)
BY DEF SnapsMove, GotFrom, StatedFrom, PrsFrom, ComposedFrom

LEMMA ProgressSnaps ==
    ASSUME SyncTyped, Progress, NEW s \in System
    PROVE  SnapsMove(s)
<1>1. run \in RunType
  BY DEF SyncTyped, SyncTypeOK, RunType
<1> USE DEF Composed
<1>2. CASE Consume
  <2>1. /\ run'.phase = "consumed" /\ run'.got[s] = NoSnap /\ run'.base = EmptyKb
        /\ run'.pr = NoPr /\ run'.priors = {} /\ head' = head /\ prs' = prs
    BY <1>2, Blanks DEF Consume, RunType
  <2> QED  BY <2>1 DEF SnapsMove, GotFrom, StatedFrom, PrsFrom, ComposedFrom
<1>3. CASE Begin \/ Clone
  <2>1. /\ run'.got = run.got /\ run'.pr = run.pr /\ run'.priors = run.priors
        /\ run'.phase \in {"cloning", "acquiring"} /\ run.phase \in {"consumed", "cloning"}
        /\ head' = head /\ prs' = prs
        /\ run'.base = run.base \/ run'.base = head
    BY <1>1, <1>3 DEF Begin, Clone, RunType
  <2> QED  BY <2>1, RunMovesOn
<1>4. ASSUME NEW x \in System, Acquired(x) PROVE SnapsMove(s)
  <2>1. PICK a \in SnapOf(run.marks[x].job) : run' = [run EXCEPT !.got[x] = a]
    BY <1>4 DEF Acquired
  <2>2. /\ run'.pr = run.pr /\ run'.priors = run.priors /\ run'.base = run.base
        /\ run'.phase = "acquiring" /\ run.phase = "acquiring"
        /\ x # s => run'.got[s] = run.got[s]
        /\ x = s => run'.got[s] = a
    BY <1>1, <1>4, <2>1 DEF RunType, Acquired, Awaited
  <2>3. head' = head /\ prs' = prs
    BY <1>4 DEF Acquired
  <2>4. GotFrom(s)
    BY <1>4, <2>1, <2>2 DEF GotFrom
  <2> QED  BY <2>2, <2>3, <2>4 DEF SnapsMove, StatedFrom, PrsFrom, ComposedFrom
<1>5. ASSUME NEW x \in System, AcquireFails(x) \/ AcquireTimesOut(x) PROVE SnapsMove(s)
  <2>1. /\ run'.got = run.got /\ run'.pr = run.pr /\ run'.priors = run.priors
        /\ run'.phase = run.phase /\ run'.base = run.base
        /\ head' = head /\ prs' = prs
    BY <1>1, <1>5 DEF AcquireFails, AcquireTimesOut, Excluded, RunType
  <2> QED  BY <2>1, RunMovesOn
<1>6. CASE NothingAcquired \/ NoOp \/ RunAgain \/ SupersedeFails \/ Superseded \/ GiveUp
  <2>1. run' = Idle /\ head' = head /\ prs' \subseteq prs
    BY <1>6 DEF NothingAcquired, NoOp, RunAgain, SupersedeFails, Superseded, GiveUp, Finished
  <2> QED  BY <2>1, RunIdles
<1>7. CASE Compose
  <2> DEFINE st == [x \in System |-> Stated(x)]
             p == [n |-> row.n, changed |-> Changed, stated |-> st,
                   wheel |-> WheelDue,
                   graph |-> IF GraphCarried THEN attested ELSE run.base.graph]
  <2>1. run' = [run EXCEPT !.phase = "authoring", !.pr = p] /\ run.phase = "acquiring"
    BY <1>7 DEF Compose, Resolved
  <2>2. p.stated = st /\ st[s] = Stated(s)
    OBVIOUS
  <2> HIDE DEF p, st
  <2>3. /\ run'.pr = p /\ run'.got = run.got /\ run'.base = run.base
        /\ run'.priors = run.priors /\ run'.phase = "authoring"
    BY <1>1, <2>1 DEF RunType
  <2>4. run'.pr.stated[s] = Stated(s)
    BY <2>2, <2>3
  <2>5. head' = head /\ prs' = prs
    BY <1>7 DEF Compose
  <2> QED  BY <1>7, <2>1, <2>3, <2>4, <2>5 DEF SnapsMove, GotFrom, StatedFrom, PrsFrom, ComposedFrom
<1>8. CASE HeadAsPinned \/ HeadUnreadable \/ HeadMoved \/ OpenPrFails
  <2>1. /\ run'.got = run.got /\ run'.pr = run.pr /\ run'.priors = run.priors
        /\ run'.phase \in {"opening", "authoring", "remarking"}
        /\ run.phase \in {"authoring", "opening"}
        /\ run'.base = run.base
        /\ head' = head /\ prs' = prs
    BY <1>1, <1>8 DEF HeadAsPinned, HeadUnreadable, HeadMoved, OpenPrFails, MoreAttempts, RunType
  <2> QED  BY <2>1, RunMovesOn
<1>9. ASSUME NEW x \in System, Remark(x) PROVE SnapsMove(s)
  <2>1. /\ run'.got = run.got /\ run'.pr = run.pr /\ run'.priors = run.priors
        /\ run'.phase = run.phase /\ run'.base = run.base
        /\ head' = head /\ prs' = prs
    BY <1>1, <1>9 DEF Remark, RunType
  <2> QED  BY <2>1, RunMovesOn
<1>10. CASE OpenPr \/ OpenPrAnswerLost
  <2>1. /\ run'.got = run.got /\ run'.pr = run.pr /\ run'.priors = run.priors
        /\ run'.phase \in {"opened", "authoring"} /\ run.phase = "opening"
        /\ run'.base = run.base
        /\ head' = head /\ prs' = prs \cup {run.pr}
    BY <1>1, <1>10 DEF OpenPr, OpenPrAnswerLost, RunType
  <2> QED  BY <2>1 DEF SnapsMove, GotFrom, StatedFrom, PrsFrom, ComposedFrom
<1>11. CASE ListPriors
  <2>1. /\ run'.got = run.got /\ run'.pr = run.pr /\ run'.priors = Others
        /\ run'.phase = "superseding" /\ run.phase = "opened" /\ run'.base = run.base
        /\ head' = head /\ prs' = prs
    BY <1>1, <1>11 DEF ListPriors, RunType
  <2> QED  BY <2>1 DEF SnapsMove, GotFrom, StatedFrom, PrsFrom, ComposedFrom, Others
<1>12. ASSUME NEW p \in run.priors, ClosePrior(p) PROVE SnapsMove(s)
  <2>1. /\ run'.got = run.got /\ run'.pr = run.pr /\ run'.priors = run.priors \ {p}
        /\ run'.phase = "superseding" /\ run.phase = "superseding" /\ run'.base = run.base
        /\ head' = head /\ prs' = prs \ {p}
    BY <1>1, <1>12 DEF ClosePrior, RunType
  <2> QED  BY <2>1 DEF SnapsMove, GotFrom, StatedFrom, PrsFrom, ComposedFrom
<1> QED  BY <1>2, <1>3, <1>4, <1>5, <1>6, <1>7, <1>8, <1>9, <1>10, <1>11, <1>12
            DEF Progress, Acquire

LEMMA SnapsChange ==
    ASSUME SyncTyped, [Next]_vars, NEW s \in System
    PROVE  SnapsMove(s)
<1>1. ASSUME run' = run, head' = head, prs' = prs PROVE SnapsMove(s)
  BY <1>1, RunMovesOn
<1>2. ASSUME NEW t \in Trigger, NEW x \in System, NEW j \in Job, TriggerEnqueue(t, x, j)
      PROVE  SnapsMove(s)
  BY <1>1, <1>2 DEF TriggerEnqueue
<1>3. ASSUME NEW i \in marking, TriggerMark(i) PROVE SnapsMove(s)
  BY <1>1, <1>3 DEF TriggerMark
<1>4. ASSUME NEW j \in Job, JobMoves(j) PROVE SnapsMove(s)
  <2>1. JobStep
    BY <1>4 DEF JobMoves, JobClaimed, JobSucceeded, JobEnded, JobRequeued, JobCoalesced
  <2> QED  BY <1>1, <2>1 DEF JobStep
<1>5. CASE BeginFails \/ StageFails \/ HandlerFails \/ Restart
  <2>1. run' = Idle /\ head' = head /\ prs' = prs
    BY <1>5 DEF BeginFails, StageFails, HandlerFails, Restart, Finished
  <2> QED  BY <2>1, RunIdles
<1>6. ASSUME NEW p \in prs, MergePr(p) \/ RejectPr(p) PROVE SnapsMove(s)
  <2>1. run' = run /\ prs' \subseteq prs
    BY <1>6 DEF MergePr, RejectPr, Outside
  <2>2. head'.pins[s] = head.pins[s] \/ head'.pins[s] = p.stated[s]
    BY <1>6 DEF MergePr, RejectPr
  <2> QED  BY <2>1, <2>2 DEF SnapsMove, GotFrom, StatedFrom, PrsFrom, ComposedFrom
<1>7. CASE HeadMoves \/ Attest
  <2>1. run' = run /\ prs' = prs /\ head'.pins[s] = head.pins[s]
    BY <1>7 DEF HeadMoves, Attest, Outside, SyncTyped, SyncTypeOK, Kb
  <2> QED  BY <2>1 DEF SnapsMove, GotFrom, StatedFrom, PrsFrom, ComposedFrom
<1>8. CASE UNCHANGED vars
  BY <1>1, <1>8 DEF vars
<1> QED  BY <1>2, <1>3, <1>4, <1>5, <1>6, <1>7, <1>8, StepKinds, ProgressSnaps

(* What a run acquires for a system is in the system's store, and answers  *)
(* the trigger that marked it last.                                        *)
LEMMA AcquiredFromStore ==
    ASSUME SyncTyped, NamesInv, NEW s \in System, Acquired(s),
           NEW a \in SnapOf(run.marks[s].job)
    PROVE  /\ run.marks[s] # NoMark
           /\ run.marks[s].last \in a.covers
           /\ \E m \in 1 .. Len(accepted[s]) : a = accepted[s][m]
<1>1. run.marks[s] # NoMark /\ jobs[run.marks[s].job].state = "succeeded"
  BY DEF Acquired, Awaited, Marked
<1>2. PICK j : j = run.marks[s].job
  OBVIOUS
<1>3. Answers(j, s, run.marks[s].last) /\ jobs[j].state = "succeeded"
  BY <1>1, <1>2 DEF NamesInv
<1>4. jobs[j].system = s
  BY <1>3 DEF Answers
<1>5. PICK m \in 1 .. Len(accepted[s]) : a = accepted[s][m] /\ a.id = jobs[j].snap
  BY <1>2, <1>4 DEF SnapOf
<1>6. run.marks[s].last \in a.covers
  BY <1>3, <1>5 DEF Answers
<1> QED  BY <1>1, <1>5, <1>6

LEMMA ServedStep ==
    ASSUME SyncTyped, MarksInv, NamesInv, ServedInv, [Next]_vars
    PROVE  ServedInv'
<1>1. ASSUME NEW s \in System, run'.phase \in {"idle", "consumed"} PROVE run'.got[s] = NoSnap
  <2>1. GotFrom(s)
    BY SnapsChange DEF SnapsMove
  <2> QED  BY <1>1, <2>1 DEF GotFrom, ServedInv
<1>2. ASSUME NEW s \in System, run'.got[s] # NoSnap, run'.marks[s] # NoMark
      PROVE  run'.marks[s].last \in run'.got[s].covers
  <2>1. GotFrom(s)
    BY SnapsChange DEF SnapsMove
  <2>2. run'.phase # "consumed"
    BY <1>1, <1>2
  <2>3. run'.marks[s] = run.marks[s]
    BY <1>2, <2>2, MarksComeFrom
  <2>4. CASE run'.got[s] = run.got[s]
    BY <1>2, <2>3, <2>4 DEF ServedInv, LastMarkServed
  <2>5. CASE Acquired(s) /\ run'.got[s] \in SnapOf(run.marks[s].job)
    BY <2>3, <2>5, AcquiredFromStore
  <2> QED  BY <1>2, <2>1, <2>4, <2>5 DEF GotFrom
<1> QED  BY <1>1, <1>2 DEF ServedInv, LastMarkServed

(* Nobody states or pins what the store has not accepted, and what a run   *)
(* restates is the latest acceptance.                                      *)
LEMMA SnapNumbers ==
    ASSUME SyncTyped, NEW s \in System
    PROVE  /\ run.got[s].id \in Nat /\ run.base.pins[s].id \in Nat
           /\ run.pr.stated[s].id \in Nat /\ head.pins[s].id \in Nat
           /\ LatestOf(s).id \in Nat
           /\ \A p \in prs : p.stated[s].id \in Nat
           /\ \A p \in run.priors : p.stated[s].id \in Nat
<1>1. /\ run.got \in [System -> Snap] /\ run.base \in Kb /\ run.pr \in Pr /\ head \in Kb
      /\ prs \subseteq Pr /\ run.priors \subseteq Pr
  BY DEF SyncTyped, SyncTypeOK
<1>2. /\ run.got[s] \in Snap /\ run.base.pins[s] \in Snap /\ run.pr.stated[s] \in Snap
      /\ head.pins[s] \in Snap
      /\ \A p \in Pr : p.stated[s] \in Snap
  BY <1>1 DEF Kb, Pr
<1>3. LatestOf(s) \in Snap
  BY LatestTyped DEF SyncTyped
<1>4. \A a \in Snap : a.id \in Nat
  BY DEF Snap
<1> QED  BY <1>1, <1>2, <1>3, <1>4

LEMMA StatedNumber ==
    ASSUME SyncTyped, BehindInv, NEW s \in System
    PROVE  /\ Stated(s).id <= LatestOf(s).id
           /\ run.got[s] = NoSnap => Stated(s).id = LatestOf(s).id
<1>1. /\ run.got[s].id <= LatestOf(s).id /\ run.base.pins[s].id <= LatestOf(s).id
      /\ run.base.pins[s].id \in Nat /\ LatestOf(s).id \in Nat
  BY SnapNumbers DEF BehindInv
<1>2. CASE run.got[s] # NoSnap
  BY <1>1, <1>2 DEF Stated
<1>3. CASE run.got[s] = NoSnap /\ accepted[s] # <<>>
  BY <1>1, <1>3 DEF Stated
<1>4. CASE run.got[s] = NoSnap /\ accepted[s] = <<>>
  <2>1. LatestOf(s).id = 0
    BY <1>4 DEF LatestOf, NoSnap
  <2> QED  BY <1>1, <1>4, <2>1 DEF Stated
<1> QED  BY <1>2, <1>3, <1>4

LEMMA InitBehind == Init => ServedInv /\ BehindInv /\ RestatedInv
<1> SUFFICES ASSUME Init PROVE ServedInv /\ BehindInv /\ RestatedInv
  OBVIOUS
<1>1. run = Idle /\ prs = {}
  BY DEF Init
<1>2. ServedInv
  BY <1>1, Blanks DEF ServedInv, LastMarkServed
<1>3. RestatedInv
  BY <1>1, Blanks DEF RestatedInv, Composed
<1>4. BehindInv
  <2> SUFFICES ASSUME NEW s \in System
               PROVE  /\ run.got[s].id <= LatestOf(s).id
                      /\ run.base.pins[s].id <= LatestOf(s).id
                      /\ run.pr.stated[s].id <= LatestOf(s).id
                      /\ head.pins[s].id <= LatestOf(s).id
    BY <1>1 DEF BehindInv
  <2>1. LatestOf(s) = NoSnap /\ NoSnap.id = 0
    BY DEF LatestOf, Init, NoSnap
  <2>2. run.got[s] = NoSnap /\ run.base.pins[s] = NoSnap /\ run.pr.stated[s] = NoSnap
    BY <1>1, Blanks DEF EmptyKb, NoPr
  <2>3. head.pins[s] = NoSnap
    BY DEF Init, EmptyKb
  <2> QED  BY <2>1, <2>2, <2>3
<1> QED  BY <1>2, <1>3, <1>4

LEMMA BehindStep ==
    ASSUME SyncTyped, StoreInv, NamesInv, BehindInv, [Next]_vars
    PROVE  BehindInv'
<1> SUFFICES ASSUME NEW s \in System
             PROVE  /\ run'.got[s].id <= LatestOf(s)'.id
                    /\ run'.base.pins[s].id <= LatestOf(s)'.id
                    /\ run'.pr.stated[s].id <= LatestOf(s)'.id
                    /\ head'.pins[s].id <= LatestOf(s)'.id
                    /\ \A p \in prs' : p.stated[s].id <= LatestOf(s)'.id
  BY DEF BehindInv
<1>1. SnapsMove(s)
  BY SnapsChange
<1>2. LatestOf(s).id \in Nat /\ LatestOf(s)'.id \in Nat /\ LatestOf(s).id <= LatestOf(s)'.id
  BY LatestGrows
<1>3. \A n \in Nat : n <= LatestOf(s).id => n <= LatestOf(s)'.id
  BY <1>2
<1>4. NoSnap.id = 0 /\ EmptyKb.pins[s] = NoSnap /\ NoPr.stated[s] = NoSnap
  BY DEF NoSnap, EmptyKb, NoPr
<1>5. 0 <= LatestOf(s)'.id
  BY <1>2
<1>6. run'.got[s].id <= LatestOf(s)'.id
  <2>1. CASE run'.got[s] = run.got[s]
    BY <1>3, <2>1, SnapNumbers DEF BehindInv
  <2>2. CASE run'.got[s] = NoSnap
    BY <1>4, <1>5, <2>2
  <2>3. CASE Acquired(s) /\ run'.got[s] \in SnapOf(run.marks[s].job)
    <3>1. PICK m \in 1 .. Len(accepted[s]) : run'.got[s] = accepted[s][m]
      BY <2>3, AcquiredFromStore
    <3>2. accepted[s] \in Seq(Snap)
      BY DEF SyncTyped, SyncTypeOK
    <3>3. accepted[s][m] \in Snap
      BY <3>2
    <3>4. accepted[s][m].id \in Nat /\ accepted[s][m].id <= LatestOf(s).id
      BY <3>3 DEF Snap, StoreInv
    <3> QED  BY <1>3, <3>1, <3>4
  <2> QED  BY <1>1, <2>1, <2>2, <2>3 DEF SnapsMove, GotFrom
<1>7. run'.base.pins[s].id <= LatestOf(s)'.id
  <2>1. CASE run'.base = run.base \/ run'.base = head
    BY <1>3, <2>1, SnapNumbers DEF BehindInv
  <2>2. CASE run'.base = EmptyKb
    BY <1>4, <1>5, <2>2
  <2> QED  BY <1>1, <2>1, <2>2 DEF SnapsMove, StatedFrom
<1>8. run'.pr.stated[s].id <= LatestOf(s)'.id
  <2>1. CASE run'.pr = run.pr
    BY <1>3, <2>1, SnapNumbers DEF BehindInv
  <2>2. CASE run'.pr = NoPr
    BY <1>4, <1>5, <2>2
  <2>3. CASE run'.pr.stated[s] = Stated(s)
    <3>1. Stated(s).id \in Nat
      BY StatedTyped DEF SyncTyped, Snap
    <3> QED  BY <1>3, <2>3, <3>1, StatedNumber
  <2> QED  BY <1>1, <2>1, <2>2, <2>3 DEF SnapsMove, StatedFrom
<1>9. head'.pins[s].id <= LatestOf(s)'.id
  <2>1. CASE head'.pins[s] = head.pins[s]
    BY <1>3, <2>1, SnapNumbers DEF BehindInv
  <2>2. CASE \E p \in prs : head'.pins[s] = p.stated[s]
    BY <1>3, <2>2, SnapNumbers DEF BehindInv
  <2> QED  BY <1>1, <2>1, <2>2 DEF SnapsMove, StatedFrom
<1>10. ASSUME NEW p \in prs' PROVE p.stated[s].id <= LatestOf(s)'.id
  <2>1. p \in prs \/ p = run.pr
    BY <1>1 DEF SnapsMove, PrsFrom
  <2> QED  BY <1>3, <2>1, SnapNumbers DEF BehindInv
<1> QED  BY <1>6, <1>7, <1>8, <1>9, <1>10

LEMMA RestatedStep ==
    ASSUME SyncTyped, BehindInv, RestatedInv, [Next]_vars
    PROVE  RestatedInv'
<1>1. ASSUME NEW s \in System PROVE SnapsMove(s)
  BY SnapsChange
<1>2. ASSUME NEW s \in System, run'.phase \in Composed, NEW p \in prs' \cup run'.priors,
             run'.got[s] = NoSnap
      PROVE  run'.pr.stated[s].id >= p.stated[s].id
  <2>1. CASE /\ run'.pr.stated[s] = Stated(s) /\ run'.got = run.got
             /\ prs' = prs /\ run'.priors = run.priors /\ run.phase = "acquiring"
    <3>1. run.priors = {}
      BY <2>1 DEF RestatedInv
    <3>2. p \in prs
      BY <1>2, <2>1, <3>1
    <3>3. p.stated[s].id <= LatestOf(s).id /\ p.stated[s].id \in Nat /\ LatestOf(s).id \in Nat
      BY <3>2, SnapNumbers DEF BehindInv
    <3>4. Stated(s).id = LatestOf(s).id
      BY <1>2, <2>1, StatedNumber
    <3> QED  BY <2>1, <3>3, <3>4
  <2>2. CASE run.phase \in Composed /\ run'.got = run.got /\ run'.pr = run.pr
    <3>1. p \in prs \cup run.priors \/ p = run.pr
      BY <1>1, <1>2 DEF SnapsMove, PrsFrom
    <3>2. CASE p \in prs \cup run.priors
      BY <1>2, <2>2, <3>2 DEF RestatedInv
    <3>3. CASE p = run.pr
      BY <2>2, <3>3, SnapNumbers
    <3> QED  BY <3>1, <3>2, <3>3
  <2> QED  BY <1>1, <1>2, <2>1, <2>2 DEF SnapsMove, ComposedFrom
<1>3. ASSUME NEW s \in System, run'.phase # "superseding" PROVE run'.priors = {}
  BY <1>1, <1>3 DEF SnapsMove, ComposedFrom, RestatedInv
<1> QED  BY <1>2, <1>3 DEF RestatedInv

SnapsInv == MarksInv /\ StoreInv /\ NamesInv /\ ServedInv /\ BehindInv /\ RestatedInv

LEMMA Snapshots == Spec => []SnapsInv
<1>1. Init => SnapsInv
  BY InitMarks, InitNames, InitBehind DEF SnapsInv
<1>2. SyncTyped /\ SnapsInv /\ [Next]_vars => SnapsInv'
  BY MarksStep, StoreStep, NamesStep, ServedStep, BehindStep, RestatedStep DEF SnapsInv
<1> QED  BY <1>1, <1>2, Typed, PTL DEF Spec

(* The snapshot a run takes for a system was captured by a job claimed     *)
(* after the system's last trigger was made (LastMarkServed), through      *)
(* absorbed, coalesced and pruned jobs and marks put back by remarkPending.*)
THEOREM LastTriggerAnswered == Spec => []LastMarkServed
<1>1. SnapsInv => LastMarkServed
  BY DEF SnapsInv, ServedInv
<1> QED  BY <1>1, Snapshots, PTL

(* A pull request that supersedes others states, for every system its run  *)
(* did not acquire, a snapshot at least as new as theirs                   *)
(* (RestatementKeepsDrift): restatement loses no drift.                    *)
THEOREM DriftRestated == Spec => []RestatementKeepsDrift
<1>1. SnapsInv => RestatementKeepsDrift
  BY DEF SnapsInv, RestatedInv, RestatementKeepsDrift, Composed
<1> QED  BY <1>1, Snapshots, PTL
=============================================================================
