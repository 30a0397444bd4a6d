--------------------------- MODULE ModelDelivery ---------------------------
(***************************************************************************)
(* publish_report of an api-class target: the core's handling of a call    *)
(* (publish.ts) and the Power BI adapter that serves its job               *)
(* (connectors/powerbi/publisher.py over client.py).                       *)
(*                                                                         *)
(* A call either delivers a model (it carries freshly executed results to  *)
(* the push dataset of the artifact) or attests a report over a delivered  *)
(* one.  Publish jobs are interactive: they have one attempt and exclude   *)
(* nobody, so the adapters of two calls may talk to the same dataset.      *)
(*                                                                         *)
(* A table's rows are the batches posted to it, each named by the call     *)
(* whose results it carries.  A step is a query of the core or one request *)
(* of the adapter; what is between two of them is local to one call.       *)
(***************************************************************************)
EXTENDS Integers, Sequences, FiniteSets

CONSTANTS
    Deliver,        \* calls with mode deliver_model
    Attest,         \* calls with mode attest
    Content,        \* contents (hashes) of the artifact
    SchemaOf,       \* the column schema a content gives its tables
    Tables,         \* number of tables of the model
    Batches,        \* number of posts that fill a table
    MaxRetries,     \* retries of one request (_RETRY_SCHEDULE_S)
    MaxFaults,      \* bound on the requests that fail, over all calls
    None            \* no call: no previous delivery

Call == Deliver \cup Attest
Table == 1 .. Tables
Batch == 1 .. Batches
Schema == {SchemaOf[x] : x \in Content}

ASSUME CallAssumption == Deliver \cap Attest = {} /\ None \notin Call
ASSUME SchemaAssumption == SchemaOf \in [Content -> Schema]
ASSUME SizeAssumption ==
    /\ Tables \in Nat \ {0} /\ Batches \in Nat \ {0}
    /\ MaxRetries \in Nat /\ MaxFaults \in Nat

VARIABLES
    artifacts,      \* report_artifacts: the content of each revision
    delivered,      \* model_deliveries: the row of (artifact, target)
    attested,       \* report_attestations: <<revision, delivery named>>
    datasets,       \* the datasets of the workspace that carry the name
    call,           \* the local state of each call and of its job
    answer,         \* what the caller has been told
    past,           \* history: revisions ever recorded as delivered
    faults          \* number of requests that failed

vars == <<artifacts, delivered, attested, datasets, call, answer, past, faults>>

Absent == [table |-> <<>>]
NoDelivery == [rev |-> 0, by |-> None]

Wire == {"list", "create", "relist", "drop", "tables", "put", "delete", "post"}
Ended == {"succeeded", "failed"}
Phase == {"idle", "insert", "ready"} \cup Wire \cup Ended
Mode == {"none", "fill", "replace", "restore"}

Row == (Deliver \cup {None}) \X Batch
TableState == [schema : Schema, rows : Seq(Row)]

(* The rows of a table that holds exactly the results of call d.           *)
Full(d) == [b \in Batch |-> <<d, b>>]

(* Call c has been alone at the model since it began, and no request of it *)
(* took effect more than once.                                             *)
Undisturbed(c) == call[c].alone /\ ~call[c].twice

Init ==
    /\ artifacts = <<>>
    /\ delivered = NoDelivery
    /\ attested = {}
    /\ datasets = <<>>
    /\ call = [c \in Call |->
                 [pc |-> "idle", content |-> None,
                  rev |-> 0, prev |-> None, ds |-> 0, mode |-> "none",
                  at |-> 1, last |-> Tables, batch |-> 1, tries |-> 0,
                  seen |-> <<>>, problem |-> FALSE, loud |-> FALSE,
                  alone |-> TRUE, twice |-> FALSE, broken |-> FALSE,
                  hurt |-> 0, before |-> <<>>]]
    /\ answer = [c \in Call |-> "none"]
    /\ past = {}
    /\ faults = 0

-----------------------------------------------------------------------------
(* The core                                                                *)

Goto(c, pc) == call' = [call EXCEPT ![c].pc = pc]
Tell(c, a) == answer' = [answer EXCEPT ![c] = a]

(* The revisions are read; a content that has one keeps it.                *)
ReadRevisions(c, x) ==
    /\ call[c].pc = "idle"
    /\ LET known == {r \in DOMAIN artifacts : artifacts[r] = x} IN
         call' = [call EXCEPT
                    ![c].pc = IF known = {} THEN "insert" ELSE "ready",
                    ![c].content = x,
                    ![c].rev = IF known = {} THEN Len(artifacts) + 1
                               ELSE CHOOSE r \in known : TRUE]
    /\ UNCHANGED <<artifacts, delivered, attested, datasets, answer, past, faults>>

(* Mutant: no primary key.                                                 *)
InsertRevisionUnkeyed(c) ==
    /\ call[c].pc = "insert"
    /\ artifacts' = Append(artifacts, call[c].content)
    /\ Goto(c, "ready")
    /\ UNCHANGED <<delivered, attested, datasets, answer, past, faults>>

(* The new revision is inserted; a revision that another call has taken in *)
(* the meantime violates the primary key and the call fails.               *)
InsertRevision(c) ==
    /\ call[c].pc = "insert"
    /\ IF call[c].rev \in DOMAIN artifacts
       THEN Goto(c, "failed") /\ Tell(c, "error") /\ UNCHANGED artifacts
       ELSE /\ artifacts' = Append(artifacts, call[c].content)
            /\ Goto(c, "ready")
            /\ UNCHANGED answer
    /\ UNCHANGED <<delivered, attested, datasets, past, faults>>

(* What planning may refuse before the first request: a query without a    *)
(* result, a truncated result, a table over a limit; a value that does not *)
(* encode or is too long; a blend key that is no column of its table; the  *)
(* adapter's own configuration.                                            *)
TableRefusals == {"config_error", "row_cap", "push_limit_exceeded"}
RowRefusals == {"config_error", "push_limit_exceeded"}
RelationshipRefusals == {"config_error", "push_limit_exceeded"}
ClientRefusals == {"config_error"}
Refusals == TableRefusals \cup RowRefusals \cup RelationshipRefusals \cup ClientRefusals

(* The first request of a delivery; an attest job makes none.              *)
DeliverStart(s) == [s EXCEPT !.pc = "list", !.before = datasets]
AttestStart(s) == [s EXCEPT !.pc = "succeeded"]

(* deliver_model: the queries have been executed (their results are named  *)
(* by the call), the recorded delivery is read as `previous`, the job is   *)
(* enqueued, and the adapter plans the tables and relationships before its *)
(* first request.  A query that fails or is truncated, and a plan that is  *)
(* refused (a limit, a value that does not encode), end the call.          *)
PrepareDelivery(c) ==
    /\ c \in Deliver /\ call[c].pc = "ready"
    /\ \/ /\ call' = [call EXCEPT ![c] = DeliverStart([@ EXCEPT !.prev = delivered.by])]
          /\ UNCHANGED answer
       \/ \E code \in Refusals : Goto(c, "failed") /\ Tell(c, code)
    /\ UNCHANGED <<artifacts, delivered, attested, datasets, past, faults>>

(* Mutant: the recorded delivery is not compared.                          *)
PrepareAttestationUnchecked(c) ==
    /\ c \in Attest /\ call[c].pc = "ready"
    /\ call' = [call EXCEPT ![c].pc = "succeeded", ![c].prev = delivered.by]
    /\ UNCHANGED <<artifacts, delivered, attested, datasets, answer, past, faults>>

(* attest: refused unless the recorded delivery is of this revision.  The  *)
(* job makes no request (_attest).                                         *)
PrepareAttestation(c) ==
    /\ c \in Attest /\ call[c].pc = "ready"
    /\ IF delivered.rev = call[c].rev
       THEN /\ call' = [call EXCEPT ![c] = AttestStart([@ EXCEPT !.prev = delivered.by])]
            /\ UNCHANGED answer
       ELSE Goto(c, "failed") /\ Tell(c, "revalidate_required")
    /\ UNCHANGED <<artifacts, delivered, attested, datasets, past, faults>>

(* The awaited job succeeded: the call's record is written.                *)
Record(c) ==
    /\ call[c].pc = "succeeded" /\ answer[c] = "none"
    /\ Tell(c, "ok")
    /\ IF c \in Deliver
       THEN /\ delivered' = [rev |-> call[c].rev, by |-> c]
            /\ past' = past \cup {call[c].rev}
            /\ UNCHANGED attested
       ELSE /\ attested' = {a \in attested : a[1] # call[c].rev} \cup {<<call[c].rev, call[c].prev>>}
            /\ UNCHANGED <<delivered, past>>
    /\ UNCHANGED <<artifacts, datasets, call, faults>>

(* The awaited job failed; or the wait is over and the job goes on alone.  *)
ReportFailure(c) ==
    /\ call[c].pc = "failed" /\ answer[c] = "none"
    /\ Tell(c, IF call[c].loud THEN "inconsistent" ELSE "failed")
    /\ UNCHANGED <<artifacts, delivered, attested, datasets, call, past, faults>>

AwaitTimeout(c) ==
    /\ call[c].pc \in Wire \cup (IF c \in Attest THEN {"succeeded"} ELSE {})
    /\ answer[c] = "none"
    /\ Tell(c, "timeout")
    /\ UNCHANGED <<artifacts, delivered, attested, datasets, call, past, faults>>

-----------------------------------------------------------------------------
(* The adapter                                                             *)

Existing == {i \in DOMAIN datasets : datasets[i] # Absent}

(* Whose results a post carries: the call's, or those it restores.         *)
Poster(c) == IF call[c].mode = "restore" THEN call[c].prev ELSE c

(* What a request does to the workspace once the service executes it.      *)
Effect(c) ==
    LET s == call[c] IN
    CASE s.pc = "create" ->
           Append(datasets, [table |-> [t \in Table |->
                       [schema |-> SchemaOf[s.content], rows |-> <<>>]]])
      [] s.pc = "drop"   -> [datasets EXCEPT ![s.ds] = Absent]
      [] s.pc = "put"    -> [datasets EXCEPT ![s.ds].table[s.at].schema = SchemaOf[s.content]]
      [] s.pc = "delete" -> [datasets EXCEPT ![s.ds].table[s.at].rows = <<>>]
      [] s.pc = "post"   -> [datasets EXCEPT ![s.ds].table[s.at].rows =
                                                 Append(@, <<Poster(c), s.batch>>)]
      [] OTHER           -> datasets

(* The request can be executed: its dataset is still there.                *)
Possible(c) ==
    call[c].pc \in {"drop", "tables", "put", "delete", "post"} => call[c].ds \in Existing

(* A request executed without its answer, and not one that may be executed *)
(* again: a second create or post adds to what the first one did.          *)
Repeats(c, done) == done /\ call[c].pc \in {"create", "post"}

(* A change of the workspace disturbs every other call that has begun.     *)
Touch(new, c, s) ==
    [d \in Call |->
       CASE d = c -> IF s.pc \in Ended THEN [s EXCEPT !.seen = <<>>, !.at = 1, !.batch = 1] ELSE s
         [] d # c /\ new # datasets /\ call[d].pc \in Wire \cup Ended ->
              [call[d] EXCEPT !.alone = FALSE, !.before = <<>>]
         [] OTHER -> call[d]]

(* Mutant: rows are pushed onto the ones that are there.                   *)
NextPutAppending(s, at) ==
    LET todo == {t \in at .. Tables : s.seen[t] # SchemaOf[s.content]} IN
    IF todo = {} THEN [s EXCEPT !.pc = "post", !.mode = "replace", !.at = 1]
    ELSE [s EXCEPT !.pc = "put", !.at = CHOOSE t \in todo : \A u \in todo : t <= u]

(* The next table from `at` on whose columns, as listed, differ.           *)
NextPut(s, at) ==
    LET todo == {t \in at .. Tables : s.seen[t] # SchemaOf[s.content]} IN
    IF todo = {} THEN [s EXCEPT !.pc = "delete", !.mode = "replace", !.at = 1]
    ELSE [s EXCEPT !.pc = "put", !.at = CHOOSE t \in todo : \A u \in todo : t <= u]

(* Mutant: one table too many.                                             *)
TableDoneLate(s) ==
    IF s.at <= s.last
    THEN [s EXCEPT !.at = @ + 1, !.batch = 1, !.pc = IF s.mode = "fill" THEN "post" ELSE "delete"]
    ELSE [s EXCEPT !.pc = IF s.mode = "restore" THEN "failed" ELSE "succeeded"]

(* One table's rows are in place: on to the next one, or to the end.       *)
TableDone(s) ==
    IF s.at < s.last
    THEN [s EXCEPT !.at = @ + 1, !.batch = 1, !.pc = IF s.mode = "fill" THEN "post" ELSE "delete"]
    ELSE CASE s.mode = "fill"    -> [s EXCEPT !.pc = "relist"]
           [] s.mode = "replace" -> [s EXCEPT !.pc = "succeeded"]
           [] s.mode = "restore" -> [s EXCEPT !.pc = "failed", !.loud = s.problem]

(* The listing of the workspace: the first dataset of the name is revised, *)
(* without one a new one is created.                                       *)
Located(s, ds) ==
    IF Existing = {} THEN [s EXCEPT !.pc = "create"] ELSE [s EXCEPT !.pc = "tables", !.ds = ds]

Created(s) == [s EXCEPT !.pc = "post", !.mode = "fill", !.ds = Len(datasets) + 1]

Listed(s) == [s EXCEPT !.seen = [t \in Table |-> datasets[s.ds].table[t].schema]]

(* What the adapter does when its request is answered with success; ds is  *)
(* the dataset a listing shows first.                                      *)
Proceed(s, ds) ==
    CASE s.pc = "list"   -> Located(s, ds)
      [] s.pc = "create" -> Created(s)
      [] s.pc = "tables" -> NextPut(Listed(s), 1)
      [] s.pc = "put"    -> NextPut(s, s.at + 1)
      [] s.pc = "delete" -> [s EXCEPT !.pc = "post", !.batch = 1]
      [] s.pc = "post"   -> IF s.batch < Batches THEN [s EXCEPT !.batch = @ + 1] ELSE TableDone(s)
      [] s.pc = "relist" -> [s EXCEPT !.pc = "succeeded"]
      [] s.pc = "drop"   -> [s EXCEPT !.pc = "failed"]

(* Mutants: the created dataset is kept; nothing is restored.              *)
RemovedNot(s) == [s EXCEPT !.pc = "failed"]

RestoredNot(s) == [s EXCEPT !.pc = "failed", !.hurt = s.at]

(* A post of a first delivery failed: the created dataset is removed.      *)
Removed(s) == [s EXCEPT !.pc = "drop"]

(* A row replacement failed.  The restore covers the tables replaced       *)
(* before the one that failed; with none there is nothing to do, without   *)
(* a previous delivery nothing to restore from.                            *)
Restored(s) ==
    LET failed == [s EXCEPT !.pc = "failed", !.hurt = s.at] IN
    CASE s.at = 1                    -> failed
      [] s.at > 1 /\ s.prev = None   -> [failed EXCEPT !.loud = TRUE]
      [] s.at > 1 /\ s.prev # None   ->
           [failed EXCEPT !.pc = "delete", !.mode = "restore", !.last = s.at - 1,
                          !.at = 1, !.batch = 1]

(* What the adapter does when its request raised a ConnectorError.  The    *)
(* restore goes on after a table it cannot restore.                        *)
Recover(s) ==
    CASE s.mode = "fill" /\ s.pc = "post" -> Removed(s)
      [] s.pc = "drop"                    -> [s EXCEPT !.pc = "failed", !.loud = TRUE]
      [] s.mode = "replace"               -> Restored(s)
      [] s.mode = "restore"               -> TableDone([s EXCEPT !.problem = TRUE])
      [] OTHER                            -> [s EXCEPT !.pc = "failed"]

(* PowerBIClient.call: the request is answered with success.               *)
Answered(c, ds) ==
    /\ call[c].pc \in Wire /\ Possible(c)
    /\ (ds \in Existing) = (call[c].pc = "list" /\ Existing # {})
    /\ datasets' = Effect(c)
    /\ call' = Touch(Effect(c), c, [Proceed(call[c], ds) EXCEPT !.tries = 0])
    /\ UNCHANGED <<artifacts, delivered, attested, answer, past, faults>>

(* 429 or 5xx, and the schedule has a retry left.  A 5xx may come from a   *)
(* request that was executed.                                              *)
Retried(c, done) ==
    /\ faults < MaxFaults /\ faults' = faults + 1
    /\ call[c].pc \in Wire /\ call[c].tries < MaxRetries
    /\ done => Possible(c) /\ Effect(c) # datasets
    /\ datasets' = IF done THEN Effect(c) ELSE datasets
    /\ call' = Touch(datasets', c, [call[c] EXCEPT !.tries = @ + 1, !.twice = @ \/ Repeats(c, done)])
    /\ UNCHANGED <<artifacts, delivered, attested, answer, past>>

(* A 4xx (a 404 if the dataset is gone), or no retry left: ConnectorError. *)
Refused(c, done) ==
    /\ call[c].pc \in Wire
    /\ IF Possible(c) THEN faults < MaxFaults /\ faults' = faults + 1 ELSE UNCHANGED faults
    /\ done => Possible(c) /\ Effect(c) # datasets /\ call[c].tries = MaxRetries
    /\ datasets' = IF done THEN Effect(c) ELSE datasets
    /\ call' = Touch(datasets', c,
                     Recover([call[c] EXCEPT !.tries = 0, !.twice = @ \/ Repeats(c, done)]))
    /\ UNCHANGED <<artifacts, delivered, attested, answer, past>>

(* The transport raises (requests' exceptions are not ConnectorErrors), or *)
(* the runner dies: no recovery runs.                                      *)
Broken(c, done) ==
    /\ faults < MaxFaults /\ faults' = faults + 1
    /\ call[c].pc \in Wire
    /\ done => Possible(c) /\ Effect(c) # datasets
    /\ datasets' = IF done THEN Effect(c) ELSE datasets
    /\ call' = Touch(datasets', c, [call[c] EXCEPT !.pc = "failed", !.broken = TRUE])
    /\ UNCHANGED <<artifacts, delivered, attested, answer, past>>

-----------------------------------------------------------------------------
Core(c) ==
    \/ \E x \in Content : ReadRevisions(c, x)
    \/ InsertRevision(c)
    \/ PrepareDelivery(c)
    \/ PrepareAttestation(c)
    \/ Record(c)
    \/ ReportFailure(c)
    \/ AwaitTimeout(c)

Adapter(c) ==
    \/ \E ds \in DOMAIN datasets \cup {0} : Answered(c, ds)
    \/ \E done \in BOOLEAN : Retried(c, done) \/ Refused(c, done) \/ Broken(c, done)

Next == \E c \in Call : Core(c) \/ Adapter(c)

Spec == Init /\ [][Next]_vars

-----------------------------------------------------------------------------
(* Properties                                                              *)

DeliveryTypeOK ==
    /\ artifacts \in Seq(Content)
    /\ delivered \in [rev : Nat, by : Deliver \cup {None}]
    /\ attested \subseteq Nat \X (Deliver \cup {None})
    /\ \A i \in DOMAIN datasets : datasets[i] # Absent =>
         datasets[i].table \in [Table -> TableState]
    /\ \A c \in Call : /\ call[c].pc \in Phase /\ call[c].mode \in Mode
                        /\ call[c].content \in Content \cup {None}
                        /\ call[c].at \in Table /\ call[c].batch \in Batch
                        /\ call[c].tries \in 0 .. MaxRetries
    /\ answer \in [Call -> Refusals \cup {"none", "ok", "error", "failed", "inconsistent",
                                          "timeout", "revalidate_required"}]

Complete(c) ==
    \A t \in Table : datasets[call[c].ds].table[t] =
                        [schema |-> SchemaOf[call[c].content], rows |-> Full(c)]

(* One content has one revision, although the revisions are read and the   *)
(* new one inserted in two queries: publish.ts relies on the primary key   *)
(* of report_artifacts to turn down the second of two racing calls.        *)
RevisionsUnique ==
    \A r, q \in DOMAIN artifacts : artifacts[r] = artifacts[q] => r = q

(* "Re-delivering this revision will converge the model" (_restore): a     *)
(* delivery that succeeds leaves every table with its schema and exactly   *)
(* its rows, whatever half-new state earlier deliveries left behind, as    *)
(* long as no other delivery runs into it and no post is executed twice.   *)
RedeliveryConverges ==
    \A c \in Deliver : call[c].pc = "succeeded" /\ Undisturbed(c) => Complete(c)

(* A row replacement that fails, reports no inconsistency and restores     *)
(* from what the model did hold (_restore) has lost at most the rows of    *)
(* the one table whose request failed.                                     *)
LossConfined ==
    \A c \in Deliver :
       LET s == call[c]
           was == s.before[s.ds].table IN
       /\ s.pc = "failed" /\ s.hurt > 0 /\ ~s.loud /\ ~s.broken /\ Undisturbed(c)
       /\ \A t \in Table : s.prev # None => was[t].rows = Full(s.prev)
       => \A t \in Table \ {s.hurt} : datasets[s.ds].table[t].rows = was[t].rows

(* A first delivery that fails, and is not reported as inconsistent,       *)
(* leaves the model absent or complete: _create removes what it made.      *)
NoPartialFirstModel ==
    \A c \in Deliver :
       LET s == call[c] IN
       s.pc = "failed" /\ s.mode = "fill" /\ ~s.loud /\ ~s.broken /\ Undisturbed(c)
       => datasets[s.ds] = Absent \/ Complete(c)

(* An attestation names a delivery that was recorded, of the revision it   *)
(* attests, even when later deliveries replace the record while the attest *)
(* job is awaited (publish.ts checks before the wait, writes after it).    *)
AttestedWasDelivered ==
    \A a \in attested : /\ a[1] \in past
                        /\ a[2] \in Deliver
                        /\ call[a[2]].rev = a[1] /\ answer[a[2]] = "ok"

(* What publisher.py says of itself: a delivery that fails without the     *)
(* loud report leaves the model complete or as it was.                     *)
CompleteOrPrevious ==
    \A c \in Deliver :
       LET s == call[c] IN
       s.pc = "failed" /\ ~s.loud /\ ~s.broken /\ Undisturbed(c) /\ s.ds > 0
       => datasets[s.ds] = Absent \/ datasets = s.before \/ Complete(c)
=============================================================================
