----------------------------- MODULE JobEngine -----------------------------
(***************************************************************************)
(* What a runner does with one job (connectors/sdk/runner.py) and what the *)
(* connectors do for it: Postgres (connectors/postgres), GA4               *)
(* (connectors/ga4) and Search Console (connectors/gsc), each against a    *)
(* source that answers as it likes and changes at any time.                *)
(*                                                                         *)
(* A job is a script of steps.  A step succeeds, goes on, or raises one of *)
(* the faults its code can raise; the engine turns a fault into the job's  *)
(* outcome according to the type of the job.                               *)
(***************************************************************************)
EXTENDS QuotaBucket, FiniteSets, FiniteSetsExt

CONSTANTS
    JobKinds,       \* jobs to run: [type, conn, ask, stmt]
    DefaultCap,     \* Guardrails.row_cap
    MaxCap,         \* Guardrails.MAX_ROW_CAP
    PageSize,       \* MAX_PAGE_SIZE of the API executors
    FetchBatch,     \* FETCH_BATCH of the Postgres executor
    MaxRetries,     \* QuotaPolicy.max_retries
    BackoffCap,     \* QuotaPolicy.backoff_cap_s, in ticks
    MaxRows,        \* bound on the rows a source has
    ListPages,      \* pages of a GA4 list
    MaxNow          \* bound on the clock

ASSUME EngineAssumption ==
    /\ DefaultCap \in Nat \ {0} /\ MaxCap \in Nat \ {0} /\ PageSize \in Nat \ {0}
    /\ FetchBatch \in Nat \ {0} /\ MaxRetries \in Nat /\ BackoffCap \in Nat
    /\ MaxRows \in Nat /\ ListPages \in Nat \ {0} /\ MaxNow \in Nat

(* The connectors in the repository and the jobs they serve.               *)
ASSUME KindsAssumption ==
    \A j \in JobKinds :
        /\ j.ask \in Int
        /\ \/ j.type = "snapshot" /\ j.conn \in {"postgres", "ddl", "ga4", "gsc"}
           \/ j.type = "execute" /\ j.conn \in {"postgres", "ga4", "gsc"}
           \/ j.type = "publish" /\ j.conn = "powerbi"
           \/ /\ j.type = "test_connection"
              /\ j.conn \in {"postgres", "ddl", "ga4", "gsc", "powerbi"}

VARIABLES
    job,            \* the job
    st,             \* where the engine is
    source,         \* rows a query finds, and what the role may do
    out             \* the JobOutcome

vars == <<now, bucket, job, st, source, out>>

Role == {"reader", "writer", "super"}
Fault == {"config", "auth", "unavailable", "quota", "guardrail", "emission", "crash", "unfinished"}

-----------------------------------------------------------------------------
(* Scripts                                                                 *)

(* Guardrails.parse: the ask is floored by a default and capped.           *)
RowCap(ask) == IF ask <= 0 THEN DefaultCap ELSE Min({ask, MaxCap})

Steps(cap, seq) == [i \in DOMAIN seq |-> [do |-> seq[i], cap |-> cap]]

(* The handlers of a connector; "ddl" is Postgres in its ddl-file mode.    *)
Capabilities(conn) ==
    CASE conn = "powerbi" -> {"publish"}
      [] conn = "ddl"     -> {"metadata"}
      [] OTHER            -> {"metadata", "query"}

(* introspect_connection: one query after the other, each on its own.      *)
CatalogReads == <<"relations", "columns", "keys", "indexes", "checks">>

(* introspect of the metadata providers.                                   *)
PostgresIntrospection == <<"dsn", "open", "superuser">> \o CatalogReads
DdlIntrospection == <<"files", "docker_run", "ready", "apply", "open">> \o CatalogReads
Ga4Introspection == <<"key", "get", "get", "list", "list", "list", "list">>
GscIntrospection == <<"key", "get", "site">>

Introspection(conn) ==
    CASE conn = "postgres" -> PostgresIntrospection
      [] conn = "ddl"      -> DdlIntrospection
      [] conn = "ga4"      -> Ga4Introspection
      [] conn = "gsc"      -> GscIntrospection

(* execute of the query executors.                                         *)
PostgresExecution == <<"statement", "dsn", "connect", "grants", "stream">>
ApiExecution == <<"operation", "key", "page">>

(* preflight of the metadata providers, of the executors and of a          *)
(* publisher.                                                              *)
PostgresPreflight == <<"dsn", "open", "superuser">>
Ga4Preflight == <<"key", "get">>
GscPreflight == <<"key", "get", "site">>
ExecutorPreflight(conn) ==
    IF conn = "postgres" THEN <<"dsn", "connect", "grants">> ELSE <<"property">>

Preflight(conn, cap) ==
    CASE cap = "query"   -> ExecutorPreflight(conn)
      [] cap = "publish" -> <<"publisher">>
      [] cap = "metadata" /\ conn = "postgres" -> PostgresPreflight
      [] cap = "metadata" /\ conn = "ddl"      -> <<"files">>
      [] cap = "metadata" /\ conn = "ga4"      -> Ga4Preflight
      [] cap = "metadata" /\ conn = "gsc"      -> GscPreflight

(* run_job.                                                                *)
SnapshotScript(conn) == Steps("metadata", <<"config">> \o Introspection(conn) \o <<"emit">>)

(* _run_execute.                                                           *)
ExecuteScript(conn) ==
    LET work == IF conn = "postgres" THEN PostgresExecution ELSE ApiExecution IN
    Steps("query", <<"request">> \o work \o <<"serialize">>)

(* _run_publish.                                                           *)
PublishScript == Steps("publish", <<"artifact", "publisher", "human_steps", "serialize">>)

(* A capability without a handler is passed over.                          *)
Probed(conn, cap) ==
    IF cap \in Capabilities(conn) THEN Steps(cap, Preflight(conn, cap)) ELSE <<>>

(* _run_test_connection: the config gate, then PROBED_CAPABILITIES.        *)
ProbeScript(conn) ==
    Steps("config", <<"probe_config">>)
        \o Probed(conn, "metadata") \o Probed(conn, "query") \o Probed(conn, "publish")

Script(j) ==
    CASE j.type = "snapshot"        -> SnapshotScript(j.conn)
      [] j.type = "execute"         -> ExecuteScript(j.conn)
      [] j.type = "publish"         -> PublishScript
      [] j.type = "test_connection" -> ProbeScript(j.conn)

-----------------------------------------------------------------------------
(* Outcomes                                                                *)

(* The error classes of the taxonomy: their codes ...                      *)
Code(fault) ==
    CASE fault = "config"      -> "config_error"
      [] fault = "auth"        -> "auth_error"
      [] fault = "unavailable" -> "source_unavailable"
      [] fault = "emission"    -> "validation_error"
      [] fault \in {"crash", "unfinished"} -> "internal"
      [] OTHER                 -> fault

(* ... and whether the queue may try the job again.                        *)
Retryable(fault) == fault \in {"unavailable", "quota", "crash"}

Running == [status |-> "running", code |-> "none", retryable |-> FALSE]
Failed(code, retryable) == [status |-> "failed", code |-> code, retryable |-> retryable]
Succeeded == [status |-> "succeeded", code |-> "none", retryable |-> FALSE]

(* Quota defers a snapshot and ends an interactive job for good; every     *)
(* other fault fails the job under its own code.                           *)
OutcomeOf(type, fault) ==
    CASE fault = "quota" /\ type = "snapshot" ->
            [status |-> "deferred", code |-> "quota", retryable |-> TRUE]
      [] fault = "quota" /\ type # "snapshot" -> Failed("guardrail", FALSE)
      [] OTHER -> Failed(Code(fault), Retryable(fault))

Start == [at |-> 1, tries |-> 0, until |-> 0, page |-> 1, offset |-> 0, rows |-> 0,
          truncated |-> FALSE, seen |-> 0, open |-> FALSE, requests |-> 0, checks |-> {},
          container |-> "none"]

Init ==
    /\ BucketInit
    /\ job \in JobKinds
    /\ st = Start
    /\ source \in [rows : IF job.type = "execute" THEN 0 .. MaxRows ELSE {0},
                   role : IF job.conn = "postgres" THEN Role ELSE {"reader"},
                   pages : IF job.conn = "ga4" THEN 1 .. ListPages ELSE {1}]
    /\ out = Running

-----------------------------------------------------------------------------
(* The engine                                                              *)

Step == Script(job)[st.at]
At(do) == out.status = "running" /\ Step.do = do

(* docker rm --force, whose exit status nobody looks at: the container is  *)
(* gone or it is kept.                                                     *)
Removed(s) == {[s EXCEPT !.container = c] : c \in {"none", "kept"}}

(* Mutant: the container is removed when all went well.                    *)
LeftOnSuccess(s) ==
    IF s.container = "up" /\ Script(job)[s.at].do = "checks" THEN Removed(s) ELSE {s}

(* ephemeral_postgres removes its container on the way out, with the last  *)
(* catalog read or with an exception.                                      *)
Left(s) == IF s.container = "up" THEN Removed(s) ELSE {s}

(* The step after this one; the probe notes what a capability's last step  *)
(* showed.  A docker rm that times out after the last read is the crash    *)
(* that this read may raise (CatalogFaults).                               *)
GoOn(s, check) ==
    LET steps == Script(job)
        last_of_cap == s.at = Len(steps) \/ steps[s.at + 1].cap # steps[s.at].cap IN
    /\ \E t \in IF steps[s.at].do = "checks" THEN Left(s) ELSE {s} :
         st' = [t EXCEPT !.at = @ + 1, !.tries = 0, !.page = 1,
                         !.checks = IF last_of_cap THEN @ \cup {<<steps[s.at].cap, check>>} ELSE @]
    /\ out' = IF s.at = Len(steps) THEN Succeeded ELSE out


(* The probe takes quota for a warning and looks at the next capability.   *)
Warn(s) ==
    LET steps == Script(job)
        rest == {i \in DOMAIN steps : i > s.at /\ steps[i].cap # steps[s.at].cap} IN
    /\ st' = [s EXCEPT !.at = IF rest = {} THEN Len(steps) + 1 ELSE Min(rest),
                       !.tries = 0, !.page = 1, !.checks = @ \cup {<<steps[s.at].cap, "warn">>}]
    /\ out' = IF rest = {} THEN Succeeded ELSE out

(* An exception: the probe goes on after quota, everything else ends.  A   *)
(* docker rm that times out on the way out takes the exception's place.    *)
Raise(s, fault) ==
    IF job.type = "test_connection" /\ fault = "quota"
    THEN Warn(s)
    ELSE \E t \in Left(s), f \in {fault} \cup (IF s.container = "up" THEN {"crash"} ELSE {}) :
           st' = t /\ out' = OutcomeOf(job.type, f)

-----------------------------------------------------------------------------
(* Steps that succeed or raise                                             *)

(* No handler, or a config, a request or an artifact the engine refuses.   *)
ConfigFaults == {"config"}
ProbeConfigFaults == {"config"}
RequestFaults == {"config"}
ArtifactFaults == {"config"}

(* The DSN and the two ways to connect with one: a DSN that is missing or  *)
(* malformed, a refused login, no server.                                  *)
DsnFaults == {"config"}
ConnectFaults == {"config", "auth", "unavailable"}
OpenFaults == {"config", "auth", "unavailable"}

(* Reading the catalogs: the connection is lost, or a relation is gone by  *)
(* the time its keys are read.                                             *)
CatalogFaults == {"unavailable", "crash"}

(* The throw-away container of the ddl-file mode: no port, no answer, a    *)
(* rejected file; a docker command that times out.                         *)
FilesFaults == {"config"}
ReadyFaults == {"unavailable", "crash"}
ApplyFaults == {"config", "crash"}

(* The service-account key of an API connector: a reference that does not  *)
(* resolve, a key that is none; what its reading raises by itself.         *)
Ga4KeyFaults == {"config", "crash"}
GscKeyFaults == {"config", "crash"}

(* The wrong dialect; an operation, a dimension or a date range that is    *)
(* not documented.                                                         *)
Ga4OperationFaults == {"config", "guardrail"}
GscOperationFaults == {"config", "guardrail"}

(* The property is not the one asked for, or not verified; no property in  *)
(* the config.                                                             *)
SiteFaults == {"unavailable"}
PropertyFaults == {"config"}

(* Hashing, validating and serialising the snapshot, all or nothing.       *)
EmitFaults == {"emission"}

(* A publisher, which is an adapter of its own; a result that a human has  *)
(* to complete and that does not say how; a value that cannot be encoded.  *)
PublisherFaults == {"config", "auth", "unavailable", "quota", "crash"}
HumanStepsFaults == {"unfinished"}
SerializeFaults == {"crash"}

FaultsOf(do) ==
    CASE do = "config"       -> ConfigFaults
      [] do = "probe_config" -> ProbeConfigFaults
      [] do = "request"      -> RequestFaults
      [] do = "artifact"     -> ArtifactFaults
      [] do = "dsn"          -> DsnFaults
      [] do = "connect"      -> ConnectFaults
      [] do = "open"         -> OpenFaults
      [] do \in Range(CatalogReads) -> CatalogFaults
      [] do = "files"        -> FilesFaults
      [] do = "ready"        -> ReadyFaults
      [] do = "apply"        -> ApplyFaults
      [] do = "key"          -> IF job.conn = "ga4" THEN Ga4KeyFaults ELSE GscKeyFaults
      [] do = "operation"    -> IF job.conn = "ga4" THEN Ga4OperationFaults ELSE GscOperationFaults
      [] do = "site"         -> SiteFaults
      [] do = "property"     -> PropertyFaults
      [] do = "emit"         -> EmitFaults
      [] do = "publisher"    -> PublisherFaults
      [] do = "human_steps"  -> HumanStepsFaults
      [] do = "serialize"    -> SerializeFaults
      [] OTHER               -> {}

(* An adapter without a preflight says that nothing was probed.            *)
Verdicts(do) == IF do = "publisher" THEN {"pass", "unprobed"} ELSE {"pass"}

StepPasses ==
    /\ out.status = "running" /\ FaultsOf(Step.do) # {}
    /\ \E check \in Verdicts(Step.do) : GoOn(st, check)
    /\ UNCHANGED <<now, bucket, job, source>>

StepRaises(fault) ==
    /\ out.status = "running" /\ fault \in FaultsOf(Step.do)
    /\ Raise(st, fault)
    /\ UNCHANGED <<now, bucket, job, source>>

(* check_introspection_role: no superuser.  Its query, as those of the     *)
(* next check, has nobody to catch a connection lost.                      *)
CheckSuperuser ==
    /\ At("superuser")
    /\ \/ Raise(st, "crash")
       \/ IF source.role = "super" THEN Raise(st, "config") ELSE GoOn(st, "pass")
    /\ UNCHANGED <<now, bucket, job, source>>

(* check_role_is_readonly: no attribute and no grant that can write.       *)
CheckGrants ==
    /\ At("grants")
    /\ \/ Raise(st, "crash")
       \/ IF source.role # "reader" THEN Raise(st, "config") ELSE GoOn(st, "pass")
    /\ UNCHANGED <<now, bucket, job, source>>

(* docker run: a container, none (no docker, a refusal, or a command that  *)
(* cannot be run at all), or one that the daemon starts after the command  *)
(* has timed out.                                                          *)
DockerRun(result) ==
    /\ At("docker_run") /\ result \in {"up", "none", "late"}
    /\ LET s == [st EXCEPT !.container = result] IN
         CASE result = "up"   -> GoOn(s, "pass")
           [] result = "late" -> Raise(s, "unavailable")
           [] result = "none" -> Raise(s, "unavailable") \/ Raise(s, "crash")
    /\ UNCHANGED <<now, bucket, job, source>>

-----------------------------------------------------------------------------
(* A SQL statement                                                         *)

(* The executor's own statement check refuses what is plainly a write; a   *)
(* statement that writes through a function passes it.                     *)
CheckStatement ==
    /\ At("statement")
    /\ \/ Raise(st, "config")
       \/ IF job.stmt = "write" THEN Raise(st, "guardrail") ELSE GoOn(st, "pass")
    /\ UNCHANGED <<now, bucket, job, source>>

(* The statement is executed in a READ ONLY transaction, whatever the role *)
(* has been granted by now: one that writes is refused.                    *)
OpenCursor ==
    /\ At("stream") /\ ~st.open
    /\ IF job.stmt # "select"
       THEN Raise(st, "guardrail")
       ELSE st' = [st EXCEPT !.open = TRUE, !.seen = source.rows] /\ UNCHANGED out
    /\ UNCHANGED <<now, bucket, job, source>>

(* The timeout, an object the schema lacks, a syntax error; a lost         *)
(* connection; any other error of the server, a division by zero say.      *)
CursorFails(fault) ==
    /\ At("stream") /\ fault \in {"guardrail", "unavailable", "crash"}
    /\ Raise(st, fault)
    /\ UNCHANGED <<now, bucket, job, source>>

(* One fetchmany of _stream: at most one row beyond the cap is pulled.     *)
FetchMany ==
    LET cap == RowCap(job.ask)
        batch == Min({FetchBatch, cap + 1 - st.rows, st.seen - st.rows})
        kept == Min({batch, cap - st.rows})
        s == [st EXCEPT !.rows = @ + kept, !.truncated = batch > kept] IN
    /\ At("stream") /\ st.open
    /\ IF batch = 0 \/ batch > kept THEN GoOn(s, "pass") ELSE st' = s /\ UNCHANGED out
    /\ UNCHANGED <<now, bucket, job, source>>

-----------------------------------------------------------------------------
(* Requests to the APIs                                                    *)

Answer == {"ok", "malformed", "throttled", "error", "denied", "rejected", "odd"}

Calling == out.status = "running" /\ Step.do \in {"get", "list", "page"}

(* Requests that get no answer.                                            *)
Unanswered == {"bad_key", "unreachable"}

(* backoff_delays, without the jitter.                                     *)
Delay(n) == Min({2 ^ n, BackoffCap})

(* Mutant: one retry too many.                                             *)
RetriesOneMore(answer) == answer \in {"throttled", "error"} /\ st.tries <= MaxRetries

(* _json_call: throttling and server errors are retried after a delay, as  *)
(* often as the policy allows.                                             *)
Retries(answer) == answer \in {"throttled", "error"} /\ st.tries < MaxRetries

(* What an answer raises that is neither good nor retried; a query takes a *)
(* rejected GA4 request for a field that does not exist.                   *)
FaultIn(answer) ==
    CASE answer = "throttled"            -> "quota"
      [] answer \in {"denied", "bad_key"} -> "auth"
      [] answer = "rejected"             -> IF Step.do = "page" /\ job.conn = "ga4"
                                            THEN "guardrail" ELSE "config"
      [] OTHER                           -> "unavailable"

(* GA4Client.paginate: the next page while there is a token for it.        *)
Listed(s) ==
    IF s.page < source.pages
    THEN st' = [s EXCEPT !.page = @ + 1, !.tries = 0] /\ UNCHANGED out
    ELSE GoOn(s, "pass")

(* Mutant: pages are asked for until the cap is filled.                    *)
ExhaustedNever(got, size) == FALSE

(* A short page is the last one.                                           *)
Exhausted(got, size) == got < size

(* Mutant: the last page is not asked for one row more.                    *)
AskedExactly(cap, rows) == Min({cap - rows, PageSize})

(* One row more than is missing, so that the cap shows, but no more than a *)
(* page holds.                                                             *)
Asked(cap, rows) == Min({cap - rows + 1, PageSize})

(* One page of an execute: rows up to the cap, and whether there are more. *)
Paged(s) ==
    LET cap == RowCap(job.ask)
        size == Asked(cap, s.rows)
        got == Min({size, Max({source.rows - s.offset, 0})})
        kept == Min({got, cap - s.rows})
        t == [s EXCEPT !.rows = @ + kept, !.truncated = got > kept, !.seen = source.rows,
                       !.offset = @ + got, !.tries = 0]
        counted == job.conn = "ga4" /\ t.offset >= source.rows IN
    IF t.truncated \/ Exhausted(got, size) \/ counted \/ t.rows >= cap
    THEN GoOn(t, "pass")
    ELSE st' = t /\ UNCHANGED out

(* GA4 requests wait for a token, Search Console requests do not.          *)
Pace ==
    /\ Calling /\ job.conn = "ga4" /\ now >= st.until
    /\ Sleep
    /\ UNCHANGED <<now, job, st, source, out>>

(* One request and its answer.                                             *)
Request(answer) ==
    LET s == [st EXCEPT !.requests = @ + 1] IN
    /\ Calling /\ now >= st.until
    /\ IF job.conn = "ga4" THEN Acquire ELSE UNCHANGED bucket
    /\ CASE Retries(answer) ->
              /\ st' = [s EXCEPT !.tries = @ + 1, !.until = now + Delay(st.tries)]
              /\ UNCHANGED out
         [] answer = "ok" /\ Step.do = "get"  -> GoOn(s, "pass")
         [] answer = "ok" /\ Step.do = "list" -> Listed(s)
         [] answer = "ok" /\ Step.do = "page" -> Paged(s)
         [] OTHER -> Raise(s, FaultIn(answer))
    /\ UNCHANGED <<now, job, source>>

-----------------------------------------------------------------------------
(* The source                                                              *)

ChangeRows(n) ==
    /\ out.status = "running" /\ job.type = "execute"
    /\ source' = [source EXCEPT !.rows = n]
    /\ UNCHANGED <<now, bucket, job, st, out>>

ChangeRole(role) ==
    /\ out.status = "running" /\ job.conn = "postgres"
    /\ source' = [source EXCEPT !.role = role]
    /\ UNCHANGED <<now, bucket, job, st, out>>

Passes ==
    /\ out.status = "running" /\ now < MaxNow
    /\ Tick
    /\ UNCHANGED <<job, st, source, out>>

Next ==
    \/ StepPasses
    \/ \E f \in Fault : StepRaises(f) \/ CursorFails(f)
    \/ \E c \in {"up", "none", "late"} : DockerRun(c)
    \/ CheckSuperuser
    \/ CheckGrants
    \/ CheckStatement
    \/ OpenCursor
    \/ FetchMany
    \/ Pace
    \/ \E a \in Answer \cup Unanswered : Request(a)
    \/ \E n \in 0 .. MaxRows : ChangeRows(n)
    \/ \E r \in Role : ChangeRole(r)
    \/ Passes

Spec == Init /\ [][Next]_vars

-----------------------------------------------------------------------------
(* Properties                                                              *)

(* Every variable has the type its declaration states; the rows a job      *)
(* holds never exceed its cap, nor its retries the policy (Guardrails,     *)
(* QuotaPolicy).                                                           *)
EngineTypeOK ==
    /\ now \in 0 .. MaxNow /\ level \in 0 .. Capacity /\ last \in 0 .. now
    /\ wake \in {Awake} \cup Nat /\ sent \in Seq(0 .. MaxNow)
    /\ job \in JobKinds
    /\ source \in [rows : 0 .. MaxRows, role : Role, pages : 1 .. ListPages]
    /\ st.at \in 1 .. Len(Script(job)) + 1 /\ st.tries \in 0 .. MaxRetries
    /\ st.rows \in 0 .. RowCap(job.ask) /\ st.truncated \in BOOLEAN /\ st.open \in BOOLEAN
    /\ out.status \in {"running", "succeeded", "failed", "deferred"}

Answered == out.status = "succeeded" /\ job.type = "execute"

(* The cap bounds the requests made, not just the rows returned            *)
(* (GA4Executor, GscExecutor): a query costs no more calls than the pages  *)
(* its cap needs, each with its retries, whatever the source answers and   *)
(* however it grows meanwhile.                                             *)
RequestsBounded ==
    job.type = "execute" =>
        st.requests <= (MaxRetries + 1) * (RowCap(job.ask) \div PageSize + 1)

(* Unless the cap is a whole number of pages, an answer says it was cut    *)
(* exactly when the source, as last seen, has more rows than the cap, and  *)
(* it holds no more than the cap (_stream, GA4Executor, GscExecutor).      *)
TruncatedIffMore ==
    Answered /\ (job.conn = "postgres" \/ RowCap(job.ask) % PageSize # 0) =>
        (st.truncated <=> st.seen > RowCap(job.ask))

(* No job ends with a container it has not tried to remove, wherever it    *)
(* failed (ephemeral_postgres: always remove it).  The removal may fail    *)
(* unnoticed, and nobody knows of a container that came up after           *)
(* `docker run` had timed out, so a failed job may leave either behind.    *)
RemovalTried == out.status # "running" => st.container # "up"


(* `truncated` is an explicit fact, never silent (ExecuteResult).          *)
TruncationNeverSilent == Answered /\ st.seen > RowCap(job.ask) => st.truncated
=============================================================================
