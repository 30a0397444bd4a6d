-------------------------- MODULE JobEngineProofs --------------------------
(***************************************************************************)
(* The safety properties of the job engine, for every cap, page size,      *)
(* retry policy and source.                                                *)
(*                                                                         *)
(* The requests of a job are paced because the engine does nothing to the  *)
(* bucket but what the bucket allows.  For the rest a job is followed      *)
(* along its script: a query holds nothing before it reaches the step that *)
(* reads rows, has read whole pages and spent its requests on them while   *)
(* it is there, and tells the truth about the rest of the rows from there  *)
(* on; a container is up only between the step that starts it and the last *)
(* step that reads from it.                                                *)
(***************************************************************************)
EXTENDS JobEngine, SequenceTheorems, WellFoundedInduction, TLAPS

-----------------------------------------------------------------------------
(* The bucket                                                              *)
(*                                                                         *)
(* The argument is an account: what the requests since the i-th one have   *)
(* cost, plus what is in the bucket, is never more than a full bucket plus *)
(* what accrued between the i-th request and the last filling.             *)

(* The requests from the i-th on are paid for.                             *)
PaidFor(i) ==
    (Len(sent) - i + 1) * Gap + level <= Capacity + (last - sent[i])

(* PacedCalls, its types, the account for every request so far, and that a *)
(* sleep is as long as what is missing takes to accrue.                    *)
BucketInv ==
    /\ now \in Nat /\ level \in 0 .. Capacity /\ last \in 0 .. now
    /\ sent \in Seq(Nat)
    /\ wake \in Int /\ (wake # Awake => wake >= last + (Gap - level))
    /\ \A i \in DOMAIN sent : sent[i] <= last /\ PaidFor(i)
    /\ PacedCalls

(* The capacity is a natural number that holds at least one token.         *)
LEMMA CapacityNat == Capacity \in Nat /\ Gap \in Nat \ {0} /\ Capacity >= Gap
<1>1. Burst \in Nat \ {0} /\ Gap \in Nat \ {0} BY BucketAssumption
<1>2. Burst * Gap \in Nat /\ Burst * Gap >= Gap BY <1>1
<1> QED BY <1>1, <1>2 DEF Capacity

(* What acquire finds is no more than what was there and what accrued.     *)
LEMMA FilledBounds ==
    ASSUME BucketInv
    PROVE  /\ Filled \in 0 .. Capacity
           /\ Filled <= level + (now - last)
BY CapacityNat DEF BucketInv, Filled

(* Moving the account from the time f to the time t, over which no more    *)
(* than t - f accrues.                                                     *)
LEMMA AccountMoves ==
    ASSUME NEW c \in Int, NEW g \in Int, NEW l \in Int, NEW m \in Int, NEW cap \in Int,
           NEW f \in Int, NEW t \in Int, NEW s \in Int,
           c + l <= cap + (f - s), m + g <= l + (t - f)
    PROVE  c + g + m <= cap + (t - s)
OBVIOUS

(* A request at the current time keeps the account when the bucket pays    *)
(* for it out of what has accrued.                                         *)
LEMMA RequestPaid ==
    ASSUME BucketInv, sent' = Append(sent, now), last' = now, now' = now,
           level' \in 0 .. Capacity, wake' = Awake,
           level' + Gap <= level + (now - last), level' + Gap <= Capacity
    PROVE  BucketInv'
<1> DEFINE n == Len(sent)
<1>1. /\ sent' \in Seq(Nat) /\ Len(sent') = n + 1 /\ n \in Nat
      /\ \A i \in 1 .. n : sent'[i] = sent[i]
      /\ sent'[n + 1] = now
      /\ DOMAIN sent = 1 .. n /\ DOMAIN sent' = 1 .. n + 1
  BY DEF BucketInv
<1>3. ASSUME NEW i \in 1 .. n
      PROVE  /\ sent'[i] \in Nat /\ sent'[i] <= last'
             /\ (n + 1 - i + 1) * Gap + level' <= Capacity + (last' - sent'[i])
  <2>0. i \in DOMAIN sent /\ sent \in Seq(Nat) BY <1>1 DEF BucketInv
  <2>1. /\ sent[i] \in Nat /\ sent[i] <= last
        /\ (n - i + 1) * Gap + level <= Capacity + (last - sent[i])
    BY <2>0, SMTT(30) DEF BucketInv, PaidFor
  <2>2. (n + 1 - i + 1) * Gap = (n - i + 1) * Gap + Gap
    BY CapacityNat, <1>1
  <2>3. (n - i + 1) * Gap \in Int
    BY CapacityNat, <1>1
  <2> DEFINE c == (n - i + 1) * Gap
  <2>4. c \in Int /\ c + level <= Capacity + (last - sent[i])
    BY <2>1, <2>3
  <2>5. now \in Nat /\ last \in 0 .. now /\ level \in Int /\ level' \in Int
    BY CapacityNat DEF BucketInv
  <2> HIDE DEF c
  <2>6. c + Gap + level' <= Capacity + (now - sent[i])
    <3>1. PICK l \in Int, m \in Int, f \in Int, t \in Int, s \in Int, cap \in Int, g \in Int :
              /\ l = level /\ m = level' /\ f = last /\ t = now
              /\ s = sent[i] /\ cap = Capacity /\ g = Gap
      BY <2>1, <2>5, CapacityNat
    <3>2. c + l <= cap + (f - s) /\ m + g <= l + (t - f)
      BY <2>4, <3>1
    <3>3. c + g + m <= cap + (t - s)
      BY <2>4, <3>2, AccountMoves
    <3> QED BY <3>1, <3>3
  <2> QED BY <2>1, <2>2, <2>5, <2>6, <1>1 DEF c
<1>4. (n + 1 - (n + 1) + 1) * Gap + level' <= Capacity + (last' - sent'[n + 1])
  <2>1. n + 1 - (n + 1) + 1 = 1 BY <1>1
  <2>2. PICK g \in Int, m \in Int, cap \in Int, t \in Int :
            g = Gap /\ m = level' /\ cap = Capacity /\ t = now
    BY CapacityNat DEF BucketInv
  <2>3. m + g <= cap BY <2>2
  <2>4. 1 * g + m <= cap + (t - t) BY <2>3
  <2> QED BY <2>1, <2>2, <2>4, <1>1
<1>5. \A i \in DOMAIN sent' : sent'[i] <= last' /\ PaidFor(i)'
  BY <1>1, <1>3, <1>4 DEF PaidFor, BucketInv
<1>6. PacedCalls'
  <2> SUFFICES ASSUME NEW i \in 1 .. n + 1, NEW j \in 1 .. n + 1, i <= j
               PROVE  (j - i + 1) * Gap <= Capacity + (sent'[j] - sent'[i])
    BY <1>1 DEF PacedCalls, Capacity
  <2>1. CASE j <= n
    <3>1. i \in 1 .. n /\ j \in 1 .. n BY <2>1, <1>1
    <3>2. (j - i + 1) * Gap <= Capacity + (sent[j] - sent[i])
      BY <3>1, <1>1 DEF BucketInv, PacedCalls
    <3> QED BY <3>1, <3>2, <1>1
  <2>2. CASE j = n + 1 /\ i <= n
    <3>1. (n + 1 - i + 1) * Gap + level' <= Capacity + (now - sent'[i]) /\ sent'[i] \in Nat
      BY <1>3, <2>2, <1>1
    <3> DEFINE d == (n + 1 - i + 1) * Gap
    <3>2. d \in Int BY <1>1, CapacityNat
    <3>3. d + level' <= Capacity + (now - sent'[i]) BY <3>1
    <3> HIDE DEF d
    <3>4. level' >= 0 /\ level' \in Int /\ now \in Int BY CapacityNat DEF BucketInv
    <3>5. d <= Capacity + (now - sent'[i])
      <4>1. PICK m \in Int, cap \in Int, t \in Int, s \in Int :
                m = level' /\ cap = Capacity /\ t = now /\ s = sent'[i]
        BY <3>1, <3>4, CapacityNat
      <4>2. d + m <= cap + (t - s) /\ m >= 0 BY <3>3, <3>4, <4>1
      <4>3. d <= cap + (t - s) BY <3>2, <4>2
      <4> QED BY <4>1, <4>3
    <3> QED BY <3>5, <2>2, <1>1 DEF d
  <2>3. CASE j = n + 1 /\ i = n + 1
    <3>1. j - i + 1 = 1 BY <2>3, <1>1
    <3> QED BY <3>1, <2>3, <1>1, CapacityNat DEF BucketInv
  <2> QED BY <2>1, <2>2, <2>3, <1>1
<1> QED BY <1>1, <1>5, <1>6, CapacityNat DEF BucketInv, Awake

(* The initial bucket is full and nothing was sent.                        *)
LEMMA BucketInvInit == BucketInit => BucketInv
BY CapacityNat DEF BucketInit, BucketInv, PacedCalls, Awake

(* Every step of the bucket and of the clock keeps the account.            *)
LEMMA BucketInvStep == BucketInv /\ [BucketNext]_<<now, bucket>> => BucketInv'
<1> SUFFICES ASSUME BucketInv, [BucketNext]_<<now, bucket>> PROVE BucketInv'
  OBVIOUS
<1>1. CASE Take /\ UNCHANGED now
  <2>1. level' \in 0 .. Capacity /\ level' + Gap <= level + (now - last)
            /\ level' + Gap <= Capacity
    BY <1>1, FilledBounds, CapacityNat DEF Take, BucketInv
  <2> QED BY <1>1, <2>1, RequestPaid DEF Take
<1>2. CASE Wake /\ UNCHANGED now
  <2>1. level' = 0 /\ Gap <= level + (now - last)
    BY <1>2, CapacityNat DEF Wake, BucketInv
  <2> QED BY <1>2, <2>1, RequestPaid, CapacityNat DEF Wake, Woken
<1>3. CASE Sleep /\ UNCHANGED now
  <2>1. /\ level' = Filled /\ last' = now /\ sent' = sent /\ now' = now
        /\ wake' = now + (Gap - Filled)
    BY <1>3 DEF Sleep
  <2>2. ASSUME NEW i \in DOMAIN sent PROVE sent[i] <= last' /\ PaidFor(i)'
    <3>1. sent[i] \in Nat /\ sent[i] <= last /\ PaidFor(i) BY DEF BucketInv
    <3> DEFINE c == (Len(sent) - i + 1) * Gap
    <3>2. c \in Int BY CapacityNat DEF BucketInv
    <3>3. c + level <= Capacity + (last - sent[i]) BY <3>1 DEF PaidFor
    <3> HIDE DEF c
    <3>4. level' + 0 <= level + (now - last) /\ level' \in Int /\ level \in Int
              /\ now \in Nat /\ last \in 0 .. now
      BY <2>1, FilledBounds, CapacityNat DEF BucketInv
    <3>5. PICK l \in Int, m \in Int, f \in Int, t \in Int, s \in Int, cap \in Int :
              /\ l = level /\ m = level' /\ f = last /\ t = now
              /\ s = sent[i] /\ cap = Capacity
      BY <3>1, <3>4, CapacityNat
    <3>6. c + level' <= Capacity + (now - sent[i])
      <4>1. c + l <= cap + (f - s) /\ m + 0 <= l + (t - f) BY <3>3, <3>4, <3>5
      <4>2. c + m <= cap + (t - s) BY <3>2, <4>1
      <4> QED BY <3>5, <4>2
    <3> QED BY <2>1, <3>1, <3>6, CapacityNat DEF PaidFor, c, BucketInv, Capacity
  <2>3. PacedCalls' BY <2>1 DEF BucketInv, PacedCalls, Capacity
  <2> QED BY <2>1, <2>2, <2>3, FilledBounds, CapacityNat DEF BucketInv, Capacity
<1>4. CASE Tick
  <2>1. PacedCalls' BY <1>4 DEF Tick, bucket, BucketInv, PacedCalls, Capacity
  <2>2. \A i \in DOMAIN sent : PaidFor(i)' <=> PaidFor(i)
    BY <1>4 DEF Tick, bucket, PaidFor, Capacity
  <2> QED BY <1>4, <2>1, <2>2, CapacityNat DEF Tick, bucket, BucketInv, Capacity
<1>5. CASE UNCHANGED <<now, bucket>>
  BY <1>5 DEF bucket, BucketInv, PacedCalls, PaidFor, Capacity
<1> QED BY <1>1, <1>2, <1>3, <1>4, <1>5 DEF BucketNext, Acquire

(* Requests are paced: TokenBucket.acquire lets at most burst requests     *)
(* plus rate_per_s times the length of the window through, in every        *)
(* window, for every burst and rate.                                       *)
THEOREM RequestsPaced == BucketSpec => []PacedCalls
<1>1. BucketInv => PacedCalls BY DEF BucketInv
<1> QED BY <1>1, BucketInvInit, BucketInvStep, PTL DEF BucketSpec

-----------------------------------------------------------------------------
(* The engine                                                              *)

Fields ==
    {"at", "tries", "until", "page", "offset", "rows", "truncated", "seen", "open",
     "requests", "checks", "container"}

Statuses == {"running", "succeeded", "failed", "deferred"}

(* The engine is at a step of its script until the job ends.               *)
Placed ==
    /\ job \in JobKinds
    /\ DOMAIN st = Fields
    /\ st.at \in 1 .. Len(Script(job)) + 1 /\ st.tries \in 0 .. MaxRetries
    /\ out.status \in Statuses
    /\ out.status = "running" => st.at <= Len(Script(job))

Sourced == source \in [rows : 0 .. MaxRows, role : Role, pages : 1 .. ListPages]

(* The clock stays in its bound; a sleep ends at some time.                *)
Timed == now <= MaxNow /\ wake \in {Awake} \cup Nat

-----------------------------------------------------------------------------
(* The rows of a query                                                     *)

Cap == RowCap(job.ask)
Query == job.type = "execute"

(* The step at which an execute reads its rows.                            *)
Work == IF job.conn = "postgres" THEN 6 ELSE 4

Counted ==
    /\ st.rows \in 0 .. Cap /\ st.offset \in Nat /\ st.requests \in Nat
    /\ st.truncated \in BOOLEAN /\ st.open \in BOOLEAN

(* Nothing was read.                                                       *)
Clean == st.rows = 0 /\ ~st.open /\ ~st.truncated
Fresh == Clean /\ st.offset = 0 /\ st.requests = 0

(* _stream: what was fetched is kept as long as it fits.                   *)
Streaming ==
    /\ st.requests = 0 /\ ~st.truncated
    /\ ~st.open => st.rows = 0
    /\ st.open => st.seen \in Nat /\ st.rows <= st.seen

(* After k full pages each has cost at most its request and its retries.   *)
Paging ==
    /\ ~st.truncated
    /\ st.rows < Cap /\ st.offset = st.rows
    /\ \E k \in Nat :
          st.rows = k * PageSize /\ st.requests <= (MaxRetries + 1) * k + st.tries

(* What an answer says of the rows it does not hold.                       *)
Told ==
    job.conn = "postgres" \/ Cap % PageSize # 0 => (st.truncated <=> st.seen > Cap)

Allowed == (MaxRetries + 1) * (Cap \div PageSize + 1)

QueryInv ==
    /\ ~Query => Clean
    /\ Query => /\ st.requests <= Allowed
                /\ st.at < Work => Fresh
                /\ st.at = Work /\ out.status = "running" =>
                      IF job.conn = "postgres" THEN Streaming ELSE Paging
                /\ st.at > Work => Told
                /\ out.status = "succeeded" => st.at > Work

-----------------------------------------------------------------------------
(* The container of a ddl-file snapshot is up from `docker run`, the third *)
(* step, to the last catalog read, the eleventh.                           *)
ContainerInv ==
    st.container = "up" =>
        /\ out.status = "running"
        /\ job.type = "snapshot" /\ job.conn = "ddl"
        /\ st.at \in 4 .. 11

JobInv == Placed /\ Counted /\ QueryInv /\ ContainerInv

EngineInv == BucketInv /\ Timed /\ Sourced /\ JobInv

-----------------------------------------------------------------------------
(* Arithmetic                                                              *)

(* The lesser of two integers ...                                          *)
LEMMA MinOfTwo ==
    ASSUME NEW a \in Int, NEW b \in Int
    PROVE  Min({a, b}) = IF a <= b THEN a ELSE b
<1> DEFINE m == IF a <= b THEN a ELSE b
           P(x) == x \in {a, b} /\ \A y \in {a, b} : x <= y
<1>1. P(m) OBVIOUS
<1>2. \A x : P(x) => x = m OBVIOUS
<1>3. P(CHOOSE x : P(x)) BY <1>1
<1>4. Min({a, b}) = CHOOSE x : P(x) BY DEF Min
<1> QED BY <1>2, <1>3, <1>4

(* ... the least of three, by what it is ...                               *)
LEMMA MinOfThree ==
    ASSUME NEW a \in Int, NEW b \in Int, NEW c \in Int
    PROVE  LET m == Min({a, b, c}) IN
           m \in Int /\ m <= a /\ m <= b /\ m <= c /\ (m = a \/ m = b \/ m = c)
<1> DEFINE S == {a, b, c}
           P(x) == x \in S /\ \A y \in S : x <= y
           d == IF a <= b THEN (IF a <= c THEN a ELSE c) ELSE (IF b <= c THEN b ELSE c)
<1>1. P(d) OBVIOUS
<1>3. P(CHOOSE x : P(x)) BY <1>1
<1>4. Min(S) = CHOOSE x : P(x) BY DEF Min
<1> QED BY <1>3, <1>4

(* ... and the greater of two.                                             *)
LEMMA MaxOfTwo ==
    ASSUME NEW a \in Int, NEW b \in Int
    PROVE  Max({a, b}) = IF a >= b THEN a ELSE b
<1> DEFINE m == IF a >= b THEN a ELSE b
           P(x) == x \in {a, b} /\ \A y \in {a, b} : x >= y
<1>1. P(m) OBVIOUS
<1>2. \A x : P(x) => x = m OBVIOUS
<1>3. P(CHOOSE x : P(x)) BY <1>1
<1>4. Max({a, b}) = CHOOSE x : P(x) BY DEF Max
<1> QED BY <1>2, <1>3, <1>4

(* A set of naturals that is not empty has its Min in it.                  *)
LEMMA MinIsIn ==
    ASSUME NEW S \in SUBSET Nat, S # {}
    PROVE  Min(S) \in S
<1> DEFINE R == OpToRel(<, Nat)
<1>1. IsWellFoundedOn(R, Nat)
  BY NatLessThanWellFounded, Zenon DEF OpToRel
<1>2. \E x \in S : \A y \in S : ~(<<y, x>> \in R)
  <2> HIDE DEF R
  <2> QED BY <1>1, WFMin
<1>3. ASSUME NEW x \in S, NEW y \in S, ~(<<y, x>> \in R) PROVE x <= y
  BY <1>3 DEF OpToRel
<1>4. \E x \in S : \A y \in S : x <= y BY <1>2, <1>3
<1> QED BY <1>4 DEF Min

(* Pages that together do not fill the cap are at most cap / size many ... *)
LEMMA PagesFit ==
    ASSUME NEW c \in Nat, NEW p \in Nat \ {0}, NEW k \in Nat, k * p < c
    PROVE  k <= c \div p /\ c \div p \in Nat
OBVIOUS

(* ... and pages that fill it exactly leave no remainder.                  *)
LEMMA PagesExact ==
    ASSUME NEW p \in Nat \ {0}, NEW k \in Nat
    PROVE  (k * p) % p = 0
OBVIOUS

(* The cap of a job is positive, however little or much it asks for.       *)
LEMMA CapPositive ==
    ASSUME NEW j \in JobKinds
    PROVE  RowCap(j.ask) \in Nat \ {0}
<1>1. j.ask \in Int BY KindsAssumption
<1>2. DefaultCap \in Nat \ {0} /\ MaxCap \in Nat \ {0} BY EngineAssumption
<1>3. Min({j.ask, MaxCap}) = IF j.ask <= MaxCap THEN j.ask ELSE MaxCap
  BY <1>1, <1>2, MinOfTwo
<1> QED BY <1>1, <1>2, <1>3 DEF RowCap

-----------------------------------------------------------------------------
(* Scripts                                                                 *)

(* The steps that touch neither the rows of a query nor a container.       *)
Plain ==
    {"config", "probe_config", "request", "artifact", "dsn", "connect", "open", "relations",
     "columns", "keys", "indexes", "checks", "files", "ready", "apply", "key", "operation",
     "site", "property", "emit", "publisher", "human_steps", "serialize", "superuser",
     "grants", "get", "list", "statement"}

Do == Plain \cup {"stream", "page", "docker_run"}
Caps == {"config", "metadata", "query", "publish"}
StepsOf(D) == [do : D, cap : Caps]

(* Steps labels every step of a sequence with its capability.              *)
LEMMA StepsLabel ==
    ASSUME NEW D, NEW q \in Seq(D), NEW c \in Caps
    PROVE  /\ Steps(c, q) \in Seq(StepsOf(D)) /\ Len(Steps(c, q)) = Len(q)
           /\ \A i \in 1 .. Len(q) : Steps(c, q)[i].do = q[i]
<1> DEFINE t == Steps(c, q)
<1>1. Len(q) \in Nat /\ DOMAIN q = 1 .. Len(q) /\ \A i \in 1 .. Len(q) : q[i] \in D
  OBVIOUS
<1>2. t = [i \in 1 .. Len(q) |-> [do |-> q[i], cap |-> c]] BY <1>1 DEF Steps
<1>3. \A i \in 1 .. Len(q) : [do |-> q[i], cap |-> c] \in StepsOf(D) BY <1>1 DEF StepsOf
<1>4. t \in [1 .. Len(q) -> StepsOf(D)] BY <1>2, <1>3
<1>5. t \in Seq(StepsOf(D)) BY <1>1, <1>4, SeqDef
<1>6. DOMAIN t = 1 .. Len(q) BY <1>2
<1>7. Len(t) = Len(q) BY <1>1, <1>5, <1>6, LenProperties
<1>8. \A i \in 1 .. Len(q) : t[i].do = q[i] BY <1>2
<1> QED BY <1>5, <1>7, <1>8

(* A Postgres execute reads its rows in the sixth of seven steps ...       *)
LEMMA PostgresExecute ==
    ASSUME NEW j \in JobKinds, j.type = "execute", j.conn = "postgres"
    PROVE  /\ Script(j) \in Seq(StepsOf(Do)) /\ Len(Script(j)) = 7
           /\ Script(j)[6].do = "stream"
           /\ \A i \in 1 .. 7 : i # 6 => Script(j)[i].do \in Plain \ {"get", "list"}
<1> DEFINE q == <<"request">> \o PostgresExecution \o <<"serialize">>
<1>1. /\ q \in Seq(Do) /\ Len(q) = 7
      /\ q[1] = "request" /\ q[2] = "statement" /\ q[3] = "dsn" /\ q[4] = "connect"
      /\ q[5] = "grants" /\ q[6] = "stream" /\ q[7] = "serialize"
  BY DEF Do, Plain, PostgresExecution
<1>2. Script(j) = Steps("query", q) BY DEF Script, ExecuteScript
<1> HIDE DEF q
<1>3. Script(j) \in Seq(StepsOf(Do)) /\ Len(Script(j)) = 7
      /\ \A i \in 1 .. 7 : Script(j)[i].do = q[i]
  <2>1. "query" \in Caps BY DEF Caps
  <2>2. /\ Steps("query", q) \in Seq(StepsOf(Do)) /\ Len(Steps("query", q)) = Len(q)
        /\ \A i \in 1 .. Len(q) : Steps("query", q)[i].do = q[i]
    BY <1>1, <2>1, StepsLabel
  <2> QED BY <1>1, <1>2, <2>2
<1> QED BY <1>1, <1>3 DEF Plain

(* ... an API execute in the fourth of five.                               *)
LEMMA ApiExecute ==
    ASSUME NEW j \in JobKinds, j.type = "execute", j.conn # "postgres"
    PROVE  /\ Script(j) \in Seq(StepsOf(Do)) /\ Len(Script(j)) = 5
           /\ Script(j)[4].do = "page"
           /\ \A i \in 1 .. 5 : i # 4 => Script(j)[i].do \in Plain \ {"get", "list"}
<1> DEFINE q == <<"request">> \o ApiExecution \o <<"serialize">>
<1>1. /\ q \in Seq(Do) /\ Len(q) = 5
      /\ q[1] = "request" /\ q[2] = "operation" /\ q[3] = "key" /\ q[4] = "page"
      /\ q[5] = "serialize"
  BY DEF Do, Plain, ApiExecution
<1>2. Script(j) = Steps("query", q) BY DEF Script, ExecuteScript
<1> HIDE DEF q
<1>3. Script(j) \in Seq(StepsOf(Do)) /\ Len(Script(j)) = 5
      /\ \A i \in 1 .. 5 : Script(j)[i].do = q[i]
  <2>1. "query" \in Caps BY DEF Caps
  <2>2. /\ Steps("query", q) \in Seq(StepsOf(Do)) /\ Len(Steps("query", q)) = Len(q)
        /\ \A i \in 1 .. Len(q) : Steps("query", q)[i].do = q[i]
    BY <1>1, <2>1, StepsLabel
  <2> QED BY <1>1, <1>2, <2>2
<1> QED BY <1>1, <1>3 DEF Plain

(* A ddl-file snapshot starts its container in the third of twelve steps   *)
(* and reads the last catalog in the eleventh.                             *)
LEMMA DdlSnapshot ==
    ASSUME NEW j \in JobKinds, j.type = "snapshot", j.conn = "ddl"
    PROVE  /\ Script(j) \in Seq(StepsOf(Do)) /\ Len(Script(j)) = 12
           /\ Script(j)[11].do = "checks"
           /\ \A i \in 1 .. 12 : i # 3 => Script(j)[i].do \in Plain
           /\ Script(j)[3].do = "docker_run"
<1> DEFINE q == <<"config">> \o DdlIntrospection \o <<"emit">>
<1>1. q \in Seq(Do) /\ Len(q) = 12
  BY DEF Do, Plain, DdlIntrospection, CatalogReads
<1>2. /\ q[1] = "config" /\ q[2] = "files" /\ q[3] = "docker_run" /\ q[4] = "ready"
      /\ q[5] = "apply" /\ q[6] = "open"
  BY DEF DdlIntrospection, CatalogReads
<1>3. /\ q[7] = "relations" /\ q[8] = "columns" /\ q[9] = "keys"
      /\ q[10] = "indexes" /\ q[11] = "checks" /\ q[12] = "emit"
  BY DEF DdlIntrospection, CatalogReads
<1>4. Script(j) = Steps("metadata", q)
  <2>1. Script(j) = SnapshotScript("ddl") BY DEF Script
  <2>2. Introspection("ddl") = DdlIntrospection BY DEF Introspection
  <2>3. SnapshotScript("ddl") = Steps("metadata", <<"config">> \o Introspection("ddl") \o <<"emit">>)
    BY DEF SnapshotScript
  <2> QED BY <2>1, <2>2, <2>3
<1> HIDE DEF q
<1>5. Script(j) \in Seq(StepsOf(Do)) /\ Len(Script(j)) = 12
      /\ \A i \in 1 .. 12 : Script(j)[i].do = q[i]
  <2>1. "metadata" \in Caps BY DEF Caps
  <2>2. /\ Steps("metadata", q) \in Seq(StepsOf(Do)) /\ Len(Steps("metadata", q)) = Len(q)
        /\ \A i \in 1 .. Len(q) : Steps("metadata", q)[i].do = q[i]
    BY <1>1, <2>1, StepsLabel
  <2> QED BY <1>1, <1>4, <2>2
<1> QED BY <1>2, <1>3, <1>5 DEF Plain

(* What the connectors look at is plain, but for `docker run`.             *)
LEMMA PlainIntrospection ==
    ASSUME NEW conn \in {"postgres", "ga4", "gsc"}
    PROVE  Introspection(conn) \in Seq(Plain)
<1>1. PostgresIntrospection \in Seq(Plain) BY DEF PostgresIntrospection, CatalogReads, Plain
<1>2. Ga4Introspection \in Seq(Plain) BY DEF Ga4Introspection, Plain
<1>3. GscIntrospection \in Seq(Plain) BY DEF GscIntrospection, Plain
<1> QED BY <1>1, <1>2, <1>3 DEF Introspection

(* Neither does a preflight, of any capability a connector has.            *)
LEMMA PlainPreflight ==
    ASSUME NEW conn \in {"postgres", "ddl", "ga4", "gsc", "powerbi"}, NEW cap \in Capabilities(conn)
    PROVE  Preflight(conn, cap) \in Seq(Plain) /\ cap \in Caps
<1>1. CASE cap = "query"
  <2>1. Preflight(conn, cap) = ExecutorPreflight(conn) BY <1>1 DEF Preflight
  <2>2. <<"dsn", "connect", "grants">> \in Seq(Plain) BY DEF Plain
  <2>3. <<"property">> \in Seq(Plain) BY DEF Plain
  <2> QED BY <1>1, <2>1, <2>2, <2>3 DEF ExecutorPreflight, Caps
<1>2. CASE cap = "publish"
  <2>1. Preflight(conn, cap) = <<"publisher">> BY <1>2 DEF Preflight
  <2>2. <<"publisher">> \in Seq(Plain) BY DEF Plain
  <2> QED BY <1>2, <2>1, <2>2 DEF Caps
<1>3. CASE cap = "metadata"
  <2>1. conn # "powerbi" BY <1>3 DEF Capabilities
  <2>2. Preflight(conn, cap) \in {PostgresPreflight, <<"files">>, Ga4Preflight, GscPreflight}
    BY <1>3, <2>1 DEF Preflight
  <2>3. PostgresPreflight \in Seq(Plain) BY DEF PostgresPreflight, Plain
  <2>4. Ga4Preflight \in Seq(Plain) BY DEF Ga4Preflight, Plain
  <2>5. GscPreflight \in Seq(Plain) BY DEF GscPreflight, Plain
  <2>6. <<"files">> \in Seq(Plain) BY DEF Plain
  <2> QED BY <1>3, <2>2, <2>3, <2>4, <2>5, <2>6 DEF Caps
<1> QED BY <1>1, <1>2, <1>3 DEF Capabilities

(* Hence no capability that is probed.                                     *)
LEMMA PlainProbe ==
    ASSUME NEW conn \in {"postgres", "ddl", "ga4", "gsc", "powerbi"}, NEW cap
    PROVE  Probed(conn, cap) \in Seq(StepsOf(Plain))
<1>1. CASE cap \in Capabilities(conn)
  <2>1. Preflight(conn, cap) \in Seq(Plain) /\ cap \in Caps BY <1>1, PlainPreflight
  <2>2. Steps(cap, Preflight(conn, cap)) \in Seq(StepsOf(Plain)) BY <2>1, StepsLabel
  <2> QED BY <1>1, <2>2 DEF Probed
<1>2. CASE cap \notin Capabilities(conn)
  BY <1>2 DEF Probed
<1> QED BY <1>1, <1>2

(* Every other job has plain steps only, and at least one.                 *)
LEMMA PlainScript ==
    ASSUME NEW j \in JobKinds, j.type # "execute", ~(j.type = "snapshot" /\ j.conn = "ddl")
    PROVE  Script(j) \in Seq(StepsOf(Plain)) /\ Len(Script(j)) >= 1
<1>0. \/ j.type = "snapshot" /\ j.conn \in {"postgres", "ga4", "gsc"}
      \/ j.type = "publish"
      \/ /\ j.type = "test_connection"
         /\ j.conn \in {"postgres", "ddl", "ga4", "gsc", "powerbi"}
  BY KindsAssumption
<1>1. CASE j.type = "snapshot" /\ j.conn \in {"postgres", "ga4", "gsc"}
  <2> DEFINE q == <<"config">> \o Introspection(j.conn) \o <<"emit">>
  <2>1. Introspection(j.conn) \in Seq(Plain) BY <1>1, PlainIntrospection
  <2>2. <<"config">> \in Seq(Plain) /\ <<"emit">> \in Seq(Plain) BY DEF Plain
  <2>3. q \in Seq(Plain) /\ Len(q) >= 1 BY <2>1, <2>2
  <2>4. Script(j) = Steps("metadata", q) BY <1>1 DEF Script, SnapshotScript
  <2>5. "metadata" \in Caps BY DEF Caps
  <2> HIDE DEF q
  <2> QED BY <2>3, <2>4, <2>5, StepsLabel
<1>2. CASE j.type = "publish"
  <2> DEFINE q == <<"artifact", "publisher", "human_steps", "serialize">>
  <2>1. q \in Seq(Plain) /\ Len(q) >= 1 BY DEF Plain
  <2>2. Script(j) = Steps("publish", q) BY <1>2 DEF Script, PublishScript
  <2>3. "publish" \in Caps BY DEF Caps
  <2> HIDE DEF q
  <2> QED BY <2>1, <2>2, <2>3, StepsLabel
<1>3. CASE j.type = "test_connection"
           /\ j.conn \in {"postgres", "ddl", "ga4", "gsc", "powerbi"}
  <2> DEFINE q == <<"probe_config">>
             a == Steps("config", q)
             b == Probed(j.conn, "metadata")
             c == Probed(j.conn, "query")
             d == Probed(j.conn, "publish")
  <2>1. q \in Seq(Plain) /\ Len(q) = 1 BY DEF Plain
  <2>2. "config" \in Caps BY DEF Caps
  <2> HIDE DEF q
  <2>3. a \in Seq(StepsOf(Plain)) /\ Len(a) = 1 BY <2>1, <2>2, StepsLabel
  <2>4. b \in Seq(StepsOf(Plain)) BY <1>3, PlainProbe
  <2>5. c \in Seq(StepsOf(Plain)) BY <1>3, PlainProbe
  <2>6. d \in Seq(StepsOf(Plain)) BY <1>3, PlainProbe
  <2>7. Script(j) = a \o b \o c \o d BY <1>3 DEF Script, ProbeScript, q
  <2> HIDE DEF a, b, c, d
  <2>8. a \o b \in Seq(StepsOf(Plain)) /\ Len(a \o b) >= 1 BY <2>3, <2>4
  <2>9. a \o b \o c \in Seq(StepsOf(Plain)) /\ Len(a \o b \o c) >= 1 BY <2>5, <2>8
  <2>10. a \o b \o c \o d \in Seq(StepsOf(Plain)) /\ Len(a \o b \o c \o d) >= 1
    BY <2>6, <2>9
  <2> QED BY <2>7, <2>10
<1> QED BY <1>0, <1>1, <1>2, <1>3

(* What the steps below need to know of a script.                          *)
LEMMA ScriptFacts ==
    ASSUME NEW j \in JobKinds
    PROVE  /\ Script(j) \in Seq(StepsOf(Do)) /\ Len(Script(j)) \in Nat \ {0}
           /\ DOMAIN Script(j) = 1 .. Len(Script(j))
           /\ \A i \in 1 .. Len(Script(j)) : Script(j)[i].do \in Do
           /\ j.type # "execute" =>
                \A i \in 1 .. Len(Script(j)) : Script(j)[i].do \notin {"stream", "page"}
           /\ \A i \in 1 .. Len(Script(j)) :
                Script(j)[i].do = "docker_run" => j.type = "snapshot" /\ j.conn = "ddl" /\ i = 3
<1>1. CASE j.type = "execute" /\ j.conn = "postgres"
  <2> DEFINE S == Script(j)
  <2>1. /\ S \in Seq(StepsOf(Do)) /\ Len(S) = 7
        /\ \A i \in 1 .. 7 : i # 6 => S[i].do \in Plain
        /\ S[6].do = "stream"
    BY <1>1, PostgresExecute
  <2> HIDE DEF S
  <2>2. Len(S) \in Nat \ {0} /\ DOMAIN S = 1 .. Len(S) BY <2>1
  <2>3. \A i \in 1 .. Len(S) : S[i].do \in Do /\ (i # 6 => S[i].do \in Plain)
    BY <2>1 DEF Do
  <2>4. "docker_run" \notin Plain /\ "stream" \notin Plain /\ "page" \notin Plain BY DEF Plain
  <2> QED BY <1>1, <2>1, <2>2, <2>3, <2>4 DEF S
<1>2. CASE j.type = "execute" /\ j.conn # "postgres"
  <2> DEFINE S == Script(j)
  <2>1. /\ S \in Seq(StepsOf(Do)) /\ Len(S) = 5
        /\ \A i \in 1 .. 5 : i # 4 => S[i].do \in Plain
        /\ S[4].do = "page"
    BY <1>2, ApiExecute
  <2> HIDE DEF S
  <2>2. Len(S) \in Nat \ {0} /\ DOMAIN S = 1 .. Len(S) BY <2>1
  <2>3. \A i \in 1 .. Len(S) : S[i].do \in Do /\ (i # 4 => S[i].do \in Plain)
    BY <2>1 DEF Do
  <2>4. "docker_run" \notin Plain /\ "stream" \notin Plain /\ "page" \notin Plain BY DEF Plain
  <2> QED BY <1>2, <2>1, <2>2, <2>3, <2>4 DEF S
<1>3. CASE j.type = "snapshot" /\ j.conn = "ddl"
  <2> DEFINE S == Script(j)
  <2>1. /\ S \in Seq(StepsOf(Do)) /\ Len(S) = 12
        /\ \A i \in 1 .. 12 : i # 3 => S[i].do \in Plain
        /\ S[3].do = "docker_run"
    BY <1>3, DdlSnapshot
  <2> HIDE DEF S
  <2>2. Len(S) \in Nat \ {0} /\ DOMAIN S = 1 .. Len(S) BY <2>1
  <2>3. \A i \in 1 .. Len(S) : S[i].do \in Do /\ (i # 3 => S[i].do \in Plain)
    BY <2>1 DEF Do
  <2>4. "docker_run" \notin Plain /\ "stream" \notin Plain /\ "page" \notin Plain BY DEF Plain
  <2> QED BY <1>3, <2>1, <2>2, <2>3, <2>4 DEF S
<1>4. CASE j.type # "execute" /\ ~(j.type = "snapshot" /\ j.conn = "ddl")
  <2> DEFINE S == Script(j)
  <2>1. S \in Seq(StepsOf(Plain)) /\ Len(S) >= 1 BY <1>4, PlainScript
  <2> HIDE DEF S
  <2>2. \A i \in 1 .. Len(S) : S[i] \in StepsOf(Plain) BY <2>1
  <2>3. \A i \in 1 .. Len(S) : S[i].do \in Plain BY <2>2 DEF StepsOf
  <2>4. StepsOf(Plain) \subseteq StepsOf(Do) BY DEF StepsOf, Do
  <2>5. S \in Seq(StepsOf(Do)) BY <2>1, <2>4
  <2>6. S \in Seq(StepsOf(Do)) /\ Len(S) \in Nat \ {0} /\ DOMAIN S = 1 .. Len(S)
    BY <2>1, <2>5
  <2>7. \A i \in 1 .. Len(S) : S[i].do \in Do /\ S[i].do \notin {"stream", "page", "docker_run"}
    BY <2>3 DEF Plain, Do
  <2> QED BY <2>6, <2>7 DEF S
<1> QED BY <1>1, <1>2, <1>3, <1>4

-----------------------------------------------------------------------------
(* Going on and raising                                                    *)

(* The data of a job is what s says.                                       *)
Carried(s) ==
    /\ st'.rows = s.rows /\ st'.offset = s.offset /\ st'.requests = s.requests
    /\ st'.truncated = s.truncated /\ st'.open = s.open /\ st'.seen = s.seen

(* A step that goes on.                                                    *)
Advanced(s) ==
    /\ DOMAIN st' = Fields /\ Carried(s)
    /\ st'.at = st.at + 1 /\ st'.tries = 0
    /\ st'.container = "up" => s.container = "up" /\ Step.do # "checks"
    /\ IF st.at = Len(Script(job)) THEN out'.status = "succeeded" ELSE out' = out

(* A step that raises.                                                     *)
Raised(s) ==
    /\ DOMAIN st' = Fields /\ Carried(s)
    /\ st'.at \in st.at .. Len(Script(job)) + 1 /\ st'.tries \in {0, s.tries}
    /\ out'.status \in Statuses
    /\ job.type # "test_connection" =>
          st'.container # "up" /\ out'.status \in {"failed", "deferred"} /\ st'.at = st.at
    /\ job.type = "test_connection" => (st'.container = "up" => s.container = "up")
    /\ out'.status = "running" => st'.at <= Len(Script(job))

(* On the way out the container is no longer up; nothing else changes.     *)
LEMMA LeftContainer ==
    ASSUME NEW s, DOMAIN s = Fields, NEW t \in Left(s)
    PROVE  /\ DOMAIN t = Fields /\ t.at = s.at /\ t.tries = s.tries /\ t.rows = s.rows
           /\ t.offset = s.offset /\ t.requests = s.requests /\ t.truncated = s.truncated
           /\ t.open = s.open /\ t.seen = s.seen /\ t.container # "up"
<1>1. CASE s.container = "up"
  <2>1. PICK c \in {"none", "kept"} : t = [s EXCEPT !.container = c]
    BY <1>1 DEF Left, Removed
  <2> QED BY <2>1 DEF Fields
<1>2. CASE s.container # "up" BY <1>2 DEF Left
<1> QED BY <1>1, <1>2

(* GoOn advances from any s at the engine's step.                          *)
LEMMA GoOnAdvances ==
    ASSUME Placed, out.status = "running",
           NEW s, DOMAIN s = Fields, s.at = st.at, NEW check, GoOn(s, check)
    PROVE  Advanced(s)
<1> DEFINE steps == Script(job)
           done == s.at = Len(steps) \/ steps[s.at + 1].cap # steps[s.at].cap
           noted(c) == IF done THEN c \cup {<<steps[s.at].cap, check>>} ELSE c
<1>1. PICK t \in IF steps[s.at].do = "checks" THEN Left(s) ELSE {s} :
        st' = [t EXCEPT !.at = @ + 1, !.tries = 0, !.page = 1, !.checks = noted(@)]
  BY DEF GoOn
<1>2. /\ DOMAIN t = Fields /\ t.at = s.at /\ t.rows = s.rows /\ t.offset = s.offset
      /\ t.requests = s.requests /\ t.truncated = s.truncated /\ t.open = s.open
      /\ t.seen = s.seen /\ (t.container = "up" => s.container = "up" /\ Step.do # "checks")
  <2>1. CASE Step.do = "checks" BY <1>1, <2>1, LeftContainer DEF Step
  <2>2. CASE Step.do # "checks" BY <1>1, <2>2 DEF Step
  <2> QED BY <2>1, <2>2
<1> HIDE DEF noted
<1>3. /\ DOMAIN st' = Fields /\ st'.at = t.at + 1 /\ st'.tries = 0 /\ st'.rows = t.rows
      /\ st'.offset = t.offset /\ st'.requests = t.requests /\ st'.truncated = t.truncated
      /\ st'.open = t.open /\ st'.seen = t.seen /\ st'.container = t.container
  BY <1>1, <1>2 DEF Fields
<1>4. IF st.at = Len(Script(job)) THEN out'.status = "succeeded" ELSE out' = out
  BY DEF GoOn, Succeeded
<1> QED BY <1>2, <1>3, <1>4 DEF Advanced, Carried

(* Raise ends the job, but for a probe that meets quota.                   *)
LEMMA RaiseRaises ==
    ASSUME Placed, out.status = "running",
           NEW s, DOMAIN s = Fields, s.at = st.at, NEW fault, Raise(s, fault)
    PROVE  Raised(s)
<1>0. /\ Len(Script(job)) \in Nat /\ DOMAIN Script(job) = 1 .. Len(Script(job))
      /\ st.at \in 1 .. Len(Script(job))
  BY ScriptFacts DEF Placed
<1>1. CASE job.type = "test_connection" /\ fault = "quota"
  <2> DEFINE steps == Script(job)
             rest == {i \in DOMAIN steps : i > s.at /\ steps[i].cap # steps[s.at].cap}
             to == IF rest = {} THEN Len(steps) + 1 ELSE Min(rest)
  <2>1. /\ st' = [s EXCEPT !.at = to, !.tries = 0, !.page = 1,
                           !.checks = @ \cup {<<steps[s.at].cap, "warn">>}]
        /\ out' = IF rest = {} THEN Succeeded ELSE out
    BY <1>1 DEF Raise, Warn
  <2>2. rest \subseteq 1 .. Len(steps) /\ rest \subseteq Nat /\ \A i \in rest : i >= st.at
    BY <1>0
  <2>3. rest # {} => Min(rest) \in rest BY <2>2, MinIsIn
  <2> HIDE DEF rest
  <2>4. to \in st.at .. Len(steps) + 1 /\ (rest # {} => to <= Len(steps))
    <3>1. CASE rest = {} BY <1>0, <3>1
    <3>2. CASE rest # {}
      <4>1. to \in rest BY <2>3, <3>2
      <4>2. to \in 1 .. Len(steps) /\ to >= st.at BY <2>2, <4>1
      <4> HIDE DEF to
      <4> QED BY <1>0, <4>2
    <3> QED BY <3>1, <3>2
  <2> HIDE DEF to
  <2>5. /\ DOMAIN st' = Fields /\ Carried(s) /\ st'.at = to /\ st'.tries = 0
        /\ st'.container = s.container
    BY <2>1 DEF Fields, Carried
  <2>6. out'.status \in Statuses /\ (out'.status = "running" => rest # {})
    BY <2>1 DEF Succeeded, Statuses
  <2> QED BY <1>1, <2>4, <2>5, <2>6 DEF Raised
<1>2. CASE ~(job.type = "test_connection" /\ fault = "quota")
  <2>1. /\ st' \in Left(s)
        /\ \E f \in {fault, "crash"} : out' = OutcomeOf(job.type, f)
    BY <1>2 DEF Raise
  <2>2. /\ DOMAIN st' = Fields /\ Carried(s) /\ st'.at = st.at /\ st'.tries = s.tries
        /\ st'.container # "up"
    BY <2>1, LeftContainer DEF Carried
  <2>3. out'.status \in {"failed", "deferred"} BY <2>1 DEF OutcomeOf, Failed
  <2> QED BY <1>0, <2>2, <2>3 DEF Raised, Statuses
<1> QED BY <1>1, <1>2

-----------------------------------------------------------------------------
(* What going on and raising keep                                          *)

(* Where in its script a running query is.                                 *)
LEMMA AtWork ==
    ASSUME Placed, out.status = "running"
    PROVE  /\ Step.do \in Do /\ Work \in {4, 6}
           /\ Query => Len(Script(job)) = Work + 1
           /\ Query /\ Step.do \notin {"stream", "page"} => st.at # Work
           /\ Step.do = "stream" => Query /\ job.conn = "postgres" /\ st.at = Work
           /\ Step.do = "page" => Query /\ job.conn # "postgres" /\ st.at = Work
           /\ Step.do \in {"get", "list"} => ~Query
<1>1. job \in JobKinds /\ st.at \in 1 .. Len(Script(job)) BY ScriptFacts DEF Placed
<1>2. Step.do \in Do /\ Work \in {4, 6} BY <1>1, ScriptFacts DEF Step, Work
<1>3. CASE ~Query
  <2>1. Step.do \notin {"stream", "page"} BY <1>1, <1>3, ScriptFacts DEF Query, Step
  <2> QED BY <1>2, <1>3, <2>1
<1>4. CASE Query /\ job.conn = "postgres"
  <2>1. /\ Len(Script(job)) = 7 /\ Script(job)[6].do = "stream" /\ Work = 6
        /\ \A i \in 1 .. 7 : i # 6 => Script(job)[i].do \in Plain \ {"get", "list"}
    BY <1>1, <1>4, PostgresExecute DEF Query, Work
  <2>2. "stream" \notin Plain /\ "page" \notin Plain BY DEF Plain
  <2> QED BY <1>1, <1>2, <1>4, <2>1, <2>2 DEF Step
<1>5. CASE Query /\ job.conn # "postgres"
  <2>1. /\ Len(Script(job)) = 5 /\ Script(job)[4].do = "page" /\ Work = 4
        /\ \A i \in 1 .. 5 : i # 4 => Script(job)[i].do \in Plain \ {"get", "list"}
    BY <1>1, <1>5, ApiExecute DEF Query, Work
  <2>2. "stream" \notin Plain /\ "page" \notin Plain BY DEF Plain
  <2> QED BY <1>1, <1>2, <1>5, <2>1, <2>2 DEF Step
<1> QED BY <1>3, <1>4, <1>5

(* The requests a query may make are a number.                             *)
LEMMA AllowedNat ==
    ASSUME Placed
    PROVE  Cap \in Nat \ {0} /\ Allowed \in Nat
<1>1. Cap \in Nat \ {0} BY CapPositive DEF Placed, Cap
<1>2. PageSize \in Nat \ {0} /\ MaxRetries \in Nat BY EngineAssumption
<1>3. 0 * PageSize < Cap BY <1>1, <1>2
<1>4. Cap \div PageSize \in Nat BY <1>1, <1>2, <1>3, PagesFit
<1>5. (MaxRetries + 1) * (Cap \div PageSize + 1) \in Nat BY <1>2, <1>4
<1> QED BY <1>1, <1>5 DEF Allowed

(* What s says is what the engine knows, up to one more request where a    *)
(* query reads its rows.                                                   *)
Kept(s) ==
    /\ DOMAIN s = Fields /\ s.at = st.at /\ s.tries = st.tries
    /\ s.rows = st.rows /\ s.offset = st.offset /\ s.seen = st.seen
    /\ s.truncated = st.truncated /\ s.open = st.open
    /\ s.requests \in Nat
    /\ Query => /\ s.requests <= Allowed
                /\ st.at # Work => s.requests = st.requests

(* The job has stayed the same.                                            *)
LEMMA SameJob ==
    ASSUME job' = job
    PROVE  /\ Cap' = Cap /\ Work' = Work /\ Allowed' = Allowed /\ (Query' <=> Query)
           /\ Script(job)' = Script(job)
BY DEF Cap, Work, Allowed, Query

(* Going on from a step that reads no rows keeps the invariant.            *)
LEMMA AdvanceKeeps ==
    ASSUME JobInv, out.status = "running", job' = job,
           NEW s, Kept(s), Advanced(s), Step.do \notin {"stream", "page"},
           s.container = "up" => st.container = "up" \/ Step.do = "docker_run"
    PROVE  JobInv'
<1> USE SameJob
<1> DEFINE len == Len(Script(job))
<1>1. /\ job \in JobKinds /\ len \in Nat /\ st.at \in 1 .. len /\ MaxRetries \in Nat
      /\ Cap \in Nat \ {0}
  BY ScriptFacts, EngineAssumption, AllowedNat DEF JobInv, Placed
<1>2. /\ Work \in {4, 6} /\ (Query => len = Work + 1 /\ st.at # Work)
  BY AtWork DEF JobInv
<1>3. Placed'
  <2>1. st'.at = st.at + 1 /\ st'.tries = 0 /\ DOMAIN st' = Fields BY DEF Advanced
  <2>2. out'.status \in Statuses /\ (out'.status = "running" => st.at # len)
    BY DEF Advanced, Statuses
  <2>3. st'.at \in 1 .. len + 1 /\ (st.at # len => st'.at <= len) BY <1>1, <2>1
  <2>4. st'.tries \in 0 .. MaxRetries BY <1>1, <2>1
  <2> QED BY <1>1, <2>1, <2>2, <2>3, <2>4 DEF Placed
<1>4. Counted' BY DEF Counted, JobInv, Kept, Advanced, Carried
<1>5. QueryInv'
  <2>1. ~Query => Clean' BY DEF JobInv, QueryInv, Clean, Kept, Advanced, Carried
  <2>2. ASSUME Query PROVE st'.requests <= Allowed
    BY <2>2 DEF Kept, Advanced, Carried
  <2>3. ASSUME Query, st.at < Work PROVE Fresh'
    <3>1. Fresh /\ s.requests = st.requests BY <1>2, <2>3 DEF JobInv, QueryInv, Kept
    <3> QED BY <3>1 DEF Fresh, Clean, Kept, Advanced, Carried
  <2>4. ASSUME Query, st.at > Work PROVE Told'
    <3>1. Told BY <2>4 DEF JobInv, QueryInv
    <3> QED BY <3>1 DEF Told, Kept, Advanced, Carried
  <2>5. ASSUME Query, Fresh' PROVE Streaming'
    BY <2>5 DEF Fresh, Clean, Streaming
  <2>6. ASSUME Query, Fresh' PROVE Paging'
    <3>1. st'.rows = 0 /\ st'.offset = 0 /\ st'.requests = 0 /\ ~st'.truncated /\ st'.tries = 0
      BY <2>6 DEF Fresh, Clean, Advanced
    <3>2. 0 = 0 * PageSize /\ 0 <= (MaxRetries + 1) * 0 + 0 BY EngineAssumption
    <3>3. \E k \in Nat : st'.rows = k * PageSize
                         /\ st'.requests <= (MaxRetries + 1) * k + st'.tries
      BY <3>1, <3>2
    <3> QED BY <1>1, <3>1, <3>3 DEF Paging
  <2>7. st'.at = st.at + 1 BY DEF Advanced
  <2>8. ASSUME Query, out'.status = "succeeded" PROVE st.at = len
    BY <2>8 DEF Advanced
  <2>9. Query => /\ st'.at < Work => Fresh'
                 /\ st'.at = Work => Fresh'
                 /\ st'.at > Work => Told'
                 /\ out'.status = "succeeded" => st'.at > Work
    BY <1>1, <1>2, <2>3, <2>4, <2>7, <2>8
  <2> QED BY <2>1, <2>2, <2>5, <2>6, <2>9 DEF QueryInv
<1>6. ContainerInv'
  <2> SUFFICES ASSUME st'.container = "up"
               PROVE  /\ out'.status = "running" /\ job.type = "snapshot" /\ job.conn = "ddl"
                      /\ st'.at \in 4 .. 11
    BY DEF ContainerInv
  <2>1. s.container = "up" /\ Step.do # "checks" BY DEF Advanced
  <2>2. job.type = "snapshot" /\ job.conn = "ddl" /\ st.at \in 3 .. 11
    <3>1. CASE st.container = "up" BY <3>1 DEF JobInv, ContainerInv
    <3>2. CASE Step.do = "docker_run" BY <1>1, <3>2, ScriptFacts DEF Step
    <3> QED BY <2>1, <3>1, <3>2
  <2>3. len = 12 /\ Script(job)[11].do = "checks" BY <1>1, <2>2, DdlSnapshot
  <2>4. st.at # 11 BY <2>1, <2>3 DEF Step
  <2> QED BY <2>2, <2>3, <2>4 DEF Advanced
<1> QED BY <1>3, <1>4, <1>5, <1>6 DEF JobInv

(* Raising keeps it, from any step.                                        *)
LEMMA RaiseKeeps ==
    ASSUME JobInv, out.status = "running", job' = job,
           NEW s, Kept(s), Raised(s), s.container = "up" => st.container = "up"
    PROVE  JobInv'
<1> USE SameJob
<1> DEFINE len == Len(Script(job))
<1>1. /\ job \in JobKinds /\ len \in Nat /\ st.at \in 1 .. len /\ MaxRetries \in Nat
      /\ st.tries \in 0 .. MaxRetries
  BY ScriptFacts, EngineAssumption DEF JobInv, Placed
<1>2. Placed'
  <2>1. /\ DOMAIN st' = Fields /\ st'.at \in st.at .. len + 1 /\ st'.tries \in {0, st.tries}
        /\ out'.status \in Statuses /\ (out'.status = "running" => st'.at <= len)
    BY DEF Raised, Kept
  <2>2. st'.at \in 1 .. len + 1 /\ st'.tries \in 0 .. MaxRetries BY <1>1, <2>1
  <2> QED BY <1>1, <2>1, <2>2 DEF Placed
<1>3. Counted' BY DEF Counted, JobInv, Kept, Raised, Carried
<1>4. QueryInv'
  <2>1. ~Query => Clean' BY DEF JobInv, QueryInv, Clean, Kept, Raised, Carried
  <2>2. ASSUME Query
        PROVE  /\ st'.requests <= Allowed
               /\ st'.at < Work => Fresh'
               /\ st'.at > Work => Told'
               /\ out'.status \notin {"running", "succeeded"}
    <3>1. st'.at = st.at /\ out'.status \notin {"running", "succeeded"}
      BY <2>2 DEF Raised, Query
    <3>2. st'.requests <= Allowed BY <2>2 DEF Raised, Carried, Kept
    <3>3. ASSUME st.at < Work PROVE Fresh'
      <4>1. st.at # Work BY <1>1, <3>3, AtWork DEF JobInv
      <4>2. Fresh /\ s.requests = st.requests BY <2>2, <3>3, <4>1 DEF JobInv, QueryInv, Kept
      <4> QED BY <4>2 DEF Fresh, Clean, Kept, Raised, Carried
    <3>4. ASSUME st.at > Work PROVE Told'
      <4>1. Told BY <2>2, <3>4 DEF JobInv, QueryInv
      <4> QED BY <4>1 DEF Told, Kept, Raised, Carried
    <3> QED BY <3>1, <3>2, <3>3, <3>4
  <2> QED BY <2>1, <2>2 DEF QueryInv
<1>5. ContainerInv'
  <2>1. ASSUME st'.container = "up" PROVE FALSE
    <3>1. job.type = "test_connection" BY <2>1 DEF Raised
    <3>2. st.container = "up" BY <2>1, <3>1 DEF Raised
    <3> QED BY <3>1, <3>2 DEF JobInv, ContainerInv
  <2> QED BY <2>1 DEF ContainerInv
<1> QED BY <1>2, <1>3, <1>4, <1>5 DEF JobInv

-----------------------------------------------------------------------------
(* The step that reads the rows                                            *)

(* The job as it is after a step that stays where it is.                   *)
Stayed(s) ==
    /\ DOMAIN st' = Fields /\ Carried(s)
    /\ st'.at = st.at /\ st'.tries \in 0 .. MaxRetries
    /\ st'.container = st.container /\ out' = out

(* A step that stays keeps the place in the script and the container.      *)
LEMMA StayKeepsPlace ==
    ASSUME JobInv, out.status = "running", job' = job, NEW s, Stayed(s)
    PROVE  Placed' /\ ContainerInv'
<1> USE SameJob
<1>1. Placed' BY DEF JobInv, Placed, Stayed
<1>2. ContainerInv' BY DEF JobInv, ContainerInv, Stayed
<1> QED BY <1>1, <1>2

(* A list that goes on to its next page, a get that is retried: no query.  *)
LEMMA StayPlain ==
    ASSUME JobInv, out.status = "running", job' = job,
           NEW s, Kept(s), Stayed(s), ~Query
    PROVE  JobInv'
<1> USE SameJob
<1>1. Placed' /\ ContainerInv' BY StayKeepsPlace
<1>2. Counted' BY DEF Counted, JobInv, Kept, Stayed, Carried
<1>3. Clean' BY DEF JobInv, QueryInv, Clean, Kept, Stayed, Carried
<1> QED BY <1>1, <1>2, <1>3 DEF JobInv, QueryInv

(* A query that goes on reading.                                           *)
LEMMA StayReading ==
    ASSUME JobInv, out.status = "running", job' = job, NEW s, Stayed(s),
           Query, st.at = Work, Counted', st'.requests <= Allowed,
           IF job.conn = "postgres" THEN Streaming' ELSE Paging'
    PROVE  JobInv'
<1> USE SameJob
<1>1. Placed' /\ ContainerInv' BY StayKeepsPlace
<1>2. st'.at = Work /\ Work \in {4, 6} /\ out' = out BY AtWork DEF Stayed, JobInv
<1>3. QueryInv' BY <1>2 DEF QueryInv
<1> QED BY <1>1, <1>3 DEF JobInv

(* A query that has read its rows and tells the truth about the others.    *)
LEMMA AdvanceReading ==
    ASSUME JobInv, out.status = "running", job' = job, NEW s, Advanced(s),
           s.container = st.container,
           Query, st.at = Work, Counted', st'.requests <= Allowed, Told'
    PROVE  JobInv'
<1> USE SameJob
<1> DEFINE len == Len(Script(job))
<1>1. len = Work + 1 /\ Work \in {4, 6} BY AtWork DEF JobInv
<1>2. st'.at = Work + 1 /\ st'.tries = 0 /\ DOMAIN st' = Fields /\ out' = out
  BY <1>1 DEF Advanced
<1>3. Placed'
  <2>1. 0 \in 0 .. MaxRetries BY EngineAssumption
  <2> QED BY <1>1, <1>2, <2>1 DEF JobInv, Placed
<1>4. QueryInv' BY <1>1, <1>2 DEF QueryInv
<1>5. ContainerInv'
  <2>1. st'.container = "up" => st.container = "up" BY DEF Advanced
  <2>2. job.type # "snapshot" BY DEF Query
  <2> QED BY <2>1, <2>2 DEF JobInv, ContainerInv
<1> QED BY <1>3, <1>4, <1>5 DEF JobInv

(* A statement is executed.                                                *)
LEMMA OpenCursorKeeps ==
    ASSUME JobInv, Sourced, OpenCursor
    PROVE  JobInv'
<1>0. out.status = "running" /\ Step.do = "stream" /\ ~st.open /\ job' = job
  BY DEF OpenCursor, At
<1>1. Query /\ job.conn = "postgres" /\ st.at = Work BY <1>0, AtWork DEF JobInv
<1>2. Kept(st) BY DEF Kept, JobInv, Placed, Counted, QueryInv
<1>3. CASE job.stmt # "select"
  <2>1. Raise(st, "guardrail") BY <1>3 DEF OpenCursor
  <2>2. DOMAIN st = Fields BY DEF JobInv, Placed
  <2>3. Raised(st) BY <1>0, <2>1, <2>2, RaiseRaises DEF JobInv
  <2> QED BY <1>0, <1>2, <2>3, RaiseKeeps
<1>4. CASE job.stmt = "select"
  <2>1. st' = [st EXCEPT !.open = TRUE, !.seen = source.rows] /\ out' = out
    BY <1>4 DEF OpenCursor
  <2> DEFINE s == [st EXCEPT !.open = TRUE, !.seen = source.rows]
  <2>3. DOMAIN st = Fields /\ st.tries \in 0 .. MaxRetries BY DEF JobInv, Placed
  <2>4. Stayed(s) BY <2>1, <2>3 DEF Stayed, Carried, Fields
  <2>5. /\ st'.rows = st.rows /\ st'.offset = st.offset /\ st'.requests = st.requests
        /\ st'.truncated = st.truncated /\ st'.open = TRUE /\ st'.seen = source.rows
    BY <2>1, <2>3 DEF Fields
  <2>6. Counted' BY <1>0, <2>5, SameJob DEF Counted, JobInv
  <2>7. Streaming /\ st.rows = 0 /\ st.requests <= Allowed
    BY <1>0, <1>1 DEF JobInv, QueryInv, Streaming
  <2>8. source.rows \in Nat /\ 0 <= source.rows BY EngineAssumption DEF Sourced
  <2>9. Streaming' BY <2>5, <2>7, <2>8 DEF Streaming
  <2> HIDE DEF s
  <2> QED BY <1>0, <1>1, <2>4, <2>5, <2>6, <2>7, <2>9, StayReading
<1> QED BY <1>3, <1>4

(* One fetchmany, as numbers: of what is left, at most one row more than   *)
(* fits is fetched, and what fits is kept.                                 *)
Pulled(cap, rows, seen) == Min({FetchBatch, cap + 1 - rows, seen - rows})
Fitting(n, cap, rows) == Min({n, cap - rows})

FetchedWell(cap, rows, seen) ==
    LET batch == Pulled(cap, rows, seen)
        kept == Fitting(batch, cap, rows) IN
    /\ batch \in Nat /\ kept \in Nat
    /\ batch > kept => seen > cap /\ kept = cap - rows
    /\ ~(batch > kept) => kept = batch /\ rows + kept <= seen
    /\ rows + kept \in 0 .. cap
    /\ batch = 0 => rows = seen

LEMMA Fetched ==
    ASSUME NEW cap \in Nat, NEW rows \in 0 .. cap, NEW seen \in Nat, rows <= seen
    PROVE  FetchedWell(cap, rows, seen)
<1> DEFINE batch == Pulled(cap, rows, seen)
           kept == Fitting(batch, cap, rows)
<1>1. /\ cap + 1 - rows \in Int /\ seen - rows \in Int /\ cap - rows \in Int
      /\ FetchBatch \in Int /\ FetchBatch >= 1
  BY EngineAssumption
<1>2. /\ batch \in Int /\ batch <= FetchBatch /\ batch <= cap + 1 - rows /\ batch <= seen - rows
      /\ (batch = FetchBatch \/ batch = cap + 1 - rows \/ batch = seen - rows)
  BY <1>1, MinOfThree DEF Pulled
<1> HIDE DEF batch
<1>3. kept = IF batch <= cap - rows THEN batch ELSE cap - rows BY <1>1, <1>2, MinOfTwo DEF Fitting
<1> HIDE DEF kept
<1>4. /\ batch \in Nat /\ kept \in Nat
      /\ batch > kept => seen > cap /\ kept = cap - rows
      /\ ~(batch > kept) => kept = batch /\ rows + kept <= seen
      /\ rows + kept \in 0 .. cap
      /\ batch = 0 => rows = seen
  BY <1>1, <1>2, <1>3
<1> QED BY <1>4 DEF batch, kept, FetchedWell

(* One fetchmany of _stream.                                               *)
LEMMA FetchManyKeeps ==
    ASSUME JobInv, FetchMany
    PROVE  JobInv'
<1> DEFINE batch == Pulled(Cap, st.rows, st.seen)
           kept == Fitting(batch, Cap, st.rows)
           s == [st EXCEPT !.rows = @ + kept, !.truncated = batch > kept]
<1>0. /\ out.status = "running" /\ Step.do = "stream" /\ st.open /\ job' = job
      /\ IF batch = 0 \/ batch > kept THEN GoOn(s, "pass") ELSE st' = s /\ out' = out
  BY DEF FetchMany, At, Cap, Pulled, Fitting
<1>1. Query /\ job.conn = "postgres" /\ st.at = Work BY <1>0, AtWork DEF JobInv
<1>2. /\ Cap \in Nat /\ st.rows \in 0 .. Cap /\ FetchBatch \in Nat \ {0}
      /\ st.offset \in Nat /\ st.requests \in Nat /\ st.open \in BOOLEAN
      /\ DOMAIN st = Fields /\ st.tries \in 0 .. MaxRetries
  BY AllowedNat, EngineAssumption DEF JobInv, Placed, Counted
<1>3. st.seen \in Nat /\ st.rows <= st.seen /\ st.requests = 0 /\ st.requests <= Allowed
  BY <1>0, <1>1 DEF JobInv, QueryInv, Streaming
<1>4. /\ batch \in Nat /\ kept \in Nat
      /\ batch > kept => st.seen > Cap
      /\ ~(batch > kept) => st.rows + kept <= st.seen
      /\ st.rows + kept \in 0 .. Cap
      /\ batch = 0 => st.rows = st.seen
      /\ ~(batch > kept) => kept = batch
  <2>1. FetchedWell(Cap, st.rows, st.seen) BY <1>2, <1>3, Fetched
  <2> QED BY <2>1 DEF FetchedWell
<1> HIDE DEF kept, batch
<1>5. /\ DOMAIN s = Fields /\ s.at = st.at /\ s.rows = st.rows + kept
      /\ s.truncated = (batch > kept) /\ s.offset = st.offset /\ s.requests = st.requests
      /\ s.open = st.open /\ s.seen = st.seen /\ s.container = st.container
      /\ s.tries = st.tries
  BY <1>2 DEF Fields
<1> HIDE DEF s
<1>6. ASSUME Carried(s) PROVE Counted' /\ st'.requests <= Allowed
  BY <1>0, <1>2, <1>3, <1>4, <1>5, <1>6, SameJob DEF Counted, Carried
<1>7. CASE batch = 0 \/ batch > kept
  <2>1. Advanced(s) BY <1>0, <1>5, <1>7, GoOnAdvances DEF JobInv
  <2>2. Carried(s) BY <2>1 DEF Advanced
  <2>3. st'.truncated = (batch > kept) /\ st'.seen = st.seen BY <1>5, <2>2 DEF Carried
  <2>4. (batch > kept) <=> st.seen > Cap BY <1>2, <1>3, <1>4, <1>7
  <2>5. Told' BY <1>0, <2>3, <2>4, SameJob DEF Told
  <2> QED BY <1>0, <1>1, <1>5, <1>6, <2>1, <2>2, <2>5, AdvanceReading
<1>8. CASE ~(batch = 0 \/ batch > kept)
  <2>1. st' = s /\ out' = out BY <1>0, <1>8
  <2>2. Carried(s) /\ Stayed(s) BY <1>2, <1>5, <2>1 DEF Stayed, Carried
  <2>3. Streaming' BY <1>0, <1>3, <1>4, <1>5, <1>8, <2>1 DEF Streaming
  <2> QED BY <1>0, <1>1, <1>6, <2>2, <2>3, StayReading
<1> QED BY <1>7, <1>8

-----------------------------------------------------------------------------
(* Requests                                                                *)

(* One more request of a page is within what the pages so far and this one *)
(* may cost ...                                                            *)
LEMMA RequestsCount ==
    ASSUME NEW m \in Nat, NEW k \in Nat, NEW t \in 0 .. m, NEW r \in Nat,
           r <= (m + 1) * k + t
    PROVE  r + 1 <= (m + 1) * (k + 1) /\ (m + 1) * k \in Nat
<1>1. (m + 1) * (k + 1) = (m + 1) * k + (m + 1) OBVIOUS
<1>2. (m + 1) * k \in Nat OBVIOUS
<1> DEFINE x == (m + 1) * k
<1> HIDE DEF x
<1>3. r <= x + t /\ x \in Nat BY <1>2 DEF x
<1>4. r + 1 <= x + (m + 1) BY <1>3
<1> QED BY <1>1, <1>2, <1>4 DEF x

(* ... and more pages cost more.                                           *)
LEMMA MorePages ==
    ASSUME NEW m \in Nat, NEW a \in Nat, NEW b \in Nat, a <= b
    PROVE  m * a <= m * b
<1>1. PICK d \in Nat : b = a + d
  <2>1. b - a \in Nat /\ b = a + (b - a) OBVIOUS
  <2> QED BY <2>1
<1>2. m * b = m * a + m * d BY <1>1
<1>3. m * a \in Nat /\ m * d \in Nat BY <1>1
<1> QED BY <1>2, <1>3

(* While a query reads pages, one more request is within its limit.        *)
LEMMA OneMoreRequest ==
    ASSUME JobInv, Paging
    PROVE  st.requests + 1 <= Allowed
<1>1. PICK k \in Nat : st.rows = k * PageSize
                       /\ st.requests <= (MaxRetries + 1) * k + st.tries
  BY DEF Paging
<1>2. /\ PageSize \in Nat \ {0} /\ MaxRetries \in Nat /\ Cap \in Nat /\ st.requests \in Nat
      /\ st.tries \in 0 .. MaxRetries /\ k * PageSize < Cap
  BY <1>1, EngineAssumption, AllowedNat DEF JobInv, Placed, Counted, Paging
<1>3. st.requests + 1 <= (MaxRetries + 1) * (k + 1) BY <1>1, <1>2, RequestsCount
<1> DEFINE d == Cap \div PageSize
<1>4. k <= d /\ d \in Nat BY <1>2, PagesFit
<1> HIDE DEF d
<1>5. (MaxRetries + 1) * (k + 1) <= (MaxRetries + 1) * (d + 1)
  <2>1. MaxRetries + 1 \in Nat /\ k + 1 \in Nat /\ d + 1 \in Nat /\ k + 1 <= d + 1
    BY <1>2, <1>4
  <2> QED BY <2>1, MorePages
<1>6. (MaxRetries + 1) * (k + 1) \in Int /\ (MaxRetries + 1) * (d + 1) \in Int BY <1>2, <1>4
<1>7. st.requests + 1 <= (MaxRetries + 1) * (d + 1) BY <1>2, <1>3, <1>5, <1>6
<1> QED BY <1>7 DEF Allowed, d

(* One page, as numbers.                                                   *)
Got(size, n, offset) == Min({size, Max({n - offset, 0})})

PagedWell(cap, rows, n) ==
    LET size == Asked(cap, rows)
        got == Got(size, n, rows)
        kept == Fitting(got, cap, rows) IN
    /\ got \in Nat /\ kept \in Nat /\ rows + kept \in 0 .. cap
    /\ got > kept => n > cap
    /\ ~(got > kept) /\ ~(got < size) /\ ~(rows + kept >= cap) =>
          got = PageSize /\ kept = PageSize
    /\ n > cap /\ ~(got > kept)
       /\ (got < size \/ rows + got >= n \/ rows + kept >= cap) => cap = rows + PageSize

LEMMA PagedNumbers ==
    ASSUME NEW cap \in Nat, NEW rows \in Nat, rows < cap, NEW n \in Nat
    PROVE  PagedWell(cap, rows, n)
<1> DEFINE size == Asked(cap, rows)
           left == Max({n - rows, 0})
           got == Got(size, n, rows)
           kept == Fitting(got, cap, rows)
<1>1. /\ PageSize \in Int /\ PageSize >= 1 /\ cap - rows + 1 \in Int /\ n - rows \in Int
      /\ cap - rows \in Int /\ 0 \in Int
  BY EngineAssumption
<1>2. size = IF cap - rows + 1 <= PageSize THEN cap - rows + 1 ELSE PageSize
  BY <1>1, MinOfTwo DEF Asked
<1>3. left = IF n - rows >= 0 THEN n - rows ELSE 0 BY <1>1, MaxOfTwo
<1>4. got = Min({size, left}) BY DEF Got
<1>5. size \in Int /\ left \in Int BY <1>1, <1>2, <1>3
<1> HIDE DEF size, left
<1>6. got = IF size <= left THEN size ELSE left BY <1>4, <1>5, MinOfTwo
<1>7. got \in Int BY <1>5, <1>6
<1> HIDE DEF got
<1>8. kept = IF got <= cap - rows THEN got ELSE cap - rows BY <1>1, <1>7, MinOfTwo DEF Fitting
<1> HIDE DEF kept
<1>9. size >= 1 /\ left >= 0 BY <1>1, <1>2, <1>3
<1>10. got \in Nat /\ kept \in Nat /\ rows + kept \in 0 .. cap
  BY <1>1, <1>5, <1>6, <1>7, <1>8, <1>9
<1>11. got > kept => n > cap BY <1>1, <1>2, <1>3, <1>6, <1>8
<1>12. ~(got > kept) /\ ~(got < size) /\ ~(rows + kept >= cap) =>
          got = PageSize /\ kept = PageSize
  BY <1>1, <1>2, <1>3, <1>6, <1>8
<1>13. n > cap /\ ~(got > kept)
       /\ (got < size \/ rows + got >= n \/ rows + kept >= cap) => cap = rows + PageSize
  BY <1>1, <1>2, <1>3, <1>6, <1>8
<1> QED BY <1>10, <1>11, <1>12, <1>13 DEF PagedWell, size, got, kept

(* The last page may fill the cap only if the cap is a number of pages.    *)
LEMMA CapInPages ==
    ASSUME NEW cap \in Nat, NEW k \in Nat, cap = k * PageSize + PageSize
    PROVE  cap % PageSize = 0
<1>1. PageSize \in Nat \ {0} BY EngineAssumption
<1>2. k * PageSize + PageSize = (k + 1) * PageSize BY <1>1
<1> QED BY <1>1, <1>2, PagesExact

(* The engine's record with one request more.                              *)
Requested == [st EXCEPT !.requests = @ + 1]

(* Where a request is made, it is within the limit.                        *)
LEMMA RequestKept ==
    ASSUME JobInv, Calling
    PROVE  /\ Kept(Requested) /\ Requested.container = st.container
           /\ Requested.requests = st.requests + 1
           /\ Step.do = "page" => Query /\ job.conn # "postgres" /\ st.at = Work /\ Paging
           /\ Step.do \in {"get", "list"} => ~Query
<1>1. out.status = "running" /\ Step.do \in {"get", "list", "page"} BY DEF Calling
<1>2. /\ Step.do = "page" => Query /\ job.conn # "postgres" /\ st.at = Work
      /\ Step.do \in {"get", "list"} => ~Query
  BY <1>1, AtWork DEF JobInv
<1>3. Step.do = "page" => Paging BY <1>1, <1>2 DEF JobInv, QueryInv
<1>4. Query => st.requests + 1 <= Allowed /\ st.at = Work BY <1>1, <1>2, <1>3, OneMoreRequest
<1>5. DOMAIN st = Fields /\ st.requests \in Nat BY DEF JobInv, Placed, Counted
<1>6. /\ DOMAIN Requested = Fields /\ Requested.requests = st.requests + 1
      /\ Requested.at = st.at /\ Requested.tries = st.tries /\ Requested.rows = st.rows
      /\ Requested.offset = st.offset /\ Requested.seen = st.seen
      /\ Requested.truncated = st.truncated /\ Requested.open = st.open
      /\ Requested.container = st.container
  BY <1>5 DEF Requested, Fields
<1>7. Kept(Requested) BY <1>4, <1>5, <1>6 DEF Kept
<1> QED BY <1>2, <1>3, <1>6, <1>7

(* A request that will be retried.                                         *)
LEMMA RetryKeeps ==
    ASSUME JobInv, Calling, job' = job, out' = out, st.tries < MaxRetries,
           NEW u, st' = [Requested EXCEPT !.tries = @ + 1, !.until = u]
    PROVE  JobInv'
<1>0. out.status = "running" /\ Step.do \in {"get", "list", "page"} BY DEF Calling
<1>1. /\ Kept(Requested) /\ Requested.container = st.container
      /\ Requested.requests = st.requests + 1
  BY RequestKept
<1>2. st.tries \in 0 .. MaxRetries /\ MaxRetries \in Nat BY EngineAssumption DEF JobInv, Placed
<1>3. /\ DOMAIN st' = Fields /\ Carried(Requested) /\ st'.at = st.at
      /\ st'.tries = st.tries + 1 /\ st'.container = st.container
  BY <1>1 DEF Kept, Fields, Carried
<1>4. Stayed(Requested) BY <1>2, <1>3 DEF Stayed
<1>5. CASE ~Query BY <1>0, <1>1, <1>4, <1>5, StayPlain
<1>6. CASE Query
  <2>1. Paging /\ job.conn # "postgres" /\ st.at = Work BY <1>0, <1>6, RequestKept
  <2>2. PICK k \in Nat : st.rows = k * PageSize
                         /\ st.requests <= (MaxRetries + 1) * k + st.tries
    BY <2>1 DEF Paging
  <2>3. /\ st'.rows = st.rows /\ st'.offset = st.offset /\ st'.truncated = st.truncated
        /\ st'.open = st.open /\ st'.requests = st.requests + 1
    BY <1>1, <1>3 DEF Carried, Kept
  <2>4. st.requests \in Nat BY DEF JobInv, Counted
  <2>5. (MaxRetries + 1) * k \in Nat BY <1>2
  <2>6. st'.requests <= (MaxRetries + 1) * k + st'.tries
    <3> DEFINE x == (MaxRetries + 1) * k
    <3>1. x \in Nat /\ st.requests <= x + st.tries BY <2>2, <2>5
    <3> HIDE DEF x
    <3>2. st.requests + 1 <= x + (st.tries + 1) BY <1>2, <2>4, <3>1
    <3> QED BY <1>3, <2>3, <3>2 DEF x
  <2>7. \E i \in Nat : st'.rows = i * PageSize
                       /\ st'.requests <= (MaxRetries + 1) * i + st'.tries
    BY <2>2, <2>3, <2>6
  <2>8. Paging' BY <2>1, <2>3, <2>7, SameJob DEF Paging
  <2>9. Counted' BY <2>3, SameJob DEF Counted, JobInv
  <2>10. st'.requests <= Allowed BY <1>3, <1>1, <1>6 DEF Carried, Kept
  <2> QED BY <1>0, <1>4, <1>6, <2>1, <2>8, <2>9, <2>10, StayReading
<1> QED BY <1>5, <1>6

(* One page of a query.                                                    *)
LEMMA PagedKeeps ==
    ASSUME JobInv, Sourced, Calling, job' = job, Step.do = "page", Paged(Requested)
    PROVE  JobInv'
<1> DEFINE size == Asked(Cap, st.rows)
           got == Got(size, source.rows, st.rows)
           kept == Fitting(got, Cap, st.rows)
           t == [Requested EXCEPT !.rows = @ + kept, !.truncated = got > kept,
                                  !.seen = source.rows, !.offset = @ + got, !.tries = 0]
           counted == job.conn = "ga4" /\ t.offset >= source.rows
<1>0. out.status = "running" BY DEF Calling
<1>1. /\ Kept(Requested) /\ Requested.container = st.container
      /\ Requested.requests = st.requests + 1
      /\ Query /\ job.conn # "postgres" /\ st.at = Work /\ Paging
  BY RequestKept
<1>2. st.offset = st.rows /\ Requested.rows = st.rows /\ Requested.offset = st.rows
  BY <1>1 DEF Paging, Kept
<1>3. IF t.truncated \/ Exhausted(got, size) \/ counted \/ t.rows >= Cap
      THEN GoOn(t, "pass") ELSE st' = t /\ out' = out
  BY <1>2 DEF Paged, Cap, Got, Fitting
<1>4. PICK k \in Nat : st.rows = k * PageSize
                       /\ st.requests <= (MaxRetries + 1) * k + st.tries
  BY <1>1 DEF Paging
<1>5. /\ Cap \in Nat /\ st.rows \in Nat /\ st.rows < Cap /\ source.rows \in Nat
      /\ PageSize \in Nat \ {0} /\ MaxRetries \in Nat /\ st.tries \in 0 .. MaxRetries
      /\ st.requests \in Nat /\ st.open \in BOOLEAN
  BY <1>1, AllowedNat, EngineAssumption DEF JobInv, Placed, Counted, Sourced, Paging
<1>6. PagedWell(Cap, st.rows, source.rows) BY <1>5, PagedNumbers
<1>7. /\ got \in Nat /\ kept \in Nat /\ st.rows + kept \in 0 .. Cap
      /\ got > kept => source.rows > Cap
      /\ ~(got > kept) /\ ~(got < size) /\ ~(st.rows + kept >= Cap) =>
            got = PageSize /\ kept = PageSize
      /\ source.rows > Cap /\ ~(got > kept)
         /\ (got < size \/ st.rows + got >= source.rows \/ st.rows + kept >= Cap) =>
            Cap = st.rows + PageSize
  BY <1>6 DEF PagedWell
<1> HIDE DEF size, got, kept
<1>8. /\ DOMAIN t = Fields /\ t.at = st.at /\ t.rows = st.rows + kept
      /\ t.truncated = (got > kept) /\ t.seen = source.rows /\ t.offset = st.rows + got
      /\ t.tries = 0 /\ t.requests = st.requests + 1 /\ t.open = st.open
      /\ t.container = st.container
  BY <1>1, <1>2 DEF Kept, Fields
<1> HIDE DEF t
<1>9. ASSUME Carried(t) PROVE Counted' /\ st'.requests <= Allowed
  <2>1. st.requests + 1 <= Allowed BY <1>1 DEF Kept
  <2> QED BY <1>5, <1>7, <1>8, <1>9, <2>1, SameJob DEF Counted, Carried
<1> DEFINE done == got > kept \/ got < size
                   \/ (job.conn = "ga4" /\ st.rows + got >= source.rows)
                   \/ st.rows + kept >= Cap
<1>10. IF done THEN GoOn(t, "pass") ELSE st' = t /\ out' = out
  BY <1>3, <1>8 DEF Exhausted
<1>11. CASE done
  <2>1. Advanced(t) BY <1>0, <1>8, <1>10, <1>11, GoOnAdvances DEF JobInv
  <2>2. Carried(t) BY <2>1 DEF Advanced
  <2>3. st'.truncated = (got > kept) /\ st'.seen = source.rows BY <1>8, <2>2 DEF Carried
  <2>4. Cap % PageSize # 0 => (got > kept <=> source.rows > Cap)
    <3> SUFFICES ASSUME Cap % PageSize # 0, source.rows > Cap, ~(got > kept) PROVE FALSE
      BY <1>7
    <3>1. Cap = k * PageSize + PageSize BY <1>4, <1>7, <1>11
    <3> QED BY <1>5, <3>1, CapInPages
  <2>5. Told' BY <1>1, <2>3, <2>4, SameJob DEF Told
  <2> QED BY <1>0, <1>1, <1>8, <1>9, <2>1, <2>2, <2>5, AdvanceReading
<1>12. CASE ~done
  <2>1. st' = t /\ out' = out BY <1>10, <1>12
  <2>2. 0 \in 0 .. MaxRetries BY <1>5
  <2>3. Carried(t) /\ Stayed(t) BY <1>8, <2>1, <2>2 DEF Stayed, Carried
  <2>4. got = PageSize /\ kept = PageSize /\ ~(got > kept) /\ ~(st.rows + kept >= Cap)
    BY <1>7, <1>12
  <2>5. st.rows + PageSize = (k + 1) * PageSize /\ k + 1 \in Nat BY <1>4, <1>5
  <2>6. st.requests + 1 <= (MaxRetries + 1) * (k + 1) + 0
    <3>1. st.requests + 1 <= (MaxRetries + 1) * (k + 1) BY <1>4, <1>5, RequestsCount
    <3>2. (MaxRetries + 1) * (k + 1) \in Int BY <1>5
    <3>3. (MaxRetries + 1) * (k + 1) + 0 = (MaxRetries + 1) * (k + 1) BY <3>2
    <3> QED BY <3>1, <3>3
  <2>7. st'.rows = (k + 1) * PageSize /\ st'.requests <= (MaxRetries + 1) * (k + 1) + st'.tries
    BY <1>8, <2>1, <2>4, <2>5, <2>6
  <2>8. \E i \in Nat : st'.rows = i * PageSize
                       /\ st'.requests <= (MaxRetries + 1) * i + st'.tries
    BY <2>5, <2>7
  <2>9. st'.rows < Cap /\ st'.offset = st'.rows BY <1>5, <1>7, <1>8, <2>1, <2>4
  <2>10. ~st'.truncated BY <1>8, <2>1, <2>4
  <2>11. Paging' BY <2>8, <2>9, <2>10, SameJob DEF Paging
  <2> QED BY <1>0, <1>1, <1>9, <2>3, <2>11, StayReading
<1> QED BY <1>11, <1>12

(* One request and its answer.                                             *)
LEMMA RequestKeeps ==
    ASSUME JobInv, Sourced, NEW answer, Request(answer)
    PROVE  JobInv'
<1>0. Calling /\ out.status = "running" /\ job' = job BY DEF Request, Calling
<1>1. Kept(Requested) /\ Requested.container = st.container BY <1>0, RequestKept
<1>2. DOMAIN Requested = Fields /\ Requested.at = st.at BY <1>1 DEF Kept
<1>3. \/ /\ Retries(answer) /\ out' = out
         /\ st' = [Requested EXCEPT !.tries = @ + 1, !.until = now + Delay(st.tries)]
      \/ Step.do = "get" /\ GoOn(Requested, "pass")
      \/ Step.do = "list" /\ Listed(Requested)
      \/ Step.do = "page" /\ Paged(Requested)
      \/ Raise(Requested, FaultIn(answer))
  BY DEF Request, Requested
<1>4. CASE /\ Retries(answer) /\ out' = out
           /\ st' = [Requested EXCEPT !.tries = @ + 1, !.until = now + Delay(st.tries)]
  <2>1. st.tries < MaxRetries BY <1>4 DEF Retries
  <2> QED BY <1>0, <1>4, <2>1, RetryKeeps
<1>5. ASSUME Step.do \in {"get", "list"}, GoOn(Requested, "pass") PROVE JobInv'
  <2>1. Advanced(Requested) BY <1>0, <1>2, <1>5, GoOnAdvances DEF JobInv
  <2> QED BY <1>0, <1>1, <1>5, <2>1, AdvanceKeeps
<1>6. CASE Step.do = "list" /\ Listed(Requested)
  <2>1. CASE GoOn(Requested, "pass") BY <1>5, <1>6, <2>1
  <2>2. CASE st' = [Requested EXCEPT !.page = @ + 1, !.tries = 0] /\ out' = out
    <3>1. ~Query BY <1>0, <1>6, RequestKept
    <3>2. 0 \in 0 .. MaxRetries BY EngineAssumption
    <3>3. Stayed(Requested) BY <1>1, <1>2, <2>2, <3>2 DEF Stayed, Carried, Fields
    <3> QED BY <1>0, <1>1, <3>1, <3>3, StayPlain
  <2> QED BY <1>6, <2>1, <2>2 DEF Listed
<1>7. CASE Step.do = "page" /\ Paged(Requested) BY <1>0, <1>7, PagedKeeps
<1>8. CASE Raise(Requested, FaultIn(answer))
  <2>1. Raised(Requested) BY <1>0, <1>2, <1>8, RaiseRaises DEF JobInv
  <2> QED BY <1>0, <1>1, <2>1, RaiseKeeps
<1> QED BY <1>3, <1>4, <1>5, <1>6, <1>7, <1>8

-----------------------------------------------------------------------------
(* The other steps of a job                                                *)

(* Going on and raising from where the engine is.                          *)
LEMMA FromHere ==
    ASSUME JobInv, out.status = "running", job' = job
    PROVE  /\ Kept(st)
           /\ \A check : GoOn(st, check) /\ Step.do \notin {"stream", "page"} => JobInv'
           /\ \A fault : Raise(st, fault) => JobInv'
<1>1. Kept(st) BY DEF Kept, JobInv, Placed, Counted, QueryInv
<1>2. DOMAIN st = Fields /\ Placed BY DEF JobInv, Placed
<1>3. ASSUME NEW check, GoOn(st, check), Step.do \notin {"stream", "page"} PROVE JobInv'
  <2>1. Advanced(st) BY <1>2, <1>3, GoOnAdvances
  <2> QED BY <1>1, <1>3, <2>1, AdvanceKeeps
<1>4. ASSUME NEW fault, Raise(st, fault) PROVE JobInv'
  <2>1. Raised(st) BY <1>2, <1>4, RaiseRaises
  <2> QED BY <1>1, <2>1, RaiseKeeps
<1> QED BY <1>1, <1>3, <1>4

(* Only steps that read no rows succeed or raise as a whole.               *)
LEMMA FaultyStepsPlain ==
    ASSUME FaultsOf(Step.do) # {}
    PROVE  Step.do \notin {"stream", "page"}
<1>1. Range(CatalogReads) = {"relations", "columns", "keys", "indexes", "checks"}
  BY DEF Range, CatalogReads
<1>2. ASSUME NEW d \in {"stream", "page"} PROVE FaultsOf(d) = {}
  BY <1>1 DEF FaultsOf
<1> QED BY <1>2

(* docker run: the container is up from here on, or the job has ended.     *)
LEMMA DockerRunKeeps ==
    ASSUME JobInv, NEW result, DockerRun(result)
    PROVE  JobInv'
<1> DEFINE s == [st EXCEPT !.container = result]
<1>1. /\ out.status = "running" /\ Step.do = "docker_run" /\ job' = job
      /\ IF result = "up" THEN GoOn(s, "pass")
         ELSE Raise(s, "unavailable") \/ Raise(s, "crash")
  BY DEF DockerRun, At
<1>2. Kept(st) /\ DOMAIN st = Fields /\ Placed BY <1>1, FromHere DEF JobInv, Placed
<1>3. Kept(s) /\ DOMAIN s = Fields /\ s.at = st.at /\ s.container = result
  BY <1>2 DEF Kept, Fields
<1> HIDE DEF s
<1>4. CASE result = "up"
  <2>1. Advanced(s) BY <1>1, <1>2, <1>3, <1>4, GoOnAdvances
  <2> QED BY <1>1, <1>3, <2>1, AdvanceKeeps
<1>5. CASE result # "up"
  <2>1. Raised(s) BY <1>1, <1>2, <1>3, <1>5, RaiseRaises
  <2> QED BY <1>1, <1>3, <1>5, <2>1, RaiseKeeps
<1> QED BY <1>4, <1>5

(* Every step of the engine keeps what is known of the job.                *)
LEMMA JobInvStep ==
    ASSUME JobInv, Sourced, Next
    PROVE  JobInv'
<1>1. CASE StepPasses
  <2>1. PICK check : /\ out.status = "running" /\ FaultsOf(Step.do) # {}
                     /\ GoOn(st, check) /\ job' = job
    BY <1>1 DEF StepPasses
  <2> QED BY <2>1, FromHere, FaultyStepsPlain
<1>2. CASE \E f \in Fault : StepRaises(f) \/ CursorFails(f)
  <2>1. PICK f \in Fault : out.status = "running" /\ Raise(st, f) /\ job' = job
    BY <1>2 DEF StepRaises, CursorFails, At
  <2> QED BY <2>1, FromHere
<1>3. CASE \E c \in {"up", "none", "late"} : DockerRun(c) BY <1>3, DockerRunKeeps
<1>4. CASE CheckSuperuser
  <2>1. /\ out.status = "running" /\ Step.do = "superuser" /\ job' = job
        /\ (Raise(st, "config") \/ Raise(st, "crash") \/ GoOn(st, "pass"))
    BY <1>4 DEF CheckSuperuser, At
  <2> QED BY <2>1, FromHere
<1>5. CASE CheckGrants
  <2>1. /\ out.status = "running" /\ Step.do = "grants" /\ job' = job
        /\ (Raise(st, "config") \/ Raise(st, "crash") \/ GoOn(st, "pass"))
    BY <1>5 DEF CheckGrants, At
  <2> QED BY <2>1, FromHere
<1>6. CASE CheckStatement
  <2>1. /\ out.status = "running" /\ Step.do = "statement" /\ job' = job
        /\ (Raise(st, "config") \/ Raise(st, "guardrail") \/ GoOn(st, "pass"))
    BY <1>6 DEF CheckStatement, At
  <2> QED BY <2>1, FromHere
<1>7. CASE OpenCursor BY <1>7, OpenCursorKeeps
<1>8. CASE FetchMany BY <1>8, FetchManyKeeps
<1>9. CASE \E a \in Answer \cup Unanswered : Request(a) BY <1>9, RequestKeeps
<1>10. ASSUME UNCHANGED <<job, st, out>> PROVE JobInv'
  BY <1>10 DEF JobInv, Placed, Counted, QueryInv, ContainerInv, Query, Work, Clean, Fresh,
               Streaming, Paging, Told, Allowed, Cap
<1>11. CASE Pace BY <1>10, <1>11 DEF Pace
<1>12. CASE \E n \in 0 .. MaxRows : ChangeRows(n) BY <1>10, <1>12 DEF ChangeRows
<1>13. CASE \E r \in Role : ChangeRole(r) BY <1>10, <1>13 DEF ChangeRole
<1>14. CASE Passes BY <1>10, <1>14 DEF Passes
<1> QED
  BY <1>1, <1>2, <1>3, <1>4, <1>5, <1>6, <1>7, <1>8, <1>9, <1>11, <1>12, <1>13, <1>14 DEF Next

-----------------------------------------------------------------------------
(* The clock, the bucket and the source                                    *)

(* The engine does to the bucket what the bucket allows, or nothing.       *)
LEMMA BucketStep == Next => [BucketNext]_<<now, bucket>>
<1> SUFFICES ASSUME Next PROVE [BucketNext]_<<now, bucket>>
  OBVIOUS
<1>1. CASE Pace BY <1>1 DEF Pace, BucketNext
<1>2. CASE \E a \in Answer \cup Unanswered : Request(a)
  <2>1. (Acquire \/ UNCHANGED bucket) /\ UNCHANGED now BY <1>2 DEF Request
  <2> QED BY <2>1 DEF BucketNext
<1>3. CASE Passes BY <1>3 DEF Passes, BucketNext
<1>4. CASE ~(Pace \/ Passes \/ \E a \in Answer \cup Unanswered : Request(a))
  <2>1. UNCHANGED <<now, bucket>>
    BY <1>4 DEF Next, StepPasses, StepRaises, CursorFails, DockerRun, CheckSuperuser,
                CheckGrants, CheckStatement, OpenCursor, FetchMany, ChangeRows, ChangeRole
  <2> QED BY <2>1
<1> QED BY <1>1, <1>2, <1>3, <1>4

(* A sleep ends in the future; nothing happens after the last tick.        *)
LEMMA TimedStep ==
    ASSUME Timed, BucketInv, Next
    PROVE  Timed'
<1>1. now <= MaxNow /\ now \in Nat /\ MaxNow \in Nat /\ wake \in {Awake} \cup Nat
  BY EngineAssumption DEF Timed, BucketInv
<1>2. CASE Passes
  BY <1>1, <1>2 DEF Passes, Tick, bucket, Timed
<1>3. CASE Pace
  <2>1. Sleep /\ now' = now BY <1>3 DEF Pace
  <2>2. Filled \in Int /\ Filled < Gap /\ wake' = now + (Gap - Filled) /\ Gap \in Int
    BY <2>1, FilledBounds, CapacityNat DEF Sleep
  <2>3. wake' \in Nat BY <1>1, <2>2
  <2> QED BY <1>1, <2>1, <2>3 DEF Timed
<1>4. CASE \E a \in Answer \cup Unanswered : Request(a)
  <2>1. (Acquire \/ UNCHANGED bucket) /\ now' = now BY <1>4 DEF Request
  <2>2. wake' \in {Awake, wake} BY <2>1 DEF Acquire, Take, Wake, bucket
  <2> QED BY <1>1, <2>1, <2>2 DEF Timed
<1>5. CASE ~(Pace \/ Passes \/ \E a \in Answer \cup Unanswered : Request(a))
  <2>1. UNCHANGED <<now, bucket>>
    BY <1>5 DEF Next, StepPasses, StepRaises, CursorFails, DockerRun, CheckSuperuser,
                CheckGrants, CheckStatement, OpenCursor, FetchMany, ChangeRows, ChangeRole
  <2> QED BY <1>1, <2>1 DEF Timed, bucket
<1> QED BY <1>2, <1>3, <1>4, <1>5

(* The source keeps its type, whoever changes it.                          *)
LEMMA SourcedStep ==
    ASSUME Sourced, Next
    PROVE  Sourced'
<1>1. CASE \E n \in 0 .. MaxRows : ChangeRows(n) BY <1>1 DEF ChangeRows, Sourced
<1>2. CASE \E r \in Role : ChangeRole(r) BY <1>2 DEF ChangeRole, Sourced
<1>3. CASE UNCHANGED source BY <1>3 DEF Sourced
<1> QED BY <1>1, <1>2, <1>3
     DEF Next, StepPasses, StepRaises, CursorFails, DockerRun, CheckSuperuser,
         CheckGrants, CheckStatement, OpenCursor, FetchMany, Pace, Request, Passes

-----------------------------------------------------------------------------
(* The invariant                                                           *)

(* The invariant holds at the start ...                                    *)
LEMMA EngineInvInit == Init => EngineInv
<1> SUFFICES ASSUME Init PROVE EngineInv
  OBVIOUS
<1>1. BucketInv BY BucketInvInit DEF Init
<1>2. Timed BY EngineAssumption DEF Init, BucketInit, Timed
<1>3. job \in JobKinds /\ st = Start /\ out = Running BY DEF Init
<1>4. Sourced
  <2>1. 1 \in 1 .. ListPages /\ 0 \in 0 .. MaxRows BY EngineAssumption
  <2> DEFINE R == IF job.type = "execute" THEN 0 .. MaxRows ELSE {0}
             L == IF job.conn = "postgres" THEN Role ELSE {"reader"}
             P == IF job.conn = "ga4" THEN 1 .. ListPages ELSE {1}
  <2>2. source \in [rows : R, role : L, pages : P] BY DEF Init
  <2>3. R \subseteq 0 .. MaxRows BY <2>1
  <2>4. L \subseteq Role BY DEF Role
  <2>5. P \subseteq 1 .. ListPages BY <2>1
  <2> HIDE DEF R, L, P
  <2> QED BY <2>2, <2>3, <2>4, <2>5 DEF Sourced
<1>5. /\ DOMAIN st = Fields /\ st.at = 1 /\ st.tries = 0 /\ st.rows = 0 /\ st.offset = 0
      /\ st.requests = 0 /\ st.truncated = FALSE /\ st.open = FALSE
      /\ st.container = "none" /\ out.status = "running"
  BY <1>3 DEF Start, Fields, Running
<1>6. Placed
  <2>1. Len(Script(job)) \in Nat \ {0} BY <1>3, ScriptFacts
  <2>2. 0 \in 0 .. MaxRetries BY EngineAssumption
  <2>3. 1 \in 1 .. Len(Script(job)) + 1 /\ 1 <= Len(Script(job)) BY <2>1
  <2> QED BY <1>3, <1>5, <2>2, <2>3 DEF Placed, Statuses
<1>7. Cap \in Nat \ {0} /\ Allowed \in Nat BY <1>6, AllowedNat
<1>8. Counted
  <2>1. st.rows \in 0 .. Cap /\ st.offset \in Nat /\ st.requests \in Nat BY <1>5, <1>7
  <2>2. st.truncated \in BOOLEAN /\ st.open \in BOOLEAN BY <1>5, Zenon
  <2> QED BY <2>1, <2>2, Zenon DEF Counted
<1>9. Fresh BY <1>5 DEF Fresh, Clean
<1>10. QueryInv
  <2>1. Work \in {4, 6} BY DEF Work
  <2> QED BY <1>5, <1>7, <1>9, <2>1 DEF QueryInv, Fresh
<1>11. ContainerInv BY <1>5 DEF ContainerInv
<1> QED BY <1>1, <1>2, <1>3, <1>4, <1>6, <1>8, <1>10, <1>11 DEF EngineInv, JobInv

(* ... and every step keeps it.                                            *)
LEMMA EngineInvStep == EngineInv /\ [Next]_vars => EngineInv'
<1> SUFFICES ASSUME EngineInv, [Next]_vars PROVE EngineInv'
  OBVIOUS
<1>1. CASE Next
  <2>1. BucketInv' BY <1>1, BucketStep, BucketInvStep DEF EngineInv
  <2>2. Timed' BY <1>1, TimedStep DEF EngineInv
  <2>3. Sourced' BY <1>1, SourcedStep DEF EngineInv
  <2>4. JobInv' BY <1>1, JobInvStep DEF EngineInv
  <2> QED BY <2>1, <2>2, <2>3, <2>4 DEF EngineInv
<1>2. CASE UNCHANGED vars
  <2>1. UNCHANGED <<now, bucket>> /\ UNCHANGED <<job, st, source, out>>
    BY <1>2 DEF vars
  <2>2. BucketInv' BY <2>1, BucketInvStep DEF EngineInv
  <2>3. Timed' /\ Sourced' BY <2>1 DEF EngineInv, Timed, Sourced, bucket
  <2>4. JobInv'
    BY <2>1 DEF EngineInv, JobInv, Placed, Counted, QueryInv, ContainerInv, Query, Work, Clean,
                Fresh, Streaming, Paging, Told, Allowed, Cap
  <2> QED BY <2>2, <2>3, <2>4 DEF EngineInv
<1> QED BY <1>1, <1>2

(* Hence it holds throughout.                                              *)
LEMMA EngineInvariant == Spec => []EngineInv
BY EngineInvInit, EngineInvStep, PTL DEF Spec

-----------------------------------------------------------------------------
(* Theorems                                                                *)

(* The engine uses the bucket as TokenBucket is meant to be used: every    *)
(* job is a behaviour of the bucket's own specification.                   *)
THEOREM EngineUsesBucket == Spec => BucketSpec
<1>1. Init => BucketInit BY DEF Init
<1>2. [Next]_vars => [BucketNext]_<<now, bucket>> BY BucketStep DEF vars
<1> QED BY <1>1, <1>2, PTL DEF Spec, BucketSpec

(* The requests of a GA4 job are paced whatever the job does between two   *)
(* of them: retries, pages and back-offs included.                         *)
THEOREM EnginePaced == Spec => []PacedCalls
BY EngineUsesBucket, RequestsPaced, PTL

(* Every variable keeps its type, the rows of a job stay within its cap    *)
(* and its retries within the policy, for every job a connector serves.    *)
THEOREM EngineTypeCorrect == Spec => []EngineTypeOK
<1>1. EngineInv => EngineTypeOK
  <2> SUFFICES ASSUME EngineInv PROVE EngineTypeOK
    OBVIOUS
  <2>1. /\ now \in Nat /\ level \in 0 .. Capacity /\ last \in 0 .. now /\ sent \in Seq(Nat)
        /\ \A i \in DOMAIN sent : sent[i] <= last
    BY DEF EngineInv, BucketInv
  <2>2. now \in 0 .. MaxNow /\ wake \in {Awake} \cup Nat
    BY <2>1, EngineAssumption DEF EngineInv, Timed
  <2>3. sent \in Seq(0 .. MaxNow)
    <3>1. \A i \in 1 .. Len(sent) : sent[i] \in 0 .. MaxNow
      BY <2>1, <2>2, EngineAssumption
    <3>2. sent \in [1 .. Len(sent) -> 0 .. MaxNow] /\ Len(sent) \in Nat BY <2>1, <3>1
    <3> QED BY <3>2, SeqDef
  <2>4. /\ job \in JobKinds /\ st.at \in 1 .. Len(Script(job)) + 1
        /\ st.tries \in 0 .. MaxRetries /\ out.status \in Statuses
    BY DEF EngineInv, JobInv, Placed
  <2>5. st.rows \in 0 .. RowCap(job.ask) /\ st.truncated \in BOOLEAN /\ st.open \in BOOLEAN
    BY DEF EngineInv, JobInv, Counted, Cap
  <2> QED BY <2>1, <2>2, <2>3, <2>4, <2>5 DEF EngineTypeOK, EngineInv, Sourced, Statuses
<1> QED BY <1>1, EngineInvariant, PTL

(* A query costs no more requests than the pages of its cap with their     *)
(* retries, whatever GA4 or Search Console answers.                        *)
THEOREM QueriesBounded == Spec => []RequestsBounded
<1>1. EngineInv => RequestsBounded
  BY DEF EngineInv, JobInv, QueryInv, RequestsBounded, Query, Allowed, Cap
<1> QED BY <1>1, EngineInvariant, PTL

(* `truncated` is the truth about the rows beyond the cap, for a Postgres  *)
(* query always and for an API query unless its cap is a whole number of   *)
(* pages.                                                                  *)
THEOREM TruncationTold == Spec => []TruncatedIffMore
<1>1. EngineInv => TruncatedIffMore
  BY DEF EngineInv, JobInv, QueryInv, Told, TruncatedIffMore, Answered, Query, Cap
<1> QED BY <1>1, EngineInvariant, PTL

(* No way out of a ddl-file snapshot goes round the removal of its         *)
(* container (ephemeral_postgres), whichever step raises whatever.         *)
THEOREM RemovalAlwaysTried == Spec => []RemovalTried
<1>1. EngineInv => RemovalTried BY DEF EngineInv, JobInv, ContainerInv, RemovalTried
<1> QED BY <1>1, EngineInvariant, PTL
=============================================================================
