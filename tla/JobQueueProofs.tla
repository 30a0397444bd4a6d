--------------------------- MODULE JobQueueProofs ---------------------------
(***************************************************************************)
(* Theorems about JobQueue for every set of jobs, keys, requests and       *)
(* limits.                                                                 *)
(***************************************************************************)
EXTENDS JobQueue, TLAPS

ActiveState == {"queued"} \cup LiveState

\* What holds of a row by itself.  Every lease granted is accounted for by the
\* attempt or by the deferral it led to, or is the one outstanding.
RowInv(r) ==
    /\ r.state \in RowState => r.key \in Key
    /\ r.state \in ActiveState => /\ r.attempt <= r.limits.attempts
                                  /\ r.deferrals <= r.limits.deferrals
    /\ r.state = "queued" => r.grants + 1 = r.attempt + r.deferrals
    /\ r.state \in LiveState => r.grants = r.attempt + r.deferrals /\ r.token = r.grants
    /\ r.grants <= r.limits.attempts + r.limits.deferrals
    /\ r.state = "succeeded" => r.by = r.grants
    /\ r.state \notin RowState => r.triggers = {}

-----------------------------------------------------------------------------
(* What the row operators return: a row again, with its invariant.         *)

LEMMA StateFacts ==
  /\ RowState \subseteq State
  /\ LiveState \subseteq RowState
  /\ TerminalState \subseteq RowState
  /\ "queued" \in RowState /\ "absent" \in State /\ "deleted" \in State
  BY DEF RowState, State

LEMMA NoRowRow ==
  ASSUME NEW s \in {"absent", "deleted"}
  PROVE  NoRow(s) \in Row /\ RowInv(NoRow(s)) /\ NoRow(s).state = s
  <1>1. NoRow(s) \in Row
    BY StateFacts DEF NoRow, Row, ErrorCode
  <1>2. RowInv(NoRow(s)) /\ NoRow(s).state = s
    BY DEF NoRow, RowInv, RowState, LiveState, TerminalState, ActiveState
  <1> QED BY <1>1, <1>2

LEMMA NewRowRow ==
  ASSUME NEW k \in Key, NEW lim \in Limits, NEW t \in Trigger
  PROVE  /\ NewRow(k, lim, t) \in Row
         /\ RowInv(NewRow(k, lim, t))
         /\ NewRow(k, lim, t).state = "queued"
         /\ NewRow(k, lim, t).key = k
         /\ NewRow(k, lim, t).triggers = {t}
  <1> DEFINE q == NewRow(k, lim, t)
  <1>1. /\ lim \in [attempts : Nat, deferrals : Nat, deadline : Nat]
        /\ lim.attempts >= 1 /\ lim.deferrals >= 1
    BY LimitsAssumption DEF PositiveLimits
  <1> DEFINE q0 == NoRow("queued")
             q1 == [q0 EXCEPT !.key = k]
             q2 == [q1 EXCEPT !.limits = lim]
             q3 == [q2 EXCEPT !.triggers = {t}]
  <1>2. q0 \in Row /\ q0.state = "queued" /\ q0.attempt = 1 /\ q0.deferrals = 0 /\ q0.grants = 0
    BY StateFacts DEF NoRow, Row, ErrorCode
  <1>3. q = q3
    BY DEF NewRow
  <1> HIDE DEF q0, q
  <1>4. /\ q1 \in Row /\ q1.state = "queued" /\ q1.attempt = 1 /\ q1.deferrals = 0
        /\ q1.grants = 0 /\ q1.key = k
    BY <1>2 DEF Row
  <1> HIDE DEF q1
  <1>5. /\ q2 \in Row /\ q2.state = "queued" /\ q2.attempt = 1 /\ q2.deferrals = 0
        /\ q2.grants = 0 /\ q2.key = k /\ q2.limits = lim
    BY <1>1, <1>4 DEF Row
  <1> HIDE DEF q2
  <1>6. /\ q3 \in Row /\ q3.state = "queued" /\ q3.attempt = 1 /\ q3.deferrals = 0
        /\ q3.grants = 0 /\ q3.key = k /\ q3.limits = lim /\ q3.triggers = {t}
    BY <1>5 DEF Row
  <1> HIDE DEF q3
  <1>7. RowInv(q3)
    BY <1>1, <1>6 DEF RowInv, RowState, LiveState, ActiveState
  <1> QED BY <1>3, <1>6, <1>7 DEF q

LEMMA ReleasedRow ==
  ASSUME NEW r \in Row, NEW s \in State
  PROVE  /\ Released(r, s) \in Row
         /\ LET q == Released(r, s)
            IN  /\ q.state = s /\ q.token = 0 /\ q.key = r.key /\ q.limits = r.limits
                /\ q.attempt = r.attempt /\ q.deferrals = r.deferrals
                /\ q.cancel = r.cancel /\ q.triggers = r.triggers
                /\ q.into = r.into /\ q.grants = r.grants /\ q.by = r.by
  <1> DEFINE r1 == [r EXCEPT !.state = s]
             r2 == [r1 EXCEPT !.token = 0]
             r3 == [r2 EXCEPT !.lease = 0]
  <1>1. r1 \in Row
    BY DEF Row
  <1>2. r2 \in Row
    <2> HIDE DEF r1
    <2> QED BY <1>1 DEF Row
  <1>3. r3 \in Row
    <2> HIDE DEF r2
    <2> QED BY <1>2 DEF Row
  <1>4. Released(r, s) = r3
    BY DEF Released
  <1>5. LET q == Released(r, s)
        IN  /\ q.state = s /\ q.token = 0 /\ q.key = r.key /\ q.limits = r.limits
            /\ q.attempt = r.attempt /\ q.deferrals = r.deferrals
            /\ q.cancel = r.cancel /\ q.triggers = r.triggers
            /\ q.into = r.into /\ q.grants = r.grants /\ q.by = r.by
    BY DEF Released, Row
  <1> QED BY <1>3, <1>4, <1>5

LEMMA CancelTerminalRow ==
  ASSUME NEW r \in Row, RowInv(r), r.state \in ActiveState
  PROVE  LET q == CancelTerminal(r)
         IN  /\ q \in Row /\ RowInv(q)
             /\ q.state = "cancelled" /\ q.key = r.key /\ q.triggers = r.triggers
  <1> DEFINE q0 == Released(r, "cancelled")
             q == [q0 EXCEPT !.error = "cancelled"]
  <1>1. /\ q0 \in Row /\ q0.state = "cancelled" /\ q0.key = r.key /\ q0.limits = r.limits
        /\ q0.triggers = r.triggers /\ q0.grants = r.grants
    BY ReleasedRow DEF State, RowState, TerminalState
  <1>2. CancelTerminal(r) = q
    BY DEF CancelTerminal
  <1> HIDE DEF q0
  <1>3. /\ q \in Row /\ q.state = "cancelled" /\ q.key = r.key /\ q.limits = r.limits
        /\ q.triggers = r.triggers /\ q.grants = r.grants
    BY <1>1 DEF Row, ErrorCode
  <1>4. RowInv(q)
    <2> HIDE DEF q
    <2> QED BY <1>3 DEF RowInv, ActiveState, RowState, LiveState, TerminalState
  <1> QED BY <1>2, <1>3, <1>4

LEMMA DeadLetterRow ==
  ASSUME NEW r \in Row, RowInv(r), r.state \in ActiveState, NEW e \in ErrorCode
  PROVE  LET q == DeadLetter(r, e)
         IN  /\ q \in Row /\ RowInv(q)
             /\ q.state = "dead_lettered" /\ q.key = r.key /\ q.triggers = r.triggers
  <1> DEFINE q0 == Released(r, "dead_lettered")
             q == [q0 EXCEPT !.error = e]
  <1>1. /\ q0 \in Row /\ q0.state = "dead_lettered" /\ q0.key = r.key /\ q0.limits = r.limits
        /\ q0.triggers = r.triggers /\ q0.grants = r.grants
    BY ReleasedRow DEF State, RowState, TerminalState
  <1>2. DeadLetter(r, e) = q
    BY DEF DeadLetter
  <1> HIDE DEF q0
  <1>3. /\ q \in Row /\ q.state = "dead_lettered" /\ q.key = r.key /\ q.limits = r.limits
        /\ q.triggers = r.triggers /\ q.grants = r.grants
    BY <1>1 DEF Row
  <1>4. RowInv(q)
    <2> HIDE DEF q
    <2> QED BY <1>3 DEF RowInv, ActiveState, RowState, LiveState, TerminalState
  <1> QED BY <1>2, <1>3, <1>4

LEMMA RequeuedRow ==
  ASSUME NEW r \in Row, RowInv(r), r.state \in LiveState, r.attempt < r.limits.attempts,
         NEW e \in ErrorCode, NEW d \in Nat, NEW T \in SUBSET Trigger
  PROVE  LET q == Requeued(r, e, d, T)
         IN  /\ q \in Row /\ RowInv(q)
             /\ q.state = "queued" /\ q.key = r.key /\ q.triggers = T
  <1> DEFINE q0 == Released(r, "queued")
             q1 == [q0 EXCEPT !.attempt = @ + 1]
             q2 == [q1 EXCEPT !.wait = d]
             q3 == [q2 EXCEPT !.triggers = T]
             q4 == [q3 EXCEPT !.error = e]
  <1>1. /\ q0 \in Row /\ q0.state = "queued" /\ q0.key = r.key /\ q0.limits = r.limits
        /\ q0.attempt = r.attempt /\ q0.deferrals = r.deferrals /\ q0.grants = r.grants
    BY ReleasedRow, StateFacts
  <1>2. Requeued(r, e, d, T) = q4
    BY DEF Requeued
  <1> HIDE DEF q0
  <1>3. /\ q1 \in Row /\ q1.state = "queued" /\ q1.key = r.key /\ q1.limits = r.limits
        /\ q1.attempt = r.attempt + 1 /\ q1.deferrals = r.deferrals /\ q1.grants = r.grants
    BY <1>1 DEF Row
  <1> HIDE DEF q1
  <1>4. /\ q2 \in Row /\ q2.state = "queued" /\ q2.key = r.key /\ q2.limits = r.limits
        /\ q2.attempt = r.attempt + 1 /\ q2.deferrals = r.deferrals /\ q2.grants = r.grants
    BY <1>3 DEF Row
  <1> HIDE DEF q2
  <1>5. /\ q3 \in Row /\ q3.state = "queued" /\ q3.key = r.key /\ q3.limits = r.limits
        /\ q3.attempt = r.attempt + 1 /\ q3.deferrals = r.deferrals /\ q3.grants = r.grants
        /\ q3.triggers = T
    BY <1>4 DEF Row
  <1> HIDE DEF q3
  <1>6. /\ q4 \in Row /\ q4.state = "queued" /\ q4.key = r.key /\ q4.limits = r.limits
        /\ q4.attempt = r.attempt + 1 /\ q4.deferrals = r.deferrals /\ q4.grants = r.grants
        /\ q4.triggers = T
    BY <1>5 DEF Row
  <1> HIDE DEF q4
  <1>7. RowInv(q4)
    BY <1>6 DEF RowInv, ActiveState, RowState, LiveState, Row
  <1> QED BY <1>2, <1>6, <1>7

LEMMA DeferredRow ==
  ASSUME NEW r \in Row, RowInv(r), r.state \in LiveState,
         r.deferrals + 1 <= r.limits.deferrals, NEW d \in Nat
  PROVE  LET q == Deferred(r, d)
         IN  /\ q \in Row /\ RowInv(q)
             /\ q.state = "queued" /\ q.key = r.key /\ q.triggers = r.triggers /\ q.wait = d
  <1> DEFINE q0 == Released(r, "queued")
             q1 == [q0 EXCEPT !.deferrals = @ + 1]
             q2 == [q1 EXCEPT !.wait = d]
             q3 == [q2 EXCEPT !.error = "deferred"]
  <1>1. /\ q0 \in Row /\ q0.state = "queued" /\ q0.key = r.key /\ q0.limits = r.limits
        /\ q0.attempt = r.attempt /\ q0.deferrals = r.deferrals /\ q0.grants = r.grants
        /\ q0.triggers = r.triggers
    BY ReleasedRow, StateFacts
  <1>2. Deferred(r, d) = q3
    BY DEF Deferred
  <1> HIDE DEF q0
  <1>3. /\ q1 \in Row /\ q1.state = "queued" /\ q1.key = r.key /\ q1.limits = r.limits
        /\ q1.attempt = r.attempt /\ q1.deferrals = r.deferrals + 1 /\ q1.grants = r.grants
        /\ q1.triggers = r.triggers
    BY <1>1 DEF Row
  <1> HIDE DEF q1
  <1>4. /\ q2 \in Row /\ q2.state = "queued" /\ q2.key = r.key /\ q2.limits = r.limits
        /\ q2.attempt = r.attempt /\ q2.deferrals = r.deferrals + 1 /\ q2.grants = r.grants
        /\ q2.triggers = r.triggers /\ q2.wait = d
    BY <1>3 DEF Row
  <1> HIDE DEF q2
  <1>5. /\ q3 \in Row /\ q3.state = "queued" /\ q3.key = r.key /\ q3.limits = r.limits
        /\ q3.attempt = r.attempt /\ q3.deferrals = r.deferrals + 1 /\ q3.grants = r.grants
        /\ q3.triggers = r.triggers /\ q3.wait = d
    BY <1>4 DEF Row, ErrorCode
  <1> HIDE DEF q3
  <1>6. RowInv(q3)
    BY <1>5 DEF RowInv, ActiveState, RowState, LiveState, Row
  <1> QED BY <1>2, <1>5, <1>6

LEMMA CoalescedRow ==
  ASSUME NEW r \in Row, RowInv(r), r.state \in LiveState, NEW i \in Job
  PROVE  LET q == Coalesced(r, i)
         IN  /\ q \in Row /\ RowInv(q)
             /\ q.state = "coalesced" /\ q.key = r.key /\ q.triggers = r.triggers /\ q.into = i
  <1> DEFINE q0 == Released(r, "coalesced")
             q == [q0 EXCEPT !.into = i]
  <1>1. /\ q0 \in Row /\ q0.state = "coalesced" /\ q0.key = r.key /\ q0.limits = r.limits
        /\ q0.triggers = r.triggers /\ q0.grants = r.grants
    BY ReleasedRow DEF State, RowState, TerminalState
  <1>2. Coalesced(r, i) = q
    BY DEF Coalesced
  <1> HIDE DEF q0
  <1>3. /\ q \in Row /\ q.state = "coalesced" /\ q.key = r.key /\ q.limits = r.limits
        /\ q.triggers = r.triggers /\ q.grants = r.grants /\ q.into = i
    BY <1>1 DEF Row
  <1>4. RowInv(q)
    <2> HIDE DEF q
    <2> QED BY <1>3 DEF RowInv, ActiveState, RowState, LiveState, TerminalState
  <1> QED BY <1>2, <1>3, <1>4

LEMMA SurvivorRow ==
  ASSUME NEW r \in Row, RowInv(r), r.state = "queued", NEW d \in Nat, NEW T \in SUBSET Trigger
  PROVE  LET q == Survivor(r, d, T)
         IN  /\ q \in Row /\ RowInv(q)
             /\ q.state = "queued" /\ q.key = r.key /\ q.triggers = r.triggers \cup T
             /\ q.wait = MaxOf(r.wait, d)
  <1> DEFINE q == Survivor(r, d, T)
  <1>1. MaxOf(r.wait, d) \in Nat /\ r.triggers \cup T \in SUBSET Trigger
    BY DEF MaxOf, Row
  <1>2. /\ q \in Row /\ q.state = "queued" /\ q.key = r.key /\ q.limits = r.limits
        /\ q.attempt = r.attempt /\ q.deferrals = r.deferrals /\ q.grants = r.grants
        /\ q.triggers = r.triggers \cup T /\ q.wait = MaxOf(r.wait, d)
    BY <1>1 DEF Survivor, Row
  <1>3. RowInv(q)
    <2> HIDE DEF q
    <2> QED BY <1>2 DEF RowInv, ActiveState, RowState, LiveState
  <1> QED BY <1>2, <1>3

LEMMA SucceededRow ==
  ASSUME NEW r \in Row, RowInv(r), r.state \in LiveState
  PROVE  LET q == Succeeded(r, r.token)
         IN  /\ q \in Row /\ RowInv(q)
             /\ q.state = "succeeded" /\ q.key = r.key /\ q.triggers = r.triggers
  <1> DEFINE q0 == Released(r, "succeeded")
             q == [q0 EXCEPT !.by = r.token]
  <1>1. /\ q0 \in Row /\ q0.state = "succeeded" /\ q0.key = r.key /\ q0.limits = r.limits
        /\ q0.triggers = r.triggers /\ q0.grants = r.grants
    BY ReleasedRow DEF State, RowState, TerminalState
  <1>2. Succeeded(r, r.token) = q
    BY DEF Succeeded
  <1> HIDE DEF q0
  <1>3. /\ q \in Row /\ q.state = "succeeded" /\ q.key = r.key /\ q.limits = r.limits
        /\ q.triggers = r.triggers /\ q.grants = r.grants /\ q.by = r.token
    BY <1>1 DEF Row
  <1>4. RowInv(q)
    <2> HIDE DEF q
    <2> QED BY <1>3 DEF RowInv, ActiveState, RowState, LiveState, TerminalState
  <1> QED BY <1>2, <1>3, <1>4

LEMMA LeasedRow ==
  ASSUME NEW r \in Row, RowInv(r), r.state = "queued"
  PROVE  LET q == Leased(r)
         IN  /\ q \in Row /\ RowInv(q)
             /\ q.state = "leased" /\ q.key = r.key /\ q.triggers = r.triggers
  <1> DEFINE q1 == [r EXCEPT !.state = "leased"]
             q2 == [q1 EXCEPT !.grants = @ + 1]
             q3 == [q2 EXCEPT !.token = r.grants + 1]
             q4 == [q3 EXCEPT !.lease = LeaseTtl]
  <1>1. Leased(r) = q4
    BY DEF Leased
  <1>2. /\ q1 \in Row /\ q1.state = "leased" /\ q1.key = r.key /\ q1.limits = r.limits
        /\ q1.attempt = r.attempt /\ q1.deferrals = r.deferrals /\ q1.grants = r.grants
        /\ q1.triggers = r.triggers
    BY DEF Row, State, RowState, LiveState
  <1> HIDE DEF q1
  <1>3. /\ q2 \in Row /\ q2.state = "leased" /\ q2.key = r.key /\ q2.limits = r.limits
        /\ q2.attempt = r.attempt /\ q2.deferrals = r.deferrals /\ q2.grants = r.grants + 1
        /\ q2.triggers = r.triggers
    BY <1>2 DEF Row
  <1> HIDE DEF q2
  <1>4. /\ q3 \in Row /\ q3.state = "leased" /\ q3.key = r.key /\ q3.limits = r.limits
        /\ q3.attempt = r.attempt /\ q3.deferrals = r.deferrals /\ q3.grants = r.grants + 1
        /\ q3.triggers = r.triggers /\ q3.token = r.grants + 1
    BY <1>3 DEF Row
  <1> HIDE DEF q3
  <1>5. /\ q4 \in Row /\ q4.state = "leased" /\ q4.key = r.key /\ q4.limits = r.limits
        /\ q4.attempt = r.attempt /\ q4.deferrals = r.deferrals /\ q4.grants = r.grants + 1
        /\ q4.triggers = r.triggers /\ q4.token = r.grants + 1
    BY <1>4, TimeAssumption DEF Row
  <1> HIDE DEF q4
  <1>6. RowInv(q4)
    BY <1>5 DEF RowInv, ActiveState, RowState, LiveState, Row
  <1> QED BY <1>1, <1>5, <1>6

LEMMA StartedRow ==
  ASSUME NEW r \in Row, RowInv(r), r.state \in LiveState
  PROVE  LET q == Started(r)
         IN  /\ q \in Row /\ RowInv(q)
             /\ q.state = "running" /\ q.key = r.key /\ q.triggers = r.triggers
  <1> DEFINE b == IF r.started THEN r.budget ELSE r.limits.deadline
             q1 == [r EXCEPT !.state = "running"]
             q2 == [q1 EXCEPT !.lease = LeaseTtl]
             q3 == [q2 EXCEPT !.started = TRUE]
             q4 == [q3 EXCEPT !.budget = b]
  <1>1. Started(r) = q4
    BY DEF Started, Row
  <1>b. b \in Int
    BY DEF Row
  <1> HIDE DEF b
  <1>2. /\ q1 \in Row /\ q1.state = "running" /\ q1.key = r.key /\ q1.limits = r.limits
        /\ q1.attempt = r.attempt /\ q1.deferrals = r.deferrals /\ q1.grants = r.grants
        /\ q1.triggers = r.triggers /\ q1.token = r.token
    BY DEF Row, State, RowState, LiveState
  <1> HIDE DEF q1
  <1>3. /\ q2 \in Row /\ q2.state = "running" /\ q2.key = r.key /\ q2.limits = r.limits
        /\ q2.attempt = r.attempt /\ q2.deferrals = r.deferrals /\ q2.grants = r.grants
        /\ q2.triggers = r.triggers /\ q2.token = r.token
    BY <1>2, TimeAssumption DEF Row
  <1> HIDE DEF q2
  <1>4. /\ q3 \in Row /\ q3.state = "running" /\ q3.key = r.key /\ q3.limits = r.limits
        /\ q3.attempt = r.attempt /\ q3.deferrals = r.deferrals /\ q3.grants = r.grants
        /\ q3.triggers = r.triggers /\ q3.token = r.token
    BY <1>3 DEF Row
  <1> HIDE DEF q3
  <1>5. /\ q4 \in Row /\ q4.state = "running" /\ q4.key = r.key /\ q4.limits = r.limits
        /\ q4.attempt = r.attempt /\ q4.deferrals = r.deferrals /\ q4.grants = r.grants
        /\ q4.triggers = r.triggers /\ q4.token = r.token
    BY <1>4, <1>b DEF Row
  <1> HIDE DEF q4
  <1>6. RowInv(q4)
    BY <1>5 DEF RowInv, ActiveState, RowState, LiveState
  <1> QED BY <1>1, <1>5, <1>6

LEMMA MergedRow ==
  ASSUME NEW r \in Row, RowInv(r), r.state = "queued", NEW t \in Trigger
  PROVE  LET q == Merged(r, t)
         IN  /\ q \in Row /\ RowInv(q) /\ q.state = "queued" /\ q.key = r.key
             /\ q.triggers = r.triggers \cup {t}
  BY DEF Merged, Row, RowInv, RowState

LEMMA MarkedRow ==
  ASSUME NEW r \in Row, RowInv(r)
  PROVE  LET q == Marked(r)
         IN  /\ q \in Row /\ RowInv(q) /\ q.state = r.state /\ q.key = r.key
             /\ q.triggers = r.triggers
  BY DEF Marked, Row, RowInv

LEMMA BeatenRow ==
  ASSUME NEW r \in Row, RowInv(r)
  PROVE  LET q == Beaten(r)
         IN  /\ q \in Row /\ RowInv(q) /\ q.state = r.state /\ q.key = r.key
             /\ q.triggers = r.triggers
  <1>1. HeartbeatLease(r) \in Int
    BY TimeAssumption DEF HeartbeatLease, MinOf, Row
  <1> QED BY <1>1 DEF Beaten, Row, RowInv

LEMMA AgedRow ==
  ASSUME NEW r \in Row, RowInv(r)
  PROVE  LET q == Aged(r)
         IN  /\ q \in Row /\ RowInv(q) /\ q.state = r.state /\ q.key = r.key
             /\ q.triggers = r.triggers
  <1> DEFINE w == IF r.state = "queued" THEN MaxOf(r.wait - 1, 0) ELSE r.wait
             l == IF r.state \in LiveState THEN MaxOf(r.lease - 1, -1) ELSE r.lease
             b == IF r.started /\ r.state \notin TerminalState
                  THEN MaxOf(r.budget - 1, -1) ELSE r.budget
             q1 == [r EXCEPT !.wait = w]
             q2 == [q1 EXCEPT !.lease = l]
             q3 == [q2 EXCEPT !.budget = b]
  <1>1. w \in Nat /\ l \in Int /\ b \in Int
    BY DEF Row, MaxOf
  <1>2. Aged(r) = q3
    BY DEF Aged, Row
  <1> HIDE DEF w, l, b
  <1>3. /\ q1 \in Row /\ q1.state = r.state /\ q1.key = r.key /\ q1.triggers = r.triggers /\ RowInv(q1)
    BY <1>1 DEF Row, RowInv
  <1> HIDE DEF q1
  <1>4. /\ q2 \in Row /\ q2.state = r.state /\ q2.key = r.key /\ q2.triggers = r.triggers /\ RowInv(q2)
    BY <1>1, <1>3 DEF Row, RowInv
  <1> HIDE DEF q2
  <1>5. /\ q3 \in Row /\ q3.state = r.state /\ q3.key = r.key /\ q3.triggers = r.triggers /\ RowInv(q3)
    BY <1>1, <1>4 DEF Row, RowInv
  <1> QED BY <1>2, <1>5

-----------------------------------------------------------------------------
(* The inductive invariant.                                                *)

\* The jobs table: rows of their type, each with its own invariant, the dedupe
\* rules, and no accepted request lost.
TableInv ==
    /\ jobs \in [Job -> Row]
    /\ \A j \in Job : RowInv(jobs[j])
    /\ OneQueuedPerKey
    /\ OneLivePerKey
    /\ TriggersAccounted

QueueInv == TypeOK /\ TableInv

LEMMA QueueInvInit == Init => QueueInv
  <1> SUFFICES ASSUME Init PROVE QueueInv
    OBVIOUS
  <1>1. \A j \in Job : jobs[j] \in Row /\ RowInv(jobs[j]) /\ jobs[j].state = "absent"
    BY NoRowRow DEF Init
  <1>2. jobs \in [Job -> Row]
    BY <1>1 DEF Init
  <1>3. OneQueuedPerKey /\ OneLivePerKey
    BY <1>1 DEF OneQueuedPerKey, OneLivePerKey, IsLive, LiveState
  <1>4. TriggersAccounted
    BY DEF TriggersAccounted, Init
  <1>5. TypeOK
    BY <1>2 DEF TypeOK, Init
  <1> QED BY <1>1, <1>2, <1>3, <1>4, <1>5 DEF QueueInv, TableInv

\* A transaction that rewrites one row.
LEMMA OneRowStep ==
  ASSUME TableInv, NEW j \in Job, NEW q \in Row, RowInv(q),
         jobs' = [jobs EXCEPT ![j] = q],
         q.state \in RowState \ {"coalesced"},
         jobs[j].triggers \subseteq q.triggers,
         accepted' \subseteq accepted \cup q.triggers,
         q.state = "queued" /\ q.key \in BatchKey => QueuedOf(q.key) \subseteq {j},
         q.state \in LiveState /\ q.key \in BatchKey => LiveOf(q.key) \subseteq {j}
  PROVE  TableInv'
  <1>1. /\ jobs' \in [Job -> Row]
        /\ jobs'[j] = q
        /\ \A i \in Job : i # j => jobs'[i] = jobs[i]
    BY DEF TableInv
  <1>2. \A i \in Job : RowInv(jobs'[i])
    BY <1>1 DEF TableInv
  <1>3. OneQueuedPerKey'
    BY <1>1 DEF TableInv, OneQueuedPerKey, QueuedOf
  <1>4. OneLivePerKey'
    BY <1>1 DEF TableInv, OneLivePerKey, LiveOf, IsLive
  <1>5. TriggersAccounted'
    <2> SUFFICES ASSUME NEW t \in accepted'
                 PROVE  \E i \in Job : /\ jobs'[i].state \in RowState \ {"coalesced"}
                                       /\ t \in jobs'[i].triggers
      BY DEF TriggersAccounted
    <2>1. CASE t \in q.triggers
      BY <2>1, <1>1
    <2>2. CASE t \notin q.triggers
      <3>1. PICK i \in Job : jobs[i].state \in RowState \ {"coalesced"} /\ t \in jobs[i].triggers
        BY <2>2 DEF TableInv, TriggersAccounted
      <3>2. i # j
        BY <2>2, <3>1
      <3> QED BY <1>1, <3>1, <3>2
    <2> QED BY <2>1, <2>2
  <1> QED BY <1>1, <1>2, <1>3, <1>4, <1>5 DEF TableInv

\* A live row that requeues takes its queued follower's triggers and its place.
LEMMA AbsorbStep ==
  ASSUME TableInv, NEW j \in Job, IsLive(j), NEW q \in Row, RowInv(q),
         jobs' = [i \in Job |-> IF i = j THEN q
                                ELSE IF i \in Followers(j) THEN NoRow("deleted") ELSE jobs[i]],
         q.state = "queued", q.key = jobs[j].key,
         q.triggers = jobs[j].triggers \cup UNION {jobs[f].triggers : f \in Followers(j)},
         accepted' = accepted
  PROVE  TableInv'
  <1>0. NoRow("deleted") \in Row /\ RowInv(NoRow("deleted")) /\ NoRow("deleted").state = "deleted"
    BY NoRowRow
  <1>1. /\ jobs' \in [Job -> Row]
        /\ jobs'[j] = q
        /\ \A i \in Job : i # j /\ i \in Followers(j) => jobs'[i] = NoRow("deleted")
        /\ \A i \in Job : i # j /\ i \notin Followers(j) => jobs'[i] = jobs[i]
    BY <1>0 DEF TableInv
  <1>2. \A i \in Job : RowInv(jobs'[i])
    BY <1>0, <1>1 DEF TableInv
  <1>3. OneQueuedPerKey'
    BY <1>0, <1>1 DEF TableInv, OneQueuedPerKey, QueuedOf, Followers
  <1>4. OneLivePerKey'
    BY <1>0, <1>1 DEF TableInv, OneLivePerKey, IsLive, LiveState
  <1>5. TriggersAccounted'
    <2> SUFFICES ASSUME NEW t \in accepted
                 PROVE  \E i \in Job : /\ jobs'[i].state \in RowState \ {"coalesced"}
                                       /\ t \in jobs'[i].triggers
      BY DEF TriggersAccounted
    <2>1. PICK i \in Job : jobs[i].state \in RowState \ {"coalesced"} /\ t \in jobs[i].triggers
      BY DEF TableInv, TriggersAccounted
    <2>2. q.state \in RowState \ {"coalesced"}
      BY DEF RowState
    <2>3. CASE i = j \/ i \in Followers(j)
      BY <2>1, <2>2, <2>3, <1>1
    <2>4. CASE ~(i = j \/ i \in Followers(j))
      BY <2>1, <2>4, <1>1
    <2> QED BY <2>3, <2>4
  <1> QED BY <1>1, <1>2, <1>3, <1>4, <1>5 DEF TableInv

\* A deferred row coalesces into its queued follower.
LEMMA CoalesceStep ==
  ASSUME TableInv, NEW j \in Job, IsLive(j), NEW s \in Followers(j),
         NEW q \in Row, RowInv(q), q.state = "coalesced",
         NEW p \in Row, RowInv(p), p.state = "queued", p.key = jobs[s].key,
         p.triggers = jobs[s].triggers \cup jobs[j].triggers,
         jobs' = [jobs EXCEPT ![j] = q, ![s] = p],
         accepted' = accepted
  PROVE  TableInv'
  <1>0. s \in Job /\ s # j /\ jobs[s].state = "queued"
    BY DEF Followers, QueuedOf
  <1>1. /\ jobs' \in [Job -> Row]
        /\ jobs'[j] = q
        /\ jobs'[s] = p
        /\ \A i \in Job : i # j /\ i # s => jobs'[i] = jobs[i]
    BY <1>0 DEF TableInv
  <1>2. \A i \in Job : RowInv(jobs'[i])
    BY <1>1 DEF TableInv
  <1>3. OneQueuedPerKey'
    BY <1>0, <1>1 DEF TableInv, OneQueuedPerKey
  <1>4. OneLivePerKey'
    BY <1>0, <1>1 DEF TableInv, OneLivePerKey, IsLive, LiveState
  <1>5. TriggersAccounted'
    <2> SUFFICES ASSUME NEW t \in accepted
                 PROVE  \E i \in Job : /\ jobs'[i].state \in RowState \ {"coalesced"}
                                       /\ t \in jobs'[i].triggers
      BY DEF TriggersAccounted
    <2>1. PICK i \in Job : jobs[i].state \in RowState \ {"coalesced"} /\ t \in jobs[i].triggers
      BY DEF TableInv, TriggersAccounted
    <2>2. p.state \in RowState \ {"coalesced"}
      BY DEF RowState
    <2>3. CASE i = j \/ i = s
      BY <2>1, <2>2, <2>3, <1>0, <1>1
    <2>4. CASE i # j /\ i # s
      BY <2>1, <2>4, <1>1
    <2> QED BY <2>3, <2>4
  <1> QED BY <1>1, <1>2, <1>3, <1>4, <1>5 DEF TableInv

-----------------------------------------------------------------------------
(* Every transaction preserves the invariant.                              *)

LEMMA BackoffType == ASSUME NEW a PROVE Backoff(a) \subseteq Nat
  BY TimeAssumption DEF Backoff

\* The lock every lease-holder call takes first.
LEMMA HeldRow ==
  ASSUME TableInv, NEW j \in Job, NEW tok, Holds(j, tok)
  PROVE  /\ jobs[j] \in Row /\ RowInv(jobs[j]) /\ IsLive(j)
         /\ jobs[j].state \in LiveState /\ jobs[j].state \in ActiveState
         /\ jobs[j].token = tok
  BY DEF TableInv, Holds, IsLive, ActiveState

LEMMA CancelTerminalStep ==
  ASSUME TableInv, NEW j \in Job, jobs[j].state \in ActiveState,
         jobs' = [jobs EXCEPT ![j] = CancelTerminal(@)], accepted' = accepted
  PROVE  TableInv'
  <1> DEFINE q == CancelTerminal(jobs[j])
  <1>1. /\ q \in Row /\ RowInv(q) /\ q.state = "cancelled" /\ q.triggers = jobs[j].triggers
        /\ jobs' = [jobs EXCEPT ![j] = q]
    BY CancelTerminalRow DEF TableInv
  <1> HIDE DEF q
  <1> QED BY <1>1, OneRowStep DEF RowState, LiveState, TerminalState

LEMMA DeadLetterStep ==
  ASSUME TableInv, NEW j \in Job, jobs[j].state \in ActiveState, NEW e \in ErrorCode,
         jobs' = [jobs EXCEPT ![j] = DeadLetter(@, e)], accepted' = accepted
  PROVE  TableInv'
  <1> DEFINE q == DeadLetter(jobs[j], e)
  <1>1. /\ q \in Row /\ RowInv(q) /\ q.state = "dead_lettered" /\ q.triggers = jobs[j].triggers
        /\ jobs' = [jobs EXCEPT ![j] = q]
    BY DeadLetterRow DEF TableInv
  <1> HIDE DEF q
  <1> QED BY <1>1, OneRowStep DEF RowState, LiveState, TerminalState

LEMMA SucceedStep ==
  ASSUME TableInv, NEW j \in Job, jobs[j].state \in LiveState,
         jobs' = [jobs EXCEPT ![j] = Succeeded(@, jobs[j].token)], accepted' = accepted
  PROVE  TableInv'
  <1> DEFINE q == Succeeded(jobs[j], jobs[j].token)
  <1>1. /\ q \in Row /\ RowInv(q) /\ q.state = "succeeded" /\ q.triggers = jobs[j].triggers
        /\ jobs' = [jobs EXCEPT ![j] = q]
    BY SucceededRow DEF TableInv
  <1> HIDE DEF q
  <1> QED BY <1>1, OneRowStep DEF RowState, LiveState, TerminalState

LEMMA RequeueOrDeadLetterStep ==
  ASSUME TableInv, NEW j \in Job, IsLive(j), NEW e \in ErrorCode, NEW events,
         RequeueOrDeadLetter(j, e, events), accepted' = accepted
  PROVE  TableInv'
  <1>0. jobs[j] \in Row /\ RowInv(jobs[j]) /\ jobs[j].state \in LiveState /\ jobs[j].state \in ActiveState
    BY DEF TableInv, IsLive, ActiveState
  <1>1. CASE jobs' = [jobs EXCEPT ![j] = CancelTerminal(@)]
    BY <1>0, <1>1, CancelTerminalStep
  <1>2. CASE jobs' = [jobs EXCEPT ![j] = DeadLetter(@, e)]
    BY <1>0, <1>2, DeadLetterStep
  <1> DEFINE T == jobs[j].triggers \cup UNION {jobs[f].triggers : f \in Followers(j)}
             Absorbed(q) == jobs' = [i \in Job |-> IF i = j THEN q
                                       ELSE IF i \in Followers(j) THEN NoRow("deleted") ELSE jobs[i]]
  <1>3. ASSUME NEW delay \in Backoff(jobs[j].attempt), jobs[j].attempt < jobs[j].limits.attempts,
               Absorbed(Requeued(jobs[j], e, delay, T))
        PROVE  TableInv'
    <2> DEFINE q == Requeued(jobs[j], e, delay, T)
    <2>1. \A f \in Job : jobs[f].triggers \subseteq Trigger
      BY DEF TableInv, Row
    <2>2. Followers(j) \subseteq Job
      BY DEF Followers, QueuedOf
    <2>3. T \in SUBSET Trigger
      BY <2>1, <2>2
    <2>4. delay \in Nat
      BY <1>3, BackoffType
    <2>5. q \in Row /\ RowInv(q) /\ q.state = "queued" /\ q.key = jobs[j].key /\ q.triggers = T
      <3> HIDE DEF T
      <3> QED BY <1>0, <1>3, <2>3, <2>4, RequeuedRow
    <2>6. Absorbed(q)
      BY <1>3
    <2> HIDE DEF q
    <2> QED BY <2>5, <2>6, AbsorbStep
  <1> QED BY <1>1, <1>2, <1>3, Zenon DEF RequeueOrDeadLetter

-----------------------------------------------------------------------------
LEMMA EnqueueMergedStep ==
  ASSUME QueueInv, NEW j \in Job, NEW k \in Key, NEW t \in Trigger, EnqueueMerged(j, k, t)
  PROVE  QueueInv'
  <1> DEFINE q == Merged(jobs[j], t)
  <1>1. jobs[j] \in Row /\ RowInv(jobs[j]) /\ jobs[j].state = "queued"
    BY DEF QueueInv, TableInv, EnqueueMerged, QueuedOf
  <1>2. /\ q \in Row /\ RowInv(q) /\ q.state = "queued" /\ q.key = jobs[j].key
        /\ q.triggers = jobs[j].triggers \cup {t}
    BY <1>1, MergedRow
  <1>3. jobs' = [jobs EXCEPT ![j] = q] /\ accepted' = accepted \cup {t}
    BY DEF EnqueueMerged
  <1> HIDE DEF q
  <1>4. q.key \in BatchKey => QueuedOf(q.key) \subseteq {j}
    BY <1>1, <1>2 DEF QueueInv, TableInv, OneQueuedPerKey, QueuedOf
  <1>5. TableInv'
    BY <1>2, <1>3, <1>4, OneRowStep DEF QueueInv, RowState, LiveState
  <1> QED BY <1>3, <1>5 DEF QueueInv, TypeOK, TableInv, EnqueueMerged

LEMMA EnqueueInsertedStep ==
  ASSUME QueueInv, NEW j \in Job, NEW k \in Key, NEW t \in Trigger, NEW lim \in Limits,
         EnqueueInserted(j, k, t, lim)
  PROVE  QueueInv'
  <1> DEFINE q == NewRow(k, lim, t)
  <1>1. q \in Row /\ RowInv(q) /\ q.state = "queued" /\ q.key = k /\ q.triggers = {t}
    BY NewRowRow
  <1>2. jobs' = [jobs EXCEPT ![j] = q] /\ accepted' = accepted \cup {t}
    BY DEF EnqueueInserted
  <1> HIDE DEF q
  <1>3. k \in BatchKey => QueuedOf(k) \subseteq {j}
    BY DEF EnqueueInserted
  <1>4. jobs[j].triggers \subseteq q.triggers
    BY DEF EnqueueInserted, QueueInv, TableInv, RowInv, RowState, LiveState, TerminalState
  <1>5. TableInv'
    BY <1>1, <1>2, <1>3, <1>4, OneRowStep DEF QueueInv, RowState, LiveState
  <1> QED BY <1>2, <1>5 DEF QueueInv, TypeOK, TableInv, EnqueueInserted

LEMMA ClaimStep ==
  ASSUME QueueInv, NEW j \in Job, Claim(j)
  PROVE  QueueInv'
  <1> DEFINE q == Leased(jobs[j])
  <1>1. jobs[j] \in Row /\ RowInv(jobs[j]) /\ jobs[j].state = "queued"
    BY DEF QueueInv, TableInv, Claim, Claimable
  <1>2. /\ q \in Row /\ RowInv(q) /\ q.state = "leased" /\ q.key = jobs[j].key
        /\ q.triggers = jobs[j].triggers
    BY <1>1, LeasedRow
  <1>3. jobs' = [jobs EXCEPT ![j] = q] /\ accepted' = accepted
    BY DEF Claim
  <1> HIDE DEF q
  <1>4. q.key \in BatchKey => LiveOf(q.key) \subseteq {j}
    BY <1>2 DEF Claim, Claimable
  <1>5. TableInv'
    BY <1>2, <1>3, <1>4, OneRowStep DEF QueueInv, RowState, LiveState
  <1> QED BY <1>5 DEF QueueInv, TypeOK, TableInv, Claim

\* The calls of a lease holder that leave its row live.
LEMMA LiveRowStep ==
  ASSUME TableInv, NEW j \in Job, IsLive(j), NEW q \in Row, RowInv(q),
         q.state \in LiveState, q.key = jobs[j].key, q.triggers = jobs[j].triggers,
         jobs' = [jobs EXCEPT ![j] = q], accepted' = accepted
  PROVE  TableInv'
  <1>1. q.key \in BatchKey => LiveOf(q.key) \subseteq {j}
    BY DEF TableInv, OneLivePerKey, LiveOf, IsLive
  <1> QED BY <1>1, OneRowStep DEF RowState, LiveState

LEMMA StartStep ==
  ASSUME QueueInv, NEW j \in Job, NEW tok, Start(j, tok)
  PROVE  QueueInv'
  <1> DEFINE q == Started(jobs[j])
  <1>1. jobs[j] \in Row /\ RowInv(jobs[j]) /\ IsLive(j) /\ jobs[j].state \in LiveState
    BY HeldRow DEF QueueInv, Start
  <1>2. /\ q \in Row /\ RowInv(q) /\ q.state \in LiveState /\ q.key = jobs[j].key
        /\ q.triggers = jobs[j].triggers
    BY <1>1, StartedRow DEF LiveState
  <1>3. jobs' = [jobs EXCEPT ![j] = q] /\ accepted' = accepted
    BY DEF Start
  <1> HIDE DEF q
  <1>4. TableInv'
    BY <1>1, <1>2, <1>3, LiveRowStep DEF QueueInv
  <1> QED BY <1>4 DEF QueueInv, TypeOK, TableInv, Start

LEMMA HeartbeatStep ==
  ASSUME QueueInv, NEW j \in Job, NEW tok, Heartbeat(j, tok)
  PROVE  QueueInv'
  <1> DEFINE q == Beaten(jobs[j])
  <1>1. jobs[j] \in Row /\ RowInv(jobs[j]) /\ IsLive(j) /\ jobs[j].state \in LiveState
    BY HeldRow DEF QueueInv, Heartbeat
  <1>2. /\ q \in Row /\ RowInv(q) /\ q.state \in LiveState /\ q.key = jobs[j].key
        /\ q.triggers = jobs[j].triggers
    BY <1>1, BeatenRow
  <1>3. jobs' = [jobs EXCEPT ![j] = q] /\ accepted' = accepted
    BY DEF Heartbeat
  <1> HIDE DEF q
  <1>4. TableInv'
    BY <1>1, <1>2, <1>3, LiveRowStep DEF QueueInv
  <1> QED BY <1>4 DEF QueueInv, TypeOK, TableInv, Heartbeat

LEMMA CancelLiveStep ==
  ASSUME QueueInv, NEW j \in Job, CancelLive(j)
  PROVE  QueueInv'
  <1> DEFINE q == Marked(jobs[j])
  <1>1. jobs[j] \in Row /\ RowInv(jobs[j]) /\ IsLive(j) /\ jobs[j].state \in LiveState
    BY DEF QueueInv, TableInv, CancelLive, IsLive
  <1>2. /\ q \in Row /\ RowInv(q) /\ q.state \in LiveState /\ q.key = jobs[j].key
        /\ q.triggers = jobs[j].triggers
    BY <1>1, MarkedRow
  <1>3. jobs' = [jobs EXCEPT ![j] = q] /\ accepted' = accepted
    BY DEF CancelLive
  <1> HIDE DEF q
  <1>4. TableInv'
    BY <1>1, <1>2, <1>3, LiveRowStep DEF QueueInv
  <1> QED BY <1>4 DEF QueueInv, TypeOK, TableInv, CancelLive

LEMMA FailCancelledStep ==
  ASSUME QueueInv, NEW j \in Job, NEW tok, FailCancelled(j, tok)
  PROVE  QueueInv'
  <1>1. TableInv'
    BY HeldRow, CancelTerminalStep DEF FailCancelled, QueueInv
  <1> QED BY <1>1 DEF QueueInv, TypeOK, TableInv, FailCancelled, HealthKind

LEMMA FailFinalStep ==
  ASSUME QueueInv, NEW j \in Job, NEW tok, FailFinal(j, tok)
  PROVE  QueueInv'
  <1>1. TableInv'
    BY HeldRow, DeadLetterStep DEF FailFinal, QueueInv, ErrorCode
  <1> QED BY <1>1 DEF QueueInv, TypeOK, TableInv, FailFinal, HealthKind

\* The health events of requeueOrDeadLetter.
LEMMA RequeueOrDeadLetterHealth ==
  ASSUME health \subseteq HealthKind \X Job, NEW j \in Job, NEW e,
         NEW events \in SUBSET (HealthKind \X Job), RequeueOrDeadLetter(j, e, events)
  PROVE  health' \subseteq HealthKind \X Job
  <1>1. <<"attempts_exhausted", j>> \in HealthKind \X Job
    BY DEF HealthKind
  <1>2. health' = health \cup events \/ health' = health \cup events \cup {<<"attempts_exhausted", j>>}
    BY Zenon DEF RequeueOrDeadLetter
  <1> QED BY <1>1, <1>2

LEMMA FailRetryableStep ==
  ASSUME QueueInv, NEW j \in Job, NEW tok, FailRetryable(j, tok)
  PROVE  QueueInv'
  <1>1. TableInv /\ IsLive(j) /\ "failed" \in ErrorCode /\ accepted' = accepted
        /\ RequeueOrDeadLetter(j, "failed", {})
    BY HeldRow DEF FailRetryable, QueueInv, ErrorCode
  <1>2. TableInv'
    BY <1>1, RequeueOrDeadLetterStep
  <1>3. health' \subseteq HealthKind \X Job
    BY <1>1, RequeueOrDeadLetterHealth DEF QueueInv, TypeOK
  <1> QED BY <1>2, <1>3 DEF QueueInv, TypeOK, TableInv, FailRetryable

LEMMA SweepStep ==
  ASSUME QueueInv, NEW j \in Job, Sweep(j)
  PROVE  QueueInv'
  <1>1. TableInv /\ IsLive(j) /\ "expired" \in ErrorCode /\ accepted' = accepted
        /\ RequeueOrDeadLetter(j, "expired", {<<"lease_expired", j>>})
    BY DEF Sweep, QueueInv, ErrorCode
  <1>2. TableInv'
    BY <1>1, RequeueOrDeadLetterStep
  <1>3. {<<"lease_expired", j>>} \in SUBSET (HealthKind \X Job)
    BY DEF HealthKind
  <1>4. health' \subseteq HealthKind \X Job
    BY <1>1, <1>3, RequeueOrDeadLetterHealth DEF QueueInv, TypeOK
  <1> QED BY <1>2, <1>4 DEF QueueInv, TypeOK, TableInv, Sweep

LEMMA DeferCancelledStep ==
  ASSUME QueueInv, NEW j \in Job, NEW tok, DeferCancelled(j, tok)
  PROVE  QueueInv'
  <1>1. TableInv'
    BY HeldRow, CancelTerminalStep DEF DeferCancelled, QueueInv
  <1> QED BY <1>1 DEF QueueInv, TypeOK, TableInv, DeferCancelled

LEMMA DeferCappedStep ==
  ASSUME QueueInv, NEW j \in Job, NEW tok, DeferCapped(j, tok)
  PROVE  QueueInv'
  <1>1. TableInv /\ IsLive(j) /\ "quota" \in ErrorCode /\ accepted' = accepted
        /\ RequeueOrDeadLetter(j, "quota", {<<"deferral_cap_reached", j>>})
    BY HeldRow DEF DeferCapped, QueueInv, ErrorCode
  <1>2. TableInv'
    BY <1>1, RequeueOrDeadLetterStep
  <1>3. {<<"deferral_cap_reached", j>>} \in SUBSET (HealthKind \X Job)
    BY DEF HealthKind
  <1>4. health' \subseteq HealthKind \X Job
    BY <1>1, <1>3, RequeueOrDeadLetterHealth DEF QueueInv, TypeOK
  <1> QED BY <1>2, <1>4 DEF QueueInv, TypeOK, TableInv, DeferCapped

LEMMA QuietedType ==
  ASSUME quiet \in [BatchKey -> Nat], NEW j, NEW d \in Nat
  PROVE  Quieted(j, d) \in [BatchKey -> Nat]
  BY DEF Quieted

LEMMA DeferRequeuedStep ==
  ASSUME QueueInv, NEW j \in Job, NEW tok, NEW d \in RetryAfter, DeferRequeued(j, tok, d)
  PROVE  QueueInv'
  <1> DEFINE q == Deferred(jobs[j], d)
  <1>0. d \in Nat
    BY TimeAssumption
  <1>1. /\ jobs[j] \in Row /\ RowInv(jobs[j]) /\ IsLive(j) /\ jobs[j].state \in LiveState
        /\ jobs[j].deferrals + 1 <= jobs[j].limits.deferrals
    BY HeldRow DEF DeferRequeued, DeferAllowed, QueueInv
  <1>2. /\ q \in Row /\ RowInv(q) /\ q.state = "queued" /\ q.key = jobs[j].key
        /\ q.triggers = jobs[j].triggers
    BY <1>0, <1>1, DeferredRow
  <1>3. jobs' = [jobs EXCEPT ![j] = q] /\ accepted' = accepted
    BY DEF DeferRequeued
  <1> HIDE DEF q
  <1>4. q.key \in BatchKey => QueuedOf(q.key) \subseteq {j}
    BY <1>2 DEF DeferRequeued, Followers
  <1>5. TableInv'
    BY <1>2, <1>3, <1>4, OneRowStep DEF QueueInv, RowState, LiveState
  <1>6. quiet' \in [BatchKey -> Nat]
    BY <1>0, QuietedType DEF DeferRequeued, QueueInv, TypeOK
  <1> QED BY <1>5, <1>6 DEF QueueInv, TypeOK, TableInv, DeferRequeued

LEMMA DeferCoalescedStep ==
  ASSUME QueueInv, NEW j \in Job, NEW tok, NEW d \in RetryAfter, NEW s \in Job,
         DeferCoalesced(j, tok, d, s)
  PROVE  QueueInv'
  <1> DEFINE q == Coalesced(jobs[j], s)
             p == Survivor(jobs[s], d, jobs[j].triggers)
  <1>0. d \in Nat
    BY TimeAssumption
  <1>1. /\ jobs[j] \in Row /\ RowInv(jobs[j]) /\ IsLive(j) /\ jobs[j].state \in LiveState
        /\ s \in Followers(j)
    BY HeldRow DEF DeferCoalesced, DeferAllowed, QueueInv
  <1>2. jobs[s] \in Row /\ RowInv(jobs[s]) /\ jobs[s].state = "queued" /\ s # j
    BY <1>1 DEF QueueInv, TableInv, Followers, QueuedOf
  <1>3. q \in Row /\ RowInv(q) /\ q.state = "coalesced"
    BY <1>1, CoalescedRow
  <1>4. jobs[j].triggers \in SUBSET Trigger
    BY <1>1 DEF Row
  <1>5. /\ p \in Row /\ RowInv(p) /\ p.state = "queued" /\ p.key = jobs[s].key
        /\ p.triggers = jobs[s].triggers \cup jobs[j].triggers
    BY <1>0, <1>2, <1>4, SurvivorRow
  <1>6. jobs' = [jobs EXCEPT ![j] = q, ![s] = p] /\ accepted' = accepted
    BY <1>2 DEF DeferCoalesced, QueueInv, TypeOK
  <1> HIDE DEF q, p
  <1>7. TableInv'
    BY <1>1, <1>3, <1>5, <1>6, CoalesceStep DEF QueueInv
  <1>8. quiet' \in [BatchKey -> Nat]
    BY <1>0, QuietedType DEF DeferCoalesced, QueueInv, TypeOK
  <1> QED BY <1>7, <1>8 DEF QueueInv, TypeOK, TableInv, DeferCoalesced

LEMMA PrunedType == ASSUME NEW s \in Seq(Job) PROVE Pruned(s) \in Seq(Job)
  BY RetentionAssumption DEF Pruned

LEMMA SucceedSnapshotStep ==
  ASSUME QueueInv, NEW j \in Job, NEW tok, SucceedSnapshot(j, tok)
  PROVE  QueueInv'
  <1>1. jobs[j].state \in LiveState /\ jobs[j].token = tok /\ accepted' = accepted
    BY HeldRow DEF SucceedSnapshot, QueueInv
  <1>2. jobs' = [jobs EXCEPT ![j] = Succeeded(@, jobs[j].token)]
    BY <1>1 DEF SucceedSnapshot
  <1>3. TableInv'
    BY <1>1, <1>2, SucceedStep DEF QueueInv
  <1>4. store' \in [SnapshotKey -> Seq(Job)]
    <2>1. Append(store[jobs[j].key], j) \in Seq(Job)
      BY DEF QueueInv, TypeOK, SucceedSnapshot
    <2> QED BY <2>1, PrunedType DEF QueueInv, TypeOK, SucceedSnapshot
  <1> QED BY <1>3, <1>4 DEF QueueInv, TypeOK, TableInv, SucceedSnapshot

LEMMA RejectDeliveryStep ==
  ASSUME QueueInv, NEW j \in Job, NEW tok, RejectDelivery(j, tok)
  PROVE  QueueInv'
  <1>1. TableInv'
    BY HeldRow, DeadLetterStep DEF RejectDelivery, QueueInv, ErrorCode
  <1> QED BY <1>1 DEF QueueInv, TypeOK, TableInv, RejectDelivery, HealthKind

LEMMA SucceedInlineStep ==
  ASSUME QueueInv, NEW j \in Job, NEW tok, SucceedInline(j, tok)
  PROVE  QueueInv'
  <1>1. jobs[j].state \in LiveState /\ jobs[j].token = tok /\ accepted' = accepted
    BY HeldRow DEF SucceedInline, QueueInv
  <1>2. jobs' = [jobs EXCEPT ![j] = Succeeded(@, jobs[j].token)]
    BY <1>1 DEF SucceedInline
  <1>3. TableInv'
    BY <1>1, <1>2, SucceedStep DEF QueueInv
  <1> QED BY <1>3 DEF QueueInv, TypeOK, TableInv, SucceedInline

LEMMA CancelQueuedStep ==
  ASSUME QueueInv, NEW j \in Job, CancelQueued(j)
  PROVE  QueueInv'
  <1>1. TableInv'
    BY CancelTerminalStep DEF CancelQueued, QueueInv, ActiveState
  <1>2. quiet' \in [BatchKey -> Nat]
    BY QuietedType DEF CancelQueued, QueueInv, TypeOK
  <1> QED BY <1>1, <1>2 DEF QueueInv, TypeOK, TableInv, CancelQueued

LEMMA TickStep == QueueInv /\ Tick => QueueInv'
  <1> SUFFICES ASSUME QueueInv, Tick PROVE QueueInv'
    OBVIOUS
  <1>1. \A j \in Job : /\ jobs'[j] \in Row /\ RowInv(jobs'[j]) /\ jobs'[j].state = jobs[j].state
                       /\ jobs'[j].key = jobs[j].key /\ jobs'[j].triggers = jobs[j].triggers
    BY AgedRow DEF Tick, QueueInv, TableInv
  <1>2. jobs' \in [Job -> Row]
    BY <1>1 DEF Tick
  <1>3. OneQueuedPerKey' /\ OneLivePerKey' /\ TriggersAccounted'
    BY <1>1 DEF QueueInv, TableInv, OneQueuedPerKey, OneLivePerKey, TriggersAccounted, IsLive, Tick
  <1>4. quiet' \in [BatchKey -> Nat]
    BY DEF Tick, QueueInv, TypeOK, MaxOf
  <1> QED BY <1>1, <1>2, <1>3, <1>4 DEF QueueInv, TypeOK, TableInv, Tick

LEMMA QueueInvNext == QueueInv /\ [Next]_vars => QueueInv'
  <1> SUFFICES ASSUME QueueInv, [Next]_vars PROVE QueueInv'
    OBVIOUS
  <1>1. ASSUME NEW j \in Job, NEW k \in Key, NEW t \in Trigger,
               EnqueueMerged(j, k, t) \/ \E lim \in Limits : EnqueueInserted(j, k, t, lim)
        PROVE  QueueInv'
    BY <1>1, EnqueueMergedStep, EnqueueInsertedStep
  <1>2. ASSUME NEW j \in Job, NEW tok \in 1..jobs[j].grants, RunnerCall(j, tok)
        PROVE  QueueInv'
    <2>1. CASE Start(j, tok)
      BY <2>1, StartStep
    <2>2. CASE Heartbeat(j, tok)
      BY <2>2, HeartbeatStep
    <2>3. CASE FailCancelled(j, tok) \/ FailFinal(j, tok) \/ FailRetryable(j, tok)
      BY <2>3, FailCancelledStep, FailFinalStep, FailRetryableStep
    <2>4. CASE DeferCancelled(j, tok) \/ DeferCapped(j, tok)
      BY <2>4, DeferCancelledStep, DeferCappedStep
    <2>5. ASSUME NEW d \in RetryAfter,
                 DeferRequeued(j, tok, d) \/ \E s \in Job : DeferCoalesced(j, tok, d, s)
          PROVE  QueueInv'
      BY <2>5, DeferRequeuedStep, DeferCoalescedStep
    <2>6. CASE SucceedSnapshot(j, tok) \/ RejectDelivery(j, tok) \/ SucceedInline(j, tok)
      BY <2>6, SucceedSnapshotStep, RejectDeliveryStep, SucceedInlineStep
    <2> QED BY <1>2, <2>1, <2>2, <2>3, <2>4, <2>5, <2>6 DEF RunnerCall
  <1>3. ASSUME NEW j \in Job, Claim(j) \/ CancelQueued(j) \/ CancelLive(j) \/ Sweep(j)
        PROVE  QueueInv'
    BY <1>3, ClaimStep, CancelQueuedStep, CancelLiveStep, SweepStep
  <1>4. CASE Tick
    BY <1>4, TickStep
  <1>5. CASE UNCHANGED vars
    BY <1>5 DEF vars, QueueInv, TypeOK, TableInv, OneQueuedPerKey, OneLivePerKey, TriggersAccounted, IsLive
  <1> QED BY <1>1, <1>2, <1>3, <1>4, <1>5 DEF Next

LEMMA QueueInvHolds == Spec => []QueueInv
  BY QueueInvInit, QueueInvNext, PTL DEF Spec

-----------------------------------------------------------------------------
(* The theorems.                                                           *)

\* The tables keep their column types under every transaction of queue.ts.
THEOREM TypeCorrect == Spec => []TypeOK
  <1>1. QueueInv => TypeOK
    BY DEF QueueInv
  <1> QED BY <1>1, QueueInvHolds, PTL

\* Dedupe: one queued row per batch key, for any number of producers, runners
\* and sweepers (jobs_dedupe_queued never refuses a requeue or a deferral).
THEOREM QueuedDeduped == Spec => []OneQueuedPerKey
  <1>1. QueueInv => OneQueuedPerKey
    BY DEF QueueInv, TableInv
  <1> QED BY <1>1, QueueInvHolds, PTL

\* Mutual exclusion: one live lease per batch key (claimOnce).
THEOREM RunsExclude == Spec => []OneLivePerKey
  <1>1. QueueInv => OneLivePerKey
    BY DEF QueueInv, TableInv
  <1> QED BY <1>1, QueueInvHolds, PTL

\* Fencing: a recorded result came from the holder of the last lease (lockLeased).
THEOREM DeliveryFenced == Spec => []DeliveredByLastHolder
  <1>1. QueueInv => DeliveredByLastHolder
    BY DEF QueueInv, TableInv, RowInv, DeliveredByLastHolder
  <1> QED BY <1>1, QueueInvHolds, PTL

\* No accepted request loses its record through merges, absorptions and
\* coalescings (enqueue, requeueOrDeadLetter, coalesceIntoQueued).
THEOREM RequestsKept == Spec => []TriggersAccounted
  <1>1. QueueInv => TriggersAccounted
    BY DEF QueueInv, TableInv
  <1> QED BY <1>1, QueueInvHolds, PTL

\* A job is handed to runners at most max_attempts + max_deferrals times.
THEOREM ExecutionBounded == Spec => []BoundedExecution
  <1>1. QueueInv => BoundedExecution
    BY DEF QueueInv, TableInv, RowInv, BoundedExecution
  <1> QED BY <1>1, QueueInvHolds, PTL

-----------------------------------------------------------------------------
\* What a step may not do to a live row whose cancellation was requested.
CancelKept == \A i \in Job : IsLive(i) /\ jobs[i].cancel => jobs'[i].state # "queued"

\* A step that rewrites the row j only: it suffices to look at j.
LEMMA CancelKeptByOther ==
  ASSUME TypeOK, NEW j \in Job, NEW q, jobs' = [jobs EXCEPT ![j] = q],
         IsLive(j) /\ jobs[j].cancel => q.state # "queued"
  PROVE  CancelKept
  BY DEF TypeOK, CancelKept, IsLive, LiveState

LEMMA CancelKeptByRequeue ==
  ASSUME QueueInv, NEW j \in Job, IsLive(j), NEW e \in ErrorCode, NEW events,
         RequeueOrDeadLetter(j, e, events)
  PROVE  CancelKept
  <1>0. /\ TypeOK /\ jobs[j] \in Row /\ RowInv(jobs[j]) /\ jobs[j].state \in ActiveState
    BY DEF QueueInv, TableInv, IsLive, ActiveState
  <1>1. CASE jobs' = [jobs EXCEPT ![j] = CancelTerminal(@)]
    <2>1. CancelTerminal(jobs[j]).state = "cancelled"
      BY <1>0, CancelTerminalRow
    <2> QED BY <1>0, <1>1, <2>1, CancelKeptByOther
  <1>2. CASE jobs' = [jobs EXCEPT ![j] = DeadLetter(@, e)]
    <2>1. DeadLetter(jobs[j], e).state = "dead_lettered"
      BY <1>0, DeadLetterRow
    <2> QED BY <1>0, <1>2, <2>1, CancelKeptByOther
  <1>3. ASSUME NEW q, ~jobs[j].cancel,
               jobs' = [i \in Job |-> IF i = j THEN q
                          ELSE IF i \in Followers(j) THEN NoRow("deleted") ELSE jobs[i]]
        PROVE  CancelKept
    <2>1. NoRow("deleted").state = "deleted"
      BY DEF NoRow
    <2> QED BY <1>3, <2>1 DEF CancelKept, IsLive, LiveState
  <1> QED BY <1>1, <1>2, <1>3, Zenon DEF RequeueOrDeadLetter

LEMMA CancelKeptNext == QueueInv /\ [Next]_vars => CancelKept
  <1> SUFFICES ASSUME QueueInv, [Next]_vars PROVE CancelKept
    OBVIOUS
  <1>0. /\ TypeOK
        /\ \A j \in Job : jobs[j] \in Row /\ RowInv(jobs[j])
        /\ \A j \in Job : IsLive(j) <=> jobs[j].state \in LiveState
        /\ \A j \in Job : IsLive(j) => jobs[j].state \in ActiveState /\ jobs[j].state # "queued"
                                       /\ jobs[j].state # "absent"
    BY DEF QueueInv, TableInv, IsLive, ActiveState, LiveState
  <1>1. ASSUME NEW j \in Job, NEW k \in Key, NEW t \in Trigger,
               EnqueueMerged(j, k, t) \/ \E lim \in Limits : EnqueueInserted(j, k, t, lim)
        PROVE  CancelKept
    <2>1. ~IsLive(j)
      BY <1>0, <1>1 DEF EnqueueMerged, EnqueueInserted, QueuedOf
    <2> QED BY <1>0, <1>1, <2>1, CancelKeptByOther DEF EnqueueMerged, EnqueueInserted
  <1>2. ASSUME NEW j \in Job, Claim(j) \/ CancelQueued(j)
        PROVE  CancelKept
    <2>1. ~IsLive(j)
      BY <1>0, <1>2 DEF Claim, Claimable, CancelQueued
    <2> QED BY <1>0, <1>2, <2>1, CancelKeptByOther DEF Claim, CancelQueued
  <1>3. ASSUME NEW j \in Job, CancelLive(j)
        PROVE  CancelKept
    <2>1. Marked(jobs[j]).state = jobs[j].state
      BY <1>0, MarkedRow
    <2> QED BY <1>0, <1>3, <2>1, CancelKeptByOther DEF CancelLive
  <1>4. ASSUME NEW j \in Job, Sweep(j)
        PROVE  CancelKept
    BY <1>0, <1>4, CancelKeptByRequeue DEF Sweep, ErrorCode
  <1>5. ASSUME NEW j \in Job, NEW tok \in 1..jobs[j].grants, RunnerCall(j, tok)
        PROVE  CancelKept
    <2>1. IsLive(j) /\ jobs[j].state \in LiveState /\ jobs[j].state \in ActiveState
      <3>1. Holds(j, tok)
        BY <1>5 DEF RunnerCall, Start, Heartbeat, FailCancelled, FailFinal, FailRetryable,
             DeferCancelled, DeferCapped, DeferRequeued, DeferCoalesced, DeferAllowed,
             SucceedSnapshot, RejectDelivery, SucceedInline
      <3> QED BY <3>1, HeldRow DEF QueueInv
    <2>2. CASE Start(j, tok)
      <3>1. Started(jobs[j]).state = "running"
        BY <1>0, <2>1, StartedRow
      <3> QED BY <1>0, <2>2, <3>1, CancelKeptByOther DEF Start
    <2>3. CASE Heartbeat(j, tok)
      <3>1. Beaten(jobs[j]).state = jobs[j].state
        BY <1>0, BeatenRow
      <3> QED BY <1>0, <2>1, <2>3, <3>1, CancelKeptByOther DEF Heartbeat
    <2>4. CASE FailCancelled(j, tok) \/ DeferCancelled(j, tok)
      BY <1>0, <2>1, <2>4, CancelTerminalRow, CancelKeptByOther DEF FailCancelled, DeferCancelled
    <2>5. CASE FailFinal(j, tok)
      BY <1>0, <2>1, <2>5, DeadLetterRow, CancelKeptByOther DEF FailFinal, ErrorCode
    <2>6. CASE FailRetryable(j, tok)
      BY <2>1, <2>6, CancelKeptByRequeue DEF FailRetryable, ErrorCode
    <2>7. CASE DeferCapped(j, tok)
      BY <2>1, <2>7, CancelKeptByRequeue DEF DeferCapped, ErrorCode
    <2>8. ASSUME NEW d \in RetryAfter, DeferRequeued(j, tok, d)
          PROVE  CancelKept
      BY <1>0, <2>8, CancelKeptByOther DEF DeferRequeued, DeferAllowed
    <2>9. ASSUME NEW d \in RetryAfter, NEW s \in Job, DeferCoalesced(j, tok, d, s)
          PROVE  CancelKept
      <3>1. /\ jobs[s].state = "queued" /\ ~jobs[j].cancel
        BY <2>9 DEF DeferCoalesced, DeferAllowed, Followers, QueuedOf
      <3>2. \A i \in Job : i # j /\ i # s => jobs'[i] = jobs[i]
        BY <1>0, <2>9 DEF DeferCoalesced, TypeOK
      <3> QED BY <1>0, <3>1, <3>2 DEF CancelKept
    <2>10. CASE SucceedSnapshot(j, tok) \/ SucceedInline(j, tok)
      <3>1. jobs[j].token = tok
        BY <2>10 DEF SucceedSnapshot, SucceedInline, Holds
      <3> QED BY <1>0, <2>1, <2>10, <3>1, SucceededRow, CancelKeptByOther DEF SucceedSnapshot, SucceedInline
    <2>11. CASE RejectDelivery(j, tok)
      BY <1>0, <2>1, <2>11, DeadLetterRow, CancelKeptByOther DEF RejectDelivery, ErrorCode
    <2> QED BY <1>5, <2>2, <2>3, <2>4, <2>5, <2>6, <2>7, <2>8, <2>9, <2>10, <2>11 DEF RunnerCall
  <1>6. CASE Tick
    <2>1. \A j \in Job : jobs'[j].state = jobs[j].state
      BY <1>0, <1>6, AgedRow DEF Tick
    <2> QED BY <1>0, <2>1 DEF CancelKept
  <1>7. CASE UNCHANGED vars
    BY <1>0, <1>7 DEF vars, CancelKept
  <1> QED BY <1>1, <1>2, <1>3, <1>4, <1>5, <1>6, <1>7 DEF Next

\* A live job marked for cancellation never returns to the queue
\* (requeueOrDeadLetter, deferJob, cancelJob).
THEOREM CancellationSticks == Spec => CancelSticks
  <1>1. QueueInv /\ [Next]_vars =>
          [\A j \in Job : IsLive(j) /\ jobs[j].cancel => jobs'[j].state # "queued"]_vars
    BY CancelKeptNext DEF CancelKept
  <1> QED BY <1>1, QueueInvHolds, PTL DEF Spec, CancelSticks
=============================================================================
