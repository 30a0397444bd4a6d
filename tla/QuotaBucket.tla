---------------------------- MODULE QuotaBucket ----------------------------
(***************************************************************************)
(* The token bucket every GA4 request goes through (connectors/sdk/        *)
(* quota.py), for one client.  Tokens are counted in units of which one    *)
(* accrues per tick, so a request costs Gap units (Gap = 1 / rate_per_s)   *)
(* and the bucket holds Burst * Gap of them.                               *)
(***************************************************************************)
EXTENDS Integers, Sequences

CONSTANTS
    Burst,          \* QuotaPolicy.burst
    Gap             \* ticks between two tokens

ASSUME BucketAssumption == Burst \in Nat \ {0} /\ Gap \in Nat \ {0}

VARIABLES
    now,            \* the clock
    level,          \* _tokens, in units
    last,           \* _last: when the bucket was filled up last
    wake,           \* when the sleep of acquire ends, or Awake
    sent            \* history: the times at which acquire returned

bucket == <<level, last, wake, sent>>

Awake == -1
Capacity == Burst * Gap

BucketInit ==
    /\ now = 0 /\ level = Capacity /\ last = 0 /\ wake = Awake /\ sent = <<>>

(* What has accrued since the last call, up to the capacity.               *)
Filled ==
    LET sum == level + (now - last) IN IF sum < Capacity THEN sum ELSE Capacity

(* acquire with a token at hand.                                           *)
Take ==
    /\ wake = Awake /\ Filled >= Gap
    /\ level' = Filled - Gap
    /\ last' = now
    /\ sent' = Append(sent, now)
    /\ UNCHANGED wake

(* acquire without one: it sleeps for what is missing ...                  *)
Sleep ==
    /\ wake = Awake /\ Filled < Gap
    /\ level' = Filled
    /\ last' = now
    /\ wake' = now + (Gap - Filled)
    /\ UNCHANGED sent

(* Mutant: the time asleep is also credited to the next call.              *)
WokenTwiceCredited == last

(* The time the bucket counts as filled at after a sleep.                  *)
Woken == now

(* ... and takes the one token it slept for, however long it overslept.    *)
Wake ==
    /\ wake # Awake /\ now >= wake
    /\ level' = 0
    /\ last' = Woken
    /\ wake' = Awake
    /\ sent' = Append(sent, now)

Acquire == Take \/ Wake

Tick ==
    /\ now' = now + 1
    /\ UNCHANGED bucket

BucketNext == Tick \/ ((Acquire \/ Sleep) /\ UNCHANGED now)

BucketSpec == BucketInit /\ [][BucketNext]_<<now, bucket>>

(* Pacing: in every window between two requests of a client there are at   *)
(* most burst requests plus rate_per_s for every second of the window      *)
(* (TokenBucket.acquire), however the client's sleeps overshoot.           *)
PacedCalls ==
    \A i, j \in DOMAIN sent :
        i <= j => (j - i + 1) * Gap <= Capacity + (sent[j] - sent[i])
=============================================================================
