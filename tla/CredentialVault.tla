-------------------------- MODULE CredentialVault --------------------------
(***************************************************************************)
(* How a runner comes by credentials (connectors/sdk/vault.py) and where   *)
(* it keeps them (connectors/sdk/service.py: the execution preflight at    *)
(* start-up, and a job's credentials put into the process environment for  *)
(* its duration).                                                          *)
(*                                                                         *)
(* The runner works on one activity at a time: the preflight first, then   *)
(* the jobs.  A step is one request to vault, or what the runner does      *)
(* between two of them.  Vault is external: its secrets rotate, its        *)
(* policy changes and its tokens expire or are revoked at any time.        *)
(***************************************************************************)
EXTENDS Integers, Sequences, FiniteSets, FiniteSetsExt

CONSTANTS
    Job,            \* jobs the runner claims
    Preflight,      \* the activity that checks the execution role at start
    NeedsGate,      \* the jobs of type execute
    RefsOf,         \* the credential references of an activity, in order
    EnvRef,         \* env:// references
    BadRef,         \* references of no known scheme, malformed, or of an
                    \* unknown key
    RenewMargin,    \* RENEW_MARGIN_S, in ticks
    MinHold,        \* the least time a token is cached, in ticks
    Leases,         \* lease durations vault gives
    MaxNow,         \* bound on the clock
    MaxVersion,     \* bound on the rotations of a secret
    MaxEvents       \* bound on what vault's operators do

Activity == Job \cup {Preflight}
Ref == UNION {{RefsOf[a][i] : i \in DOMAIN RefsOf[a]} : a \in Activity}
(* The references the env file may have a value for.                      *)
EnvFile == SUBSET EnvRef

(* parse_vault_ref, the router and _inject_credentials refuse it.          *)
Malformed(r) == r \in BadRef

VaultRef == Ref \ (EnvRef \cup BadRef)

ASSUME ActivityAssumption == Preflight \notin Job /\ NeedsGate \subseteq Job
ASSUME RefsAssumption == RefsOf \in [Activity -> Seq(Ref)]
ASSUME ClockAssumption ==
    /\ RenewMargin \in Nat /\ MinHold \in Nat \ {0} /\ Leases \subseteq Nat \ {0}
    /\ MaxNow \in Nat /\ MaxVersion \in Nat \ {0} /\ MaxEvents \in Nat

VARIABLES
    now,            \* the clock
    secret,         \* version of each secret; 0 when there is none
    allowed,        \* references the runner's policy may read
    lease,          \* when vault stops accepting the token issued last
    cache,          \* whether the resolver holds that token, and until when
                    \* it uses it: a new login replaces the one it held
    env,            \* process environment: <<activity, reference, version>>
    gate,           \* execution_refused, for the one execution connector
    cur,            \* the activity under way and how far it is
    done,           \* outcome of every activity
    cut,            \* history: the token died while the activity held it
    events          \* history: what vault's operators did so far

vars == <<now, secret, allowed, lease, cache, env, gate, cur, done, cut, events>>

Idle == [who |-> Preflight, pc |-> "idle", at |-> 1, again |-> FALSE,
         mine |-> {}]
Step == {"idle", "next", "token", "read", "work"}
Outcome == {"none", "ok", "refused", "bad_reference", "unreachable", "login_refused",
            "absent", "denied", "failed"}

Init ==
    /\ now = 0
    /\ \E set \in EnvFile :
         secret = [r \in Ref |-> IF r \in VaultRef \cup set THEN 1 ELSE 0]
    /\ allowed = Ref
    /\ lease = 0
    /\ cache = [held |-> FALSE, until |-> 0]
    /\ env = {}
    /\ gate = "unchecked"
    /\ cur = Idle
    /\ done = [a \in Activity |-> "none"]
    /\ cut = FALSE
    /\ events = 0

Accepted == now < lease
Vault == <<secret, allowed, lease, events>>

-----------------------------------------------------------------------------
(* The runner                                                              *)

(* An activity begins; a job of type execute is turned away when the       *)
(* preflight failed.                                                       *)
Begin(a) ==
    /\ cur.pc = "idle" /\ done[a] = "none"
    /\ a \in Job => gate # "unchecked"
    /\ IF a \in NeedsGate /\ gate = "refused"
       THEN done' = [done EXCEPT ![a] = "refused"] /\ UNCHANGED <<cur, cut>>
       ELSE /\ cur' = [Idle EXCEPT !.who = a, !.pc = "next"]
            /\ cut' = FALSE
            /\ UNCHANGED done
    /\ UNCHANGED <<now, Vault, cache, env, gate>>

(* Mutant: the finally block removes nothing.                              *)
CleanedNever(a, known) == env

(* What is left of the environment when an activity ends: only the         *)
(* variables its caller knows of are removed.                              *)
Cleaned(a, known) == env \ {v \in env : v[1] = a /\ v[2] \in known}

Conclude(a, outcome, known) ==
    /\ done' = [done EXCEPT ![a] = outcome]
    /\ gate' = CASE a # Preflight   -> gate
                 [] outcome = "ok"  -> "passed"
                 [] OTHER           -> "refused"
    /\ env' = Cleaned(a, known)
    /\ cur' = Idle

(* A resolution raised VaultResolutionError: _inject_credentials does not  *)
(* return, so its caller does not learn which variables were set.          *)
GiveUp(outcome) == Conclude(cur.who, outcome, {})

(* The next credential of the activity, or its work when there is none.    *)
NextCredential ==
    LET a == cur.who IN
    /\ cur.pc = "next"
    /\ IF cur.at > Len(RefsOf[a])
       THEN cur' = [cur EXCEPT !.pc = "work"] /\ UNCHANGED <<env, gate, done>>
       ELSE IF Malformed(RefsOf[a][cur.at])
            THEN GiveUp("bad_reference")
            ELSE /\ RefsOf[a][cur.at] \notin EnvRef
                 /\ cur' = [cur EXCEPT !.pc = "token", !.again = FALSE]
                 /\ UNCHANGED <<env, gate, done>>
    /\ UNCHANGED <<now, Vault, cache, cut>>

(* Mutant: an empty value is taken for a credential.                       *)
PresentAlways(r) == TRUE

(* There is a secret, it has the field, and the field is not empty.        *)
Present(r) == secret[r] > 0

(* The variable that holds a resolved value.                               *)
Injected(r) == <<cur.who, r, secret[r]>>

Resolved(r) ==
    /\ env' = env \cup {Injected(r)}
    /\ cur' = [cur EXCEPT !.pc = "next", !.at = @ + 1, !.mine = @ \cup {r}]

(* An env:// reference: the value is set and not empty, or not.            *)
ResolveFromEnv ==
    /\ cur.pc = "next" /\ cur.at <= Len(RefsOf[cur.who])
    /\ LET r == RefsOf[cur.who][cur.at] IN
         /\ r \in EnvRef /\ ~Malformed(r)
         /\ IF Present(r) THEN Resolved(r) /\ UNCHANGED <<done, gate>> ELSE GiveUp("absent")
    /\ UNCHANGED <<now, Vault, cache, cut>>

(* Mutant: a forced renewal may return the cached token.                   *)
CacheServesAlways == cache.held /\ now < cache.until

(* The cached token serves until shortly before its lease ends; a forced   *)
(* renewal drops it first.                                                 *)
CacheServes == ~cur.again /\ cache.held /\ now < cache.until

UseCachedToken ==
    /\ cur.pc = "token" /\ CacheServes
    /\ cur' = [cur EXCEPT !.pc = "read"]
    /\ UNCHANGED <<now, Vault, cache, env, gate, done, cut>>

HoldFor(duration) == Max({duration - RenewMargin, MinHold})

(* _login: a new token, whose lease starts now.                            *)
Login(duration) ==
    /\ cur.pc = "token" /\ ~CacheServes
    /\ lease' = now + duration
    /\ cache' = [held |-> TRUE, until |-> now + HoldFor(duration)]
    /\ cur' = [cur EXCEPT !.pc = "read"]
    /\ cut' = FALSE
    /\ UNCHANGED <<now, secret, allowed, events, env, gate, done>>

(* The login is refused or vault cannot be reached; a forced renewal has   *)
(* dropped the cached token by then.                                       *)
LoginFails(outcome) ==
    /\ cur.pc = "token" /\ ~CacheServes
    /\ outcome \in {"login_refused", "unreachable"}
    /\ cache' = IF cur.again THEN [cache EXCEPT !.held = FALSE] ELSE cache
    /\ GiveUp(outcome)
    /\ UNCHANGED <<now, Vault, cut>>

(* Mutant: every 401/403 is followed by a new login.                       *)
AgainEveryTime == TRUE

(* A first 401/403 is answered with a new login, a second one is believed. *)
Again == ~cur.again

(* One read, and what resolve makes of its status.                         *)
Read ==
    LET r == RefsOf[cur.who][cur.at]
        forbidden == ~Accepted \/ r \notin allowed IN
    /\ cur.pc = "read"
    /\ CASE forbidden /\ Again ->
              /\ cur' = [cur EXCEPT !.pc = "token", !.again = TRUE]
              /\ UNCHANGED <<env, gate, done>>
         [] forbidden /\ ~Again -> GiveUp("denied")
         [] ~forbidden /\ ~Present(r) -> GiveUp("absent")
         [] ~forbidden /\ Present(r) -> Resolved(r) /\ UNCHANGED <<gate, done>>
    /\ UNCHANGED <<now, Vault, cache, cut>>

(* Vault cannot be reached, answers 5xx or with something else than KV v2. *)
ReadFails ==
    /\ cur.pc = "read"
    /\ GiveUp("unreachable")
    /\ UNCHANGED <<now, Vault, cache, cut>>

(* The activity's own work ends, with success or not: its variables go.    *)
WorkEnds(outcome) ==
    /\ cur.pc = "work"
    /\ outcome \in {"ok", "failed"}
    /\ Conclude(cur.who, outcome, cur.mine)
    /\ UNCHANGED <<now, Vault, cache, cut>>

Runner ==
    \/ \E a \in Activity : Begin(a)
    \/ NextCredential
    \/ ResolveFromEnv
    \/ UseCachedToken
    \/ \E duration \in Leases : Login(duration)
    \/ \E o \in Outcome : LoginFails(o) \/ WorkEnds(o)
    \/ Read
    \/ ReadFails

-----------------------------------------------------------------------------
(* Vault and its operators                                                 *)

(* The token of the activity under way is dead from now on.                *)
Cut(dies) == cut' = (cut \/ (cur.pc = "read" /\ dies))

Tick ==
    /\ now < MaxNow /\ now' = now + 1
    /\ Cut(lease <= now + 1)
    /\ UNCHANGED <<Vault, cache, env, gate, cur, done>>

Event == events < MaxEvents /\ events' = events + 1

Rotate(r) ==
    /\ Event
    /\ secret[r] \in 1 .. MaxVersion - 1
    /\ secret' = [secret EXCEPT ![r] = @ + 1]
    /\ UNCHANGED <<now, allowed, lease, cache, env, gate, cur, done, cut>>

Remove(r) ==
    /\ Event
    /\ secret[r] > 0
    /\ secret' = [secret EXCEPT ![r] = 0]
    /\ UNCHANGED <<now, allowed, lease, cache, env, gate, cur, done, cut>>

Revoke ==
    /\ Event
    /\ lease > now /\ lease' = 0
    /\ Cut(TRUE)
    /\ UNCHANGED <<now, secret, allowed, cache, env, gate, cur, done>>

ChangePolicy(r) ==
    /\ Event
    /\ allowed' = IF r \in allowed THEN allowed \ {r} ELSE allowed \cup {r}
    /\ UNCHANGED <<now, secret, lease, cache, env, gate, cur, done, cut>>

Operators ==
    \/ Tick
    \/ \E r \in VaultRef : Rotate(r) \/ Remove(r) \/ ChangePolicy(r)
    \/ Revoke

Next == Runner \/ Operators

Spec == Init /\ [][Next]_vars
(* The runner's requests have timeouts and its loop goes on.               *)
FairSpec == Spec /\ WF_vars(Runner)

-----------------------------------------------------------------------------
(* Properties                                                              *)

(* Every variable has the type its declaration states (VaultResolver,      *)
(* Runner.execute).                                                        *)
VaultTypeOK ==
    /\ now \in 0 .. MaxNow /\ events \in 0 .. MaxEvents
    /\ secret \in [Ref -> 0 .. MaxVersion]
    /\ allowed \subseteq Ref
    /\ lease \in Nat /\ cache \in [held : BOOLEAN, until : Nat]
    /\ env \subseteq Activity \X Ref \X (1 .. MaxVersion)
    /\ gate \in {"unchecked", "passed", "refused"}
    /\ cur.who \in Activity /\ cur.pc \in Step
    /\ cur.again \in BOOLEAN /\ cur.mine \subseteq Ref /\ cur.at \in Nat \ {0}
    /\ done \in [Activity -> Outcome] /\ cut \in BOOLEAN

Failing == {"bad_reference", "unreachable", "login_refused", "absent", "denied"}

(* Between two activities the environment holds no credential of an        *)
(* activity that got to its work, however that ended (the finally blocks   *)
(* of execute and preflight_execution): what is left over comes from       *)
(* activities whose credentials did not all resolve.                       *)
WorkedLeaveNothing ==
    \A v \in env : v[1] # cur.who \/ cur.pc = "idle" => done[v[1]] \in Failing

(* A reference is reported as denied by policy only if the policy does     *)
(* deny it, or the fresh token died while it was in use: an expired or     *)
(* revoked token the resolver still had in its cache is never the reason   *)
(* (VaultResolver.resolve: re-login once, then believe it).                *)
DenialIsPolicy ==
    [][\A a \in Activity : done[a] # "denied" /\ done'[a] = "denied" =>
         cut \/ RefsOf[a][cur.at] \notin allowed]_vars

(* Every activity ends: a token that is refused again and again cannot     *)
(* keep resolve logging in, so the runner always returns to its loop.      *)
ActivityEnds == cur.pc # "idle" ~> cur.pc = "idle"

(* The value is held in memory only for the job's duration (vault.py,      *)
(* module docstring): between two activities the environment holds no      *)
(* credential.                                                             *)
NothingOutlives == cur.pc = "idle" => env = {}
=============================================================================
