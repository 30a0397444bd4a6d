----------------------- MODULE CredentialVaultProofs -----------------------
(***************************************************************************)
(* What CredentialVault promises for any jobs, references, leases and      *)
(* bounds: its types, that an activity which got to its work leaves        *)
(* nothing in the environment, and that a denial is the policy's.          *)
(***************************************************************************)
EXTENDS CredentialVault, TLAPS

CurType == [who : Activity, pc : Step, at : Nat \ {0}, again : BOOLEAN, mine : SUBSET Ref]

(* The types, with what the steps that index RefsOf rely on: while a token *)
(* is fetched or a secret is read there is a reference to read.            *)
VaultTyped ==
    /\ VaultTypeOK
    /\ cur \in CurType
    /\ cur.pc \in {"token", "read"} => cur.at \in DOMAIN RefsOf[cur.who]

(* The activity under way has no outcome yet, and every variable of the    *)
(* environment is one it knows it set or a leftover of a failed            *)
(* resolution.                                                             *)
Tidy ==
    /\ cur.pc # "idle" => done[cur.who] = "none"
    /\ \A v \in env : \/ cur.pc # "idle" /\ v[1] = cur.who /\ v[2] \in cur.mine
                      \/ done[v[1]] \in Failing

(* A read with a renewed token: the token is good, or it died in use.      *)
FreshOrCut == cur.pc = "read" /\ cur.again => cut \/ Accepted

VaultInv == VaultTyped /\ Tidy /\ FreshOrCut

-----------------------------------------------------------------------------
(* HoldFor is the later of two times, so a time (_login).                  *)
LEMMA HoldForNat ==
    ASSUME NEW d \in Leases
    PROVE  HoldFor(d) \in Nat
<1> DEFINE S == {d - RenewMargin, MinHold}
<1>1. d - RenewMargin \in Int /\ MinHold \in Nat /\ MinHold \in Int
  BY ClockAssumption
<1>2. \E x \in S : \A y \in S : x >= y
  BY <1>1
<1>3. Max(S) \in S /\ \A y \in S : Max(S) >= y
  BY <1>2 DEF Max
<1>4. Max(S) >= MinHold /\ Max(S) \in Int
  BY <1>1, <1>3
<1> QED  BY <1>1, <1>4 DEF HoldFor

(* What Cleaned leaves was there (the finally blocks of execute).          *)
LEMMA CleanedSubset ==
    ASSUME NEW a, NEW known
    PROVE  Cleaned(a, known) \subseteq env
BY DEF Cleaned

(* The reference an activity is at is one of the project's references.     *)
LEMMA RefAt ==
    ASSUME NEW a \in Activity, NEW i \in DOMAIN RefsOf[a]
    PROVE  RefsOf[a][i] \in Ref
BY DEF Ref

LEMMA RefIndex ==
    ASSUME NEW a \in Activity, NEW i \in Nat \ {0}, i <= Len(RefsOf[a])
    PROVE  i \in DOMAIN RefsOf[a]
BY RefsAssumption

LEMMA InitVault == Init => VaultInv
<1> SUFFICES ASSUME Init PROVE VaultInv
  OBVIOUS
<1> USE ClockAssumption
<1>1. Preflight \in Activity
  BY DEF Activity
<1>2. cur = Idle /\ cur.pc = "idle"
  BY DEF Init, Idle
<1>3. cur \in CurType
  BY <1>1, <1>2 DEF Idle, Step, CurType
<1>4. VaultTypeOK
  <2>1. secret \in [Ref -> 0 .. MaxVersion]
    BY DEF Init
  <2>2. /\ now \in 0 .. MaxNow /\ events \in 0 .. MaxEvents /\ allowed \subseteq Ref
        /\ lease \in Nat
    BY DEF Init
  <2>4. cache \in [held : BOOLEAN, until : Nat] /\ cut \in BOOLEAN
    BY Zenon, 0 \in Nat DEF Init
  <2>3. /\ env \subseteq Activity \X Ref \X (1 .. MaxVersion)
        /\ gate \in {"unchecked", "passed", "refused"}
        /\ done \in [Activity -> Outcome]
    BY DEF Init, Outcome
  <2> QED  BY <1>3, <2>1, <2>2, <2>3, <2>4 DEF VaultTypeOK, CurType
<1>5. Tidy /\ FreshOrCut
  BY <1>2 DEF Init, Tidy, FreshOrCut
<1> QED  BY <1>2, <1>3, <1>4, <1>5 DEF VaultInv, VaultTyped

-----------------------------------------------------------------------------
(* The steps, by what they touch                                           *)

(* An activity ends: with a failed resolution whose variables nobody       *)
(* knows, or after its work, with every variable it set known.             *)
LEMMA ConcludeKeeps ==
    ASSUME VaultInv, cur.pc # "idle", NEW o \in Outcome, NEW known,
           Conclude(cur.who, o, known),
           o \in Failing \/ known = cur.mine
    PROVE  /\ done' \in [Activity -> Outcome]
           /\ gate' \in {"unchecked", "passed", "refused"}
           /\ env' \subseteq Activity \X Ref \X (1 .. MaxVersion)
           /\ cur' = Idle /\ cur' \in CurType
           /\ Tidy'
<1> USE DEF VaultInv, VaultTyped, VaultTypeOK
<1>1. cur' = Idle /\ cur' \in CurType /\ cur'.pc = "idle"
  <2>1. Preflight \in Activity
    BY DEF Activity
  <2> QED  BY <2>1 DEF Conclude, Idle, CurType, Step
<1>2. done' = [done EXCEPT ![cur.who] = o] /\ done' \in [Activity -> Outcome]
  BY DEF Conclude
<1>3. gate' \in {"unchecked", "passed", "refused"}
  BY DEF Conclude
<1>4. env' = Cleaned(cur.who, known) /\ env' \subseteq env
  BY CleanedSubset DEF Conclude
<1>5. ASSUME NEW v \in env'
      PROVE  done'[v[1]] \in Failing
  <2>1. v \in env /\ v[1] \in Activity /\ ~(v[1] = cur.who /\ v[2] \in known)
    BY <1>4, <1>5 DEF Cleaned
  <2>2. CASE v[1] # cur.who
    <3>1. done[v[1]] \in Failing
      BY <2>1, <2>2 DEF Tidy
    <3> QED  BY <1>2, <2>1, <2>2, <3>1
  <2>3. CASE v[1] = cur.who
    <3>1. v[2] \in cur.mine
      BY <2>1, <2>3 DEF Tidy, Failing
    <3>2. o \in Failing
      BY <2>1, <2>3, <3>1
    <3> QED  BY <1>2, <2>3, <3>2
  <2> QED  BY <2>2, <2>3
<1> QED  BY <1>1, <1>2, <1>3, <1>4, <1>5 DEF Tidy

(* A reference resolves: its variable is set and known.                    *)
LEMMA ResolvedKeeps ==
    ASSUME VaultInv, cur.pc # "idle", NEW r \in Ref, Present(r), Resolved(r),
           UNCHANGED <<gate, done>>
    PROVE  /\ env' \subseteq Activity \X Ref \X (1 .. MaxVersion)
           /\ cur' \in CurType /\ cur'.pc = "next"
           /\ Tidy'
<1> USE DEF VaultInv, VaultTyped, VaultTypeOK
<1>1. cur' \in CurType /\ cur'.pc = "next" /\ cur'.who = cur.who
      /\ cur'.mine = cur.mine \cup {r}
  <2>1. cur.at + 1 \in Nat \ {0} /\ cur.mine \cup {r} \in SUBSET Ref
    OBVIOUS
  <2>2. cur' = [cur EXCEPT !.pc = "next", !.at = cur.at + 1, !.mine = cur.mine \cup {r}]
    BY DEF Resolved
  <2> QED  BY <2>1, <2>2 DEF CurType, Step
<1>2. secret[r] \in 1 .. MaxVersion
  BY ClockAssumption DEF Present
<1>3. env' = env \cup {<<cur.who, r, secret[r]>>}
  BY DEF Resolved, Injected
<1>4. env' \subseteq Activity \X Ref \X (1 .. MaxVersion)
  BY <1>2, <1>3
<1>5. done'[cur'.who] = "none" /\ done' = done
  BY <1>1 DEF Tidy
<1>6. ASSUME NEW v \in env'
      PROVE  \/ v[1] = cur'.who /\ v[2] \in cur'.mine
             \/ done'[v[1]] \in Failing
  <2>1. CASE v \in env
    BY <1>1, <1>5, <2>1 DEF Tidy
  <2>2. CASE v = <<cur.who, r, secret[r]>>
    BY <1>1, <2>2
  <2> QED  BY <1>3, <1>6, <2>1, <2>2
<1> QED  BY <1>1, <1>4, <1>5, <1>6 DEF Tidy

(* The runner goes on within its activity: nothing else of it changes.     *)
LEMMA AdvanceKeeps ==
    ASSUME VaultInv, cur.pc # "idle", cur'.pc # "idle",
           cur'.who = cur.who, cur'.mine = cur.mine, UNCHANGED <<env, done>>
    PROVE  Tidy'
BY DEF VaultInv, Tidy

LEMMA QuietKeeps ==
    ASSUME VaultInv, UNCHANGED <<cur, env, done>>
    PROVE  Tidy'
BY DEF VaultInv, Tidy

(* The types of what vault, the clock and the resolver's cache hold.       *)
VaultSide ==
    /\ now \in 0 .. MaxNow /\ events \in 0 .. MaxEvents
    /\ secret \in [Ref -> 0 .. MaxVersion]
    /\ allowed \subseteq Ref
    /\ lease \in Nat /\ cache \in [held : BOOLEAN, until : Nat]
    /\ cut \in BOOLEAN

(* The types of what the runner holds.                                     *)
RunnerSide ==
    /\ env \subseteq Activity \X Ref \X (1 .. MaxVersion)
    /\ gate \in {"unchecked", "passed", "refused"}
    /\ done \in [Activity -> Outcome]
    /\ cur \in CurType

LEMMA Sides ==
    VaultTyped <=> /\ VaultSide /\ RunnerSide
                   /\ cur.pc \in {"token", "read"} => cur.at \in DOMAIN RefsOf[cur.who]
BY DEF VaultTyped, VaultTypeOK, VaultSide, RunnerSide, CurType

LEMMA SidesNext ==
    VaultTyped' <=> /\ VaultSide' /\ RunnerSide'
                    /\ cur'.pc \in {"token", "read"} => cur'.at \in DOMAIN RefsOf[cur'.who]
BY DEF VaultTyped, VaultTypeOK, VaultSide, RunnerSide, CurType

LEMMA SameVaultSide ==
    ASSUME VaultSide, UNCHANGED <<now, Vault, cache, cut>>
    PROVE  VaultSide'
BY DEF VaultSide, Vault

(* One ending step of the runner that leaves vault's side alone, or        *)
(* changes it to something typed.                                          *)
LEMMA EndStep ==
    ASSUME VaultInv, cur.pc # "idle", NEW o \in Outcome, NEW known,
           Conclude(cur.who, o, known), o \in Failing \/ known = cur.mine, VaultSide'
    PROVE  VaultInv'
<1>1. RunnerSide' /\ Tidy' /\ cur' = Idle
  BY ConcludeKeeps DEF RunnerSide
<1>2. cur'.pc = "idle"
  BY <1>1 DEF Idle
<1> QED  BY <1>1, <1>2, SidesNext DEF VaultInv, FreshOrCut

LEMMA BeginKeeps ==
    ASSUME VaultInv, NEW a \in Activity, Begin(a)
    PROVE  VaultInv'
<1>1. VaultSide /\ RunnerSide
  BY Sides DEF VaultInv
<1>2. VaultSide'
  BY <1>1, SameVaultSide, ZenonT(20) DEF Begin, VaultSide, Vault
<1>3. CASE a \in NeedsGate /\ gate = "refused"
  <2>1. done' = [done EXCEPT ![a] = "refused"] /\ cur' = cur /\ env' = env /\ gate' = gate
        /\ cur.pc = "idle" /\ done[a] = "none" /\ cur'.pc = "idle"
    BY <1>3 DEF Begin
  <2>2. RunnerSide'
    <3>1. done' \in [Activity -> Outcome]
      BY <1>1, <2>1 DEF RunnerSide, Outcome
    <3> QED  BY <1>1, <2>1, <3>1 DEF RunnerSide
  <2>3. ASSUME NEW v \in env' PROVE done'[v[1]] \in Failing
    BY <1>1, <2>1, <2>3 DEF VaultInv, Tidy, Failing, RunnerSide
  <2>4. Tidy' /\ FreshOrCut'
    BY <2>1, <2>3 DEF Tidy, FreshOrCut
  <2> QED  BY <1>2, <2>1, <2>2, <2>4, SidesNext DEF VaultInv
<1>4. CASE ~(a \in NeedsGate /\ gate = "refused")
  <2>1. cur' = [Idle EXCEPT !.who = a, !.pc = "next"] /\ done' = done /\ env' = env
        /\ gate' = gate /\ done[a] = "none" /\ cur.pc = "idle"
    BY <1>4 DEF Begin
  <2>2. cur' \in CurType /\ cur'.pc = "next" /\ cur'.who = a
    <3>1. Idle \in CurType
      <4>1. Preflight \in Activity
        BY DEF Activity
      <4> QED  BY <4>1 DEF Idle, CurType, Step
    <3> QED  BY <2>1, <3>1 DEF CurType, Step
  <2>3. RunnerSide'
    BY <1>1, <2>1, <2>2 DEF RunnerSide
  <2>4. Tidy' /\ FreshOrCut'
    BY <2>1, <2>2 DEF VaultInv, Tidy, FreshOrCut
  <2> QED  BY <1>2, <2>2, <2>3, <2>4, SidesNext DEF VaultInv
<1> QED  BY <1>3, <1>4

(* Going on within an activity, with or without a change on vault's side.  *)
LEMMA AdvanceStep ==
    ASSUME VaultInv, cur.pc # "idle", NEW p \in {"next", "token", "read", "work"},
           NEW g \in BOOLEAN,
           cur' = [cur EXCEPT !.pc = p, !.again = g],
           p \in {"token", "read"} => cur.at \in DOMAIN RefsOf[cur.who],
           p = "read" /\ g => cut' \/ Accepted',
           UNCHANGED <<env, gate, done>>, VaultSide'
    PROVE  VaultInv'
<1>1. RunnerSide
  BY Sides DEF VaultInv
<1>2. /\ cur' \in CurType /\ cur'.pc = p /\ cur'.again = g /\ cur'.who = cur.who
      /\ cur'.mine = cur.mine /\ cur'.at = cur.at
  BY <1>1 DEF RunnerSide, CurType, Step
<1>3. RunnerSide' /\ Tidy'
  BY <1>1, <1>2, AdvanceKeeps DEF RunnerSide
<1>4. FreshOrCut'
  BY <1>2 DEF FreshOrCut
<1> QED  BY <1>2, <1>3, <1>4, SidesNext DEF VaultInv

(* A step of vault, its operators or the clock.                            *)
LEMMA OperatorStep ==
    ASSUME VaultInv, UNCHANGED <<env, gate, cur, done>>, VaultSide',
           cur.pc = "read" /\ cur.again => cut' \/ Accepted'
    PROVE  VaultInv'
<1>1. RunnerSide' /\ Tidy' /\ FreshOrCut'
  BY Sides, QuietKeeps DEF VaultInv, RunnerSide, FreshOrCut
<1> QED  BY <1>1, Sides, SidesNext DEF VaultInv

LEMMA ResolveStep ==
    ASSUME VaultInv, cur.pc # "idle", NEW r \in Ref, Present(r), Resolved(r),
           UNCHANGED <<gate, done>>, VaultSide'
    PROVE  VaultInv'
<1>1. RunnerSide' /\ Tidy' /\ cur'.pc = "next"
  BY ResolvedKeeps, Sides DEF RunnerSide, VaultInv
<1> QED  BY <1>1, SidesNext DEF VaultInv, FreshOrCut

(* NextCredential, per branch.                                             *)
LEMMA NextCredentialKeeps == VaultInv /\ NextCredential => VaultInv'
<1> SUFFICES ASSUME VaultInv, NextCredential PROVE VaultInv'
  OBVIOUS
<1>1. /\ VaultSide /\ VaultSide' /\ RunnerSide
      /\ cur.pc = "next" /\ cur.pc # "idle"
  BY Sides, SameVaultSide DEF VaultInv, NextCredential
<1>2. cur.who \in Activity /\ cur.at \in Nat \ {0} /\ cur.again \in BOOLEAN
  BY <1>1 DEF RunnerSide, CurType
<1>3. CASE cur.at > Len(RefsOf[cur.who])
  <2>1. cur' = [cur EXCEPT !.pc = "work"] /\ UNCHANGED <<env, gate, done>>
    BY <1>3 DEF NextCredential
  <2>2. cur' = [cur EXCEPT !.pc = "work", !.again = cur.again]
    BY <1>1, <2>1 DEF RunnerSide, CurType
  <2> QED  BY <1>1, <1>2, <2>1, <2>2, AdvanceStep
<1>4. CASE ~(cur.at > Len(RefsOf[cur.who])) /\ Malformed(RefsOf[cur.who][cur.at])
  <2>1. Conclude(cur.who, "bad_reference", {})
    BY <1>4 DEF NextCredential, GiveUp
  <2> QED  BY <1>1, <2>1, EndStep DEF Outcome, Failing
<1>5. CASE ~(cur.at > Len(RefsOf[cur.who])) /\ ~Malformed(RefsOf[cur.who][cur.at])
  <2>1. cur' = [cur EXCEPT !.pc = "token", !.again = FALSE] /\ UNCHANGED <<env, gate, done>>
    BY <1>5 DEF NextCredential
  <2>2. Len(RefsOf[cur.who]) \in Nat
    BY <1>2, RefsAssumption
  <2>3. cur.at \in DOMAIN RefsOf[cur.who]
    BY <1>2, <1>5, <2>2, RefIndex
  <2> QED  BY <1>1, <2>1, <2>3, AdvanceStep
<1> QED  BY <1>3, <1>4, <1>5

LEMMA ResolveFromEnvKeeps == VaultInv /\ ResolveFromEnv => VaultInv'
<1> SUFFICES ASSUME VaultInv, ResolveFromEnv PROVE VaultInv'
  OBVIOUS
<1> DEFINE r == RefsOf[cur.who][cur.at]
<1>1. /\ VaultSide /\ VaultSide' /\ RunnerSide
      /\ cur.pc = "next" /\ cur.pc # "idle"
  BY Sides, SameVaultSide DEF VaultInv, ResolveFromEnv
<1>2. r \in Ref
  BY <1>1, RefIndex, RefAt DEF RunnerSide, CurType, ResolveFromEnv
<1>3. CASE Present(r)
  BY <1>1, <1>2, <1>3, ResolveStep DEF ResolveFromEnv
<1>4. CASE ~Present(r)
  <2>1. Conclude(cur.who, "absent", {})
    BY <1>4 DEF ResolveFromEnv, GiveUp
  <2> QED  BY <1>1, <2>1, EndStep DEF Outcome, Failing
<1> QED  BY <1>3, <1>4

LEMMA TokenKeeps ==
    ASSUME VaultInv, UseCachedToken \/ \E d \in Leases : Login(d)
    PROVE  VaultInv'
<1>1. /\ VaultSide /\ RunnerSide /\ cur.pc = "token" /\ cur.pc # "idle"
      /\ cur.at \in DOMAIN RefsOf[cur.who]
      /\ cur.again \in BOOLEAN /\ cur' = [cur EXCEPT !.pc = "read"]
      /\ UNCHANGED <<env, gate, done>>
  BY Sides DEF VaultInv, UseCachedToken, Login, RunnerSide, CurType
<1>2. cur' = [cur EXCEPT !.pc = "read", !.again = cur.again]
  BY <1>1 DEF RunnerSide, CurType
<1>3. CASE UseCachedToken
  <2>1. VaultSide' /\ ~cur.again
    BY <1>1, <1>3, SameVaultSide DEF UseCachedToken, CacheServes
  <2> QED  BY <1>1, <1>2, <2>1, AdvanceStep
<1>4. ASSUME NEW d \in Leases, Login(d) PROVE VaultInv'
  <2>1. d \in Nat /\ d > 0 /\ now \in Nat /\ HoldFor(d) \in Nat
    BY <1>1, HoldForNat, ClockAssumption DEF VaultSide
  <2>2. lease' \in Nat /\ now' = now /\ now' < lease'
    BY <1>4, <2>1 DEF Login
  <2>3. cache' \in [held : BOOLEAN, until : Nat]
    <3>1. now + HoldFor(d) \in Nat
      BY <2>1
    <3>2. cache' = [held |-> TRUE, until |-> now + HoldFor(d)]
      BY <1>4 DEF Login
    <3> HIDE DEF HoldFor
    <3> QED  BY <3>1, <3>2, Zenon
  <2>4. VaultSide'
    <3>1. cut' \in BOOLEAN
      BY <1>4 DEF Login
    <3> QED  BY <1>1, <1>4, <2>2, <2>3, <3>1 DEF Login, VaultSide
  <2>5. Accepted'
    BY <2>2 DEF Accepted
  <2> QED  BY <1>1, <1>2, <2>4, <2>5, AdvanceStep
<1> QED  BY <1>3, <1>4

LEMMA LoginFailsKeeps ==
    ASSUME VaultInv, NEW o, LoginFails(o)
    PROVE  VaultInv'
<1>1. VaultSide /\ cur.pc # "idle" /\ o \in Outcome /\ o \in Failing
  BY Sides DEF VaultInv, LoginFails, Outcome, Failing
<1>2. cache' \in [held : BOOLEAN, until : Nat]
  BY <1>1 DEF LoginFails, VaultSide
<1>3. VaultSide'
  BY <1>1, <1>2 DEF LoginFails, VaultSide, Vault
<1> QED  BY <1>1, <1>3, EndStep DEF LoginFails, GiveUp

LEMMA WorkEndsKeeps ==
    ASSUME VaultInv, NEW o, WorkEnds(o)
    PROVE  VaultInv'
<1>1. VaultSide' /\ cur.pc # "idle" /\ o \in Outcome
  BY Sides, SameVaultSide DEF VaultInv, WorkEnds, Outcome
<1> QED  BY <1>1, EndStep DEF WorkEnds

LEMMA ReadKeeps ==
    ASSUME VaultInv, Read \/ ReadFails
    PROVE  VaultInv'
<1> DEFINE r == RefsOf[cur.who][cur.at]
           forbidden == ~Accepted \/ r \notin allowed
<1>1. /\ VaultSide' /\ RunnerSide /\ cur.pc = "read" /\ cur.pc # "idle"
      /\ cur.at \in DOMAIN RefsOf[cur.who] /\ cur.who \in Activity
  BY Sides, SameVaultSide DEF VaultInv, Read, ReadFails, RunnerSide, CurType
<1>2. r \in Ref
  BY <1>1, RefAt
<1>3. CASE ReadFails
  BY <1>1, <1>3, EndStep DEF ReadFails, GiveUp, Outcome, Failing
<1>4. CASE Read
  <2>1. CASE forbidden /\ Again
    <3>1. cur' = [cur EXCEPT !.pc = "token", !.again = TRUE] /\ UNCHANGED <<env, gate, done>>
      BY <1>4, <2>1 DEF Read
    <3> QED  BY <1>1, <3>1, AdvanceStep
  <2>2. CASE forbidden /\ ~Again
    <3>1. Conclude(cur.who, "denied", {})
      BY <1>4, <2>2 DEF Read, GiveUp
    <3> QED  BY <1>1, <3>1, EndStep DEF Outcome, Failing
  <2>3. CASE ~forbidden /\ ~Present(r)
    <3>1. Conclude(cur.who, "absent", {})
      BY <1>4, <2>3 DEF Read, GiveUp
    <3> QED  BY <1>1, <3>1, EndStep DEF Outcome, Failing
  <2>4. CASE ~forbidden /\ Present(r)
    <3>1. Resolved(r) /\ UNCHANGED <<gate, done>>
      BY <1>4, <2>4 DEF Read
    <3> QED  BY <1>1, <1>2, <2>4, <3>1, ResolveStep
  <2> QED  BY <2>1, <2>2, <2>3, <2>4
<1> QED  BY <1>3, <1>4

LEMMA OperatorsKeep ==
    ASSUME VaultInv, Operators
    PROVE  VaultInv'
<1> USE ClockAssumption
<1>1. VaultSide /\ RunnerSide /\ FreshOrCut
  BY Sides DEF VaultInv
<1>2. CASE Tick
  <2>1. /\ now' = now + 1 /\ now < MaxNow /\ UNCHANGED <<Vault, cache, env, gate, cur, done>>
        /\ cut' = (cut \/ (cur.pc = "read" /\ lease <= now + 1))
    BY <1>2 DEF Tick, Cut
  <2>2. now' \in 0 .. MaxNow
    BY <1>1, <2>1 DEF VaultSide
  <2>3. cut' \in BOOLEAN
    BY <2>1
  <2>4. VaultSide'
    BY <1>1, <2>1, <2>2, <2>3 DEF VaultSide, Vault
  <2>5. ASSUME cur.pc = "read", cur.again PROVE cut' \/ Accepted'
    <3>1. CASE lease <= now + 1
      BY <2>1, <2>5, <3>1, Zenon
    <3>2. CASE ~(lease <= now + 1)
      BY <1>1, <2>1, <3>2 DEF Accepted, Vault, VaultSide
    <3> QED  BY <3>1, <3>2
  <2> QED  BY <2>1, <2>4, <2>5, OperatorStep
<1>3. CASE Revoke
  <2>1. /\ events' = events + 1 /\ events < MaxEvents /\ lease' = 0
        /\ UNCHANGED <<now, secret, allowed, cache, env, gate, cur, done>>
        /\ cut' = (cut \/ cur.pc = "read")
    BY <1>3 DEF Revoke, Event, Cut
  <2>2. cut' \in BOOLEAN /\ (cur.pc = "read" => cut')
    BY <2>1
  <2>3. VaultSide'
    BY <1>1, <2>1, <2>2 DEF VaultSide
  <2> QED  BY <2>1, <2>2, <2>3, OperatorStep
<1>4. ASSUME NEW r \in VaultRef, Rotate(r) \/ Remove(r) \/ ChangePolicy(r)
      PROVE  VaultInv'
  <2>1. /\ events' = events + 1 /\ events < MaxEvents
        /\ UNCHANGED <<now, lease, cache, env, gate, cur, done, cut>>
    BY <1>4 DEF Rotate, Remove, ChangePolicy, Event
  <2>2. r \in Ref
    BY <1>4 DEF VaultRef
  <2>3. secret' \in [Ref -> 0 .. MaxVersion] /\ allowed' \subseteq Ref
    <3>1. CASE Rotate(r)
      BY <1>1, <2>2, <3>1 DEF Rotate, VaultSide
    <3>2. CASE Remove(r)
      BY <1>1, <2>2, <3>2 DEF Remove, VaultSide
    <3>3. CASE ChangePolicy(r)
      BY <1>1, <2>2, <3>3 DEF ChangePolicy, VaultSide
    <3> QED  BY <1>4, <3>1, <3>2, <3>3
  <2>4. VaultSide'
    BY <1>1, <2>1, <2>3 DEF VaultSide
  <2>5. cur.pc = "read" /\ cur.again => cut' \/ Accepted'
    BY <1>1, <2>1 DEF FreshOrCut, Accepted
  <2> QED  BY <2>1, <2>4, <2>5, OperatorStep
<1> QED  BY <1>2, <1>3, <1>4 DEF Operators

LEMMA NextVault == VaultInv /\ [Next]_vars => VaultInv'
<1> SUFFICES ASSUME VaultInv, [Next]_vars PROVE VaultInv'
  OBVIOUS
<1>1. CASE Runner
  BY <1>1, BeginKeeps, NextCredentialKeeps, ResolveFromEnvKeeps, TokenKeeps,
     LoginFailsKeeps, WorkEndsKeeps, ReadKeeps DEF Runner
<1>2. CASE Operators
  BY <1>2, OperatorsKeep
<1>3. CASE UNCHANGED vars
  BY <1>3 DEF vars, VaultInv, VaultTyped, VaultTypeOK, Tidy, FreshOrCut, Accepted
<1> QED  BY <1>1, <1>2, <1>3 DEF Next

LEMMA VaultSafe == Spec => []VaultInv
BY InitVault, NextVault, PTL DEF Spec

-----------------------------------------------------------------------------
(* The results                                                             *)

(* Every variable keeps its type (VaultResolver, Runner.execute).          *)
THEOREM VaultTypeCorrect == Spec => []VaultTypeOK
<1>1. VaultInv => VaultTypeOK
  BY DEF VaultInv, VaultTyped
<1> QED  BY <1>1, VaultSafe, PTL

(* What is left in the environment comes from activities whose             *)
(* credentials did not all resolve; one that got to its work leaves        *)
(* nothing (the finally blocks of execute and preflight_execution).        *)
THEOREM WorkedClean == Spec => []WorkedLeaveNothing
<1>1. VaultInv => WorkedLeaveNothing
  BY DEF VaultInv, Tidy, WorkedLeaveNothing
<1> QED  BY <1>1, VaultSafe, PTL

(* A denial is reported by a second refused read only: the token it was    *)
(* made with is fresh, so the policy refused it unless the token died      *)
(* meanwhile (VaultResolver.resolve).                                      *)
THEOREM DenialsAreThePolicys == Spec => DenialIsPolicy
<1> DEFINE Blamed == \A a \in Activity : done[a] # "denied" /\ done'[a] = "denied" =>
                         cut \/ RefsOf[a][cur.at] \notin allowed
<1>1. VaultInv /\ [Next]_vars => Blamed
  <2> SUFFICES ASSUME VaultInv, [Next]_vars, NEW a \in Activity,
                      done[a] # "denied", done'[a] = "denied"
               PROVE  cut \/ RefsOf[a][cur.at] \notin allowed
    OBVIOUS
  <2>1. RunnerSide
    BY Sides DEF VaultInv
  <2>2. ASSUME NEW o, NEW known, Conclude(cur.who, o, known)
        PROVE  a = cur.who /\ o = "denied"
    BY <2>1, <2>2 DEF Conclude, RunnerSide, CurType
  <2>3. CASE Read
    <3> DEFINE r == RefsOf[cur.who][cur.at]
               forbidden == ~Accepted \/ r \notin allowed
    <3>1. done' # done
      OBVIOUS
    <3>2. CASE forbidden /\ ~Again
      <4>1. Conclude(cur.who, "denied", {})
        BY <2>3, <3>2 DEF Read, GiveUp
      <4>2. a = cur.who
        BY <2>2, <4>1
      <4>3. cut \/ Accepted
        BY <2>3, <3>2 DEF VaultInv, FreshOrCut, Read, Again
      <4> QED  BY <3>2, <4>2, <4>3
    <3>3. CASE ~forbidden /\ ~Present(r)
      <4>1. Conclude(cur.who, "absent", {})
        BY <2>3, <3>3 DEF Read, GiveUp
      <4> QED  BY <2>2, <4>1
    <3>4. CASE (forbidden /\ Again) \/ (~forbidden /\ Present(r))
      BY <2>3, <3>1, <3>4 DEF Read
    <3> QED  BY <3>2, <3>3, <3>4
  <2>4. CASE \E b \in Activity : Begin(b)
    BY <2>1, <2>4 DEF Begin, RunnerSide
  <2>5. CASE NextCredential \/ ResolveFromEnv \/ ReadFails
             \/ \E o \in Outcome : LoginFails(o) \/ WorkEnds(o)
    <3>1. \/ done' = done
          \/ \E o \in Outcome \ {"denied"} : \E known : Conclude(cur.who, o, known)
      BY <2>5 DEF NextCredential, ResolveFromEnv, ReadFails, LoginFails, WorkEnds,
                  GiveUp, Outcome
    <3> QED  BY <2>2, <3>1
  <2>6. CASE UseCachedToken \/ (\E d \in Leases : Login(d)) \/ Operators \/ UNCHANGED vars
    BY <2>6 DEF UseCachedToken, Login, Operators, Tick, Rotate, Remove, ChangePolicy,
                Revoke, vars
  <2> QED  BY <2>3, <2>4, <2>5, <2>6 DEF Next, Runner
<1> QED  BY <1>1, VaultSafe, PTL DEF Spec, DenialIsPolicy
=============================================================================
