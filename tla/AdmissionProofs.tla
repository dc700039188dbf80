--------------------------- MODULE AdmissionProofs ---------------------------
(***************************************************************************)
(* Proofs about the three checks a request passes before the keystore sees *)
(* it: the API key (ApiKeys), the rate limiter (RateLimiter) and the state *)
(* enforcer (StateEnforcer), for any keys, domains, addresses, requests,   *)
(* messages, tokens, lifetimes, rates and bounds.  The three share no      *)
(* state; each has its own specification and its own inductive invariant.  *)
(***************************************************************************)
EXTENDS RateLimiter, ApiKeys, StateEnforcer, TLAPS

-----------------------------------------------------------------------------
(* RateLimiter.                                                             *)

(* Arithmetic                                                               *)

\* A bucket's rate and burst are numbers, and an idle address or key bucket
\* would have filled up by the time it is dropped.
LEMMA BucketNumbers ==
  /\ \A b \in Bucket : Cap(b) \in Nat /\ RateOf(b) \in Nat
  /\ \A b \in IP \cup ClientKey : RateOf(b) * IdleAge >= Cap(b)
<1>1. /\ Burst \in Nat /\ Rate \in Nat /\ IdleAge \in Nat /\ KeyFactor \in Nat
      /\ GlobalFactor \in Nat /\ GlobalRateFactor \in Nat
      /\ Rate * IdleAge >= Burst
      /\ IP \cap ClientKey = {}
  BY RateLimiterConstants
<1>2. \A b \in Bucket : Cap(b) \in Nat /\ RateOf(b) \in Nat
  BY <1>1 DEF Cap, RateOf
<1>3. (KeyFactor * Rate) * IdleAge >= KeyFactor * Burst
  <2>1. \A k, x, y \in Nat : x >= y => k * x >= k * y
    BY SMT
  <2>2. (KeyFactor * Rate) * IdleAge = KeyFactor * (Rate * IdleAge)
    BY <1>1, SMT
  <2>3. Rate * IdleAge \in Nat
    BY <1>1, SMT
  <2> QED BY <1>1, <2>1, <2>2, <2>3
<1>4. \A b \in IP \cup ClientKey : RateOf(b) * IdleAge >= Cap(b)
  BY <1>1, <1>3 DEF Cap, RateOf
<1> QED BY <1>2, <1>4

\* What a rate yields over an interval.
LEMMA RateOverTime ==
  ASSUME NEW r \in Nat, NEW s \in Nat, NEW t \in Nat, s <= t
  PROVE  /\ r * s \in Nat /\ r * t \in Nat /\ (t - s) * r \in Nat
         /\ r * s <= r * t
         /\ (t - s) * r + r * s = r * t
<1>1. t - s \in Nat
  OBVIOUS
<1>2. r * s \in Nat /\ r * t \in Nat /\ (t - s) * r \in Nat
  BY <1>1, SMT
<1>3. (t - s) * r + r * s = r * t
  BY <1>1, SMT
<1> QED BY <1>2, <1>3

-----------------------------------------------------------------------------
(* Type correctness                                                         *)

\* What a refill yields.
LEMMA RefilledType ==
  ASSUME RateTypeOK, NEW b \in Bucket, NEW t \in 0 .. clock
  PROVE  Refilled(b, t) \in Nat /\ Refilled(b, t) <= Cap(b)
<1>1. Cap(b) \in Nat /\ RateOf(b) \in Nat
  BY BucketNumbers
<1>2. tokens[b] \in Nat /\ last_refill[b] \in Nat /\ t \in Nat
  BY DEF RateTypeOK
<1>3. duration_since(t, last_refill[b]) \in Nat
  BY <1>2 DEF duration_since
<1>4. duration_since(t, last_refill[b]) * RateOf(b) \in Nat
  BY <1>1, <1>3, SMT
<1> QED BY <1>1, <1>2, <1>4 DEF Refilled, AtMost

\* Handling a bucket keeps the types of what it changes.
LEMMA RefillType ==
  ASSUME RateTypeOK, NEW b \in Bucket, NEW t \in 0 .. clock, Refill(b, t)
  PROVE  /\ present' \subseteq Bucket
         /\ last_refill' \in [Bucket -> 0 .. clock]
         /\ seen' \in [Bucket -> 0 .. clock]
         /\ overtaken' \in BOOLEAN
  BY DEF RateTypeOK, Refill, Handled

\* A payment is well typed.
LEMMA PayType ==
  ASSUME RateTypeOK, NEW p \in Request, NEW b \in Bucket,
         NEW next \in Resting \cup Waiting \cup {"auth"}, Pay(p, b, next)
  PROVE  RateTypeOK'
<1>1. checked_at[p] \in 0 .. clock
  BY DEF RateTypeOK
<1>2. Refilled(b, checked_at[p]) \in Nat /\ Refilled(b, checked_at[p]) <= Cap(b)
  BY <1>1, RefilledType
<1>3. /\ present' \subseteq Bucket /\ last_refill' \in [Bucket -> 0 .. clock]
      /\ seen' \in [Bucket -> 0 .. clock] /\ overtaken' \in BOOLEAN
  BY <1>1, RefillType DEF Pay
<1>4. Cap(b) \in Nat
  BY BucketNumbers
<1>5. tokens' \in [Bucket -> Nat] /\ \A c \in Bucket : tokens'[c] <= Cap(c)
  BY <1>2, <1>4 DEF RateTypeOK, Pay
<1>6. charged' \in [Bucket -> Nat]
  BY DEF RateTypeOK, Pay
<1>7. step' \in [Request -> Resting \cup Waiting \cup {"auth"}]
  BY DEF RateTypeOK, Pay
<1> QED BY <1>3, <1>5, <1>6, <1>7 DEF RateTypeOK, Pay, sweepVars, Cap

\* A refusal is well typed.
LEMMA LimitType ==
  ASSUME RateTypeOK, NEW p \in Request, NEW b \in Bucket,
         NEW answer \in Resting, Limit(p, b, answer)
  PROVE  RateTypeOK'
<1>1. checked_at[p] \in 0 .. clock
  BY DEF RateTypeOK
<1>2. Refilled(b, checked_at[p]) \in Nat /\ Refilled(b, checked_at[p]) <= Cap(b)
  BY <1>1, RefilledType
<1>3. /\ present' \subseteq Bucket /\ last_refill' \in [Bucket -> 0 .. clock]
      /\ seen' \in [Bucket -> 0 .. clock] /\ overtaken' \in BOOLEAN
  BY <1>1, RefillType DEF Limit
<1>4. tokens' \in [Bucket -> Nat] /\ \A c \in Bucket : tokens'[c] <= Cap(c)
  BY <1>2 DEF RateTypeOK, Limit
<1>5. threats' \in Nat
  BY DEF RateTypeOK, Limit
<1>6. step' \in [Request -> Resting \cup Waiting \cup {"auth"}]
  BY DEF RateTypeOK, Limit
<1> QED BY <1>3, <1>4, <1>5, <1>6 DEF RateTypeOK, Limit, sweepVars, Cap

\* Every state the limiter reaches is well typed; no bucket exceeds its burst.
THEOREM RateTypeCorrect == RateSpec => []RateTypeOK
<1>1. RateInit => RateTypeOK
  <2> SUFFICES ASSUME RateInit PROVE RateTypeOK
    OBVIOUS
  <2>1. present \subseteq Bucket
    BY DEF RateInit, Bucket
  <2>2. tokens \in [Bucket -> Nat] /\ \A b \in Bucket : tokens[b] <= Cap(b)
    BY BucketNumbers DEF RateInit
  <2>3. clock = 0 /\ clock \in 0 .. MaxClock /\ 0 \in 0 .. MaxRequests
    BY RateLimiterConstants DEF RateInit
  <2>4. received \in [IP -> 0 .. MaxRequests]
    BY <2>3 DEF RateInit
  <2>5. /\ last_refill \in [Bucket -> 0 .. clock] /\ seen \in [Bucket -> 0 .. clock]
        /\ checked_at \in [Request -> 0 .. clock] /\ sweep_now \in 0 .. clock
        /\ charged \in [Bucket -> Nat] /\ threats \in Nat
    BY <2>3 DEF RateInit
  <2>6. /\ step \in [Request -> Resting \cup Waiting \cup {"auth"}]
        /\ stage \in [Request -> {"rate_limit", "auth"}]
        /\ ip \in [Request -> IP] /\ key \in [Request -> ClientKey]
        /\ sweep \in {"idle", "address", "key"} /\ overtaken \in BOOLEAN
    BY DEF RateInit, Resting
  <2> QED BY <2>1, <2>2, <2>3, <2>4, <2>5, <2>6 DEF RateTypeOK
<1>2. RateTypeOK /\ [RateNext]_rateVars => RateTypeOK'
  <2> SUFFICES ASSUME RateTypeOK, [RateNext]_rateVars PROVE RateTypeOK'
    OBVIOUS
  <2>1. ASSUME NEW p \in Request, NEW i \in IP, Receive(p, i) PROVE RateTypeOK'
    BY <2>1, RateLimiterConstants DEF RateTypeOK, Receive, bucketVars, sweepVars, Waiting, Cap
  <2>2. ASSUME NEW p \in Request, CheckAddress(p) PROVE RateTypeOK'
    <3>1. ip[p] \in Bucket
      BY DEF RateTypeOK, Bucket
    <3> QED BY <2>2, <3>1, PayType, LimitType DEF CheckAddress, Resting, Waiting
  <2>3. ASSUME NEW p \in Request, CheckKey(p) PROVE RateTypeOK'
    <3>1. key[p] \in Bucket
      BY DEF RateTypeOK, Bucket
    <3> QED BY <2>3, <3>1, PayType, LimitType DEF CheckKey, Resting, Waiting
  <2>4. ASSUME NEW p \in Request, CheckGlobal(p) PROVE RateTypeOK'
    <3>1. Global \in Bucket
      BY DEF Bucket
    <3> QED BY <2>4, <3>1, PayType, LimitType DEF CheckGlobal, Resting, Waiting
  <2>5. ASSUME NEW p \in Request, NEW k \in ClientKey, Authenticated(p, k) PROVE RateTypeOK'
    BY <2>5, RateLimiterConstants DEF RateTypeOK, Authenticated, bucketVars, sweepVars, Waiting, Cap
  <2>6. ASSUME NEW p \in Request, Leave(p) PROVE RateTypeOK'
    BY <2>6 DEF RateTypeOK, Leave, bucketVars, sweepVars, Resting, Cap
  <2>7. CASE SweepStarts
    BY <2>7, RateLimiterConstants DEF RateTypeOK, SweepStarts, bucketVars, requestVars, Cap
  <2>8. CASE SweepAddresses
    BY <2>8 DEF RateTypeOK, SweepAddresses, DropIdle, requestVars, Cap
  <2>9. CASE SweepKeys
    BY <2>9 DEF RateTypeOK, SweepKeys, DropIdle, requestVars, Cap
  <2>10. CASE RateTick
    <3>1. clock' \in 0 .. MaxClock /\ 0 .. clock \subseteq 0 .. clock'
      BY <2>10, RateLimiterConstants DEF RateTypeOK, RateTick
    <3> QED BY <2>10, <3>1 DEF RateTypeOK, RateTick, bucketVars, requestVars, sweepVars, Cap
  <2>11. CASE UNCHANGED rateVars
    BY <2>11 DEF RateTypeOK, rateVars, bucketVars, requestVars, sweepVars, Cap
  <2> QED BY <2>1, <2>2, <2>3, <2>4, <2>5, <2>6, <2>7, <2>8, <2>9, <2>10, <2>11 DEF RateNext
<1> QED BY <1>1, <1>2, PTL DEF RateSpec

-----------------------------------------------------------------------------
(* SteadyRate                                                               *)

(***************************************************************************)
(* While no request is overtaken a bucket's last refill is the latest time *)
(* it was handled at, and what it paid and still holds is covered by its   *)
(* burst and its rate up to then.  A dropped bucket has been idle for so   *)
(* long that its rate alone covers what it paid: a new, full bucket may    *)
(* take its place.                                                         *)
(***************************************************************************)
Covered(b) ==
  IF b \in present
  THEN /\ last_refill[b] = seen[b]
       /\ tokens[b] + charged[b] <= Cap(b) + RateOf(b) * seen[b]
  ELSE charged[b] <= RateOf(b) * seen[b]
RateInv == RateTypeOK /\ (~overtaken => \A b \in Bucket : Covered(b))

\* In clock order, a refill keeps what a bucket holds and paid covered.
LEMMA RefilledCovered ==
  ASSUME RateTypeOK, NEW b \in Bucket, Covered(b), NEW t \in 0 .. clock, seen[b] <= t
  PROVE  Refilled(b, t) + charged[b] <= Cap(b) + RateOf(b) * t
<1> DEFINE R == RateOf(b)
<1>1. Cap(b) \in Nat /\ R \in Nat
  BY BucketNumbers
<1>2. tokens[b] \in Nat /\ charged[b] \in Nat /\ seen[b] \in Nat /\ t \in Nat
  BY DEF RateTypeOK
<1>3. /\ R * seen[b] \in Nat /\ R * t \in Nat /\ (t - seen[b]) * R \in Nat
      /\ R * seen[b] <= R * t
      /\ (t - seen[b]) * R + R * seen[b] = R * t
  BY <1>1, <1>2, RateOverTime
<1>4. CASE b \in present
  <2>1. last_refill[b] = seen[b] /\ tokens[b] + charged[b] <= Cap(b) + R * seen[b]
    BY <1>4 DEF Covered
  <2>2. CASE t > seen[b]
    <3>1. Refilled(b, t) = AtMost(tokens[b] + (t - seen[b]) * R, Cap(b))
      BY <1>4, <2>1, <2>2 DEF Refilled, duration_since
    <3>2. Refilled(b, t) <= tokens[b] + (t - seen[b]) * R
      BY <1>1, <1>2, <1>3, <3>1 DEF AtMost
    <3>3. Refilled(b, t) \in Nat
      BY RefilledType
    <3>4. Refilled(b, t) + charged[b] <= Cap(b) + R * t
      <4> HIDE DEF R
      <4> QED BY <1>1, <1>2, <1>3, <2>1, <3>2, <3>3
    <3> QED BY <3>4
  <2>3. CASE t = seen[b]
    <3>1. duration_since(t, last_refill[b]) = 0
      BY <1>2, <2>1, <2>3 DEF duration_since
    <3>2. 0 * R = 0
      BY <1>1, SMT
    <3>3. Refilled(b, t) = AtMost(tokens[b] + 0, Cap(b))
      BY <1>4, <3>1, <3>2 DEF Refilled
    <3>4. Refilled(b, t) <= tokens[b] /\ Refilled(b, t) \in Nat
      BY <1>1, <1>2, <3>3 DEF AtMost
    <3>5. Refilled(b, t) + charged[b] <= Cap(b) + R * t
      <4>1. R * t = R * seen[b]
        BY <2>3
      <4>2. \A r, k, q, c, n \in Nat : r <= k /\ k + q <= c + n => r + q <= c + n
        BY SMT
      <4> HIDE DEF R
      <4> QED BY <1>1, <1>2, <1>3, <2>1, <3>4, <4>1, <4>2, Zenon
    <3> QED BY <3>5
  <2> QED BY <1>2, <2>2, <2>3
<1>5. CASE b \notin present
  <2>1. Refilled(b, t) = Cap(b) /\ charged[b] <= R * seen[b]
    BY <1>5 DEF Refilled, Covered
  <2> HIDE DEF R
  <2> QED BY <1>1, <1>2, <1>3, <2>1 DEF R
<1> QED BY <1>4, <1>5

\* Buckets a step does not handle stay covered.
LEMMA CoveredUnchanged ==
  ASSUME NEW b, Covered(b),
         b \in present <=> b \in present',
         tokens'[b] = tokens[b], charged'[b] = charged[b],
         last_refill'[b] = last_refill[b], seen'[b] = seen[b]
  PROVE  Covered(b)'
  BY DEF Covered, Cap, RateOf

\* A step that handles bucket b for request p, paying one token or none, keeps
\* every bucket covered.
LEMMA HandledCovered ==
  ASSUME RateInv, NEW p \in Request, NEW b \in Bucket, NEW paid \in {0, 1},
         Refill(b, checked_at[p]),
         Refilled(b, checked_at[p]) >= paid,
         tokens' = [tokens EXCEPT ![b] = Refilled(b, checked_at[p]) - paid],
         charged' = [charged EXCEPT ![b] = @ + paid],
         ~overtaken'
  PROVE  \A c \in Bucket : Covered(c)'
<1> DEFINE t == checked_at[p]
<1>1. RateTypeOK /\ t \in 0 .. clock /\ t \in Nat
  BY DEF RateInv, RateTypeOK
<1>2. ~overtaken /\ seen[b] <= t
  <2>1. overtaken' = (overtaken \/ t < seen[b]) /\ seen[b] \in Nat
    BY <1>1 DEF Refill, Handled, RateTypeOK
  <2>2. ~overtaken /\ ~(t < seen[b])
    BY <2>1, Zenon
  <2> QED BY <1>1, <2>1, <2>2
<1>3. \A c \in Bucket : Covered(c)
  BY <1>2 DEF RateInv
<1>4. ASSUME NEW c \in Bucket, c # b PROVE Covered(c)'
  <2>1. /\ c \in present <=> c \in present'
        /\ last_refill'[c] = last_refill[c] /\ seen'[c] = seen[c]
    BY <1>1, <1>4 DEF Refill, Handled, RateTypeOK
  <2>2. tokens'[c] = tokens[c] /\ charged'[c] = charged[c]
    BY <1>1, <1>4 DEF RateTypeOK
  <2> QED BY <1>3, <2>1, <2>2, CoveredUnchanged
<1>5. Covered(b)'
  <2>1. b \in present' /\ last_refill'[b] = t /\ seen'[b] = t
    BY <1>1, <1>2 DEF Refill, Handled, RateTypeOK
  <2>2. tokens'[b] = Refilled(b, t) - paid /\ charged'[b] = charged[b] + paid
    BY <1>1 DEF RateTypeOK
  <2>3. Refilled(b, t) + charged[b] <= Cap(b) + RateOf(b) * t
    BY <1>1, <1>2, <1>3, RefilledCovered
  <2>4. Refilled(b, t) \in Nat /\ charged[b] \in Nat
    BY <1>1, RefilledType DEF RateTypeOK
  <2>5. tokens'[b] + charged'[b] = Refilled(b, t) + charged[b]
    BY <2>2, <2>4
  <2> QED BY <2>1, <2>3, <2>5 DEF Covered, Cap, RateOf
<1> QED BY <1>4, <1>5

\* Payments and refusals keep every bucket covered.
LEMMA CheckCovered ==
  ASSUME RateInv, NEW p \in Request, NEW b \in Bucket, NEW next,
         Pay(p, b, next) \/ Limit(p, b, next), ~overtaken'
  PROVE  \A c \in Bucket : Covered(c)'
<1>1. CASE Pay(p, b, next)
  BY <1>1, HandledCovered DEF Pay
<1>2. CASE Limit(p, b, next)
  <2>1. Refilled(b, checked_at[p]) \in Nat /\ charged \in [Bucket -> Nat]
    BY RefilledType DEF RateInv, RateTypeOK
  <2>2. Refilled(b, checked_at[p]) >= 0 /\ Refilled(b, checked_at[p]) - 0 = Refilled(b, checked_at[p])
        /\ charged[b] + 0 = charged[b]
    BY <2>1
  <2>3. tokens' = [tokens EXCEPT ![b] = Refilled(b, checked_at[p]) - 0]
    BY <1>2, <2>2 DEF Limit
  <2>4. charged' = [charged EXCEPT ![b] = @ + 0]
    <3>1. charged' = charged
      BY <1>2 DEF Limit
    <3>2. charged = [charged EXCEPT ![b] = charged[b]]
      BY <2>1
    <3> QED BY <2>2, <3>1, <3>2
  <2> QED BY <1>2, <2>2, <2>3, <2>4, HandledCovered DEF Limit
<1> QED BY <1>1, <1>2

\* A dropped bucket is covered by its rate alone.
LEMMA DropCovered ==
  ASSUME RateInv, NEW map, map \subseteq IP \cup ClientKey, NEW next, DropIdle(map, next), ~overtaken'
  PROVE  \A b \in Bucket : Covered(b)'
<1> DEFINE dropped == {b \in map \cap present : Idle(b)}
<1>1. RateTypeOK /\ ~overtaken /\ \A b \in Bucket : Covered(b)
  BY DEF RateInv, DropIdle
<1> SUFFICES ASSUME NEW b \in Bucket PROVE Covered(b)'
  OBVIOUS
<1>2. CASE b \notin dropped
  <2>1. (b \in present <=> b \in present') /\ seen'[b] = seen[b]
    BY <1>1, <1>2 DEF DropIdle, RateTypeOK
  <2> QED BY <1>1, <2>1, CoveredUnchanged DEF DropIdle
<1>3. CASE b \in dropped
  <2> DEFINE R == RateOf(b)
  <2>1. b \in IP \cup ClientKey /\ b \in present /\ Idle(b)
    BY <1>3
  <2>2. /\ Cap(b) \in Nat /\ R \in Nat /\ IdleAge \in Nat /\ Burst \in Nat \ {0}
        /\ R * IdleAge >= Cap(b) /\ Rate * IdleAge >= Burst /\ Rate \in Nat
    BY <2>1, BucketNumbers, RateLimiterConstants
  <2>3. IdleAge > 0
    <3>1. Rate * 0 = 0
      BY <2>2, SMT
    <3> QED BY <2>2, <3>1
  <2>4. /\ seen[b] \in Nat /\ sweep_now \in Nat /\ charged[b] \in Nat /\ tokens[b] \in Nat
        /\ last_refill[b] = seen[b]
        /\ tokens[b] + charged[b] <= Cap(b) + R * seen[b]
    BY <1>1, <2>1 DEF RateTypeOK, Covered
  <2>5. sweep_now > seen[b] /\ sweep_now - seen[b] >= IdleAge
    BY <2>1, <2>2, <2>3, <2>4 DEF Idle, duration_since
  <2>6. seen'[b] = sweep_now /\ b \notin present' /\ charged'[b] = charged[b]
    BY <1>1, <1>3, <2>1, <2>5 DEF DropIdle, RateTypeOK
  <2>7. R * IdleAge <= R * (sweep_now - seen[b]) /\ R * IdleAge \in Nat
    BY <2>2, <2>4, <2>5, RateOverTime
  <2>8. /\ (sweep_now - seen[b]) * R + R * seen[b] = R * sweep_now
        /\ R * seen[b] \in Nat /\ R * sweep_now \in Nat /\ (sweep_now - seen[b]) * R \in Nat
    <3>1. seen[b] <= sweep_now
      BY <2>4, <2>5
    <3> HIDE DEF R
    <3> QED BY <2>2, <2>4, <3>1, RateOverTime
  <2>9. R * (sweep_now - seen[b]) = (sweep_now - seen[b]) * R
    BY <2>2, <2>4, <2>5, SMT
  <2>10. charged[b] <= R * sweep_now
    <3> HIDE DEF R
    <3> QED BY <2>2, <2>4, <2>7, <2>8, <2>9
  <2> QED BY <2>6, <2>10 DEF Covered, RateOf
<1> QED BY <1>2, <1>3

\* In clock order no bucket, of whatever tier, pays more than its burst and its
\* rate allow (RateLimiter::check, cleanup_rate_limiter).
THEOREM RateSteady == RateSpec => []SteadyRate
<1>1. RateInit => \A b \in Bucket : Covered(b)
  <2> SUFFICES ASSUME RateInit, NEW b \in Bucket PROVE Covered(b)
    OBVIOUS
  <2>1. Cap(b) \in Nat /\ RateOf(b) \in Nat
    BY BucketNumbers
  <2>2. RateOf(b) * 0 = 0
    BY <2>1, SMT
  <2> QED BY <2>1, <2>2 DEF RateInit, Covered
<1>2. RateInv /\ [RateNext]_rateVars /\ ~overtaken' => \A b \in Bucket : Covered(b)'
  <2> SUFFICES ASSUME RateInv, [RateNext]_rateVars, ~overtaken' PROVE \A b \in Bucket : Covered(b)'
    OBVIOUS
  <2>1. RateTypeOK
    BY DEF RateInv
  <2>2. ASSUME UNCHANGED bucketVars PROVE \A b \in Bucket : Covered(b)'
    BY <2>2 DEF bucketVars, RateInv, Covered, Cap, RateOf
  <2>3. ASSUME NEW p \in Request, CheckAddress(p) PROVE \A b \in Bucket : Covered(b)'
    <3>1. ip[p] \in Bucket
      BY <2>1 DEF RateTypeOK, Bucket
    <3> QED BY <2>3, <3>1, CheckCovered DEF CheckAddress
  <2>4. ASSUME NEW p \in Request, CheckKey(p) PROVE \A b \in Bucket : Covered(b)'
    <3>1. key[p] \in Bucket
      BY <2>1 DEF RateTypeOK, Bucket
    <3> QED BY <2>4, <3>1, CheckCovered DEF CheckKey
  <2>5. ASSUME NEW p \in Request, CheckGlobal(p) PROVE \A b \in Bucket : Covered(b)'
    <3>1. Global \in Bucket
      BY DEF Bucket
    <3> QED BY <2>5, <3>1, CheckCovered DEF CheckGlobal
  <2>6. CASE SweepAddresses
    BY <2>6, DropCovered DEF SweepAddresses
  <2>7. CASE SweepKeys
    BY <2>7, DropCovered DEF SweepKeys
  <2>8. CASE \/ \E p \in Request, i \in IP : Receive(p, i)
             \/ \E p \in Request, k \in ClientKey : Authenticated(p, k)
             \/ \E p \in Request : Leave(p)
             \/ SweepStarts \/ RateTick \/ UNCHANGED rateVars
    BY <2>2, <2>8 DEF Receive, Authenticated, Leave, SweepStarts, RateTick, rateVars
  <2> QED BY <2>3, <2>4, <2>5, <2>6, <2>7, <2>8 DEF RateNext
<1>3. RateInv => SteadyRate
  <2> SUFFICES ASSUME RateInv, ~overtaken, NEW b \in Bucket
               PROVE  charged[b] <= Cap(b) + RateOf(b) * clock
    BY DEF SteadyRate, WithinRate
  <2>1. /\ Cap(b) \in Nat /\ RateOf(b) \in Nat /\ clock \in Nat /\ seen[b] \in 0 .. clock
        /\ charged[b] \in Nat /\ tokens[b] \in Nat
    BY BucketNumbers DEF RateInv, RateTypeOK
  <2>2. RateOf(b) * seen[b] <= RateOf(b) * clock /\ RateOf(b) * seen[b] \in Nat
        /\ RateOf(b) * clock \in Nat
    BY <2>1, RateOverTime
  <2>3. charged[b] <= Cap(b) + RateOf(b) * seen[b]
    BY <2>1, <2>2 DEF RateInv, Covered
  <2> QED BY <2>1, <2>2, <2>3
<1>4. RateInit /\ RateTypeOK => RateInv
  BY <1>1 DEF RateInv
<1>5. RateInv /\ [RateNext]_rateVars /\ RateTypeOK' => RateInv'
  BY <1>2 DEF RateInv, Covered, Cap, RateOf, Bucket
<1> QED BY <1>3, <1>4, <1>5, RateTypeCorrect, PTL DEF RateSpec

-----------------------------------------------------------------------------
(* ApiKeys.  What the store promises has to hold of the file too, since a   *)
(* restart replaces the one by the other; and ids are never used twice,     *)
(* which the history of grants records.                                     *)

\* Every entry, in memory and in the file, is what its id was created with, and a
\* file that is not empty has the bootstrap entry.
Recorded(ks) == \A k \in ApiKey : ks[k] # NoGrant => ks[k] = granted[k]

Lineage ==
  /\ Recorded(keys)
  /\ Recorded(file.keys)
  /\ keys[Bootstrap] # NoGrant
  /\ granted[Bootstrap] = GlobalAdmin
  /\ file # Empty => file.keys[Bootstrap] # NoGrant

\* Who is revoked stays recorded, and is inactive in memory and in the file.
RevokedSaved ==
  \A k \in revoked :
    /\ granted[k] # NoGrant
    /\ k \notin active
    /\ k \notin file.active
    /\ file # Empty

\* What is handed out and not struck is active in memory and in the file; while
\* nothing was ever saved it can only be the bootstrap entry.
HandedOutSaved ==
  \A k \in held \ struck :
    /\ k \in active /\ keys[k] # NoGrant
    /\ IF file = Empty THEN k = Bootstrap
       ELSE k \in file.active /\ file.keys[k] # NoGrant

\* StartsWith for a set of entries.
AllWellScoped(ks) ==
  \A k \in ApiKey : ks[k] # NoGrant /\ ks[k].allowed_domains = Unrestricted => IsAdmin(ks[k])

ApiKeyInv ==
  /\ ApiKeysTypeOK
  /\ Lineage
  /\ RevokedSaved
  /\ AdminRemains
  /\ HandedOutSaved
  /\ AllWellScoped(keys) /\ AllWellScoped(file.keys)

LEMMA NoGrantIsNothing ==
  /\ NoGrant \in Grant /\ ~IsAdmin(NoGrant)
  /\ GlobalAdmin \in Grant /\ GlobalAdmin # NoGrant
  /\ IsAdmin(GlobalAdmin) /\ is_global_admin(GlobalAdmin)
  /\ BootstrapKeys \in [ApiKey -> Grant]
<1>1. {"Admin"} # {}
  OBVIOUS
<1>2. GlobalAdmin.scopes # NoGrant.scopes
  BY <1>1 DEF GlobalAdmin, NoGrant
<1> QED
  BY <1>2 DEF NoGrant, GlobalAdmin, Grant, Scope, IsAdmin, is_global_admin, BootstrapKeys

\* The empty file and the bootstrap entry.
LEMMA FreshStore ==
  /\ Empty \in [keys : [ApiKey -> Grant], active : SUBSET ApiKey]
  /\ Bootstrapped \in [keys : [ApiKey -> Grant], active : SUBSET ApiKey]
  /\ \A k \in ApiKey : Empty.keys[k] = NoGrant
  /\ Empty.active = {}
  /\ Bootstrapped.keys = BootstrapKeys /\ Bootstrapped.active = {Bootstrap}
  /\ BootstrapKeys[Bootstrap] = GlobalAdmin
  /\ \A k \in ApiKey : BootstrapKeys[k] # NoGrant => k = Bootstrap
BY NoGrantIsNothing, ApiKeyConstants DEF Empty, Bootstrapped, BootstrapKeys
-----------------------------------------------------------------------------
LEMMA ApiKeyInitially == ApiKeysInit => ApiKeyInv
<1> SUFFICES ASSUME ApiKeysInit PROVE ApiKeyInv
  OBVIOUS
<1>1. ApiKeysTypeOK
  BY NoGrantIsNothing, FreshStore, ApiKeyConstants DEF ApiKeysInit, ApiKeysTypeOK
<1>2. Lineage /\ RevokedSaved
  BY NoGrantIsNothing, FreshStore, ApiKeyConstants DEF ApiKeysInit, Lineage, Recorded, RevokedSaved
<1>3. AdminRemains
  BY NoGrantIsNothing, FreshStore DEF ApiKeysInit, AdminRemains
<1>4. HandedOutSaved
  BY NoGrantIsNothing, FreshStore, ApiKeyConstants DEF ApiKeysInit, HandedOutSaved
<1>5. AllWellScoped(keys) /\ AllWellScoped(file.keys)
  BY NoGrantIsNothing, FreshStore DEF ApiKeysInit, AllWellScoped
<1> QED BY <1>1, <1>2, <1>3, <1>4, <1>5 DEF ApiKeyInv

\* A step that leaves memory and the history alone, and saves or does not.
LEMMA SameStore ==
  ASSUME ApiKeyInv, ApiKeysTypeOK', UNCHANGED <<store, granted, held, revoked, struck>>,
         \/ file' = [keys |-> keys', active |-> active']
         \/ UNCHANGED file
  PROVE  ApiKeyInv'
<1>1. CASE file' = [keys |-> keys', active |-> active']
  <2>1. file'.keys = keys /\ file'.active = active
    BY <1>1 DEF store
  <2>2. file' # Empty
    BY <2>1, FreshStore, ApiKeyConstants DEF ApiKeyInv, Lineage
  <2>3. Lineage' /\ RevokedSaved'
    BY <2>1, <2>2 DEF ApiKeyInv, Lineage, Recorded, RevokedSaved, store
  <2>4. AdminRemains'
    BY <2>1 DEF ApiKeyInv, AdminRemains, store
  <2>5. HandedOutSaved'
    BY <2>1, <2>2 DEF ApiKeyInv, HandedOutSaved, store
  <2>6. AllWellScoped(keys)' /\ AllWellScoped(file.keys)'
    BY <2>1 DEF ApiKeyInv, AllWellScoped, store
  <2> QED BY <2>3, <2>4, <2>5, <2>6 DEF ApiKeyInv
<1>2. CASE UNCHANGED file
  BY <1>2 DEF ApiKeyInv, Lineage, Recorded, RevokedSaved, AdminRemains, HandedOutSaved,
              AllWellScoped, store
<1> QED BY <1>1, <1>2

LEMMA ApiKeyTypes == ApiKeysTypeOK /\ [ApiKeysNext]_apiKeysVars => ApiKeysTypeOK'
<1> SUFFICES ASSUME ApiKeysTypeOK, [ApiKeysNext]_apiKeysVars PROVE ApiKeysTypeOK'
  OBVIOUS
<1> USE NoGrantIsNothing, FreshStore, ApiKeyConstants DEF ApiKeysTypeOK
<1>1. ASSUME NEW p \in Proc, NEW k \in ApiKey, NEW s \in Scope,
             NEW goal \in {"idle", "create", "revoke"}, Authenticate(p, k, s, goal)
      PROVE  ApiKeysTypeOK'
  BY <1>1 DEF Authenticate, store, history
<1>2. ASSUME NEW p \in Proc, Refused(p) PROVE ApiKeysTypeOK'
  BY <1>2 DEF Refused, Done, store, history
<1>3. ASSUME NEW p \in Proc, NEW k \in ApiKey, NEW g \in Wanted, create_api_key(p, k, g)
      PROVE  ApiKeysTypeOK'
  <2>1. g \in Grant
    OBVIOUS
  <2>2. keys' \in [ApiKey -> Grant] /\ active' \subseteq ApiKey
    BY <1>3, <2>1 DEF create_api_key
  <2>3. file' \in [keys : [ApiKey -> Grant], active : SUBSET ApiKey]
    BY <1>3, <2>2 DEF create_api_key, HandedSaved, Saved, SaveFails
  <2>4. failures' \in 0 .. MaxFailures
    BY <1>3 DEF create_api_key, HandedSaved, Saved, SaveFails
  <2> QED BY <1>3, <2>2, <2>3, <2>4 DEF create_api_key, HandedSaved, Saved, SaveFails, Done
<1>4. ASSUME NEW p \in Proc, NEW k \in ApiKey, revoke_api_key(p, k) PROVE ApiKeysTypeOK'
  <2>1. file' \in [keys : [ApiKey -> Grant], active : SUBSET ApiKey]
    BY <1>4 DEF revoke_api_key, AnsweredSaved, Saved, SaveFails
  <2>2. failures' \in 0 .. MaxFailures
    BY <1>4 DEF revoke_api_key, AnsweredSaved, Saved, SaveFails
  <2> QED BY <1>4, <2>1, <2>2 DEF revoke_api_key, AnsweredSaved, Saved, SaveFails, Done
<1>5. CASE Touch
  <2>1. file' \in [keys : [ApiKey -> Grant], active : SUBSET ApiKey]
    BY <1>5 DEF Touch, Saved, SaveFails, store
  <2> QED BY <1>5, <2>1 DEF Touch, Saved, SaveFails, store
<1>6. CASE Restart
  <2>1. keys' \in [ApiKey -> Grant] /\ active' \subseteq ApiKey
    BY <1>6 DEF Restart
  <2>2. file' \in [keys : [ApiKey -> Grant], active : SUBSET ApiKey]
    BY <1>6, <2>1 DEF Restart, Saved, SaveFails
  <2>3. failures' \in 0 .. MaxFailures
    BY <1>6 DEF Restart, Saved, SaveFails
  <2> QED BY <1>6, <2>1, <2>2, <2>3 DEF Restart
<1>7. CASE UNCHANGED apiKeysVars
  BY <1>7 DEF apiKeysVars, store, requests, history
<1> QED BY <1>1, <1>2, <1>3, <1>4, <1>5, <1>6, <1>7 DEF ApiKeysNext

-----------------------------------------------------------------------------
\* A creation cannot touch an entry that is there.
LEMMA CreateStep ==
  ASSUME ApiKeyInv, ApiKeysTypeOK',
         NEW p \in Proc, NEW k \in ApiKey, NEW g \in Wanted, create_api_key(p, k, g)
  PROVE  ApiKeyInv'
<1>1. /\ keys \in [ApiKey -> Grant] /\ granted \in [ApiKey -> Grant]
      /\ g \in Grant
  BY ApiKeyConstants DEF ApiKeyInv, ApiKeysTypeOK
<1>2. keys[k] = NoGrant /\ file.keys[k] = NoGrant /\ k # Bootstrap
  BY ApiKeyConstants DEF create_api_key, ApiKeyInv, Lineage, Recorded
<1>3. /\ keys'[k] = g /\ granted'[k] = g
      /\ \A j \in ApiKey : j # k => keys'[j] = keys[j] /\ granted'[j] = granted[j]
  BY <1>1 DEF create_api_key
<1>4. /\ active' = active \cup {k}
      /\ UNCHANGED revoked
      /\ file' = [keys |-> keys', active |-> active'] \/ UNCHANGED file
  BY DEF create_api_key, HandedSaved, Saved, SaveFails
<1>5. g # NoGrant
  BY DEF create_api_key, WellScoped, NoGrant
<1>6. granted[k] = NoGrant
  BY DEF create_api_key
<1>7. g.allowed_domains = Unrestricted => IsAdmin(g)
  BY DEF create_api_key, WellScoped
<1>8. Recorded(keys)' /\ Recorded(file.keys)'
  <2>1. Recorded(keys)'
    BY <1>3 DEF Recorded, ApiKeyInv, Lineage
  <2>2. CASE UNCHANGED file
    BY <1>2, <1>3, <2>2 DEF Recorded, ApiKeyInv, Lineage
  <2> QED BY <1>4, <2>1, <2>2 DEF Recorded
<1>9. keys'[Bootstrap] # NoGrant
  BY <1>2, <1>3, ApiKeyConstants DEF ApiKeyInv, Lineage
<1>10. file' # Empty => file'.keys[Bootstrap] # NoGrant
  BY <1>4, <1>9 DEF ApiKeyInv, Lineage
<1>11. Lineage'
  BY <1>2, <1>3, <1>8, <1>9, <1>10, ApiKeyConstants DEF ApiKeyInv, Lineage
<1>12. file' # Empty \/ UNCHANGED file
  BY <1>4, <1>9, FreshStore, ApiKeyConstants
<1>13. RevokedSaved'
  <2> SUFFICES ASSUME NEW j \in revoked
               PROVE  granted'[j] # NoGrant /\ j \notin active' /\ j \notin file'.active
                      /\ file' # Empty
    BY <1>4 DEF RevokedSaved
  <2>1. j \in ApiKey /\ j # k /\ j \notin active /\ j \notin file.active /\ file # Empty
    BY DEF ApiKeyInv, RevokedSaved, ApiKeysTypeOK, create_api_key
  <2> QED BY <2>1, <1>3, <1>4, <1>12 DEF ApiKeyInv, RevokedSaved
<1>14. AdminRemains'
  <2>1. PICK j \in active : IsAdmin(keys[j])
    BY DEF ApiKeyInv, AdminRemains
  <2>2. j \in active' /\ IsAdmin(keys'[j])
    BY <2>1, <1>2, <1>3, <1>4, NoGrantIsNothing DEF ApiKeyInv, ApiKeysTypeOK
  <2> QED BY <2>2, <1>4 DEF ApiKeyInv, AdminRemains
<1>15. HandedOutSaved'
  <2>1. struck' = struck /\ held' \subseteq held \cup {k}
    BY DEF create_api_key, HandedSaved
  <2>2. k \in held' => file' = [keys |-> keys', active |-> active'] \/ k \in held
    BY DEF create_api_key, HandedSaved, Saved
  <2> SUFFICES ASSUME NEW j \in held' \ struck'
               PROVE  /\ j \in active' /\ keys'[j] # NoGrant
                      /\ IF file' = Empty THEN j = Bootstrap
                         ELSE j \in file'.active /\ file'.keys[j] # NoGrant
    BY DEF HandedOutSaved
  <2>3. j \in ApiKey
    BY DEF ApiKeysTypeOK
  <2>4. CASE j = k
    <3>1. k \notin held \ struck
      BY <1>2 DEF ApiKeyInv, HandedOutSaved
    <3>2. file' = [keys |-> keys', active |-> active']
      BY <2>1, <2>2, <2>4, <3>1
    <3>3. file' # Empty
      BY <1>9, <3>2, FreshStore, ApiKeyConstants
    <3>4. file'.keys = keys' /\ file'.active = active'
      BY <3>2
    <3> QED BY <1>3, <1>4, <1>5, <2>4, <3>3, <3>4
  <2>5. CASE j # k
    <3>1. /\ j \in active /\ keys[j] # NoGrant
          /\ IF file = Empty THEN j = Bootstrap
             ELSE j \in file.active /\ file.keys[j] # NoGrant
      BY <2>1, <2>5 DEF ApiKeyInv, HandedOutSaved
    <3>2. j \in active' /\ keys'[j] # NoGrant
      BY <1>3, <1>4, <2>3, <2>5, <3>1
    <3>3. CASE UNCHANGED file
      BY <3>1, <3>2, <3>3
    <3>4. CASE file' = [keys |-> keys', active |-> active']
      <4>1. file' # Empty
        BY <1>9, <3>4, FreshStore, ApiKeyConstants
      <4> QED BY <3>2, <3>4, <4>1
    <3> QED BY <1>4, <3>3, <3>4
  <2> QED BY <2>4, <2>5
<1>16. AllWellScoped(keys)' /\ AllWellScoped(file.keys)'
  <2>1. AllWellScoped(keys)'
    BY <1>3, <1>7 DEF AllWellScoped, ApiKeyInv
  <2> QED BY <1>4, <2>1 DEF AllWellScoped, ApiKeyInv
<1> QED BY <1>11, <1>13, <1>14, <1>15, <1>16 DEF ApiKeyInv

\* A revocation leaves an admin, and once answered it is in the file.
LEMMA RevokeStep ==
  ASSUME ApiKeyInv, ApiKeysTypeOK', NEW p \in Proc, NEW k \in ApiKey, revoke_api_key(p, k)
  PROVE  ApiKeyInv'
<1>1. /\ UNCHANGED <<keys, granted>>
      /\ active' = active \ {k}
      /\ \/ file' = [keys |-> keys', active |-> active'] /\ revoked' = revoked \cup {k}
         \/ UNCHANGED <<file, revoked>>
  BY DEF revoke_api_key, AnsweredSaved, Saved, SaveFails
<1>2. file' # Empty \/ UNCHANGED <<file, revoked>>
  BY <1>1, FreshStore, ApiKeyConstants DEF ApiKeyInv, Lineage
<1>3. Lineage'
  BY <1>1 DEF ApiKeyInv, Lineage, Recorded
<1>4. RevokedSaved'
  BY <1>1, <1>2 DEF ApiKeyInv, RevokedSaved, Lineage, Recorded, revoke_api_key, Exists
<1>5. AdminRemains'
  <2>1. PICK j \in active \ {k} : IsAdmin(keys[j])
    BY DEF ApiKeyInv, AdminRemains, revoke_api_key, other_admins
  <2> QED BY <1>1, <2>1 DEF ApiKeyInv, AdminRemains
<1>6. HandedOutSaved'
  <2>1. held' = held /\ struck' = struck \cup {k}
    BY DEF revoke_api_key
  <2> SUFFICES ASSUME NEW j \in held \ struck, j # k
               PROVE  /\ j \in active' /\ keys'[j] # NoGrant
                      /\ IF file' = Empty THEN j = Bootstrap
                         ELSE j \in file'.active /\ file'.keys[j] # NoGrant
    BY <2>1 DEF HandedOutSaved
  <2>2. /\ j \in active /\ keys[j] # NoGrant
        /\ IF file = Empty THEN j = Bootstrap
           ELSE j \in file.active /\ file.keys[j] # NoGrant
    BY DEF ApiKeyInv, HandedOutSaved
  <2> QED BY <1>1, <1>2, <2>2
<1>7. AllWellScoped(keys)' /\ AllWellScoped(file.keys)'
  BY <1>1 DEF ApiKeyInv, AllWellScoped
<1> QED BY <1>3, <1>4, <1>5, <1>6, <1>7 DEF ApiKeyInv

\* A restart takes over the file, or begins afresh when nothing was ever saved.
LEMMA RestartStep ==
  ASSUME ApiKeyInv, ApiKeysTypeOK', Restart
  PROVE  ApiKeyInv'
<1>1. CASE file = Empty
  <2>1. /\ keys' = BootstrapKeys /\ active' = {Bootstrap}
        /\ UNCHANGED <<granted, revoked>>
        /\ file' = [keys |-> keys', active |-> active'] \/ UNCHANGED file
    BY <1>1 DEF Restart, Saved, SaveFails
  <2>2. revoked = {}
    BY <1>1 DEF ApiKeyInv, RevokedSaved
  <2>3. granted[Bootstrap] = GlobalAdmin
    BY DEF ApiKeyInv, Lineage
  <2>4. Lineage' /\ RevokedSaved'
    BY <1>1, <2>1, <2>2, <2>3, FreshStore, NoGrantIsNothing, ApiKeyConstants
    DEF Lineage, Recorded, RevokedSaved
  <2>5. AdminRemains'
    BY <1>1, <2>1, FreshStore, NoGrantIsNothing DEF AdminRemains
  <2>6. HandedOutSaved'
    <3>1. held' = held /\ struck' = struck
      BY DEF Restart
    <3>2. \A j \in held \ struck : j = Bootstrap
      BY <1>1 DEF ApiKeyInv, HandedOutSaved
    <3> QED BY <1>1, <2>1, <3>1, <3>2, FreshStore, NoGrantIsNothing DEF HandedOutSaved
  <2>7. AllWellScoped(keys)' /\ AllWellScoped(file.keys)'
    BY <1>1, <2>1, FreshStore, NoGrantIsNothing DEF AllWellScoped
  <2> QED BY <2>4, <2>5, <2>6, <2>7 DEF ApiKeyInv
<1>2. CASE file # Empty
  <2>1. /\ keys' = file.keys /\ active' = file.active
        /\ UNCHANGED <<file, granted, revoked>>
    BY <1>2 DEF Restart
  <2>2. Lineage' /\ RevokedSaved' /\ AdminRemains'
    BY <1>2, <2>1 DEF ApiKeyInv, Lineage, Recorded, RevokedSaved, AdminRemains
  <2>3. HandedOutSaved' /\ AllWellScoped(keys)' /\ AllWellScoped(file.keys)'
    <3>1. held' = held /\ struck' = struck
      BY DEF Restart
    <3> QED BY <1>2, <2>1, <3>1 DEF ApiKeyInv, HandedOutSaved, AllWellScoped
  <2> QED BY <2>2, <2>3 DEF ApiKeyInv
<1> QED BY <1>1, <1>2

LEMMA ApiKeyStep == ApiKeyInv /\ [ApiKeysNext]_apiKeysVars => ApiKeyInv'
<1> SUFFICES ASSUME ApiKeyInv, [ApiKeysNext]_apiKeysVars PROVE ApiKeyInv'
  OBVIOUS
<1>1. ApiKeysTypeOK'
  BY ApiKeyTypes DEF ApiKeyInv
<1>2. ASSUME NEW p \in Proc, NEW k \in ApiKey, NEW s \in Scope,
             NEW goal \in {"idle", "create", "revoke"}, Authenticate(p, k, s, goal)
      PROVE  ApiKeyInv'
  BY <1>1, <1>2, SameStore DEF Authenticate, store, history
<1>3. ASSUME NEW p \in Proc, Refused(p) PROVE ApiKeyInv'
  BY <1>1, <1>3, SameStore DEF Refused, store, history
<1>4. ASSUME NEW p \in Proc, NEW k \in ApiKey, NEW g \in Wanted, create_api_key(p, k, g)
      PROVE  ApiKeyInv'
  BY <1>1, <1>4, CreateStep
<1>5. ASSUME NEW p \in Proc, NEW k \in ApiKey, revoke_api_key(p, k) PROVE ApiKeyInv'
  BY <1>1, <1>5, RevokeStep
<1>6. CASE Touch
  BY <1>1, <1>6, SameStore DEF Touch, Saved, SaveFails, store
<1>7. CASE Restart
  BY <1>1, <1>7, RestartStep
<1>8. CASE UNCHANGED apiKeysVars
  BY <1>1, <1>8, SameStore DEF apiKeysVars, store, history
<1> QED BY <1>2, <1>3, <1>4, <1>5, <1>6, <1>7, <1>8 DEF ApiKeysNext
-----------------------------------------------------------------------------
\* Type correctness of ApiKeyStore, its file and the requests.
THEOREM ApiKeysTypeCorrect == ApiKeysSpec => []ApiKeysTypeOK
<1>1. ApiKeyInv => ApiKeysTypeOK
  BY DEF ApiKeyInv
<1> QED BY <1>1, ApiKeyInitially, ApiKeyStep, PTL DEF ApiKeysSpec

\* revoke_api_key: once "revoked" is answered the API key is never accepted
\* again, across failed saves and restarts, for any number of requests.
THEOREM ApiKeysRevokedRefused == ApiKeysSpec => []RevokedRefused
<1>1. ApiKeyInv => RevokedRefused
  BY DEF ApiKeyInv, RevokedSaved, RevokedRefused, authenticate
<1> QED BY <1>1, ApiKeyInitially, ApiKeyStep, PTL DEF ApiKeysSpec

\* The last-admin check of revoke_api_key: an active admin key remains, in memory
\* and in the file, however revocations with stale contexts overlap.
THEOREM ApiKeysAdminRemains == ApiKeysSpec => []AdminRemains
<1>1. ApiKeyInv => AdminRemains
  BY DEF ApiKeyInv
<1> QED BY <1>1, ApiKeyInitially, ApiKeyStep, PTL DEF ApiKeysSpec

\* create_api_key: once its secret is answered an API key is accepted with its
\* grant until a revocation deactivates it, across failed saves and restarts; and
\* the next process does start, since the file always passes its checks.
THEOREM ApiKeysHandedOutAccepted == ApiKeysSpec => [](HandedOutAccepted /\ FileStarts)
<1>1. ApiKeyInv => HandedOutAccepted
  <2> SUFFICES ASSUME ApiKeyInv, NEW k \in held \ struck
               PROVE  authenticate(k) /\ keys[k] = granted[k]
    BY DEF HandedOutAccepted
  <2>1. k \in ApiKey /\ k \in active /\ keys[k] # NoGrant
    BY DEF ApiKeyInv, HandedOutSaved, ApiKeysTypeOK
  <2> QED BY <2>1 DEF ApiKeyInv, Lineage, Recorded, authenticate, Exists
<1>2. ApiKeyInv => FileStarts
  BY DEF ApiKeyInv, AllWellScoped, FileStarts, StartsWith
<1> QED BY <1>1, <1>2, ApiKeyInitially, ApiKeyStep, PTL DEF ApiKeysSpec

-----------------------------------------------------------------------------
(* StateEnforcer.  OneShot alone is not inductive: a context used once      *)
(* could be used again if its token were still registered.  SpentTokensGone *)
(* adds that it is not.                                                     *)

SpentTokensGone ==
  \A n \in Nonce : uses[n] = 0 \/ (uses[n] = 1 /\ issued_tokens[n] = 0)

EnforcerInv == TypeOK /\ SpentTokensGone

\* What retain leaves of a registry entry: the entry, or nothing.
LEMMA RetainedEntry ==
  ASSUME NEW table \in [Nonce -> Nat]
  PROVE  /\ Retained(table) \in [Nonce -> Nat]
         /\ \A n \in Nonce : Retained(table)[n] = 0 \/ Retained(table)[n] = table[n]
  BY DEF Retained

\* The registry of keys keeps its type under register_key and revoke_key.
LEMMA RegistryStep ==
  ASSUME RegistryTypeOK, NEW k \in Key, NEW d \in Domain \cup {None},
         register_key(k, d) \/ revoke_key(k)
  PROVE  RegistryTypeOK'
  <1>1. CASE register_key(k, d)
    BY <1>1 DEF register_key, RegistryTypeOK
  <1>2. CASE revoke_key(k)
    BY <1>2 DEF revoke_key, RegistryTypeOK
  <1> QED BY <1>1, <1>2

LEMMA EnforcerInitially == Init => EnforcerInv
  BY EnforcerConstants
  DEF Init, RegistryInit, EnforcerInv, TypeOK, RegistryTypeOK, SpentTokensGone

LEMMA EnforcerStep == EnforcerInv /\ [Next]_enforcerVars => EnforcerInv'
<1> SUFFICES ASSUME EnforcerInv, [Next]_enforcerVars PROVE EnforcerInv'
  OBVIOUS
<1> USE EnforcerConstants DEF EnforcerInv
<1>1. ASSUME NEW k \in Key, NEW d \in Domain \cup {None}, RegisterKey(k, d)
      PROVE  EnforcerInv'
  BY <1>1, RegistryStep DEF RegisterKey, TypeOK, SpentTokensGone, tokenVars
<1>2. ASSUME NEW k \in Key, RevokeKey(k)
      PROVE  EnforcerInv'
  <2>1. RegistryTypeOK'
    BY <1>2, RegistryStep DEF RevokeKey, TypeOK
  <2> QED BY <1>2, <2>1 DEF RevokeKey, TypeOK, SpentTokensGone, tokenVars
<1>3. ASSUME NEW n \in Nonce, NEW op \in OperationType, NEW k \in Key,
             NEW d \in Domain \cup {None}, NEW x \in Param, Authorize(n, op, k, d, x)
      PROVE  EnforcerInv'
  <2> DEFINE t == [issued_tokens EXCEPT ![n] = now]
  <2>1. t \in [Nonce -> Nat]
    BY DEF TypeOK
  <2>2. issued_tokens' = Retained(t)
    BY <1>3 DEF Authorize, authorize, Issue
  <2>3. /\ issued_tokens' \in [Nonce -> Nat]
        /\ \A m \in Nonce : issued_tokens'[m] = 0 \/ issued_tokens'[m] = t[m]
    BY <2>1, <2>2, RetainedEntry
  <2>4. contexts' \in [Nonce -> Context \cup {NoContext}]
    <3> DEFINE c == [operation |-> op, key |-> k, domain |-> d, param |-> x,
                     timestamp |-> now, generation |-> generation]
    <3>1. c \in Context
      BY DEF Context, TypeOK
    <3>2. contexts' = [contexts EXCEPT ![n] = c]
      BY <1>3 DEF Authorize, authorize, Issue
    <3> QED BY <3>1, <3>2 DEF TypeOK
  <2>5. uses' = [uses EXCEPT ![n] = 0] /\ uses' \in [Nonce -> Nat]
    BY <1>3 DEF Authorize, authorize, Issue, TypeOK
  <2>6. TypeOK'
    BY <1>3, <2>3, <2>4, <2>5 DEF Authorize, TypeOK, RegistryTypeOK, registry
  <2>7. SpentTokensGone'
    BY <2>3, <2>5 DEF SpentTokensGone, TypeOK
  <2> QED BY <2>6, <2>7
<1>4. ASSUME NEW n \in Nonce, NEW op \in Boundary, NEW k \in Key,
             NEW x \in Message \cup {None}, Present(n, op, k, x)
      PROVE  EnforcerInv'
  <2>1. contexts' = contexts
    BY <1>4 DEF Present, present_token
  <2>2. /\ issued_tokens' \in [Nonce -> Nat]
        /\ \A m \in Nonce : issued_tokens'[m] = 0 \/ issued_tokens'[m] = issued_tokens[m]
    <3>1. CASE contexts[n].generation = generation
      BY <1>4, <3>1, RetainedEntry DEF Present, present_token, Consume, TypeOK
    <3>2. CASE contexts[n].generation # generation
      BY <1>4, <3>2 DEF Present, present_token, TypeOK
    <3> QED BY <3>1, <3>2
  <2>3. CASE Accepts(n, op, k, x)
    <3>1. issued_tokens[n] # 0 /\ issued_tokens'[n] = 0
      BY <1>4, <2>3, RetainedEntry
      DEF Present, present_token, Consume, Accepts, validate_capability, InRegistry, Live, TypeOK
    <3>2. uses' = [uses EXCEPT ![n] = @ + 1]
      BY <1>4, <2>3 DEF Present, present_token
    <3>3. uses[n] = 0
      BY <3>1 DEF SpentTokensGone
    <3>4. SpentTokensGone' /\ uses' \in [Nonce -> Nat]
      BY <2>2, <3>1, <3>2, <3>3 DEF SpentTokensGone, TypeOK
    <3> QED BY <1>4, <2>1, <2>2, <3>4
        DEF Present, TypeOK, RegistryTypeOK, registry
  <2>4. CASE ~Accepts(n, op, k, x)
    <3>1. uses' = uses
      BY <1>4, <2>4 DEF Present, present_token
    <3> QED BY <1>4, <2>1, <2>2, <3>1
        DEF Present, TypeOK, SpentTokensGone, RegistryTypeOK, registry
  <2> QED BY <2>3, <2>4
<1>5. ASSUME NEW n \in Nonce, Drop(n)
      PROVE  EnforcerInv'
  BY <1>5 DEF Drop, drop, TypeOK, SpentTokensGone, RegistryTypeOK, registry
<1>6. CASE NewInstance
  BY <1>6 DEF NewInstance, RegistryInit, TypeOK, RegistryTypeOK, SpentTokensGone
<1>7. CASE Tick
  BY <1>7 DEF Tick, TypeOK, RegistryTypeOK, SpentTokensGone, registry, tokenVars
<1>8. CASE UNCHANGED enforcerVars
  BY <1>8 DEF enforcerVars, registry, tokenVars, TypeOK, RegistryTypeOK, SpentTokensGone
<1> QED
  BY <1>1, <1>2, <1>3, <1>4, <1>5, <1>6, <1>7, <1>8 DEF Next

\* Every reachable state of the enforcer is well typed.
THEOREM EnforcerTypeCorrect == Spec => []TypeOK
<1>1. EnforcerInv => TypeOK
  BY DEF EnforcerInv
<1> QED BY EnforcerInitially, EnforcerStep, <1>1, PTL DEF Spec

\* Capability tokens are one-shot (validate_capability removes what it accepts):
\* at most one operation is performed under a context, for ever.
THEOREM EnforcerOneShot == Spec => []OneShot
<1>1. EnforcerInv => OneShot
  BY DEF EnforcerInv, SpentTokensGone, OneShot, TypeOK
<1> QED BY EnforcerInitially, EnforcerStep, <1>1, PTL DEF Spec
=============================================================================
