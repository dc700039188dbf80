---------------------------- MODULE RateLimiter ----------------------------
(***************************************************************************)
(* The three-tier rate limiter of the HTTP server (citadel-api/src/main.rs)*)
(* and the two middlewares that consult it.  A check reads the clock once  *)
(* and then takes, one after another, the locks of the buckets it charges; *)
(* a request is checked by rate_limit_middleware and, once its API key is  *)
(* known, again by auth_middleware.  Time is counted in ticks in which a   *)
(* bucket gains a whole number of tokens.                                  *)
(***************************************************************************)
EXTENDS Naturals, FiniteSets

CONSTANTS
  Request,       \* requests in progress
  IP,            \* client addresses
  ClientKey,     \* API keys
  Global,        \* the one global bucket
  Rate,          \* rps_per_ip, in tokens per tick
  Burst,         \* burst
  KeyFactor,     \* an API key's rate and burst against an address's (5)
  GlobalFactor,  \* the global burst against an address's (10)
  GlobalRateFactor, \* the global rate against an address's (50)
  IdleAge,       \* ticks after which an idle bucket is dropped (300 s)
  MaxClock,      \* bound: ticks
  MaxRequests    \* bound: requests received from one address

\* An idle bucket is full before it is dropped (20 rps and 300 s against 50).
ASSUME RateLimiterConstants ==
  /\ IP \cap ClientKey = {} /\ Global \notin IP \cup ClientKey
  /\ Rate \in Nat \ {0} /\ Burst \in Nat \ {0} /\ IdleAge \in Nat
  /\ Rate * IdleAge >= Burst
  /\ {KeyFactor, GlobalFactor, GlobalRateFactor} \subseteq Nat \ {0}
  /\ MaxClock \in Nat /\ MaxRequests \in Nat

Bucket == IP \cup ClientKey \cup {Global}

Cap(b) ==
  IF b \in IP THEN Burst ELSE IF b \in ClientKey THEN KeyFactor * Burst ELSE GlobalFactor * Burst
RateOf(b) ==
  IF b \in IP THEN Rate ELSE IF b \in ClientKey THEN KeyFactor * Rate ELSE GlobalRateFactor * Rate

VARIABLES
  clock,        \* Instant::now()
  present,      \* the buckets that exist
  tokens,       \* TokenBucket.tokens
  last_refill,  \* TokenBucket.last_refill
  step,         \* per request: the step it takes next
  stage,        \* per request: the middleware it is in
  ip, key,      \* per request: address and API key
  checked_at,   \* per request: the clock as its check read it
  sweep,        \* cleanup_rate_limiter: "idle", or the map it takes next
  sweep_now,    \* the clock as cleanup_rate_limiter read it
  charged,      \* history: tokens taken from each bucket
  received,     \* history: requests received from each address
  seen,         \* history: the latest clock each bucket was refilled or dropped at
  overtaken,    \* history: some bucket was handled with a clock older than that
  threats       \* history: RapidAccessPattern events recorded

bucketVars == <<present, tokens, last_refill, charged, seen, overtaken>>
requestVars == <<step, stage, ip, key, checked_at>>
sweepVars == <<sweep, sweep_now>>
rateVars == <<clock, bucketVars, requestVars, sweepVars, received, threats>>

Resting == {"idle", "served", "limited by address", "limited by key", "limited globally"}
Waiting == {"address", "key", "global"}

RateInit ==
  /\ clock = 0
  /\ present = {Global}
  /\ tokens = [b \in Bucket |-> Cap(b)]
  /\ last_refill = [b \in Bucket |-> 0]
  /\ step = [p \in Request |-> "idle"]
  /\ stage = [p \in Request |-> "rate_limit"]
  /\ ip \in [Request -> IP]
  /\ key \in [Request -> ClientKey]
  /\ checked_at = [p \in Request |-> 0]
  /\ sweep = "idle"
  /\ sweep_now = 0
  /\ charged = [b \in Bucket |-> 0]
  /\ received = [i \in IP |-> 0]
  /\ seen = [b \in Bucket |-> 0]
  /\ overtaken = FALSE
  /\ threats = 0

-----------------------------------------------------------------------------
(* Buckets                                                                  *)

\* duration_since saturates at zero.
duration_since(t, then) == IF t > then THEN t - then ELSE 0

AtMost(n, limit) == IF n < limit THEN n ELSE limit

\* Mutant: the elapsed time is not counted from the last refill.
RefilledSinceStart(b, t) ==
  IF b \in present THEN AtMost(tokens[b] + t * RateOf(b), Cap(b)) ELSE Cap(b)
\* What bucket b holds once refilled; entry().or_insert makes a full one.
Refilled(b, t) ==
  IF b \in present
  THEN AtMost(tokens[b] + duration_since(t, last_refill[b]) * RateOf(b), Cap(b))
  ELSE Cap(b)

\* What handling bucket b at clock t leaves behind.
Handled(b, t) ==
  /\ seen' = [seen EXCEPT ![b] = IF t > @ THEN t ELSE @]
  /\ overtaken' = (overtaken \/ t < seen[b])

Refill(b, t) ==
  /\ present' = present \cup {b}
  /\ last_refill' = [last_refill EXCEPT ![b] = t]
  /\ Handled(b, t)

\* Bucket b pays for request p, which goes on to step next.
Pay(p, b, next) ==
  /\ Refilled(b, checked_at[p]) >= 1
  /\ Refill(b, checked_at[p])
  /\ tokens' = [tokens EXCEPT ![b] = Refilled(b, checked_at[p]) - 1]
  /\ charged' = [charged EXCEPT ![b] = @ + 1]
  /\ step' = [step EXCEPT ![p] = next]
  /\ UNCHANGED <<clock, stage, ip, key, checked_at, sweepVars, received, threats>>

\* Bucket b cannot: the request is answered 429, and what other buckets paid is
\* lost.  rate_limit_middleware also records a threat event.
Limit(p, b, answer) ==
  /\ Refilled(b, checked_at[p]) < 1
  /\ Refill(b, checked_at[p])
  /\ tokens' = [tokens EXCEPT ![b] = Refilled(b, checked_at[p])]
  /\ step' = [step EXCEPT ![p] = answer]
  /\ threats' = IF stage[p] = "rate_limit" THEN threats + 1 ELSE threats
  /\ UNCHANGED <<clock, stage, ip, key, checked_at, sweepVars, charged, received>>

-----------------------------------------------------------------------------
(* The two middlewares                                                      *)

\* rate_limit_middleware calls check(ip, None).
Receive(p, i) ==
  /\ step[p] \in Resting
  /\ received[i] < MaxRequests
  /\ received' = [received EXCEPT ![i] = @ + 1]
  /\ step' = [step EXCEPT ![p] = "address"]
  /\ stage' = [stage EXCEPT ![p] = "rate_limit"]
  /\ ip' = [ip EXCEPT ![p] = i]
  /\ checked_at' = [checked_at EXCEPT ![p] = clock]
  /\ UNCHANGED <<clock, bucketVars, key, sweepVars, threats>>

CheckAddress(p) ==
  /\ step[p] = "address"
  /\ \/ Pay(p, ip[p], IF stage[p] = "auth" THEN "key" ELSE "global")
     \/ Limit(p, ip[p], "limited by address")

CheckKey(p) ==
  /\ step[p] = "key"
  /\ Pay(p, key[p], "global") \/ Limit(p, key[p], "limited by key")

CheckGlobal(p) ==
  /\ step[p] = "global"
  /\ \/ Pay(p, Global, IF stage[p] = "auth" THEN "served" ELSE "auth")
     \/ Limit(p, Global, "limited globally")

\* auth_middleware knows the API key and calls check(ip, Some(key)).
Authenticated(p, k) ==
  /\ step[p] = "auth"
  /\ step' = [step EXCEPT ![p] = "address"]
  /\ stage' = [stage EXCEPT ![p] = "auth"]
  /\ key' = [key EXCEPT ![p] = k]
  /\ checked_at' = [checked_at EXCEPT ![p] = clock]
  /\ UNCHANGED <<clock, bucketVars, ip, sweepVars, received, threats>>

\* Public paths and failed authentication are not checked again; and a client
\* may go away while its request waits for a lock.
Leave(p) ==
  /\ step[p] \in Waiting \cup {"auth"}
  /\ step' = [step EXCEPT ![p] = "idle"]
  /\ UNCHANGED <<clock, bucketVars, stage, ip, key, checked_at, sweepVars, received, threats>>

-----------------------------------------------------------------------------
(* cleanup_rate_limiter, every 60 seconds                                   *)

SweepStarts ==
  /\ sweep = "idle"
  /\ sweep' = "address"
  /\ sweep_now' = clock
  /\ UNCHANGED <<clock, bucketVars, requestVars, received, threats>>

Idle(b) == duration_since(sweep_now, last_refill[b]) >= IdleAge

\* The retain of one map.
DropIdle(map, next) ==
  LET dropped == {b \in map \cap present : Idle(b)} IN
  /\ present' = present \ dropped
  /\ seen' = [b \in Bucket |-> IF b \in dropped /\ sweep_now > seen[b] THEN sweep_now ELSE seen[b]]
  /\ sweep' = next
  /\ UNCHANGED <<clock, tokens, last_refill, charged, overtaken, requestVars, sweep_now,
                 received, threats>>

SweepAddresses == sweep = "address" /\ DropIdle(IP, "key")
SweepKeys == sweep = "key" /\ DropIdle(ClientKey, "idle")

-----------------------------------------------------------------------------

RateTick ==
  /\ clock < MaxClock
  /\ clock' = clock + 1
  /\ UNCHANGED <<bucketVars, requestVars, sweepVars, received, threats>>

RateNext ==
  \/ \E p \in Request, i \in IP : Receive(p, i)
  \/ \E p \in Request : CheckAddress(p)
  \/ \E p \in Request : CheckKey(p)
  \/ \E p \in Request : CheckGlobal(p)
  \/ \E p \in Request, k \in ClientKey : Authenticated(p, k)
  \/ \E p \in Request : Leave(p)
  \/ SweepStarts
  \/ SweepAddresses
  \/ SweepKeys
  \/ RateTick

RateSpec == RateInit /\ [][RateNext]_rateVars

-----------------------------------------------------------------------------
(* Properties                                                               *)

\* Type correctness; in particular no bucket holds more than its burst.
RateTypeOK ==
  /\ clock \in 0 .. MaxClock
  /\ present \subseteq Bucket
  /\ tokens \in [Bucket -> Nat] /\ \A b \in Bucket : tokens[b] <= Cap(b)
  /\ last_refill \in [Bucket -> 0 .. clock]
  /\ step \in [Request -> Resting \cup Waiting \cup {"auth"}]
  /\ stage \in [Request -> {"rate_limit", "auth"}]
  /\ ip \in [Request -> IP]
  /\ key \in [Request -> ClientKey]
  /\ checked_at \in [Request -> 0 .. clock]
  /\ sweep \in {"idle", "address", "key"}
  /\ sweep_now \in 0 .. clock
  /\ charged \in [Bucket -> Nat]
  /\ received \in [IP -> 0 .. MaxRequests]
  /\ seen \in [Bucket -> 0 .. clock]
  /\ overtaken \in BOOLEAN
  /\ threats \in Nat

\* Requests and sweeps reach the locks in the order in which they read the
\* clock: no bucket, dropped and made again or not, ever pays more than its
\* burst and its rate over the time since the server started.
WithinRate == \A b \in Bucket : charged[b] <= Cap(b) + RateOf(b) * clock
SteadyRate == ~overtaken => WithinRate
=============================================================================
