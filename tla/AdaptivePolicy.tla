--------------------------- MODULE AdaptivePolicy ---------------------------
(***************************************************************************)
(* One key under a policy that the threat level compresses: the adapter    *)
(* (citadel-keystore/src/threat.rs), the evaluator (policy.rs), and the     *)
(* keystore operations they gate (keystore.rs).  The level moves freely;    *)
(* ThreatAssessor says how.  Durations and ages are counted in one unit of  *)
(* time; an age is held instead of a timestamp.                             *)
(***************************************************************************)
EXTENDS Integers, Sequences, FiniteSetsExt

CONSTANTS
  Policies,          \* registered policies
  None,
  FloorAge, FloorGrace, FloorLifetime, FloorUsage,   \* the FLOOR_ constants
  MaxAge,            \* bound: ages above it are not told apart
  MaxUsage           \* bound: encryptions

Trigger == [kind : {"Age", "UsageCount"}, limit : Nat]
Policy ==
  [rotation_triggers : Seq(Trigger), rotation_grace_period : Nat,
   max_lifetime : Nat \cup {None}, max_usage_count : Nat \cup {None},
   auto_rotate : BOOLEAN, enforce_cryptoperiod : BOOLEAN]

ASSUME PolicyConstants ==
  /\ None \notin Nat
  /\ Policies \subseteq Policy
  /\ FloorAge \in Nat /\ FloorGrace \in Nat /\ FloorLifetime \in Nat /\ FloorUsage \in Nat
  /\ FloorAge <= FloorLifetime
  /\ MaxAge \in Nat /\ MaxUsage \in Nat

Level == 1 .. 5
Elevated == 3

VARIABLES
  policy,       \* the key's base policy
  level,        \* the threat level the next reader sees
  key,          \* the record: its state, time since activated_at, usage_count
  accepted      \* history: the operation the last step accepted

policyVars == <<policy, level, key, accepted>>

PolicyInit ==
  /\ policy \in Policies
  /\ level = 1
  /\ key = [state |-> "Active", age |-> 0, usage |-> 0]
  /\ accepted = None

-----------------------------------------------------------------------------
(* The adapter                                                              *)

Percent(n, p) == (n * p) \div 100

scaling_factor(lv) ==
  [age      |-> <<100, 75, 50, 30, 20>>[lv],
   grace    |-> <<100, 80, 50, 30, 10>>[lv],
   lifetime |-> <<100, 80, 60, 40, 25>>[lv],
   usage    |-> <<100, 80, 60, 40, 25>>[lv]]

\* Compressed, not below the floor, and never looser than the base.
Scaled(n, p, floor) ==
  LET atLeast == IF Percent(n, p) < floor THEN floor ELSE Percent(n, p)
  IN  IF atLeast < n THEN atLeast ELSE n

\* Only ages scale.
AdaptedTrigger(t, p) ==
  IF t.kind = "Age" THEN [kind |-> "Age", limit |-> Scaled(t.limit, p, FloorAge)] ELSE t

\* Mutant: lifetimes are compressed with the grace period's factors.
AdaptedTooShort(base, lv) ==
  LET factor == scaling_factor(lv)
  IN  [base EXCEPT
        !.rotation_triggers = [i \in DOMAIN @ |-> AdaptedTrigger(@[i], factor.age)],
        !.max_lifetime = IF @ = None THEN None ELSE Scaled(@, factor.grace, 0)]
adapt(base, lv) ==
  LET factor == scaling_factor(lv)
  IN  [base EXCEPT
        !.rotation_triggers = [i \in DOMAIN @ |-> AdaptedTrigger(@[i], factor.age)],
        !.rotation_grace_period = Scaled(@, factor.grace, FloorGrace),
        !.max_lifetime = IF @ = None THEN None ELSE Scaled(@, factor.lifetime, FloorLifetime),
        !.max_usage_count = IF @ = None THEN None ELSE Scaled(@, factor.usage, FloorUsage),
        !.auto_rotate = @ \/ lv >= Elevated]

effective_policy_for(lv) == adapt(policy, lv)

-----------------------------------------------------------------------------
(* The evaluator                                                            *)

LifetimeOver(p, age) == p.max_lifetime # None /\ age >= p.max_lifetime

UsageVerdict(p, usage) ==
  CASE p.max_usage_count = None -> "Compliant"
    [] p.max_usage_count # None /\ usage >= p.max_usage_count -> "UsageLimitExceeded"
    [] OTHER -> IF usage >= Percent(p.max_usage_count, 90) THEN "Warning" ELSE "Compliant"

\* The first Age trigger that is at least near decides; other kinds are skipped.
AgeVerdict(p, age) ==
  LET near == {i \in DOMAIN p.rotation_triggers :
                 /\ p.rotation_triggers[i].kind = "Age"
                 /\ age >= Percent(p.rotation_triggers[i].limit, 90)}
  IN  IF near = {} THEN "Compliant"
      ELSE IF age >= p.rotation_triggers[Min(near)].limit THEN "RotationNeeded"
      ELSE "Warning"

\* Mutant: the usage limit is looked at before the lifetime.
LifetimeAfterUsage(p, state, age, usage) ==
  IF state # "Active" THEN "Compliant"
  ELSE IF UsageVerdict(p, usage) # "Compliant" THEN UsageVerdict(p, usage)
  ELSE IF p.enforce_cryptoperiod /\ LifetimeOver(p, age) THEN "Expired"
  ELSE AgeVerdict(p, age)
\* Mutant: the usage warning is reported as compliance, ahead of the ages.
WarningDropped(p, state, age, usage) ==
  IF state # "Active" THEN "Compliant"
  ELSE IF p.enforce_cryptoperiod /\ LifetimeOver(p, age) THEN "Expired"
  ELSE IF UsageVerdict(p, usage) = "Warning" THEN "Compliant"
  ELSE IF UsageVerdict(p, usage) # "Compliant" THEN UsageVerdict(p, usage)
  ELSE AgeVerdict(p, age)
evaluate(p, state, age, usage) ==
  IF state # "Active" THEN "Compliant"
  ELSE IF p.enforce_cryptoperiod /\ LifetimeOver(p, age) THEN "Expired"
  ELSE IF UsageVerdict(p, usage) # "Compliant" THEN UsageVerdict(p, usage)
  ELSE AgeVerdict(p, age)

VerdictAt(lv, age, usage) == evaluate(effective_policy_for(lv), key.state, age, usage)
Open(verdict) == verdict \in {"Compliant", "Warning"}

-----------------------------------------------------------------------------
(* Operations                                                               *)

encrypt ==
  /\ key.state = "Active"
  /\ Open(VerdictAt(level, key.age, key.usage))
  /\ key.usage < MaxUsage
  /\ key' = [key EXCEPT !.usage = @ + 1]
  /\ accepted' = "encrypt"
  /\ UNCHANGED <<policy, level>>

\* Of a blob of any version: the grace period of an old one is not looked at.
decrypt ==
  /\ key.state = "Active"
  /\ VerdictAt(level, key.age, key.usage) # "Expired"
  /\ accepted' = "decrypt"
  /\ UNCHANGED <<policy, level, key>>

\* The new version starts a new age; the usage count goes on.
rotate ==
  /\ key.state = "Active"
  /\ key' = [key EXCEPT !.age = 0]
  /\ accepted' = None
  /\ UNCHANGED <<policy, level>>

\* Mutant: only policies that enforce cryptoperiods expire.
DueIfEnforced(p) == p.enforce_cryptoperiod /\ LifetimeOver(p, key.age)
check_expiration(p) == LifetimeOver(p, key.age)

\* The sweep, every minute: expires an Active key past its effective lifetime,
\* whether or not the policy enforces cryptoperiods.
expire_due_keys ==
  /\ key.state = "Active"
  /\ check_expiration(effective_policy_for(level))
  /\ key' = [key EXCEPT !.state = "Expired"]
  /\ accepted' = None
  /\ UNCHANGED <<policy, level>>

LevelChanges ==
  /\ level' \in Level
  /\ accepted' = None
  /\ UNCHANGED <<policy, key>>

Older(age) == IF age < MaxAge THEN age + 1 ELSE age

PolicyTick ==
  /\ key' = [key EXCEPT !.age = Older(@)]
  /\ accepted' = None
  /\ UNCHANGED <<policy, level>>

PolicyNext ==
  \/ encrypt
  \/ decrypt
  \/ rotate
  \/ expire_due_keys
  \/ LevelChanges
  \/ PolicyTick

PolicySpec == PolicyInit /\ [][PolicyNext]_policyVars

\* Time passes, and the server's background task sweeps once a minute.
PolicyFairSpec == PolicySpec /\ WF_policyVars(PolicyTick) /\ WF_policyVars(expire_due_keys)

-----------------------------------------------------------------------------
(* Properties                                                               *)

\* Type correctness.
PolicyTypeOK ==
  /\ policy \in Policies
  /\ level \in Level
  /\ key \in [state : {"Active", "Expired"}, age : 0 .. MaxAge, usage : 0 .. MaxUsage]
  /\ accepted \in {None, "encrypt", "decrypt"}

\* An optional limit m is at least as tight as n.
Within(m, n) == n # None => m # None /\ m <= n
Tighter(p, q) ==
  /\ \A i \in DOMAIN q.rotation_triggers :
       p.rotation_triggers[i].limit <= q.rotation_triggers[i].limit
  /\ p.rotation_grace_period <= q.rotation_grace_period
  /\ Within(p.max_lifetime, q.max_lifetime)
  /\ Within(p.max_usage_count, q.max_usage_count)
  /\ q.auto_rotate => p.auto_rotate

\* A higher level loosens no limit of a lower one, nor of the base policy,
\* whatever the floors.
EscalationTightens ==
  \A high, low \in Level : high >= low =>
    /\ Tighter(adapt(policy, high), adapt(policy, low))
    /\ Tighter(adapt(policy, low), policy)

\* "Adaptive system tightens all three under elevated threat": what complies at
\* a level complies at every lower one, and what has expired at a level has
\* expired at every higher one.  Of warnings this is not true: a usage warning
\* of the higher level can hide that rotation is due.
EscalationNeverEases ==
  \A high, low \in Level : high >= low =>
    /\ VerdictAt(high, key.age, key.usage) = "Compliant"
         => VerdictAt(low, key.age, key.usage) = "Compliant"
    /\ VerdictAt(low, key.age, key.usage) = "Expired"
         => VerdictAt(high, key.age, key.usage) = "Expired"

\* However the level moves between operations, a key encrypts no more than its
\* base policy's limit allows.
UsageBounded ==
  policy.max_usage_count # None => key.usage <= policy.max_usage_count

\* With cryptoperiods enforced no operation is accepted once the base lifetime
\* is over, even between two sweeps and at any level.
CryptoperiodStops ==
  accepted # None /\ policy.enforce_cryptoperiod => ~LifetimeOver(policy, key.age)

\* A base policy that asks for rotation before the end of the lifetime.
RotatesInTime(p) ==
  \E i \in DOMAIN p.rotation_triggers :
    p.rotation_triggers[i].kind = "Age"
    /\ (p.max_lifetime # None => p.rotation_triggers[i].limit <= p.max_lifetime)
RotationDue(p, age) ==
  \E i \in DOMAIN p.rotation_triggers :
    p.rotation_triggers[i].kind = "Age" /\ age >= p.rotation_triggers[i].limit

\* Compression keeps that order: at no level does the sweep expire a key, which
\* cannot be undone, before its rotation was due at that level.
RotationDueFirst ==
  [][key.state = "Active" /\ key'.state = "Expired" /\ RotatesInTime(policy) =>
       RotationDue(effective_policy_for(level), key.age)]_policyVars

\* "Keys exceeding max lifetime are automatically expired": a key past its base
\* lifetime is expired or rotated in the end, enforced or not.
DueKeysExpire ==
  (key.state = "Active" /\ LifetimeOver(policy, key.age)) ~>
    (key.state = "Expired" \/ ~LifetimeOver(policy, key.age))
=============================================================================
