---------------------------- MODULE WatchProofs -----------------------------
(***************************************************************************)
(* Proofs about what watches the keystore: the adaptive policy engine, for *)
(* every set of policies and all floors; the audit log, for any number of  *)
(* recording threads, restarts and failed writes; and the threat assessor, *)
(* for any severities, thresholds and decay.                               *)
(***************************************************************************)
EXTENDS ThreatAssessor, AdaptivePolicy, AuditChain, SequenceTheorems, FiniteSetTheorems,
        WellFoundedInduction, TLAPS


-----------------------------------------------------------------------------
(* Scaling                                                                  *)

\* A percentage of a number, as a bound without division.
LEMMA PercentBounds ==
  ASSUME NEW n \in Nat, NEW p \in 0 .. 100
  PROVE  /\ Percent(n, p) \in Nat
         /\ 100 * Percent(n, p) <= n * p
         /\ n * p < 100 * Percent(n, p) + 100
<1>1. n * p \in Nat
  BY SMT
<1> QED BY <1>1, SMT DEF Percent

\* A percentage grows with the number and with the percentage.
LEMMA PercentMonotone ==
  ASSUME NEW m \in Nat, NEW n \in Nat, m <= n,
         NEW p \in 0 .. 100, NEW q \in 0 .. 100, p <= q
  PROVE  Percent(m, p) <= Percent(n, q)
<1>1. m * p <= n * q
  <2>1. m * p <= n * p
    BY SMT
  <2>2. n * p <= n * q
    BY SMT
  <2>3. m * p \in Nat /\ n * p \in Nat /\ n * q \in Nat
    BY SMT
  <2> QED BY <2>1, <2>2, <2>3
<1>2. m * p \in Nat /\ n * q \in Nat
  BY SMT
<1>3. Percent(m, p) \in Nat /\ 100 * Percent(m, p) <= m * p
  BY PercentBounds
<1>4. Percent(n, q) \in Nat /\ n * q < 100 * Percent(n, q) + 100
  BY PercentBounds
<1>5. \A x, y \in Nat, a, b \in Nat : a <= b /\ 100 * x <= a /\ b < 100 * y + 100 => x <= y
  BY SMT
<1> QED BY <1>1, <1>2, <1>3, <1>4, <1>5

\* Scaling yields a number no larger than the base.
LEMMA ScaledBound ==
  ASSUME NEW n \in Nat, NEW p \in 0 .. 100, NEW floor \in Nat
  PROVE  Scaled(n, p, floor) \in Nat /\ Scaled(n, p, floor) <= n
<1>1. Percent(n, p) \in Nat
  BY PercentBounds
<1> QED BY <1>1 DEF Scaled

\* Scaling grows with the number, the percentage and the floor.
LEMMA ScaledMonotone ==
  ASSUME NEW m \in Nat, NEW n \in Nat, m <= n,
         NEW p \in 0 .. 100, NEW q \in 0 .. 100, p <= q,
         NEW f \in Nat, NEW g \in Nat, f <= g
  PROVE  Scaled(m, p, f) <= Scaled(n, q, g)
<1>1. Percent(m, p) \in Nat /\ Percent(n, q) \in Nat /\ Percent(m, p) <= Percent(n, q)
  BY PercentBounds, PercentMonotone
<1> QED BY <1>1 DEF Scaled

\* The factors of a level are percentages; a higher level's are smaller, and
\* ages are compressed at least as much as lifetimes.
LEMMA Factors ==
  /\ \A lv \in Level :
       /\ scaling_factor(lv).age \in 0 .. 100 /\ scaling_factor(lv).grace \in 0 .. 100
       /\ scaling_factor(lv).lifetime \in 0 .. 100 /\ scaling_factor(lv).usage \in 0 .. 100
       /\ scaling_factor(lv).age <= scaling_factor(lv).lifetime
  /\ \A high, low \in Level : high >= low =>
       /\ scaling_factor(high).age <= scaling_factor(low).age
       /\ scaling_factor(high).grace <= scaling_factor(low).grace
       /\ scaling_factor(high).lifetime <= scaling_factor(low).lifetime
       /\ scaling_factor(high).usage <= scaling_factor(low).usage
<1>1. \A lv \in Level : lv = 1 \/ lv = 2 \/ lv = 3 \/ lv = 4 \/ lv = 5
  BY DEF Level
<1>2. /\ scaling_factor(1) = [age |-> 100, grace |-> 100, lifetime |-> 100, usage |-> 100]
      /\ scaling_factor(2) = [age |-> 75, grace |-> 80, lifetime |-> 80, usage |-> 80]
      /\ scaling_factor(3) = [age |-> 50, grace |-> 50, lifetime |-> 60, usage |-> 60]
      /\ scaling_factor(4) = [age |-> 30, grace |-> 30, lifetime |-> 40, usage |-> 40]
      /\ scaling_factor(5) = [age |-> 20, grace |-> 10, lifetime |-> 25, usage |-> 25]
  BY DEF scaling_factor
<1> QED BY <1>1, <1>2

-----------------------------------------------------------------------------
(* The adapted policy                                                       *)

\* The parts of a policy.
LEMMA PolicyParts ==
  ASSUME NEW p \in Policy
  PROVE  /\ p.rotation_triggers \in Seq(Trigger)
         /\ \A i \in DOMAIN p.rotation_triggers : p.rotation_triggers[i].limit \in Nat
         /\ p.rotation_grace_period \in Nat
         /\ p.max_lifetime # None => p.max_lifetime \in Nat
         /\ p.max_usage_count # None => p.max_usage_count \in Nat
<1>1. \A i \in DOMAIN p.rotation_triggers : p.rotation_triggers[i] \in Trigger
  BY DEF Policy
<1> QED BY <1>1 DEF Policy, Trigger

\* What adaptation does to each of them.
LEMMA AdaptParts ==
  ASSUME NEW p \in Policy, NEW lv \in Level
  PROVE  LET a == adapt(p, lv)
             factor == scaling_factor(lv)
         IN  /\ DOMAIN a.rotation_triggers = DOMAIN p.rotation_triggers
             /\ \A i \in DOMAIN p.rotation_triggers :
                  /\ a.rotation_triggers[i].kind = p.rotation_triggers[i].kind
                  /\ a.rotation_triggers[i].limit =
                       IF p.rotation_triggers[i].kind = "Age"
                       THEN Scaled(p.rotation_triggers[i].limit, factor.age, FloorAge)
                       ELSE p.rotation_triggers[i].limit
             /\ a.rotation_grace_period = Scaled(p.rotation_grace_period, factor.grace, FloorGrace)
             /\ a.max_lifetime = IF p.max_lifetime = None THEN None
                                 ELSE Scaled(p.max_lifetime, factor.lifetime, FloorLifetime)
             /\ a.max_usage_count = IF p.max_usage_count = None THEN None
                                    ELSE Scaled(p.max_usage_count, factor.usage, FloorUsage)
             /\ a.auto_rotate = (p.auto_rotate \/ lv >= Elevated)
             /\ a.enforce_cryptoperiod = p.enforce_cryptoperiod
<1>1. \A i \in DOMAIN p.rotation_triggers : p.rotation_triggers[i] \in Trigger
  BY DEF Policy
<1>2. adapt(p, lv).rotation_triggers =
        [i \in DOMAIN p.rotation_triggers |->
          AdaptedTrigger(p.rotation_triggers[i], scaling_factor(lv).age)]
  BY DEF adapt, Policy
<1>3. \A i \in DOMAIN p.rotation_triggers :
        /\ adapt(p, lv).rotation_triggers[i].kind = p.rotation_triggers[i].kind
        /\ adapt(p, lv).rotation_triggers[i].limit =
             IF p.rotation_triggers[i].kind = "Age"
             THEN Scaled(p.rotation_triggers[i].limit, scaling_factor(lv).age, FloorAge)
             ELSE p.rotation_triggers[i].limit
  BY <1>1, <1>2 DEF Trigger, AdaptedTrigger
<1>4. DOMAIN adapt(p, lv).rotation_triggers = DOMAIN p.rotation_triggers
  BY <1>2
<1>5. /\ adapt(p, lv).rotation_grace_period =
           Scaled(p.rotation_grace_period, scaling_factor(lv).grace, FloorGrace)
      /\ adapt(p, lv).max_lifetime = IF p.max_lifetime = None THEN None
           ELSE Scaled(p.max_lifetime, scaling_factor(lv).lifetime, FloorLifetime)
      /\ adapt(p, lv).max_usage_count = IF p.max_usage_count = None THEN None
           ELSE Scaled(p.max_usage_count, scaling_factor(lv).usage, FloorUsage)
      /\ adapt(p, lv).auto_rotate = (p.auto_rotate \/ lv >= Elevated)
      /\ adapt(p, lv).enforce_cryptoperiod = p.enforce_cryptoperiod
  BY DEF adapt, Policy
<1> QED BY <1>3, <1>4, <1>5

\* A higher level's adapted policy is tighter than a lower one's, and every
\* adapted policy than its base.
LEMMA AdaptTightens ==
  ASSUME NEW p \in Policy, NEW high \in Level, NEW low \in Level, high >= low
  PROVE  /\ Tighter(adapt(p, high), adapt(p, low))
         /\ Tighter(adapt(p, low), p)
<1> DEFINE f == scaling_factor(high)
           g == scaling_factor(low)
<1>f. /\ FloorAge \in Nat /\ FloorGrace \in Nat /\ FloorLifetime \in Nat /\ FloorUsage \in Nat
      /\ None \notin Nat
  BY PolicyConstants
<1>g. /\ f.age \in 0 .. 100 /\ f.grace \in 0 .. 100 /\ f.lifetime \in 0 .. 100 /\ f.usage \in 0 .. 100
      /\ g.age \in 0 .. 100 /\ g.grace \in 0 .. 100 /\ g.lifetime \in 0 .. 100 /\ g.usage \in 0 .. 100
      /\ f.age <= g.age /\ f.grace <= g.grace /\ f.lifetime <= g.lifetime /\ f.usage <= g.usage
  BY Factors
<1> HIDE DEF f, g
<1>1. ASSUME NEW n \in Nat, NEW floor \in Nat, NEW a \in 0 .. 100, NEW b \in 0 .. 100, a <= b
      PROVE  /\ Scaled(n, a, floor) <= Scaled(n, b, floor)
             /\ Scaled(n, b, floor) <= n
             /\ Scaled(n, a, floor) # None /\ Scaled(n, b, floor) # None
  <2>1. Scaled(n, a, floor) \in Nat /\ Scaled(n, b, floor) \in Nat /\ Scaled(n, b, floor) <= n
    BY ScaledBound
  <2>2. Scaled(n, a, floor) <= Scaled(n, b, floor)
    <3>1. n <= n /\ floor <= floor
      OBVIOUS
    <3> QED BY <1>1, <3>1, ScaledMonotone
  <2> QED BY <2>1, <2>2, <1>f
<1>2. ASSUME NEW i \in DOMAIN p.rotation_triggers
      PROVE  /\ adapt(p, high).rotation_triggers[i].limit <= adapt(p, low).rotation_triggers[i].limit
             /\ adapt(p, low).rotation_triggers[i].limit <= p.rotation_triggers[i].limit
  <2>1. p.rotation_triggers[i].limit \in Nat
    BY PolicyParts
  <2>2. CASE p.rotation_triggers[i].kind = "Age"
    <3>1. /\ adapt(p, high).rotation_triggers[i].limit = Scaled(p.rotation_triggers[i].limit, f.age, FloorAge)
          /\ adapt(p, low).rotation_triggers[i].limit = Scaled(p.rotation_triggers[i].limit, g.age, FloorAge)
      BY <2>2, AdaptParts DEF f, g
    <3>2. /\ Scaled(p.rotation_triggers[i].limit, f.age, FloorAge) <= Scaled(p.rotation_triggers[i].limit, g.age, FloorAge)
          /\ Scaled(p.rotation_triggers[i].limit, g.age, FloorAge) <= p.rotation_triggers[i].limit
          /\ Scaled(p.rotation_triggers[i].limit, f.age, FloorAge) # None /\ Scaled(p.rotation_triggers[i].limit, g.age, FloorAge) # None
      BY <2>1, <1>1, <1>f, <1>g
    <3> QED BY <3>1, <3>2
  <2>3. CASE p.rotation_triggers[i].kind # "Age"
    BY <2>1, <2>3, AdaptParts
  <2> QED BY <2>2, <2>3
<1>3. /\ adapt(p, high).rotation_grace_period <= adapt(p, low).rotation_grace_period
      /\ adapt(p, low).rotation_grace_period <= p.rotation_grace_period
  <2>1. p.rotation_grace_period \in Nat
    BY PolicyParts
  <2>2. /\ adapt(p, high).rotation_grace_period = Scaled(p.rotation_grace_period, f.grace, FloorGrace)
        /\ adapt(p, low).rotation_grace_period = Scaled(p.rotation_grace_period, g.grace, FloorGrace)
    BY AdaptParts DEF f, g
  <2>3. /\ Scaled(p.rotation_grace_period, f.grace, FloorGrace) <= Scaled(p.rotation_grace_period, g.grace, FloorGrace)
        /\ Scaled(p.rotation_grace_period, g.grace, FloorGrace) <= p.rotation_grace_period
        /\ Scaled(p.rotation_grace_period, f.grace, FloorGrace) # None /\ Scaled(p.rotation_grace_period, g.grace, FloorGrace) # None
    BY <2>1, <1>1, <1>f, <1>g
  <2> QED BY <2>2, <2>3
<1>4. /\ Within(adapt(p, high).max_lifetime, adapt(p, low).max_lifetime)
      /\ Within(adapt(p, low).max_lifetime, p.max_lifetime)
  <2>1. CASE p.max_lifetime = None
    BY <2>1, AdaptParts DEF Within
  <2>2. CASE p.max_lifetime # None
    <3>1. p.max_lifetime \in Nat
      BY <2>2, PolicyParts
    <3>2. /\ adapt(p, high).max_lifetime = Scaled(p.max_lifetime, f.lifetime, FloorLifetime)
          /\ adapt(p, low).max_lifetime = Scaled(p.max_lifetime, g.lifetime, FloorLifetime)
      BY <2>2, AdaptParts DEF f, g
    <3>3. /\ Scaled(p.max_lifetime, f.lifetime, FloorLifetime) <= Scaled(p.max_lifetime, g.lifetime, FloorLifetime)
          /\ Scaled(p.max_lifetime, g.lifetime, FloorLifetime) <= p.max_lifetime
          /\ Scaled(p.max_lifetime, f.lifetime, FloorLifetime) # None /\ Scaled(p.max_lifetime, g.lifetime, FloorLifetime) # None
      BY <3>1, <1>1, <1>f, <1>g
    <3> QED BY <3>2, <3>3 DEF Within
  <2> QED BY <2>1, <2>2
<1>5. /\ Within(adapt(p, high).max_usage_count, adapt(p, low).max_usage_count)
      /\ Within(adapt(p, low).max_usage_count, p.max_usage_count)
  <2>1. CASE p.max_usage_count = None
    BY <2>1, AdaptParts DEF Within
  <2>2. CASE p.max_usage_count # None
    <3>1. p.max_usage_count \in Nat
      BY <2>2, PolicyParts
    <3>2. /\ adapt(p, high).max_usage_count = Scaled(p.max_usage_count, f.usage, FloorUsage)
          /\ adapt(p, low).max_usage_count = Scaled(p.max_usage_count, g.usage, FloorUsage)
      BY <2>2, AdaptParts DEF f, g
    <3>3. /\ Scaled(p.max_usage_count, f.usage, FloorUsage) <= Scaled(p.max_usage_count, g.usage, FloorUsage)
          /\ Scaled(p.max_usage_count, g.usage, FloorUsage) <= p.max_usage_count
          /\ Scaled(p.max_usage_count, f.usage, FloorUsage) # None /\ Scaled(p.max_usage_count, g.usage, FloorUsage) # None
      BY <3>1, <1>1, <1>f, <1>g
    <3> QED BY <3>2, <3>3 DEF Within
  <2> QED BY <2>1, <2>2
<1>6. /\ adapt(p, low).auto_rotate => adapt(p, high).auto_rotate
      /\ p.auto_rotate => adapt(p, low).auto_rotate
  <2>1. low >= Elevated => high >= Elevated
    BY DEF Level, Elevated
  <2>2. /\ adapt(p, low).auto_rotate = (p.auto_rotate \/ low >= Elevated)
        /\ adapt(p, high).auto_rotate = (p.auto_rotate \/ high >= Elevated)
    BY AdaptParts
  <2> QED BY <2>1, <2>2
<1>7. DOMAIN adapt(p, low).rotation_triggers = DOMAIN p.rotation_triggers
  BY AdaptParts
<1> QED BY <1>2, <1>3, <1>4, <1>5, <1>6, <1>7 DEF Tighter

-----------------------------------------------------------------------------
(* The key under its policy                                                 *)

\* The key's record keeps its type and no operation changes the policy.
THEOREM PolicyTypeCorrect == PolicySpec => []PolicyTypeOK
<1>1. PolicyInit => PolicyTypeOK
  BY PolicyConstants DEF PolicyInit, PolicyTypeOK, Level
<1>2. PolicyTypeOK /\ [PolicyNext]_policyVars => PolicyTypeOK'
  <2> SUFFICES ASSUME PolicyTypeOK, [PolicyNext]_policyVars PROVE PolicyTypeOK'
    OBVIOUS
  <2> USE PolicyConstants DEF PolicyTypeOK
  <2>1. CASE encrypt
    BY <2>1 DEF encrypt
  <2>2. CASE decrypt
    BY <2>2 DEF decrypt
  <2>3. CASE rotate
    BY <2>3 DEF rotate
  <2>4. CASE expire_due_keys
    BY <2>4 DEF expire_due_keys
  <2>5. CASE LevelChanges
    BY <2>5 DEF LevelChanges
  <2>6. CASE PolicyTick
    BY <2>6 DEF PolicyTick, Older
  <2>7. CASE UNCHANGED policyVars
    BY <2>7 DEF policyVars
  <2> QED BY <2>1, <2>2, <2>3, <2>4, <2>5, <2>6, <2>7 DEF PolicyNext
<1> QED BY <1>1, <1>2, PTL DEF PolicySpec

\* The policy of a key, and what a level makes of it, are policies.
LEMMA KeyPolicy ==
  ASSUME PolicyTypeOK PROVE policy \in Policy /\ level \in Level
BY PolicyConstants DEF PolicyTypeOK

\* At every level of every behaviour the effective policy is tighter than the
\* base and than that of every lower level.
THEOREM EscalationAlwaysTightens == PolicySpec => []EscalationTightens
<1>1. PolicyTypeOK => EscalationTightens
  BY KeyPolicy, AdaptTightens DEF EscalationTightens
<1> QED BY <1>1, PolicyTypeCorrect, PTL

\* The limits of an adapted policy are numbers.
LEMMA AdaptedNumbers ==
  ASSUME NEW p \in Policy, NEW lv \in Level
  PROVE  LET a == adapt(p, lv)
         IN  /\ \A i \in DOMAIN a.rotation_triggers : a.rotation_triggers[i].limit \in Nat
             /\ a.max_lifetime # None => a.max_lifetime \in Nat
             /\ a.max_usage_count # None => a.max_usage_count \in Nat
<1>1. /\ scaling_factor(lv).age \in 0 .. 100 /\ scaling_factor(lv).lifetime \in 0 .. 100
      /\ scaling_factor(lv).usage \in 0 .. 100
      /\ FloorAge \in Nat /\ FloorLifetime \in Nat /\ FloorUsage \in Nat
  BY Factors, PolicyConstants
<1>2. ASSUME NEW i \in DOMAIN p.rotation_triggers
      PROVE  adapt(p, lv).rotation_triggers[i].limit \in Nat
  <2>1. p.rotation_triggers[i].limit \in Nat
    BY PolicyParts
  <2>2. Scaled(p.rotation_triggers[i].limit, scaling_factor(lv).age, FloorAge) \in Nat
    BY <1>1, <2>1, ScaledBound
  <2> QED BY <2>1, <2>2, AdaptParts
<1>3. ASSUME p.max_lifetime # None PROVE adapt(p, lv).max_lifetime \in Nat
  <2>1. p.max_lifetime \in Nat
    BY <1>3, PolicyParts
  <2>2. Scaled(p.max_lifetime, scaling_factor(lv).lifetime, FloorLifetime) \in Nat
    BY <1>1, <2>1, ScaledBound
  <2> QED BY <1>3, <2>2, AdaptParts
<1>4. ASSUME p.max_usage_count # None PROVE adapt(p, lv).max_usage_count \in Nat
  <2>1. p.max_usage_count \in Nat
    BY <1>4, PolicyParts
  <2>2. Scaled(p.max_usage_count, scaling_factor(lv).usage, FloorUsage) \in Nat
    BY <1>1, <2>1, ScaledBound
  <2> QED BY <1>4, <2>2, AdaptParts
<1>5. /\ DOMAIN adapt(p, lv).rotation_triggers = DOMAIN p.rotation_triggers
      /\ p.max_lifetime = None => adapt(p, lv).max_lifetime = None
      /\ p.max_usage_count = None => adapt(p, lv).max_usage_count = None
  BY AdaptParts
<1> QED BY <1>2, <1>3, <1>4, <1>5

\* What the parts of the evaluator may say.
LEMMA VerdictParts ==
  ASSUME NEW q, NEW age, NEW usage
  PROVE  /\ UsageVerdict(q, usage) \in {"Compliant", "Warning", "UsageLimitExceeded"}
         /\ AgeVerdict(q, age) \in {"Compliant", "Warning", "RotationNeeded"}
<1>1. UsageVerdict(q, usage) \in {"Compliant", "Warning", "UsageLimitExceeded"}
  <2>1. CASE q.max_usage_count = None
    BY <2>1 DEF UsageVerdict
  <2>2. CASE q.max_usage_count # None
    BY <2>2 DEF UsageVerdict
  <2> QED BY <2>1, <2>2
<1>2. AgeVerdict(q, age) \in {"Compliant", "Warning", "RotationNeeded"}
  BY DEF AgeVerdict
<1> QED BY <1>1, <1>2

\* The evaluator finds compliance where no limit is near, and only there.
LEMMA CompliantMeans ==
  ASSUME NEW q, NEW age, NEW usage
  PROVE  evaluate(q, "Active", age, usage) = "Compliant" <=>
           /\ ~(q.enforce_cryptoperiod /\ LifetimeOver(q, age))
           /\ UsageVerdict(q, usage) = "Compliant"
           /\ \A i \in DOMAIN q.rotation_triggers :
                ~(/\ q.rotation_triggers[i].kind = "Age"
                  /\ age >= Percent(q.rotation_triggers[i].limit, 90))
<1>1. AgeVerdict(q, age) = "Compliant" <=>
        \A i \in DOMAIN q.rotation_triggers :
          ~(/\ q.rotation_triggers[i].kind = "Age"
            /\ age >= Percent(q.rotation_triggers[i].limit, 90))
  BY DEF AgeVerdict
<1> QED BY <1>1 DEF evaluate

\* The evaluator's warning bands grow with the limits.
LEMMA NinetyPercent ==
  \A m, n \in Nat : m <= n =>
    Percent(m, 90) \in Nat /\ Percent(n, 90) \in Nat /\ Percent(m, 90) <= Percent(n, 90)
<1>1. 90 \in 0 .. 100 /\ 90 <= 90
  OBVIOUS
<1> QED BY <1>1, PercentMonotone, PercentBounds

\* A tighter policy finds no compliance where a looser one does not.
LEMMA TighterComplies ==
  ASSUME NEW p \in Policy, NEW high \in Level, NEW low \in Level, high >= low,
         NEW age \in Nat, NEW usage \in Nat,
         evaluate(adapt(p, high), "Active", age, usage) = "Compliant"
  PROVE  evaluate(adapt(p, low), "Active", age, usage) = "Compliant"
<1> DEFINE q == adapt(p, high)
           r == adapt(p, low)
<1>1. Tighter(q, r)
  BY AdaptTightens
<1>2. /\ DOMAIN q.rotation_triggers = DOMAIN r.rotation_triggers
      /\ \A i \in DOMAIN r.rotation_triggers :
           q.rotation_triggers[i].kind = r.rotation_triggers[i].kind
      /\ q.enforce_cryptoperiod = r.enforce_cryptoperiod
  BY AdaptParts
<1>3. /\ \A i \in DOMAIN r.rotation_triggers : q.rotation_triggers[i].limit \in Nat
                                                /\ r.rotation_triggers[i].limit \in Nat
      /\ q.max_lifetime # None => q.max_lifetime \in Nat
      /\ r.max_lifetime # None => r.max_lifetime \in Nat
      /\ q.max_usage_count # None => q.max_usage_count \in Nat
      /\ r.max_usage_count # None => r.max_usage_count \in Nat
  BY <1>2, AdaptedNumbers
<1>4. /\ ~(q.enforce_cryptoperiod /\ LifetimeOver(q, age))
      /\ UsageVerdict(q, usage) = "Compliant"
      /\ \A i \in DOMAIN q.rotation_triggers :
           ~(/\ q.rotation_triggers[i].kind = "Age"
             /\ age >= Percent(q.rotation_triggers[i].limit, 90))
  BY CompliantMeans
<1> HIDE DEF q, r
<1>5. ~(r.enforce_cryptoperiod /\ LifetimeOver(r, age))
  BY <1>1, <1>2, <1>3, <1>4 DEF Tighter, Within, LifetimeOver
<1>6. UsageVerdict(r, usage) = "Compliant"
  <2>1. CASE r.max_usage_count = None
    BY <2>1 DEF UsageVerdict
  <2>2. CASE r.max_usage_count # None
    <3>1. /\ q.max_usage_count # None /\ q.max_usage_count <= r.max_usage_count
          /\ q.max_usage_count \in Nat /\ r.max_usage_count \in Nat
      BY <1>1, <1>3, <2>2 DEF Tighter, Within
    <3>2. ~(usage >= q.max_usage_count) /\ ~(usage >= Percent(q.max_usage_count, 90))
      BY <1>4, <3>1 DEF UsageVerdict
    <3>3. /\ Percent(q.max_usage_count, 90) <= Percent(r.max_usage_count, 90)
          /\ Percent(q.max_usage_count, 90) \in Nat /\ Percent(r.max_usage_count, 90) \in Nat
      BY <3>1, NinetyPercent
    <3>4. ~(usage >= r.max_usage_count) /\ ~(usage >= Percent(r.max_usage_count, 90))
      BY <3>1, <3>2, <3>3
    <3> QED BY <2>2, <3>4 DEF UsageVerdict
  <2> QED BY <2>1, <2>2
<1>7. ASSUME NEW i \in DOMAIN r.rotation_triggers, r.rotation_triggers[i].kind = "Age"
      PROVE  ~(age >= Percent(r.rotation_triggers[i].limit, 90))
  <2>1. /\ q.rotation_triggers[i].limit <= r.rotation_triggers[i].limit
        /\ q.rotation_triggers[i].limit \in Nat /\ r.rotation_triggers[i].limit \in Nat
    BY <1>1, <1>3 DEF Tighter
  <2>2. ~(age >= Percent(q.rotation_triggers[i].limit, 90))
    BY <1>2, <1>4, <1>7
  <2>3. /\ Percent(q.rotation_triggers[i].limit, 90) <= Percent(r.rotation_triggers[i].limit, 90)
        /\ Percent(q.rotation_triggers[i].limit, 90) \in Nat
        /\ Percent(r.rotation_triggers[i].limit, 90) \in Nat
    BY <2>1, NinetyPercent
  <2> QED BY <2>2, <2>3
<1> QED BY <1>5, <1>6, <1>7, CompliantMeans DEF r

\* A tighter policy has expired whatever a looser one has.
LEMMA TighterExpires ==
  ASSUME NEW p \in Policy, NEW high \in Level, NEW low \in Level, high >= low,
         NEW age \in Nat, NEW usage \in Nat, NEW state,
         evaluate(adapt(p, low), state, age, usage) = "Expired"
  PROVE  evaluate(adapt(p, high), state, age, usage) = "Expired"
<1> DEFINE q == adapt(p, high)
           r == adapt(p, low)
<1>1. state = "Active" /\ r.enforce_cryptoperiod /\ LifetimeOver(r, age)
  BY VerdictParts DEF evaluate
<1>2. Tighter(q, r) /\ q.enforce_cryptoperiod = r.enforce_cryptoperiod
  BY AdaptTightens, AdaptParts
<1>3. /\ q.max_lifetime # None => q.max_lifetime \in Nat
      /\ r.max_lifetime # None => r.max_lifetime \in Nat
  BY AdaptedNumbers
<1> HIDE DEF q, r
<1>4. LifetimeOver(q, age)
  BY <1>1, <1>2, <1>3 DEF Tighter, Within, LifetimeOver
<1> QED BY <1>1, <1>2, <1>4 DEF evaluate, q

\* At every moment of every behaviour: compliance at a level is compliance at
\* every lower one, expiry at a level is expiry at every higher one.
THEOREM EscalationAlwaysHolds == PolicySpec => []EscalationNeverEases
<1>1. PolicyTypeOK => EscalationNeverEases
  <2> SUFFICES ASSUME PolicyTypeOK, NEW high \in Level, NEW low \in Level, high >= low
               PROVE  /\ VerdictAt(high, key.age, key.usage) = "Compliant"
                           => VerdictAt(low, key.age, key.usage) = "Compliant"
                      /\ VerdictAt(low, key.age, key.usage) = "Expired"
                           => VerdictAt(high, key.age, key.usage) = "Expired"
    BY DEF EscalationNeverEases
  <2>1. policy \in Policy /\ key.age \in Nat /\ key.usage \in Nat
    BY KeyPolicy, PolicyConstants DEF PolicyTypeOK
  <2>2. ASSUME VerdictAt(high, key.age, key.usage) = "Compliant"
        PROVE  VerdictAt(low, key.age, key.usage) = "Compliant"
    <3>1. CASE key.state = "Active"
      BY <2>1, <2>2, <3>1, TighterComplies DEF VerdictAt, effective_policy_for
    <3>2. CASE key.state # "Active"
      BY <3>2 DEF VerdictAt, evaluate
    <3> QED BY <3>1, <3>2
  <2>3. ASSUME VerdictAt(low, key.age, key.usage) = "Expired"
        PROVE  VerdictAt(high, key.age, key.usage) = "Expired"
    BY <2>1, <2>3, TighterExpires DEF VerdictAt, effective_policy_for
  <2> QED BY <2>2, <2>3
<1> QED BY <1>1, PolicyTypeCorrect, PTL

\* A key never encrypts more often than its base policy's limit.
THEOREM UsageAlwaysBounded == PolicySpec => []UsageBounded
<1>1. PolicyInit => UsageBounded
  <2> SUFFICES ASSUME PolicyInit, policy.max_usage_count # None
               PROVE  key.usage <= policy.max_usage_count
    BY DEF UsageBounded
  <2>1. policy \in Policy
    BY PolicyConstants DEF PolicyInit
  <2>2. policy.max_usage_count \in Nat
    BY <2>1, PolicyParts
  <2> QED BY <2>2 DEF PolicyInit
<1>2. PolicyTypeOK /\ UsageBounded /\ [PolicyNext]_policyVars => UsageBounded'
  <2> SUFFICES ASSUME PolicyTypeOK, UsageBounded, [PolicyNext]_policyVars PROVE UsageBounded'
    OBVIOUS
  <2>1. CASE encrypt
    <3> SUFFICES ASSUME policy.max_usage_count # None
                 PROVE  key.usage + 1 <= policy.max_usage_count
      BY <2>1 DEF encrypt, UsageBounded, PolicyTypeOK
    <3> DEFINE a == adapt(policy, level)
    <3>1. policy \in Policy /\ level \in Level /\ policy.max_usage_count \in Nat /\ key.usage \in Nat
      BY KeyPolicy, PolicyParts, PolicyConstants DEF PolicyTypeOK
    <3>2. Tighter(a, policy)
      BY <3>1, AdaptTightens DEF Level
    <3>3. a.max_usage_count # None /\ a.max_usage_count <= policy.max_usage_count
      BY <3>2 DEF Tighter, Within
    <3>4. a.max_usage_count \in Nat
      <4>1. scaling_factor(level).usage \in 0 .. 100 /\ FloorUsage \in Nat
        BY <3>1, Factors, PolicyConstants
      <4>2. a.max_usage_count =
              Scaled(policy.max_usage_count, scaling_factor(level).usage, FloorUsage)
        BY <3>1, <3>3, AdaptParts
      <4>3. PICK n \in Nat, p \in 0 .. 100 :
              n = policy.max_usage_count /\ p = scaling_factor(level).usage
        BY <3>1, <4>1, Zenon
      <4>4. Scaled(n, p, FloorUsage) \in Nat
        BY <4>1, ScaledBound
      <4> QED BY <4>2, <4>3, <4>4, Zenon
    <3> HIDE DEF a
    <3>5. ~(key.usage >= a.max_usage_count)
      <4> SUFFICES ASSUME key.usage >= a.max_usage_count PROVE FALSE
        OBVIOUS
      <4>1. UsageVerdict(a, key.usage) = "UsageLimitExceeded"
        BY <3>3 DEF UsageVerdict
      <4>2. VerdictAt(level, key.age, key.usage) \in {"Compliant", "Warning"}
        BY <2>1 DEF encrypt, Open
      <4>3. VerdictAt(level, key.age, key.usage) \in {"Expired", "UsageLimitExceeded"}
        BY <2>1, <4>1 DEF encrypt, VerdictAt, evaluate, effective_policy_for, a
      <4> QED BY <4>2, <4>3
    <3> QED BY <3>1, <3>3, <3>4, <3>5
  <2>2. CASE PolicyNext /\ ~encrypt
    BY <2>2 DEF PolicyNext, decrypt, rotate, expire_due_keys, LevelChanges, PolicyTick, UsageBounded, PolicyTypeOK
  <2>3. CASE UNCHANGED policyVars
    BY <2>3 DEF policyVars, UsageBounded
  <2> QED BY <2>1, <2>2, <2>3
<1> QED BY <1>1, <1>2, PolicyTypeCorrect, PTL DEF PolicySpec

\* An operation that the effective policy lets pass is within the base lifetime.
LEMMA LetPassInTime ==
  ASSUME PolicyTypeOK, key.state = "Active", policy.enforce_cryptoperiod,
         VerdictAt(level, key.age, key.usage) # "Expired"
  PROVE  ~LifetimeOver(policy, key.age)
<1> SUFFICES ASSUME LifetimeOver(policy, key.age) PROVE FALSE
  OBVIOUS
<1> DEFINE a == adapt(policy, level)
<1>1. policy \in Policy /\ level \in Level /\ key.age \in Nat
  BY KeyPolicy, PolicyConstants DEF PolicyTypeOK
<1>2. policy.max_lifetime # None /\ key.age >= policy.max_lifetime
  BY DEF LifetimeOver
<1>3. policy.max_lifetime \in Nat
  BY <1>1, <1>2, PolicyParts
<1>4. a.max_lifetime # None /\ a.max_lifetime <= policy.max_lifetime
  <2>1. Tighter(a, policy)
    BY <1>1, AdaptTightens DEF Level
  <2> QED BY <1>2, <2>1 DEF Tighter, Within
<1>5. a.max_lifetime \in Nat
  <2>1. scaling_factor(level).lifetime \in 0 .. 100 /\ FloorLifetime \in Nat
    BY <1>1, Factors, PolicyConstants
  <2>2. a.max_lifetime =
          Scaled(policy.max_lifetime, scaling_factor(level).lifetime, FloorLifetime)
    BY <1>1, <1>2, AdaptParts
  <2>3. PICK n \in Nat, p \in 0 .. 100 :
          n = policy.max_lifetime /\ p = scaling_factor(level).lifetime
    BY <1>3, <2>1, Zenon
  <2>4. Scaled(n, p, FloorLifetime) \in Nat
    BY <2>1, ScaledBound
  <2> QED BY <2>2, <2>3, <2>4, Zenon
<1>6. a.enforce_cryptoperiod
  BY <1>1, AdaptParts
<1> HIDE DEF a
<1>7. LifetimeOver(a, key.age)
  BY <1>1, <1>2, <1>3, <1>4, <1>5 DEF LifetimeOver
<1>8. VerdictAt(level, key.age, key.usage) = "Expired"
  BY <1>6, <1>7 DEF VerdictAt, evaluate, effective_policy_for, a
<1> QED BY <1>8

\* With cryptoperiods enforced nothing is accepted after the base lifetime, at
\* any level and whether or not the sweep has run.
THEOREM CryptoperiodAlwaysStops == PolicySpec => []CryptoperiodStops
<1>1. PolicyInit => CryptoperiodStops
  BY DEF PolicyInit, CryptoperiodStops
<1>2. PolicyTypeOK /\ CryptoperiodStops /\ [PolicyNext]_policyVars => CryptoperiodStops'
  <2> SUFFICES ASSUME PolicyTypeOK, CryptoperiodStops, [PolicyNext]_policyVars PROVE CryptoperiodStops'
    OBVIOUS
  <2>1. CASE encrypt
    <3>1. policy' = policy /\ key'.age = key.age
      BY <2>1 DEF encrypt, PolicyTypeOK
    <3>2. key.state = "Active" /\ VerdictAt(level, key.age, key.usage) # "Expired"
      BY <2>1 DEF encrypt, Open
    <3>3. policy.enforce_cryptoperiod => ~LifetimeOver(policy, key.age)
      BY <3>2, LetPassInTime
    <3> QED BY <3>1, <3>3 DEF CryptoperiodStops, LifetimeOver
  <2>2. CASE decrypt
    <3>1. policy' = policy /\ key' = key
      BY <2>2 DEF decrypt
    <3>2. policy.enforce_cryptoperiod => ~LifetimeOver(policy, key.age)
      BY <2>2, LetPassInTime DEF decrypt
    <3> QED BY <3>1, <3>2 DEF CryptoperiodStops, LifetimeOver
  <2>3. CASE rotate \/ expire_due_keys \/ LevelChanges \/ PolicyTick
    BY <2>3 DEF rotate, expire_due_keys, LevelChanges, PolicyTick, CryptoperiodStops
  <2>4. CASE UNCHANGED policyVars
    BY <2>4 DEF policyVars, CryptoperiodStops, LifetimeOver
  <2> QED BY <2>1, <2>2, <2>3, <2>4 DEF PolicyNext
<1> QED BY <1>1, <1>2, PolicyTypeCorrect, PTL DEF PolicySpec

\* Where the base policy asks for rotation before the lifetime ends, no level
\* makes the sweep expire a key whose rotation was not yet due: ages are
\* compressed at least as much as lifetimes and have the lower floor.
THEOREM RotationAlwaysDueFirst == PolicySpec => RotationDueFirst
<1> DEFINE Step == key.state = "Active" /\ key'.state = "Expired" /\ RotatesInTime(policy) =>
                     RotationDue(effective_policy_for(level), key.age)
<1>1. PolicyTypeOK /\ [PolicyNext]_policyVars => [Step]_policyVars
  <2> SUFFICES ASSUME PolicyTypeOK, PolicyNext, key.state = "Active", key'.state = "Expired",
                      RotatesInTime(policy)
               PROVE  RotationDue(effective_policy_for(level), key.age)
    OBVIOUS
  <2> DEFINE a == adapt(policy, level)
             f == scaling_factor(level)
  <2>1. LifetimeOver(a, key.age)
    BY DEF PolicyNext, encrypt, decrypt, rotate, expire_due_keys, LevelChanges, PolicyTick, PolicyTypeOK,
           check_expiration, effective_policy_for
  <2>2. policy \in Policy /\ level \in Level /\ key.age \in Nat
    BY KeyPolicy, PolicyConstants DEF PolicyTypeOK
  <2>3. policy.max_lifetime # None
    BY <2>1, <2>2, AdaptParts DEF LifetimeOver
  <2>4. policy.max_lifetime \in Nat
    BY <2>2, <2>3, PolicyParts
  <2>5. PICK i \in DOMAIN policy.rotation_triggers :
          /\ policy.rotation_triggers[i].kind = "Age"
          /\ policy.rotation_triggers[i].limit <= policy.max_lifetime
    BY <2>3 DEF RotatesInTime
  <2>6. policy.rotation_triggers[i].limit \in Nat
    BY <2>2, PolicyParts
  <2>7. /\ i \in DOMAIN a.rotation_triggers /\ a.rotation_triggers[i].kind = "Age"
        /\ a.rotation_triggers[i].limit = Scaled(policy.rotation_triggers[i].limit, f.age, FloorAge)
        /\ a.max_lifetime = Scaled(policy.max_lifetime, f.lifetime, FloorLifetime)
    BY <2>2, <2>3, <2>5, AdaptParts
  <2>8. /\ f.age \in 0 .. 100 /\ f.lifetime \in 0 .. 100 /\ f.age <= f.lifetime
        /\ FloorAge \in Nat /\ FloorLifetime \in Nat /\ FloorAge <= FloorLifetime
    BY <2>2, Factors, PolicyConstants
  <2> HIDE DEF a, f
  <2>9. Scaled(policy.rotation_triggers[i].limit, f.age, FloorAge)
          <= Scaled(policy.max_lifetime, f.lifetime, FloorLifetime)
    BY <2>4, <2>5, <2>6, <2>8, ScaledMonotone
  <2>10. /\ Scaled(policy.rotation_triggers[i].limit, f.age, FloorAge) \in Nat
         /\ Scaled(policy.max_lifetime, f.lifetime, FloorLifetime) \in Nat
    BY <2>4, <2>6, <2>8, ScaledBound
  <2>11. key.age >= a.rotation_triggers[i].limit
    BY <2>1, <2>2, <2>7, <2>9, <2>10 DEF LifetimeOver
  <2> QED BY <2>7, <2>11 DEF RotationDue, effective_policy_for, a
<1>2. PolicySpec => [][Step]_policyVars
  BY <1>1, PolicyTypeCorrect, PTL DEF PolicySpec
<1> QED BY <1>2 DEF RotationDueFirst

-----------------------------------------------------------------------------
(* The audit log: state and stamps                                          *)

Event == [id : Int, sequence : Nat, prev_hash : Int]
Receipt == [entry_number : Int, hash : Int]

AuditTypeOK ==
  /\ sequence \in Nat /\ prev_hash \in Nat
  /\ event \in [Proc -> Event]
  /\ pc \in [Proc -> {"idle", "json", "newline"}]
  /\ file \in Seq(Seq(Event)) /\ file # <<>>
  /\ receipts \in Seq(Receipt)
  /\ stamped \in Seq(Event)
  /\ restarts \in Nat /\ failures \in Nat /\ quiet \in BOOLEAN

\* Ids number the events; sequence numbers start at 0 with every process, and
\* all but the first event of a process are linked to the one before.
StampsLinked ==
  /\ sequence <= Len(stamped)
  /\ prev_hash = IF sequence = 0 THEN Genesis ELSE Len(stamped)
  /\ sequence # 0 => stamped[Len(stamped)].sequence = sequence - 1
  /\ \A k \in 1 .. Len(stamped) :
       /\ stamped[k].id = k
       /\ stamped[k].sequence < k
       /\ stamped[k].prev_hash = IF stamped[k].sequence = 0 THEN Genesis ELSE k - 1
       /\ stamped[k].sequence # 0 => stamped[k - 1].sequence = stamped[k].sequence - 1

\* What reaches the file was stamped, or is part of an event.
IsStamped(e) == \E k \in 1 .. Len(stamped) : e = stamped[k]
IsPart(e) == e = Torn \/ e = Cut
WritesStamped ==
  /\ \A p \in Proc : pc[p] = "json" => IsStamped(event[p])
  /\ \A i \in 1 .. Len(file) : \A j \in 1 .. Len(file[i]) :
       IsPart(file[i][j]) \/ IsStamped(file[i][j])

ChainInv == AuditTypeOK /\ StampsLinked /\ WritesStamped

-----------------------------------------------------------------------------
(* Every non-empty set of numbers has a least one: the form of induction    *)
(* the proofs below use.                                                    *)
LEMMA LeastNatural ==
  ASSUME NEW T, T \subseteq Nat, T # {}
  PROVE  \E m \in T : \A k \in T : m <= k
<1> DEFINE R == OpToRel(<, Nat)
<1>1. IsWellFoundedOn(R, Nat)
  BY NatLessThanWellFounded
<1> HIDE DEF R
<1>2. PICK m \in T : \A k \in T : ~(<<k, m>> \in R)
  BY <1>1, WFMin
<1>3. \A k \in T : k < m => <<k, m>> \in R
  BY DEF R, OpToRel
<1>4. \A k \in T : m <= k
  <2> SUFFICES ASSUME NEW k \in T PROVE m <= k
    OBVIOUS
  <2>1. k \in Nat /\ m \in Nat /\ ~(k < m)
    BY <1>2, <1>3
  <2> QED
    BY <2>1
<1> QED
  BY <1>4

LEMMA ChainStart == Init => ChainInv
<1> SUFFICES ASSUME Init PROVE ChainInv
  OBVIOUS
<1> USE DEF Init, Genesis
<1>1. AuditTypeOK
  <2>1. Torn \in Event /\ <<>> \in Seq(Event) /\ <<<<>>>> \in Seq(Seq(Event)) /\ <<<<>>>> # <<>>
    BY DEF Torn, Event
  <2> HIDE DEF Genesis
  <2> QED
    BY <2>1 DEF AuditTypeOK, Genesis
<1>2. StampsLinked
  BY DEF StampsLinked
<1>3. WritesStamped
  BY DEF WritesStamped
<1> QED
  BY <1>1, <1>2, <1>3 DEF ChainInv

\* What is written: the open last line grows, the others stay.
LEMMA WrittenLines ==
  ASSUME AuditTypeOK, NEW e \in Event
  PROVE  /\ Written(e) \in Seq(Seq(Event)) /\ Len(Written(e)) = Len(file) /\ Written(e) # <<>>
         /\ \A i \in 1 .. Len(file) - 1 : Written(e)[i] = file[i]
         /\ Written(e)[Len(file)] = Append(file[Len(file)], e)
<1>1. Len(file) \in 1 .. Len(file) /\ file[Len(file)] \in Seq(Event)
  BY EmptySeq DEF AuditTypeOK
<1>2. Append(file[Len(file)], e) \in Seq(Event)
  BY <1>1
<1>3. /\ Written(e) \in Seq(Seq(Event)) /\ Len(Written(e)) = Len(file)
      /\ \A i \in 1 .. Len(file) : Written(e)[i] = IF i = Len(file) THEN Append(file[Len(file)], e) ELSE file[i]
  BY <1>1, <1>2, ExceptSeq DEF AuditTypeOK, Written
<1>4. Written(e) # <<>>
  BY <1>1, <1>3
<1>5. \A i \in 1 .. Len(file) - 1 : i \in 1 .. Len(file) /\ i # Len(file)
  BY <1>1
<1> QED
  BY <1>1, <1>3, <1>4, <1>5

LEMMA NewEventTyped ==
  ASSUME ChainInv
  PROVE  NewEvent \in Event /\ NewEvent.id = Len(stamped) + 1
         /\ NewEvent.sequence = sequence /\ NewEvent.prev_hash = prev_hash
  BY DEF ChainInv, AuditTypeOK, NewEvent, Event

LEMMA StampKeeps ==
  ASSUME ChainInv, NEW p \in Proc, Stamp(p)
  PROVE  ChainInv'
<1> DEFINE n == Len(stamped)
<1>1. n \in Nat /\ sequence \in Nat /\ stamped \in Seq(Event)
  BY DEF ChainInv, AuditTypeOK
<1>2. /\ stamped' \in Seq(Event) /\ Len(stamped') = n + 1
      /\ stamped'[n + 1] = NewEvent /\ \A k \in 1 .. n : stamped'[k] = stamped[k]
  BY <1>1, NewEventTyped, AppendProperties DEF Stamp
<1>3. /\ sequence' = sequence + 1 /\ prev_hash' = n + 1
      /\ event' = [event EXCEPT ![p] = NewEvent] /\ pc' = [pc EXCEPT ![p] = "json"]
      /\ UNCHANGED <<file, restarts, failures>>
  BY NewEventTyped DEF Stamp, Advance, Link
<1>4. AuditTypeOK'
  <2>1. receipts' \in Seq(Receipt)
    <3>1. TornReceipt \in Receipt /\ [entry_number |-> NewEvent.sequence, hash |-> NewEvent.id] \in Receipt
      BY <1>1, NewEventTyped DEF TornReceipt, Receipt
    <3>2. \/ receipts' = receipts \/ receipts' = Append(receipts, TornReceipt)
          \/ receipts' = Append(receipts, [entry_number |-> NewEvent.sequence, hash |-> NewEvent.id])
      BY DEF Stamp, Anchor
    <3>3. receipts \in Seq(Receipt)
      BY DEF ChainInv, AuditTypeOK
    <3>4. \A r \in Receipt : Append(receipts, r) \in Seq(Receipt)
      BY <3>3, AppendProperties
    <3> QED
      BY <3>1, <3>2, <3>3, <3>4
  <2>2. quiet' \in BOOLEAN
    BY DEF Stamp
  <2> QED
    BY <1>1, <1>2, <1>3, <2>1, <2>2, NewEventTyped DEF ChainInv, AuditTypeOK
<1> HIDE DEF n
<1>5. StampsLinked'
  <2>1. \A k \in 1 .. n : stamped[k].sequence # 0 => k - 1 \in 1 .. n
    <3> SUFFICES ASSUME NEW k \in 1 .. n, stamped[k].sequence # 0 PROVE k - 1 \in 1 .. n
      OBVIOUS
    <3>0. stamped[k] \in Event
      BY <1>1, ElementOfSeq DEF n
    <3>1. stamped[k].sequence \in Nat /\ stamped[k].sequence < k
      BY <3>0 DEF ChainInv, StampsLinked, n, Event
    <3> QED
      BY <1>1, <3>1
  <2>2. ASSUME NEW k \in 1 .. n + 1
        PROVE  /\ stamped'[k].id = k
               /\ stamped'[k].sequence < k
               /\ stamped'[k].prev_hash = IF stamped'[k].sequence = 0 THEN Genesis ELSE k - 1
               /\ stamped'[k].sequence # 0 => stamped'[k - 1].sequence = stamped'[k].sequence - 1
    <3>1. CASE k \in 1 .. n
      BY <1>1, <1>2, <2>1, <3>1 DEF ChainInv, StampsLinked, n
    <3>2. CASE k = n + 1
      <4>1. sequence <= n /\ prev_hash = IF sequence = 0 THEN Genesis ELSE n
        BY DEF ChainInv, StampsLinked, n
      <4>2. sequence # 0 => n \in 1 .. n /\ stamped[n].sequence = sequence - 1
        BY <1>1, <4>1 DEF ChainInv, StampsLinked, n
      <4> QED
        BY <1>1, <1>2, <3>2, <4>1, <4>2, NewEventTyped DEF n
    <3> QED
      BY <1>1, <3>1, <3>2
  <2>3. sequence <= n
    BY DEF ChainInv, StampsLinked, n
  <2> QED
    BY <1>1, <1>2, <1>3, <2>2, <2>3, NewEventTyped DEF StampsLinked, Genesis
<1>6. WritesStamped'
  <2>2. IsStamped(event[p])'
    BY <1>1, <1>2, <1>3 DEF ChainInv, AuditTypeOK, IsStamped, n
  <2>3. ASSUME NEW q \in Proc, pc'[q] = "json" PROVE IsStamped(event[q])'
    <3>1. CASE q # p
      <4>1. pc[q] = "json" /\ event'[q] = event[q]
        BY <1>3, <2>3, <3>1 DEF ChainInv, AuditTypeOK
      <4> QED
        BY <1>1, <1>2, <4>1 DEF ChainInv, WritesStamped, IsStamped, n
    <3> QED
      BY <2>2, <3>1
  <2>4. ASSUME NEW i \in 1 .. Len(file), NEW j \in 1 .. Len(file[i])
        PROVE  IsPart(file[i][j]) \/ \E k \in 1 .. Len(stamped') : file[i][j] = stamped'[k]
    BY <1>1, <1>2 DEF ChainInv, WritesStamped, IsStamped, n
  <2> QED
    BY <1>3, <2>3, <2>4 DEF WritesStamped, IsStamped
<1> QED
  BY <1>4, <1>5, <1>6 DEF ChainInv

\* A step that only adds events to the file keeps the rest.
LEMMA FileKeeps ==
  ASSUME ChainInv, UNCHANGED <<chain, event, receipts, stamped>>,
         restarts' \in Nat, failures' \in Nat, quiet' \in BOOLEAN,
         pc' \in [Proc -> {"idle", "json", "newline"}],
         \A q \in Proc : pc'[q] = "json" => pc[q] = "json",
         file' \in Seq(Seq(Event)), file' # <<>>,
         \A i \in 1 .. Len(file') : \A j \in 1 .. Len(file'[i]) :
            IsPart(file'[i][j]) \/ IsStamped(file'[i][j])
  PROVE  ChainInv'
<1>1. AuditTypeOK' /\ StampsLinked'
  BY DEF ChainInv, AuditTypeOK, StampsLinked, chain
<1>2. WritesStamped'
  BY DEF ChainInv, WritesStamped, IsStamped
<1> QED
  BY <1>1, <1>2 DEF ChainInv

LEMMA WriteKeepsChain ==
  ASSUME ChainInv, NEW p \in Proc, WriteJson(p) \/ WriteNewline(p) \/ WriteFails(p)
  PROVE  ChainInv'
<1>1. /\ UNCHANGED <<chain, event, receipts, stamped>>
      /\ restarts' \in Nat /\ failures' \in Nat /\ quiet' \in BOOLEAN
      /\ pc' \in [Proc -> {"idle", "json", "newline"}]
      /\ \A q \in Proc : pc'[q] = "json" => pc[q] = "json"
  <2>1. quiet' \in BOOLEAN
    BY DEF ChainInv, AuditTypeOK, WriteJson, WriteNewline, WriteFails, ghost
  <2>2. UNCHANGED <<chain, event, receipts, stamped>> /\ restarts' \in Nat /\ failures' \in Nat
    BY DEF ChainInv, AuditTypeOK, WriteJson, WriteNewline, WriteFails, ghost, chain
  <2>3. pc' = [pc EXCEPT ![p] = "newline"] \/ pc' = [pc EXCEPT ![p] = "idle"]
    BY DEF WriteJson, WriteNewline, WriteFails
  <2> QED
    BY <2>1, <2>2, <2>3 DEF ChainInv, AuditTypeOK
<1>2. \/ file' = file
      \/ file' = Append(file, <<>>)
      \/ \E e \in Event : file' = Written(e) /\ (IsPart(e) \/ IsStamped(e))
  <2>1. Torn \in Event /\ Cut \in Event /\ IsPart(Torn) /\ IsPart(Cut)
    BY DEF Torn, Cut, Event, IsPart
  <2>2. event[p] \in Event /\ (pc[p] = "json" => IsStamped(event[p]))
    BY DEF ChainInv, AuditTypeOK, WritesStamped
  <2> QED
    BY <2>1, <2>2 DEF WriteJson, WriteNewline, WriteFails
<1>3. ASSUME NEW i \in 1 .. Len(file), NEW j \in 1 .. Len(file[i])
      PROVE  IsPart(file[i][j]) \/ IsStamped(file[i][j])
  BY DEF ChainInv, WritesStamped
<1>4. file \in Seq(Seq(Event)) /\ file # <<>>
  BY DEF ChainInv, AuditTypeOK
<1>5. CASE file' = file
  BY <1>1, <1>3, <1>4, <1>5, FileKeeps
<1>6. CASE file' = Append(file, <<>>)
  <2>1. /\ file' \in Seq(Seq(Event)) /\ file' # <<>> /\ Len(file') = Len(file) + 1
        /\ file'[Len(file) + 1] = <<>> /\ \A i \in 1 .. Len(file) : file'[i] = file[i]
    BY <1>4, <1>6, AppendProperties
  <2>2. ASSUME NEW i \in 1 .. Len(file'), NEW j \in 1 .. Len(file'[i])
        PROVE  IsPart(file'[i][j]) \/ IsStamped(file'[i][j])
    <3>1. i \in 1 .. Len(file)
      BY <1>4, <2>1
    <3> QED
      BY <1>3, <2>1, <3>1
  <2> QED
    BY <1>1, <2>1, <2>2, FileKeeps
<1>7. ASSUME NEW e \in Event, file' = Written(e), IsPart(e) \/ IsStamped(e)
      PROVE  ChainInv'
  <2>1. /\ file' \in Seq(Seq(Event)) /\ file' # <<>> /\ Len(file') = Len(file)
        /\ file'[Len(file)] = Append(file[Len(file)], e)
        /\ \A i \in 1 .. Len(file) - 1 : file'[i] = file[i]
    BY <1>7, WrittenLines DEF ChainInv
  <2>2. ASSUME NEW i \in 1 .. Len(file'), NEW j \in 1 .. Len(file'[i])
        PROVE  IsPart(file'[i][j]) \/ IsStamped(file'[i][j])
    <3>1. CASE i \in 1 .. Len(file) - 1
      BY <1>3, <1>4, <2>1, <3>1
    <3>2. CASE i = Len(file)
      <4>1. file[i] \in Seq(Event) /\ i \in 1 .. Len(file)
        BY <1>4, <2>1, <3>2
      <4>2. j \in 1 .. Len(file[i]) \/ j = Len(file[i]) + 1
        BY <2>1, <3>2, <4>1, AppendProperties
      <4>3. /\ j \in 1 .. Len(file[i]) => file'[i][j] = file[i][j]
            /\ j = Len(file[i]) + 1 => file'[i][j] = e
        BY <2>1, <3>2, <4>1, AppendProperties
      <4> QED
        BY <1>3, <1>7, <4>1, <4>2, <4>3
    <3> QED
      BY <1>4, <2>1, <3>1, <3>2
  <2> QED
    BY <1>1, <2>1, <2>2, FileKeeps
<1> QED
  BY <1>2, <1>5, <1>6, <1>7

LEMMA ChainStep == ChainInv /\ [Next]_vars => ChainInv'
<1> SUFFICES ASSUME ChainInv, [Next]_vars PROVE ChainInv'
  OBVIOUS
<1>1. CASE Restart
  <2>1. AuditTypeOK'
    <3>1. quiet' \in BOOLEAN /\ pc' \in [Proc -> {"idle", "json", "newline"}]
      BY <1>1 DEF Restart
    <3> QED
      BY <1>1, <3>1 DEF Restart, ChainInv, AuditTypeOK, Genesis
  <2>2. StampsLinked'
    BY <1>1 DEF Restart, ChainInv, AuditTypeOK, StampsLinked
  <2>3. WritesStamped'
    BY <1>1 DEF Restart, ChainInv, WritesStamped, IsStamped
  <2> QED
    BY <2>1, <2>2, <2>3 DEF ChainInv
<1>2. CASE UNCHANGED vars
  BY <1>2 DEF vars, chain, ghost, ChainInv, AuditTypeOK, StampsLinked, WritesStamped, IsStamped
<1> QED
  BY <1>1, <1>2, StampKeeps, WriteKeepsChain DEF Next, Record

\* The state of the sink, of the threads in it and of the log is always well typed.
THEOREM AuditTypeCorrect == Spec => []AuditTypeOK
<1>1. ChainInv => AuditTypeOK
  BY DEF ChainInv
<1> QED
  BY <1>1, ChainStart, ChainStep, PTL DEF Spec

-----------------------------------------------------------------------------
(* What a verified file proves                                              *)

\* If the command accepts what it reads, every event it has read was stamped, and
\* it has read the event it is linked to.
LEMMA VerifiedLinks ==
  ASSUME ChainInv, ChainIntact, NEW e \in Verified
  PROVE  /\ IsStamped(e)
         /\ e.prev_hash # Genesis => \E f \in Verified : f.id = e.prev_hash
<1>1. file \in Seq(Seq(Event))
  BY DEF ChainInv, AuditTypeOK
<1>2. ASSUME NEW i \in Filled
      PROVE  /\ i \in 1 .. Len(file) /\ Len(file[i]) = 1 /\ file[i][1] \in Verified
             /\ IsPart(file[i][1]) \/ IsStamped(file[i][1])
  <2>1. i \in 1 .. Len(file) /\ Len(file[i]) = 1
    BY DEF Filled, LinesRead, ChainIntact, LineVerifies
  <2> QED
    BY <2>1 DEF Verified, ChainInv, WritesStamped
<1>3. PICK i \in Filled : \E j \in 1 .. Len(file[i]) : e = file[i][j]
  BY DEF Verified
<1>4. e = file[i][1]
  BY <1>2, <1>3
<1>5. \A f : IsStamped(f) => f.id # -1
  BY DEF IsStamped, ChainInv, AuditTypeOK, StampsLinked
<1>6. PrevExpected(i)
  BY <1>3 DEF ChainIntact, LineVerifies
<1>7. e.prev_hash # Genesis => \E j \in Filled : e.prev_hash = file[j][1].id
  BY <1>4, <1>6 DEF PrevExpected
<1>8. ~IsPart(e)
  BY <1>2, <1>5, <1>7 DEF IsPart, Torn, Cut, Genesis
<1> QED
  BY <1>2, <1>3, <1>4, <1>7, <1>8

\* Induction on the distance from e: an event that a verified file misses would
\* be the one some event on file is linked to.
LEMMA VerifiedWhole == ChainInv => VerifiedHasNoGap
<1> SUFFICES ASSUME ChainInv, ChainIntact, NEW e \in Verified, NEW k \in 1 .. Len(stamped),
                    e.id - e.sequence <= k, k <= e.id
             PROVE  stamped[k] \in Verified
  BY DEF VerifiedHasNoGap
<1>1. PICK m \in 1 .. Len(stamped) : e = stamped[m]
  BY VerifiedLinks DEF IsStamped
<1>2. Len(stamped) \in Nat /\ stamped \in Seq(Event)
  BY DEF ChainInv, AuditTypeOK
<1>3. e.id = m /\ e.sequence \in Nat /\ e.sequence < m
  <2>1. stamped[m] \in Event
    BY <1>2, ElementOfSeq
  <2> QED
    BY <1>1, <2>1 DEF ChainInv, StampsLinked, Event
<1> DEFINE Good(d) == stamped[m - d] \in Verified /\ stamped[m - d].sequence = e.sequence - d
           Bad == {d \in 0 .. e.sequence : ~Good(d)}
<1>4. Good(0)
  BY <1>1, <1>3
<1>5. ASSUME NEW d \in 1 .. e.sequence, Good(d - 1)
      PROVE  Good(d)
  <2> DEFINE g == stamped[m - (d - 1)]
  <2>1. m - (d - 1) \in 2 .. Len(stamped) /\ m - (d - 1) - 1 = m - d /\ d \in Nat
    BY <1>2, <1>3
  <2>2. g \in Verified /\ g.sequence = e.sequence - (d - 1) /\ g.sequence # 0
    BY <1>3, <1>5
  <2>3. g.prev_hash = m - d /\ stamped[m - d].sequence = g.sequence - 1
    BY <2>1, <2>2 DEF ChainInv, StampsLinked
  <2>4. m - d # Genesis
    BY <2>1 DEF Genesis
  <2>5. PICK f \in Verified : f.id = m - d
    BY <2>2, <2>3, <2>4, VerifiedLinks
  <2>6. f = stamped[m - d]
    <3>1. PICK x \in 1 .. Len(stamped) : f = stamped[x]
      BY VerifiedLinks DEF IsStamped
    <3>2. f.id = x
      BY <3>1 DEF ChainInv, StampsLinked
    <3> QED
      BY <2>5, <3>1, <3>2
  <2>7. stamped[m - d].sequence = e.sequence - d
    BY <1>3, <2>2, <2>3
  <2> QED
    BY <2>6, <2>7
<1>6. Bad = {}
  <2> SUFFICES ASSUME Bad # {} PROVE FALSE
    OBVIOUS
  <2> HIDE DEF Good
  <2>1. Bad \subseteq Nat
    OBVIOUS
  <2>2. PICK d \in Bad : \A c \in Bad : d <= c
    BY <2>1, LeastNatural
  <2>3. d \in 1 .. e.sequence
    BY <1>3, <1>4, <2>2
  <2>4. d - 1 \in 0 .. e.sequence /\ ~(d <= d - 1)
    BY <1>3, <2>3
  <2>5. Good(d - 1)
    BY <2>2, <2>4
  <2> QED
    BY <1>5, <2>2, <2>3, <2>5
<1>7. m - k \in 0 .. e.sequence /\ m - (m - k) = k
  BY <1>2, <1>3
<1> HIDE DEF Good
<1>8. Good(m - k)
  BY <1>6, <1>7
<1> QED
  BY <1>7, <1>8 DEF Good

(***************************************************************************)
(* When cmd_verify_chain reports an intact chain, the events it counted    *)
(* have no gap (VerifiedHasNoGap): whatever records overlapped, writes     *)
(* failed or were cut, also inside a character, where the command stops    *)
(* reading, and processes restarted.                                       *)
(***************************************************************************)
THEOREM AuditVerifiedNoGap == Spec => []VerifiedHasNoGap
  BY ChainStart, ChainStep, VerifiedWhole, PTL DEF Spec

-----------------------------------------------------------------------------
(* The file while nothing overlaps or fails                                 *)

\* One record at a time: the file holds one line for each event, in order, and
\* what is missing is the line, or its end, that the record is about to write.
QuietShape ==
  quiet =>
    /\ sequence = Len(stamped)
    /\ \A k \in 1 .. Len(stamped) : stamped[k].sequence = k - 1
    /\ \A p, q \in Proc : pc[p] # "idle" /\ pc[q] # "idle" => p = q
    /\ \A p \in Proc : pc[p] # "idle" => Len(stamped) # 0 /\ event[p] = stamped[Len(stamped)]
    /\ (\A p \in Proc : pc[p] = "idle") => Len(file) = Len(stamped) + 1
    /\ (\E p \in Proc : pc[p] # "idle") => Len(file) = Len(stamped)
    /\ \A i \in 1 .. Len(file) - 1 : file[i] = <<stamped[i]>>
    /\ file[Len(file)] = IF \E p \in Proc : pc[p] = "newline" THEN <<stamped[Len(file)]>> ELSE <<>>

\* A step that leaves the log quiet keeps its shape.
LEMMA QuietStep ==
  ASSUME ChainInv, ChainInv', QuietShape, [Next]_vars
  PROVE  QuietShape'
<1> SUFFICES ASSUME quiet' PROVE QuietShape'
  BY DEF QuietShape
<1>1. /\ Len(stamped) \in Nat /\ Len(file) \in Nat /\ Len(file) # 0 /\ sequence \in Nat
      /\ stamped \in Seq(Event) /\ file \in Seq(Seq(Event)) /\ event \in [Proc -> Event]
      /\ pc \in [Proc -> {"idle", "json", "newline"}]
  BY EmptySeq DEF ChainInv, AuditTypeOK
<1>2. ~Restart /\ \A p \in Proc : ~WriteFails(p)
  BY DEF Restart, WriteFails
<1>3. quiet
  BY <1>2 DEF Next, Record, Stamp, WriteJson, WriteNewline, vars, ghost
<1>4. QuietShape!2
  BY <1>3 DEF QuietShape
<1>5. ASSUME NEW p \in Proc, Stamp(p) PROVE QuietShape'
  <2>1. /\ \A q \in Proc : pc[q] = "idle"
        /\ UNCHANGED file /\ sequence' = sequence + 1
        /\ event' = [event EXCEPT ![p] = NewEvent] /\ pc' = [pc EXCEPT ![p] = "json"]
    BY <1>5 DEF Stamp, Advance
  <2>2. /\ Len(stamped') = Len(stamped) + 1
        /\ stamped'[Len(stamped) + 1] = NewEvent
        /\ \A k \in 1 .. Len(stamped) : stamped'[k] = stamped[k]
    BY <1>1, <1>5, NewEventTyped, AppendProperties DEF Stamp
  <2>3. NewEvent.sequence = Len(stamped)
    BY <1>4, NewEventTyped
  <2>4. Len(file) = Len(stamped) + 1 /\ file[Len(file)] = <<>>
        /\ \A i \in 1 .. Len(stamped) : file[i] = <<stamped[i]>>
    BY <1>1, <1>4, <2>1
  <2>5. \A q \in Proc : (pc'[q] # "idle" <=> q = p) /\ pc'[q] # "newline"
    BY <1>1, <2>1
  <2>6. \A k \in 1 .. Len(stamped') : stamped'[k].sequence = k - 1
    <3> SUFFICES ASSUME NEW k \in 1 .. Len(stamped') PROVE stamped'[k].sequence = k - 1
      OBVIOUS
    <3>1. CASE k = Len(stamped) + 1
      BY <1>1, <2>2, <2>3, <3>1
    <3>2. CASE k \in 1 .. Len(stamped)
      BY <1>4, <2>2, <3>2
    <3> QED
      BY <1>1, <2>2, <3>1, <3>2
  <2>7. event'[p] = stamped'[Len(stamped')] /\ Len(stamped') # 0
    BY <1>1, <2>1, <2>2
  <2> QED
    BY <1>1, <1>4, <2>1, <2>2, <2>4, <2>5, <2>6, <2>7 DEF QuietShape
<1>6. ASSUME NEW p \in Proc, WriteJson(p) PROVE QuietShape'
  <2>1. /\ pc[p] = "json" /\ file' = Written(event[p]) /\ pc' = [pc EXCEPT ![p] = "newline"]
        /\ UNCHANGED <<sequence, event, stamped>>
    BY <1>6 DEF WriteJson, chain
  <2>2. /\ \A q \in Proc : q # p => pc[q] = "idle"
        /\ event[p] = stamped[Len(stamped)] /\ Len(stamped) # 0 /\ Len(file) = Len(stamped)
    BY <1>4, <2>1
  <2>3. file[Len(file)] = <<>>
    BY <1>4, <2>1, <2>2
  <2>4. /\ Len(file') = Len(file) /\ \A i \in 1 .. Len(file) - 1 : file'[i] = file[i]
        /\ file'[Len(file)] = Append(<<>>, event[p])
    BY <1>1, <2>1, <2>3, WrittenLines DEF ChainInv
  <2>5. Append(<<>>, event[p]) = <<event[p]>>
    OBVIOUS
  <2>6. \A q \in Proc : (pc'[q] # "idle" <=> q = p) /\ (pc'[q] = "newline" <=> q = p)
    BY <1>1, <2>1, <2>2
  <2>7. file'[Len(file')] = <<stamped[Len(file)]>>
    BY <2>2, <2>4, <2>5
  <2>8. \A i \in 1 .. Len(file') - 1 : file'[i] = <<stamped[i]>>
    BY <1>4, <2>4
  <2> QED
    BY <1>4, <2>1, <2>2, <2>4, <2>6, <2>7, <2>8 DEF QuietShape
<1>7. ASSUME NEW p \in Proc, WriteNewline(p) PROVE QuietShape'
  <2>1. /\ pc[p] = "newline" /\ file' = Append(file, <<>>) /\ pc' = [pc EXCEPT ![p] = "idle"]
        /\ UNCHANGED <<sequence, event, stamped>>
    BY <1>7 DEF WriteNewline, chain
  <2>2. \A q \in Proc : pc'[q] = "idle"
    BY <1>1, <1>4, <2>1
  <2>3. Len(file) = Len(stamped) /\ file[Len(file)] = <<stamped[Len(file)]>>
    BY <1>4, <2>1
  <2>4. /\ Len(file') = Len(file) + 1 /\ file'[Len(file) + 1] = <<>>
        /\ \A i \in 1 .. Len(file) : file'[i] = file[i]
    BY <1>1, <2>1, AppendProperties
  <2>5. \A i \in 1 .. Len(file) : file'[i] = <<stamped[i]>>
    <3> SUFFICES ASSUME NEW i \in 1 .. Len(file) PROVE file[i] = <<stamped[i]>>
      BY <2>4
    <3>1. Len(file) \in Nat /\ (i = Len(file) \/ i \in 1 .. Len(file) - 1)
      BY <1>1, LenProperties
    <3> QED BY <1>4, <2>3, <3>1
  <2> QED
    BY <1>1, <1>4, <2>1, <2>2, <2>3, <2>4, <2>5 DEF QuietShape
<1>8. CASE UNCHANGED vars
  BY <1>8 DEF vars, chain, ghost, QuietShape
<1> QED
  BY <1>2, <1>5, <1>6, <1>7, <1>8 DEF Next, Record

\* A file of that shape verifies: line i is linked to line i - 1.
LEMMA QuietVerifies == ChainInv /\ QuietShape => QuietChainIntact
<1> SUFFICES ASSUME ChainInv, QuietShape, quiet, NEW i \in Filled PROVE LineVerifies(i)
  BY DEF QuietChainIntact, ChainIntact
<1>1. /\ Len(stamped) \in Nat /\ Len(file) \in Nat /\ Len(file) # 0
      /\ i \in 1 .. Len(file) /\ file[i] # <<>>
  BY EmptySeq DEF ChainInv, AuditTypeOK, Filled, LinesRead
<1>2. QuietShape!2
  BY DEF QuietShape
<1>3. i \in 1 .. Len(stamped) /\ file[i] = <<stamped[i]>>
  <2>1. CASE \E p \in Proc : pc[p] # "idle"
    BY <1>1, <1>2, <2>1
  <2>2. CASE \A p \in Proc : pc[p] = "idle"
    BY <1>1, <1>2, <2>2
  <2> QED
    BY <2>1, <2>2
<1>4. \A j \in 1 .. i - 1 : j \in Filled /\ file[j] = <<stamped[j]>>
  <2> SUFFICES ASSUME NEW j \in 1 .. i - 1 PROVE j \in Filled /\ file[j] = <<stamped[j]>>
    OBVIOUS
  <2>1. j \in 1 .. Len(file) - 1 /\ j \in 1 .. Len(file) /\ j \in LinesRead
    BY <1>1 DEF Filled, LinesRead
  <2>2. file[j] = <<stamped[j]>>
    BY <1>2, <2>1
  <2>3. <<stamped[j]>> # <<>>
    OBVIOUS
  <2> QED
    BY <2>1, <2>2, <2>3 DEF Filled
<1>5. stamped[i].prev_hash = IF i = 1 THEN Genesis ELSE i - 1
  BY <1>1, <1>2, <1>3 DEF ChainInv, StampsLinked
<1>6. PrevExpected(i)
  <2>1. CASE i = 1
    <3>1. \A j \in Filled : i <= j
      BY <2>1 DEF Filled, LinesRead
    <3> QED
      BY <1>3, <1>5, <2>1, <3>1 DEF PrevExpected
  <2>2. CASE i # 1
    <3>1. i - 1 \in Filled /\ file[i - 1][1] = stamped[i - 1] /\ i - 1 \in 1 .. Len(stamped)
      BY <1>1, <1>3, <1>4, <2>2
    <3>2. stamped[i - 1].id = i - 1
      BY <3>1 DEF ChainInv, StampsLinked
    <3>3. Before(i - 1, i)
      BY <1>1 DEF Before, Filled, LinesRead
    <3> QED
      BY <1>3, <1>5, <2>2, <3>1, <3>2, <3>3 DEF PrevExpected
  <2> QED
    BY <2>1, <2>2
<1> QED
  BY <1>3, <1>6 DEF LineVerifies

(***************************************************************************)
(* While records do not overlap, nothing fails and the process lives,      *)
(* cmd_verify_chain accepts the log at every moment (QuietChainIntact).    *)
(***************************************************************************)
THEOREM AuditQuietIntact == Spec => []QuietChainIntact
<1>1. Init => QuietShape
  BY DEF Init, QuietShape
<1> QED
  BY <1>1, ChainStart, ChainStep, QuietStep, QuietVerifies, PTL DEF Spec

-----------------------------------------------------------------------------
(* The witness                                                              *)

\* A receipt carries the number and the hash of an event of this process, and
\* later ones carry greater numbers.
ReceiptsOrdered ==
  restarts = 0 =>
    /\ sequence = Len(stamped)
    /\ \A k \in 1 .. Len(stamped) : stamped[k].sequence = k - 1
    /\ \A i \in 1 .. Len(receipts) : receipts[i] # TornReceipt =>
         /\ receipts[i].entry_number \in 0 .. sequence - 1
         /\ receipts[i].hash = receipts[i].entry_number + 1
         /\ \A j \in 1 .. i - 1 : receipts[j] # TornReceipt =>
              receipts[j].entry_number < receipts[i].entry_number

\* Receipts are published under the mutex that numbers the events.
LEMMA ReceiptsStep ==
  ASSUME ChainInv, ReceiptsOrdered, [Next]_vars
  PROVE  ReceiptsOrdered'
<1> SUFFICES ASSUME restarts' = 0 PROVE ReceiptsOrdered'
  BY DEF ReceiptsOrdered
<1>1. /\ Len(stamped) \in Nat /\ sequence \in Nat /\ restarts \in Nat
      /\ stamped \in Seq(Event) /\ receipts \in Seq(Receipt) /\ Len(receipts) \in Nat
  BY DEF ChainInv, AuditTypeOK
<1>2. ~Restart
  BY <1>1 DEF Restart
<1>3. restarts = 0
  BY <1>2 DEF Next, Record, Stamp, WriteJson, WriteNewline, WriteFails, vars, ghost
<1>4. ReceiptsOrdered!2
  BY <1>3 DEF ReceiptsOrdered
<1>5. ASSUME NEW p \in Proc, Stamp(p) PROVE ReceiptsOrdered'
  <2>1. /\ Len(stamped') = Len(stamped) + 1 /\ sequence' = sequence + 1
        /\ stamped'[Len(stamped) + 1] = NewEvent
        /\ \A k \in 1 .. Len(stamped) : stamped'[k] = stamped[k]
    BY <1>1, <1>5, NewEventTyped, AppendProperties DEF Stamp, Advance
  <2>2. NewEvent.sequence = Len(stamped) /\ NewEvent.id = Len(stamped) + 1
    BY <1>4, NewEventTyped
  <2>3. \A k \in 1 .. Len(stamped') : stamped'[k].sequence = k - 1
    <3> SUFFICES ASSUME NEW k \in 1 .. Len(stamped') PROVE stamped'[k].sequence = k - 1
      OBVIOUS
    <3>1. CASE k = Len(stamped) + 1
      BY <1>1, <2>1, <2>2, <3>1
    <3>2. CASE k \in 1 .. Len(stamped)
      BY <1>4, <2>1, <3>2
    <3> QED
      BY <1>1, <2>1, <3>1, <3>2
  <2>4. \/ receipts' = receipts
        \/ \E r \in Receipt : /\ receipts' = Append(receipts, r)
                              /\ r # TornReceipt => /\ r.entry_number = sequence
                                                    /\ r.hash = sequence + 1
    <3> DEFINE r == [entry_number |-> NewEvent.sequence, hash |-> NewEvent.id]
    <3>1. TornReceipt \in Receipt /\ r \in Receipt /\ r.entry_number = sequence /\ r.hash = sequence + 1
      BY <1>1, <1>4, <2>2 DEF TornReceipt, Receipt
    <3>2. receipts' = receipts \/ receipts' = Append(receipts, TornReceipt) \/ receipts' = Append(receipts, r)
      BY <1>5 DEF Stamp, Anchor
    <3> QED
      BY <3>1, <3>2
  <2>5. ASSUME NEW i \in 1 .. Len(receipts), receipts[i] # TornReceipt
        PROVE  receipts[i].entry_number \in 0 .. sequence' - 1 /\ receipts[i].entry_number < sequence
    BY <1>1, <1>4, <2>1, <2>5
  <2>6. CASE receipts' = receipts
    BY <1>4, <2>1, <2>3, <2>5, <2>6 DEF ReceiptsOrdered
  <2>7. ASSUME NEW r \in Receipt, receipts' = Append(receipts, r),
               r # TornReceipt => r.entry_number = sequence /\ r.hash = sequence + 1
        PROVE  ReceiptsOrdered'
    <3>1. /\ Len(receipts') = Len(receipts) + 1 /\ receipts'[Len(receipts) + 1] = r
          /\ \A i \in 1 .. Len(receipts) : receipts'[i] = receipts[i]
      BY <1>1, <2>7, AppendProperties
    <3>2. ASSUME NEW i \in 1 .. Len(receipts'), receipts'[i] # TornReceipt
          PROVE  /\ receipts'[i].entry_number \in 0 .. sequence' - 1
                 /\ receipts'[i].hash = receipts'[i].entry_number + 1
                 /\ \A j \in 1 .. i - 1 : receipts'[j] # TornReceipt =>
                      receipts'[j].entry_number < receipts'[i].entry_number
      <4>1. \A j \in 1 .. i - 1 : j \in 1 .. Len(receipts) /\ receipts'[j] = receipts[j]
        BY <1>1, <3>1
      <4>2. CASE i = Len(receipts) + 1
        BY <1>1, <2>1, <2>5, <2>7, <3>1, <3>2, <4>1, <4>2
      <4>3. CASE i \in 1 .. Len(receipts)
        BY <1>4, <2>5, <3>1, <3>2, <4>1, <4>3
      <4> QED
        BY <1>1, <3>1, <4>2, <4>3
    <3> QED
      BY <1>4, <2>1, <2>3, <3>2 DEF ReceiptsOrdered
  <2> QED
    BY <2>4, <2>6, <2>7
<1>6. ASSUME NEW p \in Proc, WriteJson(p) \/ WriteNewline(p) \/ WriteFails(p) PROVE ReceiptsOrdered'
  BY <1>4, <1>6 DEF WriteJson, WriteNewline, WriteFails, chain, ReceiptsOrdered
<1>7. CASE UNCHANGED vars
  BY <1>7 DEF vars, chain, ghost, ReceiptsOrdered
<1> QED
  BY <1>2, <1>5, <1>6, <1>7 DEF Next, Record

\* Numbers that grow are found at their first occurrence.
LEMMA OrderedVerify == ChainInv /\ ReceiptsOrdered => ReceiptsVerify
<1> SUFFICES ASSUME ChainInv, ReceiptsOrdered, restarts = 0, NEW i \in 1 .. Len(receipts),
                    \A j \in 1 .. i : receipts[j] # TornReceipt
             PROVE  \E e \in {stamped[k] : k \in 1 .. Len(stamped)} :
                      e.sequence = receipts[i].entry_number /\ verify_hash(e.sequence, e.id)
  BY DEF ReceiptsVerify
<1>1. Len(stamped) \in Nat /\ Len(receipts) \in Nat /\ receipts \in Seq(Receipt)
  BY DEF ChainInv, AuditTypeOK
<1>2. ReceiptsOrdered!2
  BY DEF ReceiptsOrdered
<1> DEFINE n == receipts[i].entry_number
<1>3. /\ n \in 0 .. Len(stamped) - 1 /\ receipts[i].hash = n + 1
      /\ \A j \in 1 .. i - 1 : receipts[j] # TornReceipt => receipts[j].entry_number < n
  BY <1>1, <1>2
<1>4. n + 1 \in 1 .. Len(stamped) /\ stamped[n + 1].sequence = n /\ stamped[n + 1].id = n + 1
  <2>1. n + 1 \in 1 .. Len(stamped) /\ n + 1 - 1 = n
    BY <1>1, <1>3
  <2> QED
    BY <1>2, <2>1 DEF ChainInv, StampsLinked
<1>5. \A j \in 1 .. i - 1 : receipts[j].entry_number # n /\ receipts[j] # TornReceipt
  <2> SUFFICES ASSUME NEW j \in 1 .. i - 1 PROVE receipts[j].entry_number # n /\ receipts[j] # TornReceipt
    OBVIOUS
  <2>1. j \in 1 .. i /\ receipts[j] \in Receipt
    BY <1>1
  <2>2. receipts[j].entry_number \in Int
    BY <2>1 DEF Receipt
  <2> QED
    BY <1>3, <2>1, <2>2
<1>6. IsReceipt(i, n)
  BY <1>5 DEF IsReceipt
<1> HIDE DEF n
<1>7. verify_hash(n, n + 1)
  BY <1>3, <1>6 DEF verify_hash
<1> QED
  BY <1>4, <1>7 DEF n

(***************************************************************************)
(* Until a restart every receipt of the witness that no torn one precedes  *)
(* verifies for the event of its number (ReceiptsVerify), whatever order   *)
(* the threads reach the file in.                                          *)
(***************************************************************************)
THEOREM AuditReceiptsVerify == Spec => []ReceiptsVerify
<1>1. Init => ReceiptsOrdered
  BY DEF Init, ReceiptsOrdered
<1> QED
  BY <1>1, ChainStart, ChainStep, ReceiptsStep, OrderedVerify, PTL DEF Spec

-----------------------------------------------------------------------------
(* The threat assessor: scores.                                             *)

\* Induction up to n, over a set instead of a predicate.
LEMMA UpTo ==
  ASSUME NEW n \in Nat, NEW S, 0 \in S, \A i \in 1 .. n : i - 1 \in S => i \in S
  PROVE  \A i \in 0 .. n : i \in S
<1> DEFINE T == {i \in 0 .. n : i \notin S}
<1> SUFFICES T = {}
  OBVIOUS
<1>1. ASSUME T # {} PROVE FALSE
  <2> T \subseteq Nat
    OBVIOUS
  <2>1. PICK m \in T : \A k \in T : m <= k
    BY <1>1, LeastNatural
  <2>2. m \in 1 .. n /\ m - 1 \in 0 .. n /\ m - 1 \notin T
    BY <2>1
  <2> QED BY <2>1, <2>2
<1> QED BY <1>1

\* f[i] is the sum of the first i weights.
Summed(f, q, n) == f = [i \in 0 .. n |-> IF i = 0 THEN 0 ELSE f[i - 1] + Weight(q, i)]

LEMMA SumExists ==
  ASSUME NEW q, NEW n \in Nat
  PROVE  \E f : Summed(f, q, n)
<1> DEFINE S == {m \in 0 .. n : \E f : Summed(f, q, m)}
<1>1. 0 \in S
  <2>1. Summed([i \in 0 .. 0 |-> 0], q, 0)
    BY DEF Summed
  <2> QED BY <2>1
<1>2. ASSUME NEW m \in 1 .. n, m - 1 \in S PROVE m \in S
  <2>1. PICK f : Summed(f, q, m - 1)
    BY <1>2
  <2> DEFINE g == [i \in 0 .. m |-> IF i = m THEN f[m - 1] + Weight(q, m) ELSE f[i]]
  <2>2. f = [i \in 0 .. m - 1 |-> IF i = 0 THEN 0 ELSE f[i - 1] + Weight(q, i)]
    BY <2>1 DEF Summed
  <2>3. ASSUME NEW i \in 0 .. m PROVE g[i] = IF i = 0 THEN 0 ELSE g[i - 1] + Weight(q, i)
    <3>1. CASE i = m
      <4>1. i - 1 \in 0 .. m /\ i - 1 # m /\ i # 0
        BY <3>1
      <4> QED BY <3>1, <4>1
    <3>2. CASE i # m
      <4>1. i \in 0 .. m - 1 /\ (i # 0 => i - 1 \in 0 .. m /\ i - 1 # m)
        BY <3>2
      <4> QED BY <2>2, <3>2, <4>1
    <3> QED BY <3>1, <3>2
  <2>4. g = [i \in 0 .. m |-> g[i]]
    OBVIOUS
  <2> HIDE DEF g
  <2>5. Summed(g, q, m)
    BY <2>3, <2>4 DEF Summed
  <2> QED BY <2>5
<1> HIDE DEF S
<1>3. n \in S
  BY <1>1, <1>2, UpTo
<1> QED BY <1>3 DEF S

LEMMA ScoreIsSum ==
  ASSUME NEW q \in Seq(ThreatEvent)
  PROVE  \E f : Summed(f, q, Len(q)) /\ compute_score(q) = f[Len(q)]
<1>1. Len(q) \in Nat
  OBVIOUS
<1>2. PICK f : f = CHOOSE g : Summed(g, q, Len(q))
  OBVIOUS
<1>3. Summed(f, q, Len(q))
  BY <1>1, <1>2, SumExists
<1>4. compute_score(q) = f[Len(q)]
  BY <1>2 DEF compute_score, Summed
<1> QED BY <1>3, <1>4

LEMMA WeightType ==
  ASSUME NEW q \in Seq(ThreatEvent), NEW i \in 1 .. Len(q)
  PROVE  Weight(q, i) \in Nat
<1>1. q[i] \in ThreatEvent
  BY ElementOfSeq
<1>2. q[i].severity \in Severity /\ q[i].age \in 0 .. MaxEventAge
  BY <1>1 DEF ThreatEvent
<1> QED BY <1>2, ThreatConstants DEF Weight

LEMMA SumType ==
  ASSUME NEW q \in Seq(ThreatEvent), NEW f, Summed(f, q, Len(q))
  PROVE  \A i \in 0 .. Len(q) : f[i] \in Nat
<1> DEFINE S == {i \in 0 .. Len(q) : f[i] \in Nat}
<1>1. /\ Len(q) \in Nat
      /\ \A i \in 0 .. Len(q) : f[i] = IF i = 0 THEN 0 ELSE f[i - 1] + Weight(q, i)
  BY DEF Summed
<1>2. 0 \in S
  BY <1>1
<1>3. ASSUME NEW i \in 1 .. Len(q), i - 1 \in S PROVE i \in S
  <2>1. Weight(q, i) \in Nat
    BY WeightType
  <2> QED BY <1>1, <1>3, <2>1
<1> HIDE DEF S
<1>4. \A i \in 0 .. Len(q) : i \in S
  BY <1>1, <1>2, <1>3, UpTo
<1> QED BY <1>4 DEF S

LEMMA ScoreType ==
  ASSUME NEW q \in Seq(ThreatEvent)
  PROVE  compute_score(q) \in Nat
<1>1. PICK f : Summed(f, q, Len(q)) /\ compute_score(q) = f[Len(q)]
  BY ScoreIsSum
<1>2. Len(q) \in 0 .. Len(q)
  OBVIOUS
<1> QED BY <1>1, <1>2, SumType

\* Events that weigh less one by one sum to less.
LEMMA ScoreMonotone ==
  ASSUME NEW q \in Seq(ThreatEvent), NEW r \in Seq(ThreatEvent), Len(r) = Len(q),
         \A i \in 1 .. Len(q) : Weight(r, i) <= Weight(q, i)
  PROVE  compute_score(r) <= compute_score(q)
<1>1. PICK f : Summed(f, q, Len(q)) /\ compute_score(q) = f[Len(q)]
  BY ScoreIsSum
<1>2. PICK g : Summed(g, r, Len(r)) /\ compute_score(r) = g[Len(r)]
  BY ScoreIsSum
<1> DEFINE n == Len(q)
           S == {i \in 0 .. n : g[i] <= f[i]}
<1>3. /\ n \in Nat
      /\ \A i \in 0 .. n : f[i] = IF i = 0 THEN 0 ELSE f[i - 1] + Weight(q, i)
      /\ \A i \in 0 .. n : g[i] = IF i = 0 THEN 0 ELSE g[i - 1] + Weight(r, i)
  <2>1. n \in Nat /\ f = [i \in 0 .. n |-> IF i = 0 THEN 0 ELSE f[i - 1] + Weight(q, i)]
    BY <1>1 DEF Summed
  <2>2. Len(r) = n
    OBVIOUS
  <2>3. g = [i \in 0 .. n |-> IF i = 0 THEN 0 ELSE g[i - 1] + Weight(r, i)]
    BY <1>2, <2>2 DEF Summed
  <2> QED BY <2>1, <2>3
<1>4. \A i \in 0 .. n : f[i] \in Nat /\ g[i] \in Nat
  BY <1>1, <1>2, SumType
<1>5. 0 \in S
  BY <1>3
<1>6. ASSUME NEW i \in 1 .. n, i - 1 \in S PROVE i \in S
  <2>1. Weight(q, i) \in Nat /\ Weight(r, i) \in Nat /\ Weight(r, i) <= Weight(q, i)
    BY WeightType
  <2>2. i - 1 \in 0 .. n /\ i \in 0 .. n /\ i # 0 /\ g[i - 1] <= f[i - 1]
    BY <1>6
  <2>3. f[i] = f[i - 1] + Weight(q, i) /\ g[i] = g[i - 1] + Weight(r, i)
    BY <1>3, <2>2
  <2>4. g[i] <= f[i]
    BY <1>4, <2>1, <2>2, <2>3
  <2> QED BY <2>2, <2>4
<1> HIDE DEF S
<1>7. \A i \in 0 .. n : i \in S
  BY <1>3, <1>5, <1>6, UpTo
<1>8. g[n] <= f[n]
  BY <1>3, <1>7 DEF S
<1> QED BY <1>1, <1>2, <1>8

-----------------------------------------------------------------------------
(* Levels.                                                                  *)

\* A level grows with the score and with lower limits.
LEMMA LevelMonotone ==
  ASSUME NEW l \in [1 .. 4 -> Nat], NEW m \in [1 .. 4 -> Nat], \A i \in 1 .. 4 : m[i] <= l[i],
         NEW s \in Nat, NEW t \in Nat, s <= t
  PROVE  /\ LevelFor(l, s) <= LevelFor(m, t)
         /\ LevelFor(l, s) \in ThreatLevel
<1> DEFINE A == {i \in DOMAIN l : s >= l[i]}
           B == {i \in DOMAIN m : t >= m[i]}
<1>1. A \subseteq B /\ A \subseteq 1 .. 4 /\ B \subseteq 1 .. 4
  OBVIOUS
<1>2. IsFiniteSet(1 .. 4) /\ Cardinality(1 .. 4) = 4
  <2>1. PICK a \in Int, b \in Int : a = 1 /\ b = 4
    OBVIOUS
  <2>2. IsFiniteSet(a .. b) /\ Cardinality(a .. b) = IF a > b THEN 0 ELSE b - a + 1
    BY FS_Interval
  <2> QED BY <2>1, <2>2
<1>3. IsFiniteSet(B) /\ Cardinality(A) \in Nat /\ Cardinality(B) \in Nat
  BY <1>1, <1>2, FS_Subset, FS_CardinalityType
<1>4. Cardinality(A) <= Cardinality(B) /\ Cardinality(A) <= 4
  BY <1>1, <1>2, <1>3, FS_Subset
<1> QED BY <1>3, <1>4 DEF LevelFor, ThreatLevel

LEMMA NoScoreNoLevel == LevelFor(Thresholds, 0) = 1
<1>1. {i \in DOMAIN Thresholds : 0 >= Thresholds[i]} = {}
  BY ThreatConstants
<1> QED BY <1>1, FS_EmptySet DEF LevelFor

LEMMA NewLevelFits ==
  ASSUME NEW s \in Nat, NEW o \in 0 .. 5, NEW l \in ThreatLevel
  PROVE  /\ NewLevel(s, o, l) \in ThreatLevel
         /\ o = 0 => LevelFor(Thresholds, s) <= NewLevel(s, o, l)
         /\ o = 0 /\ LevelFor(Thresholds, s) <= l => NewLevel(s, o, l) <= l
<1>1. /\ LevelFor(Thresholds, s) <= LevelFor(Released, s)
      /\ LevelFor(Thresholds, s) \in ThreatLevel /\ LevelFor(Released, s) \in ThreatLevel
  BY LevelMonotone, ThreatConstants
<1> QED BY <1>1 DEF NewLevel, ThreatLevel

-----------------------------------------------------------------------------
(* Steps.                                                                   *)

LEMMA PruneType ==
  ASSUME NEW q \in Seq(ThreatEvent)
  PROVE  prune_old_events(q) \in Seq(ThreatEvent)
<1> DEFINE young == {i \in DOMAIN q : q[i].age <= Window}
           fresh == IF young = {} THEN <<>> ELSE SubSeq(q, Min(young), Len(q))
<1>1. young # {} => Min(young) \in 1 .. Len(q)
  <2> SUFFICES ASSUME young # {} PROVE Min(young) \in 1 .. Len(q)
    OBVIOUS
  <2>1. young \subseteq Nat /\ young \subseteq 1 .. Len(q)
    OBVIOUS
  <2>2. PICK m \in young : \A k \in young : m <= k
    BY <2>1, LeastNatural
  <2>3. Min(young) \in young
    BY <2>2 DEF Min
  <2> QED BY <2>1, <2>3
<1>2. fresh \in Seq(ThreatEvent)
  <2>1. CASE young = {}
    BY <2>1
  <2>2. CASE young # {}
    <3>1. PICK m \in 1 .. Len(q) : m = Min(young)
      BY <1>1, <2>2
    <3>2. SubSeq(q, m, Len(q)) \in Seq(ThreatEvent)
      BY SubSeqProperties
    <3> QED BY <2>2, <3>1, <3>2
  <2> QED BY <2>1, <2>2
<1> HIDE DEF fresh
<1>3. Len(fresh) > max_events => SubSeq(fresh, Len(fresh) - max_events + 1, Len(fresh)) \in Seq(ThreatEvent)
  BY <1>2, ThreatConstants
<1> QED BY <1>2, <1>3 DEF prune_old_events, fresh

\* Without an override the level is at least the one the score calls for.
LevelKept == manual_override = 0 => LevelFor(Thresholds, compute_score(events)) <= current_level

AssessorInv == ThreatTypeOK /\ LevelKept

LEMMA RecomputeFits ==
  ASSUME ThreatTypeOK, recompute_level, events' \in Seq(ThreatEvent), manual_override' \in 0 .. 5
  PROVE  /\ current_level' \in ThreatLevel /\ logged' \in ThreatLevel
         /\ LevelKept'
<1>1. compute_score(events') \in Nat /\ current_level \in ThreatLevel /\ logged \in ThreatLevel
  BY ScoreType DEF ThreatTypeOK
<1>2. /\ current_level' = NewLevel(compute_score(events'), manual_override', current_level)
      /\ logged' = IF current_level' # current_level THEN current_level' ELSE logged
  BY DEF recompute_level
<1>3. /\ current_level' \in ThreatLevel
      /\ manual_override' = 0 => LevelFor(Thresholds, compute_score(events')) <= current_level'
  BY <1>1, <1>2, NewLevelFits
<1>4. LevelKept'
  BY <1>3 DEF LevelKept, compute_score, LevelFor, Weight
<1> QED BY <1>1, <1>2, <1>3, <1>4

\* A minute later every event weighs as much or less.
LEMMA TickFades ==
  ASSUME ThreatTypeOK, ThreatTick
  PROVE  events' \in Seq(ThreatEvent) /\ compute_score(events') <= compute_score(events)
<1>1. events \in Seq(ThreatEvent) /\ DOMAIN events = 1 .. Len(events) /\ Len(events) \in Nat
  BY DEF ThreatTypeOK
<1> DEFINE older(e) == [e EXCEPT !.age = Min({@ + 1, MaxEventAge})]
<1>2. ASSUME NEW e \in ThreatEvent
      PROVE  older(e) \in ThreatEvent
             /\ Decayed(older(e).severity, older(e).age) <= Decayed(e.severity, e.age)
  <2>1. e.age \in 0 .. MaxEventAge /\ e.severity \in Severity /\ MaxEventAge \in Nat
    BY ThreatConstants DEF ThreatEvent
  <2>2. Min({e.age + 1, MaxEventAge}) = IF e.age + 1 <= MaxEventAge THEN e.age + 1 ELSE MaxEventAge
    BY <2>1 DEF Min
  <2>3. /\ older(e) \in ThreatEvent /\ older(e).severity = e.severity
        /\ older(e).age = IF e.age + 1 <= MaxEventAge THEN e.age + 1 ELSE MaxEventAge
    BY <2>1, <2>2 DEF ThreatEvent
  <2>4. CASE e.age + 1 <= MaxEventAge
    <3>1. e.age + 1 \in 1 .. MaxEventAge /\ (e.age + 1) - 1 = e.age
      BY <2>1, <2>4
    <3>2. Decayed(e.severity, e.age + 1) <= Decayed(e.severity, e.age)
      BY <2>1, <3>1, ThreatConstants
    <3> QED BY <2>3, <2>4, <3>2
  <2>5. CASE ~(e.age + 1 <= MaxEventAge)
    <3>1. older(e).age = e.age
      BY <2>1, <2>3, <2>5
    <3>2. Decayed(e.severity, e.age) \in Nat
      BY <2>1, ThreatConstants
    <3> QED BY <2>3, <3>1, <3>2
  <2> QED BY <2>4, <2>5
<1>3. events' = [i \in 1 .. Len(events) |-> older(events[i])]
  BY <1>1 DEF ThreatTick
<1> HIDE DEF older
<1>4. events' \in Seq(ThreatEvent) /\ Len(events') = Len(events)
  BY <1>1, <1>2, <1>3
<1>5. \A i \in 1 .. Len(events) : Weight(events', i) <= Weight(events, i)
  BY <1>1, <1>2, <1>3 DEF Weight
<1>6. PICK r \in Seq(ThreatEvent) : r = events'
  BY <1>4
<1> QED BY <1>1, <1>4, <1>5, <1>6, ScoreMonotone

LEMMA NoEventsNoScore ==
  ASSUME NEW q \in Seq(ThreatEvent), Len(q) = 0
  PROVE  compute_score(q) = 0
<1>1. PICK f : Summed(f, q, Len(q)) /\ compute_score(q) = f[Len(q)]
  BY ScoreIsSum
<1>2. f[0] = 0
  BY <1>1 DEF Summed
<1> QED BY <1>1, <1>2

LEMMA InitAssessor == ThreatInit => AssessorInv
<1> SUFFICES ASSUME ThreatInit PROVE AssessorInv
  OBVIOUS
<1>1. ThreatTypeOK
  BY DEF ThreatInit, ThreatTypeOK, ThreatLevel
<1>2. compute_score(events) = 0
  BY <1>1, NoEventsNoScore DEF ThreatInit, ThreatTypeOK
<1>3. LevelFor(Thresholds, 0) = 1
  BY NoScoreNoLevel
<1> QED BY <1>1, <1>2, <1>3 DEF AssessorInv, LevelKept, ThreatInit

LEMMA NextAssessor ==
  ASSUME AssessorInv, [ThreatNext]_threatVars
  PROVE  /\ AssessorInv'
         /\ recorded' = recorded /\ manual_override' = 0 /\ manual_override = 0 =>
              current_level' <= current_level
<1>1. /\ ThreatTypeOK /\ LevelKept /\ events \in Seq(ThreatEvent) /\ current_level \in 1 .. 5
      /\ manual_override \in 0 .. 5 /\ logged \in ThreatLevel /\ recorded \in Nat
  BY DEF AssessorInv, ThreatTypeOK, ThreatLevel
<1>2. ASSUME NEW kind \in Kind, NEW severity \in Severity, record_event(kind, severity)
      PROVE  AssessorInv' /\ recorded' # recorded
  <2>1. /\ recorded' = recorded + 1 /\ recompute_level
        /\ events' = prune_old_events(Append(events, Happened(severity)))
        /\ manual_override' \in {Min({current_level + 1, 5}), 0, manual_override}
    BY <1>2 DEF record_event
  <2>2. Min({current_level + 1, 5}) \in 0 .. 5
    BY <1>1 DEF Min
  <2>3. Happened(severity) \in ThreatEvent
    BY ThreatConstants DEF Happened, ThreatEvent
  <2>4. events' \in Seq(ThreatEvent)
    <3>1. Append(events, Happened(severity)) \in Seq(ThreatEvent)
      BY <1>1, <2>3, AppendProperties
    <3>2. PICK q \in Seq(ThreatEvent) : q = Append(events, Happened(severity))
      BY <3>1, Zenon
    <3>3. events' = prune_old_events(q)
      BY <2>1, <3>2, Zenon
    <3> QED BY <3>3, PruneType
  <2>5. events' \in Seq(ThreatEvent) /\ manual_override' \in 0 .. 5
    BY <1>1, <2>1, <2>2, <2>4
  <2>6. current_level' \in ThreatLevel /\ logged' \in ThreatLevel /\ LevelKept'
    BY <1>1, <2>1, <2>5, RecomputeFits
  <2> QED BY <1>1, <2>1, <2>5, <2>6 DEF AssessorInv, ThreatTypeOK
<1>3. ASSUME NEW s \in Severity, NEW t \in Severity, record_events(<<s, t>>)
      PROVE  AssessorInv' /\ recorded' # recorded
  <2> DEFINE new == [i \in DOMAIN <<s, t>> |-> Happened(<<s, t>>[i])]
  <2>1. /\ recorded' = recorded + 2 /\ recompute_level /\ manual_override' = manual_override
        /\ events' = prune_old_events(events \o new)
    BY <1>3 DEF record_events
  <2>2. Happened(s) \in ThreatEvent /\ Happened(t) \in ThreatEvent
    BY ThreatConstants DEF Happened, ThreatEvent
  <2>3. new \in Seq(ThreatEvent)
    <3>1. DOMAIN <<s, t>> = 1 .. 2
      OBVIOUS
    <3>2. new \in [1 .. 2 -> ThreatEvent]
      BY <2>2, <3>1
    <3> QED BY <3>2
  <2> HIDE DEF new
  <2>4. events' \in Seq(ThreatEvent)
    <3>1. events \o new \in Seq(ThreatEvent)
      BY <1>1, <2>3, ConcatProperties
    <3>2. PICK q \in Seq(ThreatEvent) : q = events \o new
      BY <3>1, Zenon
    <3>3. events' = prune_old_events(q)
      BY <2>1, <3>2, Zenon
    <3> QED BY <3>3, PruneType
  <2>5. current_level' \in ThreatLevel /\ logged' \in ThreatLevel /\ LevelKept'
    BY <1>1, <2>1, <2>4, RecomputeFits
  <2> QED BY <1>1, <2>1, <2>4, <2>5 DEF AssessorInv, ThreatTypeOK
<1>4. CASE reset
  <2>1. /\ events' = <<>> /\ current_level' = 1 /\ manual_override' = 0 /\ recorded' = recorded
        /\ logged' \in ThreatLevel
    BY <1>1, <1>4 DEF reset, LogReset, ThreatLevel
  <2>2. LevelFor(Thresholds, compute_score(events')) <= current_level'
    <3>1. events' \in Seq(ThreatEvent) /\ Len(events') = 0
      BY <2>1
    <3>2. compute_score(events') = 0
      BY <3>1, NoEventsNoScore
    <3>3. LevelFor(Thresholds, compute_score(events')) = 1
      BY <3>2, NoScoreNoLevel, Zenon
    <3> QED BY <2>1, <3>3
  <2>3. LevelKept'
    BY <2>2 DEF LevelKept, compute_score, LevelFor, Weight
  <2> QED BY <1>1, <2>1, <2>3 DEF AssessorInv, ThreatTypeOK, ThreatLevel
<1>5. CASE read_level
  <2>1. UNCHANGED <<events, manual_override, recorded>> /\ recompute_level
    BY <1>5 DEF read_level
  <2>2. current_level' \in ThreatLevel /\ logged' \in ThreatLevel /\ LevelKept'
    BY <1>1, <2>1, RecomputeFits
  <2>3. manual_override = 0 => current_level' <= current_level
    <3>1. compute_score(events) \in Nat /\ current_level \in ThreatLevel
      BY <1>1, ScoreType DEF ThreatLevel
    <3>2. current_level' = NewLevel(compute_score(events), manual_override, current_level)
      BY <2>1 DEF recompute_level
    <3> QED BY <1>1, <3>1, <3>2, NewLevelFits DEF LevelKept
  <2> QED BY <1>1, <2>1, <2>2, <2>3 DEF AssessorInv, ThreatTypeOK
<1>6. CASE ThreatTick
  <2>1. UNCHANGED <<current_level, manual_override, logged, recorded>>
    BY <1>6 DEF ThreatTick
  <2>2. events' \in Seq(ThreatEvent) /\ compute_score(events') <= compute_score(events)
    BY <1>1, <1>6, TickFades
  <2>3. compute_score(events') \in Nat /\ compute_score(events) \in Nat
    BY <1>1, <2>2, ScoreType
  <2>4. /\ LevelFor(Thresholds, compute_score(events')) <= LevelFor(Thresholds, compute_score(events))
        /\ LevelFor(Thresholds, compute_score(events)) \in ThreatLevel
        /\ LevelFor(Thresholds, compute_score(events')) \in ThreatLevel
    <3>1. PICK s \in Nat, t \in Nat : s = compute_score(events') /\ t = compute_score(events)
      BY <2>3
    <3>2. Thresholds \in [1 .. 4 -> Nat] /\ \A i \in 1 .. 4 : Thresholds[i] <= Thresholds[i]
      BY ThreatConstants
    <3>3. s <= t /\ t <= t
      BY <2>2, <3>1
    <3>4. /\ LevelFor(Thresholds, s) <= LevelFor(Thresholds, t)
          /\ LevelFor(Thresholds, s) \in ThreatLevel /\ LevelFor(Thresholds, t) \in ThreatLevel
      BY <3>2, <3>3, LevelMonotone
    <3> QED BY <3>1, <3>4
  <2>5. manual_override' = 0 => LevelFor(Thresholds, compute_score(events')) <= current_level'
    BY <1>1, <2>1, <2>4 DEF LevelKept, ThreatLevel
  <2>6. LevelKept'
    BY <2>5 DEF LevelKept, compute_score, LevelFor, Weight
  <2> QED BY <1>1, <2>1, <2>2, <2>6 DEF AssessorInv, ThreatTypeOK, ThreatLevel
<1>7. CASE UNCHANGED threatVars
  BY <1>1, <1>7 DEF threatVars, AssessorInv, ThreatTypeOK, LevelKept, compute_score, LevelFor, Weight,
                    ThreatLevel
<1> QED BY <1>2, <1>3, <1>4, <1>5, <1>6, <1>7 DEF ThreatNext

(* Without new events or overrides the level only comes down: for any        *)
(* thresholds above zero, any hysteresis and any decay, reading the level    *)
(* again and again while time passes never raises it.                        *)
THEOREM AssessorNeverOscillates == ThreatSpec => NoOscillation
<1>1. AssessorInv /\ [ThreatNext]_threatVars =>
        AssessorInv' /\ [recorded' = recorded /\ manual_override' = 0 /\ manual_override = 0 =>
                            current_level' <= current_level]_threatVars
  BY NextAssessor
<1> QED BY <1>1, InitAssessor, PTL DEF ThreatSpec, NoOscillation

(* The assessor's queue, level, override and log stay within their types.    *)
THEOREM ThreatTypeCorrect == ThreatSpec => []ThreatTypeOK
<1>1. AssessorInv => ThreatTypeOK
  BY DEF AssessorInv
<1> QED BY <1>1, InitAssessor, NextAssessor, PTL DEF ThreatSpec
=============================================================================
