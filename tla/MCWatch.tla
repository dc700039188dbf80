------------------------------ MODULE MCWatch ------------------------------
(***************************************************************************)
(* Small instances of what watches the keystore: the threat assessor, the  *)
(* adaptive policy engine and the audit log.  Each is checked against every*)
(* behaviour of the parts it reads (the policy engine against any level at *)
(* any time): the initial state picks the one that moves, and the others   *)
(* stay as they are.                                                       *)
(***************************************************************************)
EXTENDS ThreatAssessor, AdaptivePolicy, AuditChain

VARIABLE watcher

watchVars == <<watcher, threatVars, policyVars, vars>>

\* Half the weight is lost every minute.
Halved(severity, age) == severity \div (2 ^ age)
SomeThresholds == <<4, 8, 12, 16>>
\* A hysteresis of a quarter.
SomeReleased == <<3, 6, 9, 12>>

Age(n) == [kind |-> "Age", limit |-> n]
UsageCount(n) == [kind |-> "UsageCount", limit |-> n]
Pol(triggers, grace, lifetime, usage, auto, enforce) ==
  [rotation_triggers |-> triggers, rotation_grace_period |-> grace,
   max_lifetime |-> lifetime, max_usage_count |-> usage,
   auto_rotate |-> auto, enforce_cryptoperiod |-> enforce]

NoPolicy == Pol(<<>>, 1, None, None, FALSE, TRUE)

\* The shape of the default policies with and without enforcement, policies with
\* a usage limit above and below its floor, a lifetime below its floor, several
\* triggers, and none.
SomePolicies ==
  { Pol(<<Age(8)>>, 2, 10, None, FALSE, TRUE),
    Pol(<<Age(8)>>, 2, 10, None, TRUE, FALSE),
    Pol(<<UsageCount(1), Age(4)>>, 1, None, 4, TRUE, FALSE),
    Pol(<<Age(6), Age(2)>>, 1, 3, 1, FALSE, TRUE),
    NoPolicy }

WatchInit ==
  /\ watcher \in {"threat", "policy", "audit"}
  /\ ThreatInit /\ PolicyInit /\ Init
  /\ watcher # "policy" => policy = NoPolicy

ThreatMoves(A) == watcher = "threat" /\ A /\ UNCHANGED <<watcher, policyVars, vars>>
PolicyMoves(A) == watcher = "policy" /\ A /\ UNCHANGED <<watcher, threatVars, vars>>

WatchNext ==
  \/ ThreatMoves(ThreatNext)
  \/ PolicyMoves(PolicyNext)
  \/ watcher = "audit" /\ Next /\ UNCHANGED <<watcher, threatVars, policyVars>>

\* The fairness of ThreatFairSpec and PolicyFairSpec.
WatchSpec ==
  /\ WatchInit
  /\ [][WatchNext]_watchVars
  /\ WF_watchVars(ThreatMoves(ThreatTick)) /\ WF_watchVars(ThreatMoves(read_level))
  /\ WF_watchVars(PolicyMoves(PolicyTick)) /\ WF_watchVars(PolicyMoves(expire_due_keys))
=============================================================================
