--------------------------- MODULE ThreatAssessor ---------------------------
(***************************************************************************)
(* The threat assessor (citadel-keystore/src/threat.rs), behind the        *)
(* keystore's mutex: events that lose weight with age, the score they sum  *)
(* to, the level derived from it with hysteresis, and the operator's       *)
(* override.  Time is counted in minutes; an event holds its age instead of *)
(* its timestamp.                                                          *)
(***************************************************************************)
EXTENDS Naturals, Sequences, FiniteSets, FiniteSetsExt

CONSTANTS
  Severity,          \* severities of events
  Decayed(_, _),     \* severity * decay_rate ^ age
  Thresholds,        \* ThreatConfig.thresholds
  Released,          \* the same, times 1 - hysteresis
  Window,            \* ThreatConfig.window, in minutes
  max_events,        \* ThreatConfig.max_events
  MaxRecorded,       \* bound: events recorded
  MaxEventAge        \* bound: ages above it are not told apart

ASSUME ThreatConstants ==
  /\ Severity \subseteq Nat
  /\ Thresholds \in [1 .. 4 -> Nat \ {0}] /\ Released \in [1 .. 4 -> Nat]
  /\ \A i \in 1 .. 4 : Released[i] <= Thresholds[i]
  /\ \A i \in 1 .. 3 : Thresholds[i] <= Thresholds[i + 1] /\ Released[i] <= Released[i + 1]
  /\ Window \in Nat /\ max_events \in Nat /\ MaxRecorded \in Nat /\ MaxEventAge \in Nat
  /\ Window < MaxEventAge
  /\ \A s \in Severity, a \in 0 .. MaxEventAge : Decayed(s, a) \in Nat
  \* decay_rate is at most 1.
  /\ \A s \in Severity, a \in 1 .. MaxEventAge : Decayed(s, a) <= Decayed(s, a - 1)

\* Low to Critical.  An override of 0 is None.
ThreatLevel == 1 .. 5
Kind == {"signal", "ManualEscalation", "ManualDeescalation"}
ThreatEvent == [age : 0 .. MaxEventAge, severity : Severity]

VARIABLES
  events,           \* the rolling queue
  current_level,
  manual_override,
  logged,           \* the last entry of level_history, and of the audit log
  recorded          \* history: number of events recorded

threatVars == <<events, current_level, manual_override, logged, recorded>>

ThreatInit ==
  /\ events = <<>>
  /\ current_level = 1
  /\ manual_override = 0
  /\ logged = 1
  /\ recorded = 0

-----------------------------------------------------------------------------
(* Score and level                                                          *)

Weight(q, i) == Decayed(q[i].severity, q[i].age)
compute_score(q) ==
  LET score[i \in 0 .. Len(q)] == IF i = 0 THEN 0 ELSE score[i - 1] + Weight(q, i)
  IN  score[Len(q)]

LevelFor(limits, score) == 1 + Cardinality({i \in DOMAIN limits : score >= limits[i]})

\* Mutant: the two sets of thresholds are swapped.
SwappedBand(score, override, level) ==
  LET up == LevelFor(Released, score)
      down == LevelFor(Thresholds, score)
  IN  IF override # 0 THEN override
      ELSE IF up > level THEN up
      ELSE IF down < level THEN down ELSE level
\* recompute_level: fast up, slowly down, held in the band between.
NewLevel(score, override, level) ==
  LET raw_level == LevelFor(Thresholds, score)
      de_escalation_level == LevelFor(Released, score)
  IN  IF override # 0 THEN override
      ELSE IF raw_level > level THEN raw_level
      ELSE IF de_escalation_level < level THEN de_escalation_level
      ELSE level

recompute_level ==
  /\ current_level' = NewLevel(compute_score(events'), manual_override', current_level)
  /\ logged' = IF current_level' # current_level THEN current_level' ELSE logged

\* The front of the queue goes while it is older than the window, then while
\* the queue is too long.
prune_old_events(q) ==
  LET young == {i \in DOMAIN q : q[i].age <= Window}
      fresh == IF young = {} THEN <<>> ELSE SubSeq(q, Min(young), Len(q))
  IN  IF Len(fresh) > max_events
      THEN SubSeq(fresh, Len(fresh) - max_events + 1, Len(fresh))
      ELSE fresh

-----------------------------------------------------------------------------
(* Operations                                                               *)

Happened(severity) == [age |-> 0, severity |-> severity]

record_event(kind, severity) ==
  /\ recorded < MaxRecorded
  /\ recorded' = recorded + 1
  /\ manual_override' =
       CASE kind = "ManualEscalation" -> Min({current_level + 1, 5})
         [] kind = "ManualDeescalation" -> 0
         [] OTHER -> manual_override
  /\ events' = prune_old_events(Append(events, Happened(severity)))
  /\ recompute_level

\* A batch: manual kinds in it change no override.
record_events(severities) ==
  /\ recorded + Len(severities) <= MaxRecorded
  /\ recorded' = recorded + Len(severities)
  /\ events' = prune_old_events(events \o [i \in DOMAIN severities |-> Happened(severities[i])])
  /\ UNCHANGED manual_override
  /\ recompute_level

LogReset == logged' = IF current_level # 1 THEN 1 ELSE logged

reset ==
  /\ events' = <<>>
  /\ manual_override' = 0
  /\ current_level' = 1
  /\ LogReset
  /\ UNCHANGED recorded

\* Mutant: the stored level is returned as it is.
read_stored == UNCHANGED threatVars
\* Every reader of the level: the policy of an operation, the sweep, the
\* dashboard.
read_level ==
  /\ UNCHANGED <<events, manual_override, recorded>>
  /\ recompute_level

ThreatTick ==
  /\ events' = [i \in DOMAIN events |-> [events[i] EXCEPT !.age = Min({@ + 1, MaxEventAge})]]
  /\ UNCHANGED <<current_level, manual_override, logged, recorded>>

ThreatNext ==
  \/ \E kind \in Kind, severity \in Severity : record_event(kind, severity)
  \/ \E s, t \in Severity : record_events(<<s, t>>)
  \/ reset
  \/ read_level
  \/ ThreatTick

ThreatSpec == ThreatInit /\ [][ThreatNext]_threatVars

\* The clock runs, and the level is read by every encryption and every minute by
\* the expiry sweep.
ThreatFairness == WF_threatVars(ThreatTick) /\ WF_threatVars(read_level)
ThreatFairSpec == ThreatSpec /\ ThreatFairness

-----------------------------------------------------------------------------
(* Properties                                                               *)

ThreatTypeOK ==
  /\ events \in Seq(ThreatEvent)
  /\ current_level \in ThreatLevel
  /\ manual_override \in 0 .. 5
  /\ logged \in ThreatLevel
  /\ recorded \in Nat

\* Without new events or overrides the level only comes down: no oscillation
\* around a threshold.
NoOscillation ==
  [][recorded' = recorded /\ manual_override' = 0 /\ manual_override = 0 =>
       current_level' <= current_level]_threatVars

\* Once events stop, an assessor without override always returns to Low: the
\* hysteresis band never holds a level for good.
ReturnsToLow == <>[](current_level = 1 \/ manual_override # 0)
=============================================================================
