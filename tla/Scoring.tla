------------------------------ MODULE Scoring ------------------------------
(***************************************************************************)
(* The score of one event: score_event of radar/scoring.py, the streaks    *)
(* and the label confirmation that radar/processor.py puts around it, and  *)
(* the decay of an event that nobody reports on any more.  They are pure   *)
(* functions: what they are applied to, and when, is ScoringPipeline's.    *)
(*                                                                         *)
(* A score, a robust z and a share are integers in hundredths of a point,  *)
(* the grain to which the code rounds what it stores; hours are integers.  *)
(* A point of a timeline is [at, attention, behavior], and the timelines   *)
(* here end with the point that is being scored.                           *)
(***************************************************************************)
EXTENDS Integers, Sequences

EventType == {"model_release", "developer_tool_release", "research_or_benchmark",
              "official_product_release", "security_incident"}

LifecycleState == {"insufficient_data", "detected", "emerging", "accelerating",
                   "established", "cooling", "dormant", "noise"}
Strong == {"accelerating", "established"}

StructureLabel == {"cross_platform_confirmed", "adoption_confirmed", "response_confirmed",
                   "platform_concentrated", "coordination_risk", "attention_behavior_gap",
                   "expected_behavior_lag", "official_source_led", "low_source_diversity",
                   "reactivated"}

EvidenceStrength == {"low", "medium", "high"}

EVENT_BEHAVIOR_RATIO ==   \* percent
    [model_release |-> 78, developer_tool_release |-> 72, research_or_benchmark |-> 50,
     official_product_release |-> 65, security_incident |-> 84]

CONFIRMATION_HOURS ==
    [model_release |-> 12, developer_tool_release |-> 12, research_or_benchmark |-> 24,
     official_product_release |-> 24, security_incident |-> 6]

DORMANCY_HOURS ==
    [model_release |-> 24, developer_tool_release |-> 24, research_or_benchmark |-> 72,
     official_product_release |-> 36, security_incident |-> 12]

COOLING_START_HOURS ==
    [model_release |-> 6, developer_tool_release |-> 6, research_or_benchmark |-> 24,
     official_product_release |-> 12, security_incident |-> 3]

ACTIVE_WINDOW_HOURS ==
    [model_release |-> 24, developer_tool_release |-> 48, research_or_benchmark |-> 168,
     official_product_release |-> 72, security_incident |-> 48]

\* From the frozen feature registry: when behaviour usually follows attention.
NORMAL_BEHAVIOR_DELAY_HOURS ==
    [model_release |-> [from |-> 0, to |-> 24], developer_tool_release |-> [from |-> 0, to |-> 48],
     research_or_benchmark |-> [from |-> 6, to |-> 168],
     official_product_release |-> [from |-> 1, to |-> 72],
     security_incident |-> [from |-> 0, to |-> 48]]

Smaller(a, b) == IF a < b THEN a ELSE b
Larger(a, b) == IF a < b THEN b ELSE a
Scale == 0..10000
clamp(v, low, high) == Smaller(high, Larger(low, v))
Points(v) == clamp(v, 0, 10000)

\* No caller gives a sample reliability, a gap z or reactivated: they are derived.
ScoreInput ==
    [event_type : EventType, previous_state : LifecycleState,
     attention : Int, behavior : Int, diversity : Int, authority : Int, verifiability : Int,
     coordination_risk : Int, coverage : Int, baseline_maturity : Int, temporal_stability : Int,
     cluster_confidence : Int, platform_concentration : Int, anomaly_robust_z : Int,
     primary_adoption_score : Int, primary_response_score : Int,
     independent_signal_families : Nat, independent_platform_families : Nat,
     independent_ownership_entities : Nat, consecutive_joint_growth : Nat,
     consecutive_gap_growth : Nat, consecutive_decline : Nat, inactive_hours : Nat,
     behavior_applicable : BOOLEAN, behavior_observed : BOOLEAN,
     primary_adoption_observed : BOOLEAN, primary_response_observed : BOOLEAN,
     official_source_led : BOOLEAN, official_source_present : BOOLEAN,
     research_source_present : BOOLEAN, discussion_source_present : BOOLEAN]

-----------------------------------------------------------------------------
(* Evidence.                                                               *)

\* A fifth of what is due counts from the start of the delay window on.
expected_behavior(type, attention, hours) ==
    LET delay == NORMAL_BEHAVIOR_DELAY_HOURS[type]
        duration == Larger(1, delay.to - delay.from)
        due == attention * EVENT_BEHAVIOR_RATIO[type]
    IN  IF hours < delay.to
        THEN Points((due * clamp(5 * (hours - delay.from), duration, 5 * duration))
                        \div (500 * duration))
        ELSE Points(due \div 100)

minimum_evidence_combination_met(d) ==
    CASE d.event_type = "model_release" ->
           d.official_source_present /\ d.discussion_source_present /\ d.behavior_observed
      [] d.event_type = "developer_tool_release" ->
           d.official_source_present /\ d.discussion_source_present /\ d.primary_adoption_observed
      [] d.event_type = "research_or_benchmark" ->
           d.research_source_present /\ d.discussion_source_present
      [] d.event_type = "official_product_release" ->
           d.official_source_present /\ d.discussion_source_present
      [] OTHER ->
           d.official_source_present /\ (d.discussion_source_present \/ d.primary_response_observed)

evidence_strength(coverage, reliability, maturity, confidence, stability) ==
    Points((30 * Points(coverage) + 20 * Points(reliability) + 20 * Points(maturity)
              + 15 * Points(confidence) + 15 * Points(stability)) \div 100)

strength_tier(value) ==
    IF value < 4500 THEN "low" ELSE IF value < 7000 THEN "medium" ELSE "high"

sample_reliability(d) == (60 * Points(d.verifiability) + 40 * Points(d.authority)) \div 100

\* What is missing is not weighted away: few families cannot make strong evidence.
strength(d) ==
    Smaller(evidence_strength(d.coverage, sample_reliability(d), d.baseline_maturity,
                             d.cluster_confidence, d.temporal_stability),
           Smaller(Points(d.coverage) + 1500, d.independent_signal_families * 2500 + 1000))

uncertainty(d) ==
    Points(10000 - strength(d) + Larger(0, 4 - d.independent_signal_families) * 400)

gap_residual(d, hours) ==
    expected_behavior(d.event_type, Points(d.attention), hours) - Points(d.behavior)

Concentrated(d) == d.platform_concentration >= 80
Behaves(d) == d.behavior_applicable /\ d.behavior_observed

cross_platform(d) ==
    /\ d.independent_platform_families >= 2
    /\ d.independent_ownership_entities >= 2
    /\ strength(d) >= 4500

adopted(d) ==
    /\ Behaves(d) /\ d.primary_adoption_observed /\ ~Concentrated(d)
    /\ Points(d.primary_adoption_score) >= 6500
    /\ d.consecutive_joint_growth >= 2

responded(d) ==
    /\ Behaves(d) /\ d.primary_response_observed /\ d.event_type = "security_incident"
    /\ Points(d.primary_response_score) >= 6500
    /\ d.consecutive_joint_growth >= 2

\* Still within the window in which behaviour lags behind attention.
normal_delay(d, hours) ==
    /\ hours < NORMAL_BEHAVIOR_DELAY_HOURS[d.event_type].to
    /\ (Points(d.attention) * EVENT_BEHAVIOR_RATIO[d.event_type]) \div 100 - Points(d.behavior) >= 2500
    /\ d.consecutive_gap_growth >= 2

\* Without a z of its own the gap counts 12.5 points as one.
gap_is_material(d, hours) ==
    /\ Behaves(d) /\ strength(d) >= 4500
    /\ gap_residual(d, hours) >= 2500
    /\ d.consecutive_gap_growth >= 2

Anomalous(d) == d.anomaly_robust_z >= 200

reactivated(d) == d.previous_state = "dormant" /\ Anomalous(d) /\ strength(d) >= 4500

labels(d, hours) ==
    {l \in StructureLabel :
       \/ l = "platform_concentrated" /\ Concentrated(d) /\ Points(d.behavior) >= 6000
       \/ l = "coordination_risk" /\ Points(d.coordination_risk) >= 6000
       \/ l = "low_source_diversity" /\ Points(d.diversity) < 4500
       \/ l = "official_source_led" /\ d.official_source_led
       \/ l = "expected_behavior_lag" /\ normal_delay(d, hours)
       \/ l = "attention_behavior_gap" /\ gap_is_material(d, hours) /\ ~normal_delay(d, hours)
       \/ l = "cross_platform_confirmed" /\ cross_platform(d)
       \/ l = "adoption_confirmed" /\ adopted(d)
       \/ l = "response_confirmed" /\ responded(d)
       \/ l = "reactivated" /\ reactivated(d)}

-----------------------------------------------------------------------------
(* The lifecycle: the first condition that applies decides.                *)

Insufficient(d) ==
    \/ Points(d.coverage) < 4000
    \/ d.independent_signal_families < 2
    \/ ~minimum_evidence_combination_met(d)

FallsDormant(d) ==
    /\ d.previous_state \in {"cooling", "dormant"}
    /\ d.inactive_hours >= DORMANCY_HOURS[d.event_type]

StartsCooling(d) == d.consecutive_decline >= 2 /\ d.previous_state \in Strong

\* Which behaviour an event of its type needs before it is established.
BehavesAsItsType(d) ==
    \/ /\ d.event_type \in {"research_or_benchmark", "official_product_release"}
       /\ ~d.behavior_applicable
    \/ /\ d.event_type = "security_incident"
       /\ Larger(Points(d.attention), Points(d.behavior)) >= 7000
    \/ Behaves(d) /\ Points(d.behavior) >= 6500 /\ ~Concentrated(d)

Confirmed(d, hours) ==
    /\ hours >= CONFIRMATION_HOURS[d.event_type]
    /\ strength(d) >= 7000 /\ cross_platform(d)
    /\ Points(d.attention) >= 7000
    /\ BehavesAsItsType(d)

Accelerates(d) ==
    /\ Points(d.attention) >= 6500 \/ (d.behavior_observed /\ Points(d.behavior) >= 6500)
    /\ strength(d) >= 4500
    /\ d.consecutive_joint_growth >= 2

Level(d) == Larger(Points(d.attention), Points(d.behavior))

\* An event that cools down and stirs again.
Stirred(d) ==
    IF ~Anomalous(d) THEN "cooling"
    ELSE IF d.consecutive_joint_growth >= 2 THEN "accelerating" ELSE "emerging"

\* An event that has no history to live up to.
OnItsMerits(d, hours) ==
    CASE Confirmed(d, hours) -> "established"
      [] ~Confirmed(d, hours) /\ Accelerates(d) -> "accelerating"
      [] ~Confirmed(d, hours) /\ ~Accelerates(d) ->
           IF Anomalous(d) /\ Level(d) >= 4500 /\ strength(d) >= 4500 THEN "emerging"
           ELSE IF Level(d) >= 3000 THEN "detected" ELSE "noise"

\* The state before the check for diversity.
raw_state(d, hours) ==
    IF Insufficient(d) THEN "insufficient_data"
    ELSE IF reactivated(d) THEN "emerging"
    ELSE IF FallsDormant(d) THEN "dormant"
    ELSE IF StartsCooling(d) THEN "cooling"
    ELSE IF d.previous_state = "cooling" THEN Stirred(d)
    ELSE IF d.previous_state = "established" THEN "established"
    ELSE OnItsMerits(d, hours)

\* A strong state without independent sources is taken back.
lifecycle_state(d, hours) ==
    IF raw_state(d, hours) \in Strong /\ ~cross_platform(d)
    THEN IF Anomalous(d) /\ strength(d) >= 4500 THEN "emerging" ELSE "detected"
    ELSE raw_state(d, hours)

score_event(d, hours) ==
    [state |-> lifecycle_state(d, hours), labels |-> labels(d, hours),
     evidence_strength |-> strength(d), uncertainty |-> uncertainty(d),
     gap_residual |-> gap_residual(d, hours)]

-----------------------------------------------------------------------------
(* What the processor derives from the timeline.                           *)

\* How many of the last steps, up to the nth point, are among those.
Streak(n, steps) ==
    CHOOSE k \in 0..(n - 1) : (n - k + 1)..n \subseteq steps /\ n - k \notin steps

Total(p) == p.attention + p.behavior
Steps(points) == 2..Len(points)

_growth_streak(points) ==
    LET Grows(p, q) == /\ q.attention >= p.attention /\ q.behavior >= p.behavior
                       /\ q.attention > p.attention \/ q.behavior > p.behavior
    IN  Streak(Len(points), {i \in Steps(points) : Grows(points[i - 1], points[i])})

_decline_streak(points) ==
    Streak(Len(points), {i \in Steps(points) : Total(points[i]) < Total(points[i - 1])})

\* Every gap is taken as if the event were six hours old.
_gap_streak(type, points) ==
    LET Gap(p) == expected_behavior(type, p.attention, 6) - p.behavior
    IN  Streak(Len(points), {i \in Steps(points) : Gap(points[i]) > Gap(points[i - 1])})

\* Since the last growth; a first point above nothing counts as one.
_inactive_hours(points, first_seen) ==
    LET n == Len(points)
        Growth == {i \in 2..n : Total(points[i]) > Total(points[i - 1])}
        start == IF Total(points[1]) > 0 THEN points[1].at ELSE first_seen
        last == IF Growth = {} THEN start
                ELSE points[CHOOSE i \in Growth : \A j \in Growth : j <= i].at
    IN  Larger(0, points[n].at - last)

\* A label comes and goes only when two score cycles agree: previous_raw holds
\* what the last run of an earlier bucket raised, or nothing if there was none.
_stable_labels(active, raw, previous_raw) ==
    {l \in raw : l \in active \/ l = "reactivated" \/ l \in UNION previous_raw}
      \cup {l \in active \ raw : previous_raw = {} \/ l \in UNION previous_raw}

=============================================================================
