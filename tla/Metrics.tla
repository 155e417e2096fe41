------------------------------ MODULE Metrics ------------------------------
(***************************************************************************)
(* From the snapshots of an event to the input of its score: the rules of  *)
(* radar/feature_registry.py, aggregate_metrics and to_score_input of      *)
(* radar/metrics.py, and the two places of radar/processor.py that score:  *)
(* an observation that arrived, and an event nobody reported on.           *)
(*                                                                         *)
(* A snapshot is [source, group, family, platform, at, verifiable,         *)
(* authority, text, growth], growth giving each counter that was also seen *)
(* before the score of its growth and its robust z: a first value only     *)
(* seeds the baseline.                                                     *)
(***************************************************************************)
EXTENDS Scoring, FiniteSets, FiniteSetsExt, TLC

CONSTANTS
    Registry,     \* the features: what they count for, and how much, in thousandths
    FamilyOf      \* _platform_family: the family a platform belongs to

\* The behaviour features of an event type that carry weight.
Profile(type) ==
    {f \in Registry : type \in f.eventTypes /\ f.category = "behavior"
                        /\ f.role # "attention_only" /\ f.weight > 0}

Weight(features) == MapThenSumSet(LAMBDA f : f.weight, features)
Of(features, family) == {f \in features : f.platformFamily = family}
FamiliesOf(features) == {f.platformFamily : f \in features}

\* load_feature_registry refuses anything else.
ASSUME RegistryAssumption ==
    \A type \in EventType :
      /\ Weight(Profile(type)) = 1000
      /\ \A f, g \in Registry :
           /\ f.featureId = g.featureId => f = g
           /\ type \in f.eventTypes \cap g.eventTypes /\ f.category = "behavior"
                /\ g.category = "behavior" /\ f.inputMetric = g.inputMetric => f = g
      /\ \A f \in Profile(type) :
           /\ \A g \in Of(Profile(type), f.platformFamily) : g.familyCap = f.familyCap
           /\ Weight(Of(Profile(type), f.platformFamily)) <= f.familyCap

\* The widest window of any behaviour feature that is not about attention.
normal_behavior_delay_hours(type) ==
    LET windows == {f.delay : f \in {g \in Registry : type \in g.eventTypes
                                        /\ g.category = "behavior" /\ g.role # "attention_only"}}
    IN  [from |-> Min({w.from : w \in windows}), to |-> Max({w.to : w \in windows})]

-----------------------------------------------------------------------------
Average(values, n) == IF n = 0 THEN 0 ELSE values \div n

\* Where a metric has a scored sample: _growth of its snapshots.
Samples(type, snapshots, f) ==
    {s \in snapshots : f \in Profile(type) /\ s.family = "behavior" /\ s.verifiable
                         /\ f.inputMetric \in DOMAIN s.growth}

\* Owners and instants, not rows: one owner cannot repeat itself into evidence.
Scored(type, snapshots) ==
    {f \in Profile(type) :
       Cardinality({<<s.group, s.at>> : s \in Samples(type, snapshots, f)}) >= f.minimumSample}

FeatureScore(type, snapshots, f) ==
    LET on == Samples(type, snapshots, f)
    IN  Average(MapThenSumSet(LAMBDA s : s.growth[f.inputMetric].score, on), Cardinality(on))

\* The weighted score of the features of some roles; what is missing counts as 0.
fixed_profile_estimate(type, snapshots, roles) ==
    LET due == {f \in Profile(type) : f.role \in roles}
        known == due \cap Scored(type, snapshots)
        Contribution(family) ==
            MapThenSumSet(LAMBDA f : f.weight * FeatureScore(type, snapshots, f), Of(known, family))
        Cap(family) == (CHOOSE f \in Of(due, family) : TRUE).familyCap
    IN  Points(Average(MapThenSumSet(LAMBDA family : Smaller(Contribution(family), Cap(family) * 10000),
                                     FamiliesOf(known)),
                       Weight(due)))

Roles == {"primary_adoption", "primary_response", "secondary_intent"}

\* A feature with a sample is an observation, even if the sample is too small.
behavior_observed(type, snapshots) == \E f \in Profile(type) : Samples(type, snapshots, f) # {}

Shows(type, snapshots, role) ==
    \E f \in Scored(type, snapshots) : f.role = role /\ FeatureScore(type, snapshots, f) > 0

families(type, snapshots) ==
    ({s.family : s \in snapshots} \ {"behavior"})
      \cup (IF behavior_observed(type, snapshots) THEN {"behavior"} ELSE {})

\* Four families make 70 points, discussion and behaviour 15 more each; behaviour
\* that is observed in part counts in part.
coverage(type, snapshots) ==
    LET found == families(type, snapshots)
        known == Weight(Scored(type, snapshots))
    IN  Points(Cardinality(found) * 1750 + Cardinality(found \cap {"discussion", "behavior"}) * 1500
                 - IF "behavior" \in found THEN (3250 * (1000 - known)) \div 1000 ELSE 0)

Count(snapshots, field, v) == Cardinality({s \in snapshots : s[field] = v})
Values(snapshots, field) == {s[field] : s \in snapshots}

\* _effective_diversity: how far the shares are from one owner of everything.
_effective_diversity(snapshots, field) ==
    LET n == Cardinality(snapshots)
        values == Values(snapshots, field)
        k == Larger(2, Cardinality(values))
        squares == MapThenSumSet(LAMBDA v : Count(snapshots, field, v) * Count(snapshots, field, v), values)
    IN  IF n < 2 THEN 0 ELSE Points((10000 * k * (n * n - squares)) \div (n * n * (k - 1)))

diversity(snapshots) ==
    (60 * _effective_diversity(snapshots, "group") + 40 * _effective_diversity(snapshots, "platform")) \div 100

\* By how much the largest share of all, in percent, exceeds a quarter.
Excess(part, all, field) ==
    Max({0} \cup {(100 * Count(part, field, v)) \div Cardinality(all) - 25 : v \in Values(part, field)})

coordination(snapshots) ==
    Points(75 * Excess(snapshots, snapshots, "group")
             + 55 * Excess({s \in snapshots : s.text # ""}, snapshots, "text")
             + 45 * Excess(snapshots, snapshots, "at"))

\* How much of the growth happened on the platforms of one family, in percent.
concentration(type, snapshots) ==
    LET On(f, family) == {s \in Samples(type, snapshots, f) : FamilyOf[s.platform] = family}
        Growth(family) ==
            MapThenSumSet(LAMBDA f : Average(f.weight * MapThenSumSet(LAMBDA s : s.growth[f.inputMetric].score,
                                                                      On(f, family)),
                                             Cardinality(Samples(type, snapshots, f))),
                          Scored(type, snapshots))
        found == {FamilyOf[s.platform] : s \in snapshots}
        total == MapThenSumSet(Growth, found)
    IN  Average(100 * Max({Growth(family) : family \in found}), total)

\* The discussion counters that grew, each with its snapshot.
Discussed(snapshots) ==
    {<<s, metric>> \in {s \in snapshots : s.family = "discussion"}
                        \X {"comments", "replies", "mentions", "score"} :
       metric \in DOMAIN s.growth}

\* Eight points for each owner who discusses, and a share of how much it grew.
attention(snapshots) ==
    Points(800 * Cardinality({s.group : s \in {t \in snapshots : t.family = "discussion"}})
             + (55 * Average(MapThenSumSet(LAMBDA x : x[1].growth[x[2]].score, Discussed(snapshots)),
                             Cardinality(Discussed(snapshots)))) \div 100)

max_anomaly_z(type, snapshots) ==
    LET seen == Discussed(snapshots)
                  \cup UNION {{<<s, f.inputMetric>> : s \in Samples(type, snapshots, f)} :
                             f \in Profile(type)}
    IN  IF seen = {} THEN 0 ELSE Max({x[1].growth[x[2]].z : x \in seen})

NothingObserved ==
    [attention |-> 0, behavior |-> 0, diversity |-> 0, authority |-> 0, coordination_risk |-> 0,
     coverage |-> 0, verifiability |-> 0, platform_concentration |-> 100,
     independent_signal_families |-> 0, independent_platform_families |-> 0,
     independent_ownership_entities |-> 0, behavior_observed |-> FALSE,
     primary_adoption_observed |-> FALSE, primary_response_observed |-> FALSE,
     primary_adoption_score |-> 0, primary_response_score |-> 0, official_source_present |-> FALSE,
     research_source_present |-> FALSE, discussion_source_present |-> FALSE, anomaly_robust_z |-> 0]

aggregate_metrics(type, snapshots) ==
    LET n == Cardinality(snapshots)
        Present(family) == \E s \in snapshots : s.family = family
        Estimate(roles) == fixed_profile_estimate(type, snapshots, roles)
    IN  IF snapshots = {} THEN NothingObserved ELSE
        [attention |-> attention(snapshots), behavior |-> Estimate(Roles),
         diversity |-> diversity(snapshots), coordination_risk |-> coordination(snapshots),
         authority |-> Points(MapThenSumSet(LAMBDA s : s.authority, snapshots) \div n),
         verifiability |-> (10000 * Cardinality({s \in snapshots : s.verifiable})) \div n,
         coverage |-> coverage(type, snapshots),
         platform_concentration |-> concentration(type, snapshots),
         independent_signal_families |-> Cardinality(families(type, snapshots)),
         independent_platform_families |-> Cardinality({FamilyOf[s.platform] : s \in snapshots}),
         independent_ownership_entities |-> Cardinality({s.group : s \in snapshots}),
         behavior_observed |-> behavior_observed(type, snapshots),
         primary_adoption_observed |-> Shows(type, snapshots, "primary_adoption"),
         primary_response_observed |-> Shows(type, snapshots, "primary_response"),
         primary_adoption_score |-> Estimate({"primary_adoption"}),
         primary_response_score |-> Estimate({"primary_response"}),
         official_source_present |-> Present("official"),
         research_source_present |-> Present("research"),
         discussion_source_present |-> Present("discussion"),
         anomaly_robust_z |-> max_anomaly_z(type, snapshots)]

-----------------------------------------------------------------------------
(* The two ways to a score.                                                *)

\* Behaviour that does not apply is no gap in the coverage.
to_score_input(type, metrics, cycle) ==
    [event_type |-> type, cluster_confidence |-> metrics.diversity,
     coverage |-> IF ~cycle.behavior_applicable /\ ~metrics.behavior_observed
                  THEN Points(metrics.coverage + 3250) ELSE metrics.coverage]
      @@ cycle @@ metrics

\* Behaviour that is seen overrules a mark that it does not apply.
Applies(metrics, event) == metrics.behavior_observed \/ ~event.not_applicable

Last(points, k) == SubSeq(points, Larger(1, Len(points) - k), Len(points))

\* _process_one: what has just been collected, after the points of earlier buckets.
\* samples is the length of the longest baseline history.
ScoredInput(event, snapshots, at, samples) ==
    LET metrics == aggregate_metrics(event.event_type, snapshots)
        point == [at |-> at, attention |-> metrics.attention, behavior |-> metrics.behavior]
        points == Append(SelectSeq(event.timeline, LAMBDA p : p.at < at), point)
        growth == _growth_streak(Last(points, 3))
    IN  to_score_input(event.event_type, metrics,
          [previous_state |-> event.state, official_source_led |-> event.official_source_led,
           consecutive_joint_growth |-> growth,
           consecutive_gap_growth |-> _gap_streak(event.event_type, Last(points, 2)),
           consecutive_decline |-> _decline_streak(Last(points, 3)),
           inactive_hours |-> _inactive_hours(points, event.first_seen),
           baseline_maturity |-> clamp((samples * 10000) \div 28, 1000, 10000),
           temporal_stability |-> clamp((growth * 10000) \div 3, 2000, 10000),
           behavior_applicable |-> Applies(metrics, event)])

\* From full to nothing between the start of cooling and the end of the window.
Decayed(value, type, inactive) ==
    LET span == ACTIVE_WINDOW_HOURS[type] - COOLING_START_HOURS[type]
    IN  (value * clamp(ACTIVE_WINDOW_HOURS[type] - inactive, 0, span)) \div span

\* The point that the last signal made, or the first there is.
BasePoint(timeline, at) ==
    LET upto == SelectSeq(timeline, LAMBDA p : p.at <= at)
    IN  IF upto = <<>> THEN timeline[1] ELSE upto[Len(upto)]

\* Whether refresh_time_driven looks at the event: quiet, and not yet in this bucket.
FallsQuiet(event, signal, at) ==
    /\ \A i \in DOMAIN event.timeline : event.timeline[i].at < at
    /\ at - signal >= COOLING_START_HOURS[event.event_type]

\* _refresh_quiet_event: the last signal decays, and nothing grows.
RefreshedInput(event, snapshots, signal, at) ==
    LET metrics == aggregate_metrics(event.event_type, snapshots)
        base == BasePoint(event.timeline, signal)
        point == [at |-> at, attention |-> Decayed(base.attention, event.event_type, at - signal),
                  behavior |-> Decayed(base.behavior, event.event_type, at - signal)]
        points == Append(event.timeline, point)
    IN  [attention |-> point.attention, behavior |-> point.behavior, coverage |-> event.coverage,
         cluster_confidence |-> event.diversity, anomaly_robust_z |-> 0]
          @@ to_score_input(event.event_type, metrics,
               [previous_state |-> event.state, official_source_led |-> event.official_source_led,
                consecutive_joint_growth |-> 0, consecutive_gap_growth |-> 0,
                consecutive_decline |-> _decline_streak(Last(points, 3)),
                inactive_hours |-> at - signal,
                baseline_maturity |-> Larger(1000, event.evidence_score),
                temporal_stability |-> Larger(2000, event.evidence_score),
                behavior_applicable |-> Applies(metrics, event)])

=============================================================================
