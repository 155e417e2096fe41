---------------------------- MODULE ScoringCases ----------------------------
(***************************************************************************)
(* What the tests of the repository expect of the scores, as assumptions   *)
(* that TLC evaluates; the cases are those of test_scoring.py and          *)
(* test_operational_rules.py.  The features are the frozen ones of         *)
(* config/feature_registry.json.                                           *)
(***************************************************************************)
EXTENDS Metrics

Feature(type, metric, role, family, weight, cap) ==
    [featureId |-> <<type, metric>>, eventTypes |-> {type}, category |-> "behavior",
     inputMetric |-> metric, role |-> role, platformFamily |-> family, weight |-> weight,
     familyCap |-> cap, minimumSample |-> 5, delay |-> NORMAL_BEHAVIOR_DELAY_HOURS[type]]

\* A feature that is the only one of its family, and one that is only shown.
Primary(type, role, metric, weight) == Feature(type, metric, role, metric, weight, weight)
Display(type, role, metric) == Feature(type, metric, role, "display_only", 0, 0)

FrozenRegistry ==
    LET m == "model_release" t == "developer_tool_release" r == "research_or_benchmark"
        p == "official_product_release" s == "security_incident"
        adopts == "primary_adoption" responds == "primary_response" intent == "secondary_intent"
    IN  {Primary(m, adopts, "downloads", 350), Primary(m, adopts, "repository_adoption", 300),
         Primary(m, adopts, "derivatives", 200), Primary(m, adopts, "contributors", 150),
         Display(m, intent, "likes"), Display(m, intent, "forks"),
         Feature(t, "stars", intent, "repository_intent", 125, 250),
         Feature(t, "forks", intent, "repository_intent", 125, 250),
         Primary(t, adopts, "installs", 300), Primary(t, adopts, "dependent_repositories", 250),
         Primary(t, adopts, "contributors", 200),
         Primary(r, adopts, "reproductions", 350), Primary(r, adopts, "dependencies", 300),
         Primary(r, adopts, "benchmark_reuse", 200), Primary(r, intent, "citations", 150),
         Display(r, intent, "forks"), Display(r, intent, "issues"),
         Primary(p, adopts, "active_usage", 400), Primary(p, adopts, "signups", 250),
         Primary(p, adopts, "downloads", 200), Primary(p, adopts, "retained_usage", 150),
         Display(p, intent, "reviews"), Display(p, "attention_only", "views"),
         Primary(s, responds, "patch_downloads", 350), Primary(s, responds, "fixed_dependents", 250),
         Primary(s, intent, "advisories", 250), Primary(s, responds, "mitigation_adoption", 150),
         Display(s, "attention_only", "forks")}

Families ==
    [platform \in {"GitHub", "Package", "HF", "HN", "RSS", "YouTube", "Official"} |->
       CASE platform \in {"GitHub", "Package"} -> "developer_ecosystem"
         [] platform = "HF" -> "model_hub"
         [] platform = "HN" -> "social_discussion"
         [] platform = "YouTube" -> "video"
         [] OTHER -> "publisher_official"]

ASSUME DelaysAreTheRegistrys ==
    \A type \in EventType : normal_behavior_delay_hours(type) = NORMAL_BEHAVIOR_DELAY_HOURS[type]

-----------------------------------------------------------------------------
(* test_scoring.py                                                         *)

Base ==
    [event_type |-> "model_release", attention |-> 8000, behavior |-> 7200, diversity |-> 7500,
     authority |-> 8000, coordination_risk |-> 1000, coverage |-> 8800, verifiability |-> 9000,
     baseline_maturity |-> 9000, cluster_confidence |-> 8600, temporal_stability |-> 8500,
     anomaly_robust_z |-> 300, platform_concentration |-> 35, independent_signal_families |-> 4,
     independent_platform_families |-> 3, independent_ownership_entities |-> 4,
     consecutive_joint_growth |-> 3, consecutive_gap_growth |-> 0, consecutive_decline |-> 0,
     inactive_hours |-> 0, official_source_led |-> TRUE, official_source_present |-> TRUE,
     research_source_present |-> TRUE, discussion_source_present |-> TRUE,
     behavior_applicable |-> TRUE, behavior_observed |-> TRUE, primary_adoption_observed |-> TRUE,
     primary_adoption_score |-> 7200, primary_response_observed |-> FALSE,
     primary_response_score |-> 0, previous_state |-> "noise"]

State(changes, hours) == score_event(changes @@ Base, hours).state
Labels(changes, hours) == score_event(changes @@ Base, hours).labels
From(state) == [previous_state |-> state]

ASSUME LifecycleCases ==
    /\ State(<<>>, 6) = "accelerating" /\ State(<<>>, 24) = "established"
    /\ LET product == [event_type |-> "official_product_release", behavior |-> 0,
                       behavior_observed |-> FALSE]
       IN  /\ State(product, 48) # "established"
           /\ State([behavior_applicable |-> FALSE] @@ product, 48) = "established"
    /\ State([attention |-> 6000, behavior |-> 5000, consecutive_joint_growth |-> 0,
              anomaly_robust_z |-> 199], 6) = "detected"
    /\ State([coverage |-> 3200, independent_signal_families |-> 1], 6) = "insufficient_data"
    /\ State([consecutive_decline |-> 1] @@ From("accelerating"), 24) = "established"
    /\ State([consecutive_decline |-> 2] @@ From("accelerating"), 24) = "cooling"
    /\ State([consecutive_decline |-> 2, inactive_hours |-> 24] @@ From("cooling"), 72) = "dormant"
    /\ State([inactive_hours |-> 100, anomaly_robust_z |-> 210, consecutive_joint_growth |-> 0]
               @@ From("dormant"), 100) = "emerging"
    /\ State([attention |-> 3800, behavior |-> 8200, diversity |-> 2400, authority |-> 3800,
              platform_concentration |-> 88, independent_signal_families |-> 2,
              independent_platform_families |-> 1, consecutive_joint_growth |-> 0], 6)
         \in {"detected", "emerging"}

\* Without its minimum evidence no type gets a state that says anything.
ASSUME MinimumEvidenceCases ==
    LET Lacks(type, field) ==
          State([event_type |-> type] @@ [f \in {field} |-> FALSE], 200) = "insufficient_data"
    IN  /\ \A type \in EventType \ {"research_or_benchmark"} : Lacks(type, "official_source_present")
        /\ \A type \in EventType \ {"security_incident"} : Lacks(type, "discussion_source_present")
        /\ Lacks("model_release", "behavior_observed")
        /\ Lacks("developer_tool_release", "primary_adoption_observed")
        /\ Lacks("research_or_benchmark", "research_source_present")

ASSUME LabelCases ==
    /\ {"cross_platform_confirmed", "adoption_confirmed"} \subseteq Labels(<<>>, 6)
    /\ "adoption_confirmed" \notin Labels([primary_adoption_observed |-> FALSE], 6)
    /\ "response_confirmed" \in
         Labels([event_type |-> "security_incident", primary_adoption_observed |-> FALSE,
                 primary_response_observed |-> TRUE, primary_response_score |-> 7200], 6)
    /\ \A type \in EventType :
         LET late == [event_type |-> type, attention |-> 9500, behavior |-> 0,
                      consecutive_joint_growth |-> 0, consecutive_gap_growth |-> 2]
             to == NORMAL_BEHAVIOR_DELAY_HOURS[type].to
             Gaps == {"expected_behavior_lag", "attention_behavior_gap"}
         IN  /\ Labels(late, to - 1) \cap Gaps = {"expected_behavior_lag"}
             /\ Labels(late, to + 1) \cap Gaps = {"attention_behavior_gap"}

\* test_evidence_strength_is_bounded
ASSUME StrengthCases == \A v \in {0, 5000, 10000} : evidence_strength(v, v, v, v, v) = v

-----------------------------------------------------------------------------
(* test_operational_rules.py                                               *)

Snapshot(source, group, platform, family, growth) ==
    [source |-> source, group |-> group, platform |-> platform, family |-> family, at |-> 0,
     authority |-> 8000, verifiable |-> TRUE, text |-> "", growth |-> growth]

\* As many snapshots of a counter that grew to a score, from owners of their own.
Grown(n, platform, family, metric, score) ==
    LET growth == [x \in {metric} |-> [score |-> score, z |-> 0]]
    IN  {Snapshot(<<platform, i>>, <<"owner", i>>, platform, family, growth) : i \in 1..n}

ASSUME AggregateCases ==
    LET tool == "developer_tool_release"
        stars == Grown(5, "GitHub", "behavior", "stars", 10000)
        installs == Grown(5, "Package", "behavior", "installs", 10000)
        flat == Grown(5, "Package", "behavior", "installs", 0)
        views == Grown(5, "YouTube", "behavior", "views", 10000)
        Of5(rows) == aggregate_metrics(tool, rows)
    IN  /\ ~aggregate_metrics("model_release", views).behavior_observed
        /\ aggregate_metrics("model_release", views).independent_signal_families = 0
        /\ LET one == Of5(Grown(1, "GitHub", "behavior", "stars", 10000))
           IN  one.behavior_observed /\ one.behavior = 0 /\ ~one.primary_adoption_observed
        /\ Of5(installs).primary_adoption_observed /\ Of5(installs).behavior <= 3000
        /\ Of5(installs).primary_adoption_score <= 4000
        /\ Of5(stars).behavior <= 2500 /\ ~Of5(stars).primary_adoption_observed
        /\ LET both == Of5(stars \cup flat)
           IN  both.behavior \in 1..2500 /\ ~both.primary_adoption_observed

\* One owner behind many accounts counts as one.
ASSUME OwnerCases ==
    LET many == Grown(6, "HN", "discussion", "mentions", 2600)
        one == {[s EXCEPT !.group = <<"campaign", 0>>] : s \in many}
        M(rows) == aggregate_metrics("model_release", rows)
    IN  /\ M(one).attention < M(many).attention /\ M(one).diversity < M(many).diversity
        /\ M(one).coordination_risk > M(many).coordination_risk

\* test_pipeline.py: an established event is left alone for its quiet hours, then
\* cools down at the second decline and is dormant when its window is over.
ASSUME RefreshCases ==
    LET snapshots == {Snapshot(<<"RSS", 0>>, <<"lab", 0>>, "RSS", "official", <<>>)}
                       \cup Grown(1, "HN", "discussion", "comments", 5000)
                       \cup Grown(5, "HF", "behavior", "downloads", 9000)
        P(at, a, b) == [at |-> at, attention |-> a, behavior |-> b]
        e0 == [event_type |-> "model_release", state |-> "established", coverage |-> 8600,
               diversity |-> 8000, evidence_score |-> 9000, official_source_led |-> TRUE,
               not_applicable |-> FALSE, first_seen |-> -12,
               timeline |-> <<P(-1, 8200, 7600), P(0, 8400, 7800)>>]
        Refreshed(e, at) ==
          LET d == RefreshedInput(e, snapshots, 0, at)
              r == score_event(d, at - e.first_seen)
          IN  [e EXCEPT !.state = r.state, !.evidence_score = r.evidence_strength,
                        !.timeline = Append(@, P(at, d.attention, d.behavior))]
        e1 == Refreshed(e0, 7)  e2 == Refreshed(e1, 8)  e3 == Refreshed(e2, 24)
    IN  /\ ~FallsQuiet(e0, 0, 5) /\ FallsQuiet(e0, 0, 7) /\ ~FallsQuiet(e1, 0, 7)
        /\ <<e1.state, e2.state, e3.state>> = <<"established", "cooling", "dormant">>
        /\ e3.timeline[5] = P(24, 0, 0)

\* What arrives is scored after the points of earlier hours, in place of one of this.
ASSUME ArrivalCases ==
    LET snapshots == Grown(3, "HN", "discussion", "comments", 5000)
        P(at, a) == [at |-> at, attention |-> a, behavior |-> 0]
        e(timeline) == [event_type |-> "research_or_benchmark", state |-> "detected",
                        official_source_led |-> FALSE, not_applicable |-> TRUE, first_seen |-> 0,
                        timeline |-> timeline]
        D(timeline) == ScoredInput(e(timeline), snapshots, 4, 7)
    IN  /\ D(<<>>) \in ScoreInput
        /\ D(<<>>).attention = 5150 /\ D(<<>>).coverage = 6500
        /\ D(<<P(1, 10), P(2, 20), P(3, 30)>>).consecutive_joint_growth = 3
        /\ D(<<P(1, 10), P(2, 20), P(4, 9000)>>).consecutive_joint_growth = 2
        /\ D(<<P(2, 9000), P(3, 8000)>>).consecutive_decline = 2
        /\ D(<<P(2, 9000), P(3, 8000)>>).inactive_hours = 2

-----------------------------------------------------------------------------
(* The streaks, against the loops that compute them.                       *)

Timelines(n) ==
    {[i \in 1..n |-> [at |-> i, attention |-> f[i][1], behavior |-> f[i][2]]] :
       f \in [1..n -> (0..2) \X (0..1)]}

\* Backwards from the end until a step is not such.
Loop(points, Such(_, _)) ==
    LET back[i \in 1..Len(points)] ==
          IF i > 1 /\ Such(points[i - 1], points[i]) THEN 1 + back[i - 1] ELSE 0
    IN  back[Len(points)]

\* Forwards, noting where it grew last.
LastGrowth(points, first_seen) ==
    LET seen[i \in 1..Len(points)] ==
          IF i = 1 THEN IF Total(points[1]) > 0 THEN points[1].at ELSE first_seen
          ELSE IF Total(points[i]) > Total(points[i - 1]) THEN points[i].at ELSE seen[i - 1]
    IN  seen[Len(points)]

ASSUME StreakCases ==
    \A n \in 1..4 : \A points \in Timelines(n) :
      /\ _decline_streak(points) = Loop(points, LAMBDA p, q : Total(q) < Total(p))
      /\ _inactive_hours(points, 0) = n - LastGrowth(points, 0)

=============================================================================
