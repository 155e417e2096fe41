------------------------- MODULE AcceptanceMonitor -------------------------
(***************************************************************************)
(* The acceptance monitor: a collector that samples the running system     *)
(* once in every slot of fifteen minutes into a file of hash-chained lines *)
(* (tools/run_scheduled_acceptance.py, tools/acceptance_monitor.py         *)
(* collect), and the report that is computed from the file (report, here   *)
(* in the mode soak72h).                                                   *)
(*                                                                         *)
(* One collector is started by the timer, another may be started by hand   *)
(* beside it.  The system may go down, be deployed again, or have its      *)
(* database restored; a collector may die before, while or after it writes *)
(* its line.  A sample is known by its run id, which also orders samples   *)
(* within one moment and stands for the hash of the line.  Signatures,     *)
(* keys, the frozen policy and the checks of the connectors, of the        *)
(* pipeline and of manual evaluation are taken to pass.                    *)
(***************************************************************************)
EXTENDS ProductMetrics, SequencesExt

CONSTANTS
    Collector, Timer,   \* who collects, and which of them the timer starts
    Cadence,            \* cadence_seconds
    Tolerance,          \* five minutes
    MaxGap,             \* how many cadences may pass between samples
    Share,              \* the percentage of the slots that must have a healthy sample
    MinimumSpan         \* minimumSpanHours

ASSUME MonitorAssumption ==
    /\ Timer \in Collector /\ Cadence \in Nat \ {0} /\ MaxGap \in Nat
    /\ Tolerance \in Nat /\ Share \in 0..100 /\ MinimumSpan \in Nat

VARIABLES
    up,                 \* the API answers
    job,                \* job[c]: the collector run c is in
    attended,           \* the last slot a collector was started or missed in
    taken,              \* how many samples were ever collected: run ids
    file,               \* the lines of the evidence file
    collected,          \* history: run ids whose collector reported them written
    down                \* history: the moments throughout which the API was down

monitor == <<up, job, attended, taken, file, collected, down>>
vars == <<metrics, monitor>>

Idle == [stage |-> "idle"]
NoLine == 0
NoSlot == -1
Line(sample, previous, ended) ==
    [torn |-> FALSE, ended |-> ended, sample |-> sample, previous |-> previous]
Torn(ended) ==
    [torn |-> TRUE, ended |-> ended, sample |-> [run |-> 0, slot |-> NoSlot], previous |-> 0]
LastLine == Last(file)

MonitorInit ==
    /\ up = TRUE
    /\ job = [c \in Collector |-> Idle]
    /\ attended = NoSlot /\ taken = 0 /\ file = <<>> /\ collected = {} /\ down = {}
Init == MetricsInit /\ MonitorInit

-----------------------------------------------------------------------------
(* A collector.                                                            *)

scheduled_slot == clock - (clock % Cadence)

already_collected ==
    /\ file # <<>> /\ ~LastLine.torn
    /\ LastLine.sample.slot = scheduled_slot

DeliveriesOfTheLastHours(v) ==
    {<<k, v.alert[k]>> : k \in {i \in DeliveredIn(v) : v.at <= v.alert[i].at + Window}}

\* list_alert_deliveries: a reservation is listed until it is a quarter of an hour old.
ListedDeliveries(v) ==
    {<<k, v.alert[k]>> :
        k \in {i \in Alert : \/ v.alert[i].status \in {"delivered", "aborted"}
                             \/ /\ v.alert[i].status = "reserved"
                                /\ v.at <= v.alert[i].at + Quarter}}

\* beta_product_metrics: the rows of the fact ledger by kind, and what is derived.
factLedger(v) ==
    [rows |-> [feedback |-> Rows(v, "decision"), queueEntries |-> Rows(v, "entry"),
               interactions |-> Rows(v, "exclusion") \cup Rows(v, "reinstatement")
                                \cup Rows(v, "review"),
               metricIncidents |-> Rows(v, "incident"), alertDeliveries |-> ListedDeliveries(v)],
     derived |-> <<Cardinality(strongAlertDenominator(v)), Cardinality(workdayStrongAlerts(v)),
                   Cardinality(erroneousStrongAlerts(v)),
                   Cardinality(triageDenominator(v)), Cardinality(completedReviews(v)),
                   Cardinality(invalidExclusionAttempts(v))>>]

\* ranking_ledger_snapshot: one snapshot, read before the clock that dates it.
ranking_ledger == [generated |-> clock, leadCrossings |-> All("crossing")]

list_feedback == All("decision")
list_review_queue_entries == All("entry")
list_product_interactions == All("exclusion") \cup All("reinstatement") \cup All("review")
list_metric_incidents == All("incident")

\* In the order in which beta_metrics reads them, after the deliveries.
Tables == <<list_feedback, list_review_queue_entries, list_product_interactions,
            list_metric_incidents>>

\* A collector is started, by the timer at the slot or by hand at any time, and finds
\* nothing in the file for its slot.  It refuses to sample long after its slot.
run(c) ==
    /\ job[c] = Idle
    /\ ~already_collected
    /\ clock <= scheduled_slot + Tolerance
    /\ IF c = Timer /\ clock = scheduled_slot /\ attended # clock THEN UNCHANGED spent ELSE Spend
    /\ attended' = scheduled_slot

\* collect_sample asks for the health of the system first, and for the metrics next.
collect_sample(c) ==
    /\ run(c)
    /\ LET sample == [run |-> taken + 1, at |-> clock, slot |-> scheduled_slot, healthy |-> up] IN
       job' = [job EXCEPT ![c] =
                   IF up THEN [stage |-> "reading", sample |-> sample, read |-> 0,
                               view |-> [Now EXCEPT !.facts = {}]]
                         ELSE [stage |-> "holding", sample |-> sample]]
    /\ taken' = taken + 1
    /\ UNCHANGED <<clock, database, overtaken, recovery, up, file, collected, down>>

\* An endpoint does not answer.
Unhealthy(c) == [stage |-> "holding", sample |-> [job[c].sample EXCEPT !.healthy = FALSE]]

\* One more table read.
Further(j) == [j EXCEPT !.read = @ + 1, !.view.facts = @ \cup Tables[j.read + 1]]

\* beta_metrics reads table after table, each in a transaction of its own.
ReadTable(c) ==
    /\ job[c].stage = "reading" /\ job[c].read < Len(Tables)
    /\ job' = [job EXCEPT ![c] = IF up THEN Further(@) ELSE Unhealthy(c)]
    /\ UNCHANGED <<metrics, up, attended, taken, file, collected, down>>

\* A sample with what the endpoints answered.
Answered(sample, view) ==
    [run |-> sample.run, at |-> sample.at, slot |-> sample.slot, healthy |-> TRUE,
     rankingLedger |-> ranking_ledger, ledger |-> factLedger(view), forgotten |-> forgotten]

\* The last endpoint.
ReadRanking(c) ==
    /\ job[c].stage = "reading" /\ job[c].read = Len(Tables)
    /\ job' = [job EXCEPT ![c] =
                   IF up THEN [stage |-> "holding", sample |-> Answered(@.sample, @.view)]
                         ELSE Unhealthy(c)]
    /\ UNCHANGED <<metrics, up, attended, taken, file, collected, down>>

\* The timer's machine is off.
Miss ==
    /\ attended # scheduled_slot /\ Spend /\ attended' = scheduled_slot
    /\ UNCHANGED <<clock, database, overtaken, recovery, up, job, taken, file, collected, down>>

\* append_sample: the new line will name the last one.  A last line that cannot be
\* read, or is not older, ends the run with an error.
ReadLast(c) ==
    /\ job[c].stage = "holding"
    /\ LET previous == IF file = <<>> THEN NoLine ELSE LastLine.sample.run IN
       job' = [job EXCEPT ![c] =
                   IF file # <<>> /\ (LastLine.torn \/ previous >= @.sample.run) THEN Idle
                   ELSE [stage |-> "chained", sample |-> @.sample, previous |-> previous]]
    /\ UNCHANGED <<metrics, up, attended, taken, file, collected, down>>

\* A line that was not ended runs on into what is written next.
Written(line) ==
    IF file # <<>> /\ ~LastLine.ended
    THEN Append(Front(file), Torn(line.ended))
    ELSE Append(file, line)

append_sample(c) ==
    /\ job[c].stage = "chained"
    /\ file' = Written(Line(job[c].sample, job[c].previous, TRUE))
    /\ collected' = collected \cup {job[c].sample.run}
    /\ job' = [job EXCEPT ![c] = Idle]
    /\ UNCHANGED <<metrics, up, attended, taken, down>>

\* The collector dies: between two steps, or with part of its line written, or with all
\* of it but the end of the line.
Die(c) ==
    /\ job[c] # Idle /\ Spend
    /\ job' = [job EXCEPT ![c] = Idle]
    /\ \/ UNCHANGED file
       \/ /\ job[c].stage = "chained"
          /\ \/ file' = Written(Torn(FALSE))
             \/ file' = Written(Line(job[c].sample, job[c].previous, FALSE))
    /\ UNCHANGED <<clock, database, overtaken, recovery, up, attended, taken, collected, down>>

-----------------------------------------------------------------------------
(* The system that is watched.                                             *)

GoDown ==
    /\ up /\ Spend /\ up' = FALSE
    /\ UNCHANGED <<clock, database, overtaken, recovery, job, attended, taken, file, collected, down>>

ComeUp ==
    /\ ~up /\ up' = TRUE /\ down' = down \ {clock}
    /\ UNCHANGED <<metrics, job, attended, taken, file, collected>>

-----------------------------------------------------------------------------
(* The report.                                                             *)

\* load_samples: every line can be read and names the one before it.
ChainOfAnyOrder == \A i \in 1..Len(file) : file[i].previous < file[i].sample.run

Chained ==
    \A i \in 1..Len(file) :
        file[i].previous = IF i = 1 THEN NoLine ELSE file[i - 1].sample.run
Loadable == Chained /\ \A i \in 1..Len(file) : ~file[i].torn

\* evaluate_samples, of the samples s.
Gaps(s) == {s[i + 1].at - s[i].at : i \in 1..(Len(s) - 1)}
Span(s) == Last(s).at - Head(s).at
Expected(s) == Span(s) \div Cadence + 1
Bucket(s, i) == Min({Expected(s) - 1, (2 * (s[i].at - s[1].at) + Cadence) \div (2 * Cadence)})
HealthyBuckets(s) == {Bucket(s, i) : i \in {j \in 1..Len(s) : s[j].healthy}}

span_ok(s) == Span(s) >= MinimumSpan
time_integrity_ok(s) == \A i \in 1..(Len(s) - 1) : s[i].run < s[i + 1].run
SharesOnly(s) == 100 * Cardinality(HealthyBuckets(s)) >= Share * Expected(s)

cadence_ok(s) ==
    /\ \A gap \in Gaps(s) : gap <= MaxGap * Cadence
    /\ 100 * Cardinality(HealthyBuckets(s)) >= Share * Expected(s)
runtime_attestation_ok(s) == \A i \in 1..Len(s) : s[i].healthy

acceptance_eligible(s) ==
    /\ s # <<>> /\ span_ok(s) /\ cadence_ok(s) /\ time_integrity_ok(s)
    /\ runtime_attestation_ok(s)

\* _validated_ranking_ledger: dated when it was observed, and with nothing of later.
validated(sample) ==
    /\ sample.healthy
    /\ sample.rankingLedger.generated - sample.at \in (-Tolerance)..Tolerance
    /\ \A x \in sample.rankingLedger.leadCrossings : x.at <= sample.rankingLedger.generated

CrossingsByEvent(s) ==
    \A i \in 1..(Len(s) - 1) :
        s[i].rankingLedger.leadCrossings # {} => s[i + 1].rankingLedger.leadCrossings # {}

\* No crossing that a sample lists is missing from the next, or differs there.  There
\* is one event, so that a crossing is one by its moment.
crossing_continuity_ok(s) ==
    \A i \in 1..(Len(s) - 1) :
        s[i].rankingLedger.leadCrossings \subseteq s[i + 1].rankingLedger.leadCrossings

score_ledger_ok(s) == (\A i \in 1..Len(s) : validated(s[i])) /\ crossing_continuity_ok(s)

\* No count falls, and what has not grown has not changed.
fact_ledger_ok(s) ==
    \A i \in 1..(Len(s) - 1) :
        LET old == s[i].ledger
            new == s[i + 1].ledger
        IN  /\ \A k \in DOMAIN old.rows :
                  \/ Cardinality(old.rows[k]) < Cardinality(new.rows[k])
                  \/ old.rows[k] = new.rows[k]
            /\ \A d \in DOMAIN old.derived : old.derived[d] <= new.derived[d]

samples == [i \in 1..Len(file) |-> file[i].sample]
Passed ==
    /\ Loadable /\ acceptance_eligible(samples)
    /\ score_ledger_ok(samples) /\ fact_ledger_ok(samples)

-----------------------------------------------------------------------------
\* The timer is on time, and a collector ends, or dies, within the moment it was
\* started in.
TimePasses ==
    /\ Stamps /\ \A c \in Collector : job[c] = Idle
    /\ clock = scheduled_slot => attended = clock
    /\ down' = IF up THEN down ELSE down \cup {clock'}
    /\ UNCHANGED <<up, job, attended, taken, file, collected>>

Next ==
    \/ TimePasses
    \/ (Transactions \/ Restore) /\ UNCHANGED monitor
    \/ \E c \in Collector :
          collect_sample(c) \/ ReadTable(c) \/ ReadRanking(c) \/ ReadLast(c)
          \/ append_sample(c) \/ Die(c)
    \/ Miss \/ GoDown \/ ComeUp

Spec == Init /\ [][Next]_vars

-----------------------------------------------------------------------------
\* What passes is no system that was down: inside the span the API answered at least
\* once in any time longer than the greatest gap allowed, whichever collectors failed,
\* came late, or left their sample twice or not at all.
PassedMeansUp ==
    Passed =>
        \A from, to \in Head(samples).at..Last(samples).at :
            to - from > MaxGap * Cadence => ~((from + 1)..(to - 1) \subseteq down)

\* What passes is no history with a hole: once a sample has listed that an event crossed
\* the lead threshold, no later sample was taken of a database that was set back to
\* before that, to whatever moment and in however many steps, even if the event has
\* crossed again since.
PassedMeansRemembered ==
    Passed =>
        \A i, j \in 1..Len(samples) :
            i < j => samples[i].rankingLedger.leadCrossings \cap samples[j].forgotten = {}

\* Whatever collectors did to the file together, a file that loads holds every sample
\* whose collector reported it written, each once, in the order of their collection.
LoadableIsComplete ==
    Loadable =>
        /\ collected \subseteq {samples[i].run : i \in 1..Len(samples)}
        /\ time_integrity_ok(samples)

\* A system that loses nothing is not failed by its ledgers: they only grow, as facts
\* become visible late, between the reads of one sample too, and as the windows of the
\* metrics close.  Four things are held against it all the same: an alert that was
\* still being sent when it was listed, a duplicate alert that was excluded, an alert of
\* which two reviewers said that it was wrong and one that it was valid, and two samples
\* of a slot, which were read side by side.
Named(k, verdict) == {x.reviewer : x \in {y \in All("review") : y.alert = k /\ y.verdict = verdict}}
Disputed(k) == Cardinality(Named(k, "error")) >= 2 /\ Named(k, "valid") # {}

HonestLedgersPass ==
    /\ Loadable /\ restored = 0 /\ All("exclusion") = {} /\ \A k \in Alert : ~Disputed(k)
    /\ \A i \in 1..(Len(samples) - 1) : samples[i].slot # samples[i + 1].slot
    /\ \A i \in 1..Len(samples) :
           /\ samples[i].healthy
           /\ \A row \in samples[i].ledger.rows.alertDeliveries : row[2].status # "reserved"
    => score_ledger_ok(samples) /\ fact_ledger_ok(samples)
=============================================================================
