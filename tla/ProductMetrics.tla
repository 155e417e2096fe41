-------------------------- MODULE ProductMetrics --------------------------
(***************************************************************************)
(* The facts the Beta metrics are computed from, and the denominators of   *)
(* those metrics (radar/product_metrics.py; the deliveries, feedback,      *)
(* queue entries, incidents and interactions of radar/storage.py).         *)
(*                                                                         *)
(* Facts are only ever added.  Each is stamped with clock_timestamp() in   *)
(* its transaction and can be read only once that has committed: what is   *)
(* stamped first may appear last.  Stamps are distinct, so a fact is known *)
(* by its own.  The alerts and queue entries here are those of one event,  *)
(* in one workspace, within the frozen window.  When a rule alerts and     *)
(* when its channel accepts is AlertDelivery's matter; the verdict of a    *)
(* decision and the telemetry of a review are left out, and transactions   *)
(* that roll back, which leave nothing.                                    *)
(*                                                                         *)
(* The log of the database is archived without a break: it can be set back *)
(* to any moment.                                                          *)
(***************************************************************************)
EXTENDS Integers, Sequences, FiniteSets, SequencesExt

CONSTANTS
    Alert,           \* idempotency keys of alert deliveries
    First, Second,   \* two of them
    Reviewed,        \* bound: the alerts whose quality is reviewed
    Reviewer,        \* who reviews it
    Opening,         \* the moment at which the model begins
    Duty,            \* the moments within a duty window
    Sla,             \* first_triage_sla_minutes, in units of duty
    Window,          \* strong_alert_acceptance_window_duty_minutes, the same
    Quarter,         \* fifteen minutes by the wall clock
    Latency,         \* the longest a transaction stays open after its stamp
    MaxTime,         \* bound: moments
    Budget           \* bound: facts stamped after the opening, and faults, together

None == 0            \* no queue entry or delivery is named
ASSUME MetricsAssumption ==
    /\ None \notin Alert /\ Duty \subseteq Nat
    /\ {First, Second} \subseteq Alert /\ First # Second /\ Reviewed \subseteq Alert
    /\ Opening \in Nat \ 0..2
    /\ Sla + Latency < Window /\ Sla \in Nat /\ Window \in Nat /\ Quarter \in Nat /\ Latency \in Nat
    /\ MaxTime \in Nat /\ Budget \in Nat

VARIABLES
    clock,
    alert,           \* alert_deliveries: status and delivered_at
    facts,           \* what has committed
    open,            \* what is stamped and has not
    spent,           \* how much of the budget is used up
    log,             \* what was committed, from moment to moment: the archive of the log
    overtaken,       \* history: alerts decided on while an exclusion of them was open
    restored,        \* history: how often the database was set back
    forgotten        \* history: crossings that went by it

history == <<restored, forgotten>>
database == <<alert, facts, open>>
recovery == <<log, history>>
metrics == <<clock, database, spent, overtaken, recovery>>

Entry(t) == [kind |-> "entry", at |-> t]
Decision(t, entry, k) == [kind |-> "decision", at |-> t, entry |-> entry, alert |-> k]
Incident(t, target, canonical) ==
    [kind |-> "incident", at |-> t, target |-> target, canonical |-> canonical]
Exclusion(t, incident) ==
    [kind |-> "exclusion", at |-> t, target |-> incident.target, canonical |-> incident.canonical]
Reinstatement(t, target) == [kind |-> "reinstatement", at |-> t, target |-> target]
Crossing(t) == [kind |-> "crossing", at |-> t]
Review(t, k, reviewer, verdict) ==
    [kind |-> "review", at |-> t, alert |-> k, reviewer |-> reviewer, verdict |-> verdict]

All(kind) == {x \in facts : x.kind = kind}
Delivered == {k \in Alert : alert[k].status = "delivered"}

\* What the database held just before the model begins: the event became reviewable
\* and was alerted on twice.
BeforeOpening ==
    [alert |-> [k \in Alert |->
                   CASE k = First  -> [status |-> "delivered", at |-> Opening - 2]
                     [] k = Second -> [status |-> "delivered", at |-> Opening - 1]
                     [] OTHER      -> [status |-> "none", at |-> 0]],
     facts |-> {Entry(Opening - 3)}]

Committed == [alert |-> alert, facts |-> facts]

\* Since then it has crossed the lead threshold.
MetricsInit ==
    /\ clock = Opening
    /\ alert = BeforeOpening.alert /\ facts = BeforeOpening.facts \cup {Crossing(Opening)}
    /\ log = <<BeforeOpening, Committed>>
    /\ open = {} /\ spent = 0 /\ overtaken = {} /\ restored = 0 /\ forgotten = {}

Spend == spent < Budget /\ spent' = spent + 1
Pass == /\ clock < MaxTime /\ clock' = clock + 1
        /\ \A x \in open : clock' <= x.at + Latency

-----------------------------------------------------------------------------
(* Facts are stamped and committed.                                        *)

\* What is committed is archived.
Archive == log' = Append(log, Committed') /\ UNCHANGED history

\* reserve_alert_delivery: delivered_at is the moment of the reservation.
Reserve(k) ==
    /\ alert[k].status = "none" /\ Pass /\ Spend
    /\ alert' = [alert EXCEPT ![k] = [status |-> "reserved", at |-> clock']]
    /\ UNCHANGED <<facts, open, overtaken>> /\ Archive

confirm_alert_delivery(k) ==
    /\ alert[k].status = "reserved"
    /\ alert' = [alert EXCEPT ![k].status = "delivered"]
    /\ UNCHANGED <<clock, facts, open, spent, overtaken>> /\ Archive

abort_alert_reservation(k) ==
    /\ alert[k].status = "reserved"
    /\ alert' = [alert EXCEPT ![k].status = "aborted"]
    /\ UNCHANGED <<clock, facts, open, spent, overtaken>> /\ Archive

Stamp(x) == /\ Pass /\ Spend /\ open' = open \cup {x}
            /\ UNCHANGED <<alert, facts, recovery>>

\* The event becomes reviewable.
_insert_review_queue_entry == Stamp(Entry(clock + 1)) /\ UNCHANGED overtaken

\* A decision names the newest queue entry it can see, and no delivery or one of
\* the event that was delivered.
add_feedback(k) ==
    /\ All("entry") # {} /\ k \in Delivered \cup {None}
    /\ Stamp(Decision(clock + 1, Max({x.at : x \in All("entry")}), k))
    /\ overtaken' = overtaken \cup {x.target : x \in {y \in open : y.kind = "exclusion"}}

create_metric_incident(target, canonical) ==
    /\ {target, canonical} \subseteq Delivered
    /\ alert[canonical].at < alert[target].at
    /\ alert[target].at <= alert[canonical].at + Quarter
    /\ clock + 1 <= alert[target].at + Quarter
    /\ Stamp(Incident(clock + 1, target, canonical)) /\ UNCHANGED overtaken

\* record_product_interaction, of the kind metric_exclusion_recorded.
RecordExclusion ==
    /\ \E x \in All("incident") : Stamp(Exclusion(clock + 1, x))
    /\ UNCHANGED overtaken

\* Nothing is asked of a reinstatement; here it is of an alert that was excluded.
Reinstate(k) ==
    /\ \E x \in All("exclusion") : x.target = k
    /\ Stamp(Reinstatement(clock + 1, k)) /\ UNCHANGED overtaken

\* record_product_interaction, of the kind alert_quality_reviewed: nothing is asked of
\* the alert, or of what the reviewer said before.
ReviewQuality(k, reviewer) ==
    /\ \E verdict \in {"error", "valid"} : Stamp(Review(clock + 1, k, reviewer, verdict))
    /\ UNCHANGED overtaken

\* commit_scored_event: an event crosses the lead threshold once.
Cross ==
    /\ \A x \in facts \cup open : x.kind # "crossing"
    /\ Stamp(Crossing(clock + 1)) /\ UNCHANGED overtaken

Commit(x) ==
    /\ x \in open /\ open' = open \ {x} /\ facts' = facts \cup {x}
    /\ UNCHANGED <<clock, alert, spent, overtaken>> /\ Archive

\* The database is set back to a moment before, and goes on from there.
Restore ==
    /\ Spend /\ restored' = restored + 1
    /\ \E i \in 1..Len(log) :
          /\ alert' = log[i].alert /\ facts' = log[i].facts /\ log' = SubSeq(log, 1, i)
          /\ forgotten' = forgotten \cup (All("crossing") \ log[i].facts)
    /\ open' = {} /\ UNCHANGED <<clock, overtaken>>

Wait == Pass /\ UNCHANGED <<database, spent, overtaken, recovery>>

Transactions ==
    \/ \E x \in open : Commit(x)
    \/ \E k \in Alert : confirm_alert_delivery(k) \/ abort_alert_reservation(k)

\* Whatever lets time pass.
Stamps ==
    \/ Wait
    \/ \E k \in Alert : Reserve(k) \/ Reinstate(k)
    \/ _insert_review_queue_entry
    \/ \E k \in Alert \cup {None} : add_feedback(k)
    \/ \E target, canonical \in Alert : create_metric_incident(target, canonical)
    \/ \E k \in Reviewed, reviewer \in Reviewer : ReviewQuality(k, reviewer)
    \/ RecordExclusion
    \/ Cross

-----------------------------------------------------------------------------
(* What is computed from them, of a view v: the rows a reader has seen of    *)
(* each table, and the moment it computes for.                               *)

Now == [alert |-> alert, facts |-> facts, at |-> clock]

Rows(v, kind) == {x \in v.facts : x.kind = kind}
DeliveredIn(v) == {k \in Alert : v.alert[k].status = "delivered"}

duty_seconds_between(from, to) == Cardinality({t \in Duty : from <= t /\ t < to})

\* The target was delivered a moment ago, after the alert it duplicates, and nobody
\* has decided anything about the event since.
ExclusionAtAnyTime(v, x) ==
    /\ {x.target, x.canonical} \subseteq DeliveredIn(v) /\ x.target # x.canonical
    /\ v.alert[x.canonical].at < v.alert[x.target].at /\ v.alert[x.target].at <= x.at
    /\ ~\E d \in Rows(v, "decision") : v.alert[x.target].at <= d.at /\ d.at <= x.at

ValidExclusion(v, x) ==
    /\ {x.target, x.canonical} \subseteq DeliveredIn(v) /\ x.target # x.canonical
    /\ v.alert[x.canonical].at < v.alert[x.target].at /\ v.alert[x.target].at <= x.at
    /\ duty_seconds_between(v.alert[x.target].at, x.at) <= Sla
    /\ ~\E d \in Rows(v, "decision") : v.alert[x.target].at <= d.at /\ d.at <= x.at

\* _valid_alert_duplicate_exclusions: valid, and not reinstated after that.
Excluded(v, k) ==
    \E x \in Rows(v, "exclusion") :
        /\ x.target = k /\ ValidExclusion(v, x)
        /\ ~\E y \in Rows(v, "reinstatement") : y.target = k /\ x.at < y.at

invalidExclusionAttempts(v) == {x \in Rows(v, "exclusion") : ~ValidExclusion(v, x)}

\* _strong_alert_metrics: decided on, or the window has closed on it.
Counted(v, k) ==
    /\ k \in DeliveredIn(v) /\ ~Excluded(v, k)
    /\ \/ \E d \in Rows(v, "decision") : d.alert = k
       \/ duty_seconds_between(v.alert[k].at, v.at) >= Window
strongAlertDenominator(v) == {k \in Alert : Counted(v, k)}

\* The alerts of workdays, as all days are here, that no exclusion names.
workdayStrongAlerts(v) == {k \in DeliveredIn(v) : ~Excluded(v, k)}

\* Two reviewers found something wrong with the alert, and nobody that it is valid.
Reviewers(v, k, verdict) ==
    {x.reviewer : x \in {y \in Rows(v, "review") :
                            y.alert = k /\ y.verdict = verdict /\ v.alert[k].at <= y.at}}
erroneousStrongAlerts(v) ==
    {k \in workdayStrongAlerts(v) :
        Cardinality(Reviewers(v, k, "error")) >= 2 /\ Reviewers(v, k, "valid") = {}}

\* _triage_sla_metrics: answered, however late, or not answered in time; only what
\* became reviewable on duty.
FirstAnswer(v, e) == {d \in Rows(v, "decision") : d.entry = e.at}
CountedEntry(v, e) ==
    /\ e.at \in Duty
    /\ FirstAnswer(v, e) # {} \/ duty_seconds_between(e.at, v.at) > Sla
triageDenominator(v) == {e \in Rows(v, "entry") : CountedEntry(v, e)}

\* _review_timing_metrics: the queue entries somebody decided on.
completedReviews(v) == {e \in Rows(v, "entry") : FirstAnswer(v, e) # {}}

-----------------------------------------------------------------------------
\* Once an alert or a queue entry counts in a denominator it counts for ever, however
\* late facts become visible and whatever is excluded: an exclusion is accepted within
\* the triage SLA and before any decision only, and so never of an alert that counts.
\* The alerts of which an exclusion was open while the event was decided on are the
\* exception, and what a restore loses.
CountedStaysCounted ==
    [][restored' = restored =>
       /\ strongAlertDenominator(Now) \ overtaken' \subseteq strongAlertDenominator(Now)'
       /\ triageDenominator(Now) \subseteq triageDenominator(Now)'
       /\ completedReviews(Now) \subseteq completedReviews(Now)']_metrics
=============================================================================
