--------------------------- MODULE ScoringProofs ---------------------------
(***************************************************************************)
(* What holds of the score of every input, whatever the history: which     *)
(* states need which evidence, how an event can get from one state to      *)
(* another, and how many score cycles a label needs.  Then of the pipeline *)
(* that takes observations into scored events, at any number of processes, *)
(* tasks, observations and events: what a stored score never gives up, who *)
(* works on a leased observation, and what an acknowledgement means.       *)
(***************************************************************************)
EXTENDS Scoring, ScoringPipeline, FiniteSetTheorems, TLAPS

LEMMA PointsBounded == \A v : v \in Int => Points(v) \in Scale
BY DEF Points, clamp, Smaller, Larger, Scale

LEMMA Mixture ==
    ASSUME NEW a \in Scale, NEW b \in Scale, NEW c \in Scale, NEW e \in Scale, NEW f \in Scale
    PROVE  (30 * a + 20 * b + 20 * c + 15 * e + 15 * f) \div 100 \in Int
BY DEF Scale

LEMMA EvidenceBounded ==
    ASSUME NEW a \in Int, NEW b \in Int, NEW c \in Int, NEW e \in Int, NEW f \in Int
    PROVE  evidence_strength(a, b, c, e, f) \in Scale
<1>1. /\ Points(a) \in Scale /\ Points(b) \in Scale /\ Points(c) \in Scale
      /\ Points(e) \in Scale /\ Points(f) \in Scale
  BY Zenon, PointsBounded
<1>2. (30 * Points(a) + 20 * Points(b) + 20 * Points(c) + 15 * Points(e) + 15 * Points(f)) \div 100
        \in Int
  BY Zenon, <1>1, Mixture
<1> QED
  BY Zenon, <1>2, PointsBounded DEF evidence_strength

LEMMA NumbersOfInput ==
    ASSUME NEW d \in ScoreInput
    PROVE  /\ d.coverage \in Int /\ d.verifiability \in Int /\ d.authority \in Int
           /\ d.baseline_maturity \in Int /\ d.cluster_confidence \in Int
           /\ d.temporal_stability \in Int /\ d.independent_signal_families \in Nat
BY DEF ScoreInput

LEMMA Reliability ==
    ASSUME NEW a \in Scale, NEW b \in Scale
    PROVE  (60 * a + 40 * b) \div 100 \in Int
BY DEF Scale

LEMMA ReliabilityType ==
    ASSUME NEW d \in ScoreInput
    PROVE  sample_reliability(d) \in Int
<1>1. Points(d.verifiability) \in Scale /\ Points(d.authority) \in Scale
  BY Zenon, NumbersOfInput, PointsBounded
<1> QED
  BY Zenon, <1>1, Reliability DEF sample_reliability

\* The least of quality, coverage and breadth, as strength takes it.
Narrowed(quality, covered, families) == Smaller(quality, Smaller(covered + 1500, families * 2500 + 1000))

LEMMA UpToScale == \A n \in Nat : n <= 10000 => n \in Scale
BY DEF Scale

LEMMA LeastOfThree ==
    ASSUME NEW a \in Nat, NEW b \in Nat, NEW f \in Nat, a <= 10000
    PROVE  /\ Narrowed(a, b, f) \in Scale
           /\ Narrowed(a, b, f) <= b + 1500
           /\ Narrowed(a, b, f) <= f * 2500 + 1000
<1>1. /\ Narrowed(a, b, f) \in Nat /\ Narrowed(a, b, f) <= a
      /\ Narrowed(a, b, f) <= b + 1500
      /\ Narrowed(a, b, f) <= f * 2500 + 1000
  BY DEF Narrowed, Smaller
<1>2. Narrowed(a, b, f) <= 10000
  BY <1>1
<1> QED
  BY <1>1, <1>2, UpToScale

LEMMA ScaleIsNat == \A v : v \in Scale => v \in Nat /\ v <= 10000
BY DEF Scale

\* Breadth bounds strength: whatever the quality of the data, coverage and the
\* number of signal families limit it.
LEMMA StrengthBounded ==
    ASSUME NEW d \in ScoreInput
    PROVE  /\ strength(d) \in Scale
           /\ strength(d) <= Points(d.coverage) + 1500
           /\ strength(d) <= d.independent_signal_families * 2500 + 1000
<1> DEFINE quality == evidence_strength(d.coverage, sample_reliability(d), d.baseline_maturity,
                                        d.cluster_confidence, d.temporal_stability)
           covered == Points(d.coverage)
           breadth == d.independent_signal_families
<1>1. quality \in Scale
  BY Zenon, NumbersOfInput, ReliabilityType, EvidenceBounded
<1>2. covered \in Scale
  BY Zenon, NumbersOfInput, PointsBounded
<1>3. breadth \in Nat
  BY Zenon, NumbersOfInput
<1>4. strength(d) = Narrowed(quality, covered, breadth)
  BY DEF strength, Narrowed
<1> HIDE DEF quality, covered, breadth
<1>5. quality \in Nat /\ quality <= 10000 /\ covered \in Nat
  BY SMTT(30), <1>1, <1>2, ScaleIsNat
<1>6. /\ Narrowed(quality, covered, breadth) \in Scale
      /\ Narrowed(quality, covered, breadth) <= covered + 1500
      /\ Narrowed(quality, covered, breadth) <= breadth * 2500 + 1000
  BY SMTT(30), <1>3, <1>5, LeastOfThree
<1>7. /\ strength(d) \in Scale
      /\ strength(d) <= covered + 1500
      /\ strength(d) <= breadth * 2500 + 1000
  BY SMTT(30), <1>4, <1>6
<1> QED
  BY <1>7 DEF covered, breadth

LEMMA Tiers ==
    ASSUME NEW s \in Scale
    PROVE  /\ s >= 4500 => strength_tier(s) \in {"medium", "high"}
           /\ strength_tier(s) = "high" => s >= 7000
BY DEF strength_tier, Scale

\* What is strong enough to be high is broad enough.
LEMMA Breadth ==
    ASSUME NEW s \in Scale, NEW c \in Scale, NEW f \in Nat,
           s <= c + 1500, s <= f * 2500 + 1000, s >= 7000
    PROVE  f >= 3 /\ c >= 5500
BY DEF Scale

-----------------------------------------------------------------------------
(* Which states need which evidence.                                       *)

\* A strong state is never given to an event without two platform families, two
\* owners, medium evidence, enough coverage and the least evidence of its type,
\* on whichever path of score_event it was reached.
THEOREM StrongIsConfirmed ==
    ASSUME NEW d \in ScoreInput, NEW hours \in Nat, lifecycle_state(d, hours) \in Strong
    PROVE  /\ d.independent_platform_families >= 2 /\ d.independent_ownership_entities >= 2
           /\ strength(d) >= 4500 /\ ~Insufficient(d)
<1>1. cross_platform(d) /\ raw_state(d, hours) \in Strong
  BY DEF lifecycle_state, Strong
<1>2. ~Insufficient(d)
  BY <1>1 DEF raw_state, Strong
<1> QED
  BY <1>1, <1>2 DEF cross_platform

\* A strong state always has evidence that is medium or better: the alert worker's
\* refusal of low evidence never hides one that the same score made strong.
THEOREM StrongIsNotLow ==
    ASSUME NEW d \in ScoreInput, NEW hours \in Nat, lifecycle_state(d, hours) \in Strong
    PROVE  strength_tier(strength(d)) \in {"medium", "high"}
<1>1. strength(d) >= 4500
  BY StrongIsConfirmed
<1>2. strength(d) \in Scale
  BY StrengthBounded
<1> QED
  BY <1>1, <1>2, Tiers

\* High evidence takes three signal families and 55 points of coverage: a sliver
\* of data of the best quality does not make it.
THEOREM HighNeedsBreadth ==
    ASSUME NEW d \in ScoreInput, strength_tier(strength(d)) = "high"
    PROVE  d.independent_signal_families >= 3 /\ Points(d.coverage) >= 5500
<1>1. /\ strength(d) \in Scale
      /\ strength(d) <= Points(d.coverage) + 1500
      /\ strength(d) <= d.independent_signal_families * 2500 + 1000
  BY StrengthBounded
<1>2. strength(d) >= 7000
  BY <1>1, Tiers
<1>3. Points(d.coverage) \in Scale
  BY Zenon, NumbersOfInput, PointsBounded
<1>4. d.independent_signal_families \in Nat
  BY Zenon, NumbersOfInput
<1> QED
  BY <1>1, <1>2, <1>3, <1>4, Breadth

\* Uncertainty never falls below what the evidence leaves open.
THEOREM UncertaintyCoversTheRest ==
    ASSUME NEW d \in ScoreInput
    PROVE  uncertainty(d) \in (10000 - strength(d))..10000
<1>1. strength(d) \in Scale
  BY StrengthBounded
<1>2. d.independent_signal_families \in Nat
  BY Zenon, NumbersOfInput
<1>4. ASSUME NEW s \in Scale, NEW f \in Nat
      PROVE  Points(10000 - s + Larger(0, 4 - f) * 400) \in (10000 - s)..10000
  <2>1. Larger(0, 4 - f) \in Nat
    BY DEF Larger
  <2>2. ASSUME NEW g \in Nat
        PROVE  Points(10000 - s + g * 400) \in (10000 - s)..10000
    BY DEF Points, clamp, Smaller, Larger, Scale
  <2> QED
    BY <2>1, <2>2
<1>3. uncertainty(d) = Points(10000 - strength(d) + Larger(0, 4 - d.independent_signal_families) * 400)
  BY DEF uncertainty
<1> QED
  BY <1>1, <1>2, <1>3, <1>4

-----------------------------------------------------------------------------
(* How an event gets from one state to another.                            *)

\* Two consecutive declines are the only way into cooling, and from established
\* nothing but lost evidence or lost independence leads anywhere else.
THEOREM Hysteresis ==
    ASSUME NEW d \in ScoreInput, NEW hours \in Nat
    PROVE  /\ lifecycle_state(d, hours) = "cooling" =>
                \/ d.previous_state = "cooling"
                \/ d.previous_state \in Strong /\ d.consecutive_decline >= 2
           /\ d.previous_state = "established" /\ lifecycle_state(d, hours) # "established" =>
                Insufficient(d) \/ ~cross_platform(d) \/ d.consecutive_decline >= 2
<1>1. ASSUME lifecycle_state(d, hours) = "cooling"
      PROVE  \/ d.previous_state = "cooling"
             \/ d.previous_state \in Strong /\ d.consecutive_decline >= 2
  <2>1. raw_state(d, hours) = "cooling"
    BY <1>1 DEF lifecycle_state
  <2>2. OnItsMerits(d, hours) # "cooling"
    BY DEF OnItsMerits
  <2> QED
    BY <2>1, <2>2 DEF raw_state, StartsCooling
<1>2. ASSUME d.previous_state = "established", ~Insufficient(d), cross_platform(d),
             ~(d.consecutive_decline >= 2)
      PROVE  lifecycle_state(d, hours) = "established"
  <2>1. ~reactivated(d) /\ ~FallsDormant(d) /\ ~StartsCooling(d)
    BY <1>2 DEF reactivated, FallsDormant, StartsCooling
  <2>2. raw_state(d, hours) = "established"
    BY <1>2, <2>1 DEF raw_state
  <2> QED
    BY <1>2, <2>2 DEF lifecycle_state
<1> QED
  BY <1>1, <1>2

\* An event goes dormant only out of cooling, and after the quiet hours of its
\* type: no strong event disappears in one score.
THEOREM DormantIsEarned ==
    ASSUME NEW d \in ScoreInput, NEW hours \in Nat, lifecycle_state(d, hours) = "dormant"
    PROVE  /\ d.previous_state \in {"cooling", "dormant"}
           /\ d.inactive_hours >= DORMANCY_HOURS[d.event_type]
<1>1. raw_state(d, hours) = "dormant"
  BY DEF lifecycle_state
<1>2. OnItsMerits(d, hours) # "dormant" /\ Stirred(d) # "dormant"
  BY DEF OnItsMerits, Stirred
<1> QED
  BY <1>1, <1>2 DEF raw_state, FallsDormant

\* Established is reached only through the confirmation of the event's type, or
\* kept: no event is established by a single burst before its window.
THEOREM EstablishedIsConfirmedOrKept ==
    ASSUME NEW d \in ScoreInput, NEW hours \in Nat, lifecycle_state(d, hours) = "established"
    PROVE  \/ d.previous_state = "established" /\ ~(d.consecutive_decline >= 2)
           \/ Confirmed(d, hours)
<1>1. raw_state(d, hours) = "established"
  BY DEF lifecycle_state
<1>2. Stirred(d) # "established"
  BY DEF Stirred
<1>3. CASE d.previous_state = "established"
  <2>1. ~StartsCooling(d)
    BY <1>1, <1>3 DEF raw_state
  <2> QED
    BY <1>3, <2>1 DEF StartsCooling, Strong
<1>4. CASE d.previous_state # "established"
  <2>1. OnItsMerits(d, hours) = "established"
    BY <1>1, <1>2, <1>4 DEF raw_state
  <2> QED
    BY <2>1 DEF OnItsMerits
<1> QED
  BY <1>3, <1>4

\* Time alone never excites: what _refresh_quiet_event scores, without growth and
\* without an anomaly, neither emerges nor accelerates, and raises no label that
\* speaks of growth.
THEOREM TimeAloneNeverExcites ==
    ASSUME NEW d \in ScoreInput, NEW hours \in Nat,
           d.consecutive_joint_growth = 0, d.consecutive_gap_growth = 0, d.anomaly_robust_z = 0
    PROVE  /\ lifecycle_state(d, hours) \notin {"emerging", "accelerating"}
           /\ labels(d, hours) \cap {"adoption_confirmed", "response_confirmed", "reactivated",
                                     "expected_behavior_lag", "attention_behavior_gap"} = {}
<1>1. /\ ~Anomalous(d) /\ ~reactivated(d) /\ ~Accelerates(d) /\ ~adopted(d) /\ ~responded(d)
      /\ ~normal_delay(d, hours) /\ ~gap_is_material(d, hours)
  BY DEF Anomalous, reactivated, Accelerates, adopted, responded, normal_delay, gap_is_material
<1>2. Stirred(d) = "cooling" /\ OnItsMerits(d, hours) \notin {"emerging", "accelerating"}
  BY <1>1 DEF Stirred, OnItsMerits
<1>3. raw_state(d, hours) \notin {"emerging", "accelerating"}
  BY <1>1, <1>2 DEF raw_state
<1>4. lifecycle_state(d, hours) \notin {"emerging", "accelerating"}
  BY <1>1, <1>3 DEF lifecycle_state
<1>5. ASSUME NEW l \in labels(d, hours),
             l \in {"adoption_confirmed", "response_confirmed", "reactivated",
                    "expected_behavior_lag", "attention_behavior_gap"}
      PROVE  FALSE
  BY <1>1, <1>5 DEF labels
<1> QED
  BY <1>4, <1>5

-----------------------------------------------------------------------------
(* Labels.                                                                 *)

\* A gap is either expected for now or remarkable, never both.
THEOREM OneKindOfGap ==
    ASSUME NEW d \in ScoreInput, NEW hours \in Nat
    PROVE  ~({"expected_behavior_lag", "attention_behavior_gap"} \subseteq labels(d, hours))
BY DEF labels

\* Two score cycles that raise the same labels decide, whatever was shown before.
THEOREM TwoCyclesDecide ==
    ASSUME NEW active \in SUBSET StructureLabel, NEW raw \in SUBSET StructureLabel
    PROVE  _stable_labels(active, raw, {raw}) = raw
BY DEF _stable_labels

\* One cycle that disagrees with settled labels changes nothing but to tell at
\* once that an event came back.
THEOREM OneCycleChangesNothing ==
    ASSUME NEW settled \in SUBSET StructureLabel, NEW raw \in SUBSET StructureLabel
    PROVE  _stable_labels(settled, raw, {settled}) = settled \cup (raw \cap {"reactivated"})
BY DEF _stable_labels

\* Scoring again within a bucket, as every new observation does, changes nothing
\* by itself: the repeated run does not count as a second cycle.
THEOREM RepeatedRunsDoNotConfirm ==
    ASSUME NEW active \in SUBSET StructureLabel, NEW raw \in SUBSET StructureLabel,
           NEW previous_raw \in SUBSET SUBSET StructureLabel
    PROVE  LET shown == _stable_labels(active, raw, previous_raw)
           IN  _stable_labels(shown, raw, previous_raw) = shown
BY DEF _stable_labels

-----------------------------------------------------------------------------
(***************************************************************************)
(* The local variables of a task, and what Local leaves of them.           *)
(***************************************************************************)
\* Where a task has an event in hand, has read it, and is about to write it.
InEvent == Active \ {"queued", "completing", "failing"}
Reviewing == InEvent \ {"creating", "reading"}
Writing == {"triaging", "scoring"}

Inputs == SUBSET (Observation \X Nat)

\* A task has the local variables it uses where it stands.
Equipped(v) ==
    /\ "pc" \in DOMAIN v /\ v.pc \in Active \cup {"idle", "claiming"}
    /\ v.pc # "idle" => "o" \in DOMAIN v /\ v.o \in Observation
    /\ v.pc \in Active => "rev" \in DOMAIN v /\ v.rev \in Nat
    /\ v.pc \in InEvent \cup {"claiming", "queued"} => "prov" \in DOMAIN v
    /\ v.pc \in InEvent => {"e", "created", "tries"} \subseteq DOMAIN v /\ v.e \in Event
    /\ v.pc \in Reviewing => {"ver", "cv"} \subseteq DOMAIN v /\ v.ver \in Nat
    /\ v.pc \in Writing => {"input", "at"} \subseteq DOMAIN v /\ v.input \in Inputs

\* The shape of what is stored.
Store ==
    /\ DOMAIN obs = Observation
    /\ \A o \in Observation : obs[o].rev \in Nat /\ DOMAIN obs[o] = {"prov", "rev", "at", "done", "leased"}
    /\ members \subseteq Event \X Observation
    /\ DOMAIN event = Event
    /\ \A e \in Event : /\ event[e].version \in Nat /\ event[e].input \in Inputs
                        /\ DOMAIN event[e] = {"version", "cv", "input", "last"}

Tasks == DOMAIN task = Task /\ \A t \in Task : Equipped(task[t])

LEMMA LocalIs ==
  ASSUME NEW t \in Task, NEW x, Local(t, x), DOMAIN task = Task
  PROVE  /\ DOMAIN task' = Task
         /\ \A u \in Task \ {t} : task'[u] = task[u]
         /\ DOMAIN task'[t] = (DOMAIN x \cup DOMAIN task[t]) \cap Kept(x.pc)
         /\ \A f \in DOMAIN x \cap Kept(x.pc) : task'[t][f] = x[f]
         /\ \A f \in (DOMAIN task[t] \ DOMAIN x) \cap Kept(x.pc) : task'[t][f] = task[t][f]
BY DEF Local

LEMMA KeptIs ==
    /\ \A pc \in {"completing", "failing"} : Kept(pc) = {"pc", "o", "rev"}
    /\ \A pc \in Writing :
         Kept(pc) = {"pc", "o", "rev", "prov", "tries", "e", "created", "ver", "cv", "joined",
                     "input", "at"}
    /\ \A pc \in (Active \cup {"claiming"}) \ ({"completing", "failing"} \cup Writing) :
         Kept(pc) = {"pc", "o", "rev", "prov", "tries", "e", "created", "ver", "cv", "joined"}
BY DEF Kept, Active, Writing

-----------------------------------------------------------------------------
(***************************************************************************)
(* Each handler, as far as the proofs look at it: where the task stands    *)
(* after it, with which local variables.                                   *)
(***************************************************************************)
Moves(t) == DOMAIN task' = Task /\ \A u \in Task \ {t} : task'[u] = task[u]
Keeps(t, fields) == \A f \in fields : f \in DOMAIN task'[t] /\ task'[t][f] = task[t][f]

LEMMA LocalMoves ==
  ASSUME Tasks, NEW t \in Task, NEW x, Local(t, x)
  PROVE  /\ Moves(t)
         /\ DOMAIN task'[t] = (DOMAIN x \cup DOMAIN task[t]) \cap Kept(x.pc)
         /\ \A f \in DOMAIN x \cap Kept(x.pc) : task'[t][f] = x[f]
         /\ \A f \in (DOMAIN task[t] \ DOMAIN x) \cap Kept(x.pc) : task'[t][f] = task[t][f]
BY LocalIs DEF Tasks, Moves

LEMMA TasksMove ==
  ASSUME Tasks, NEW t \in Task, Moves(t), Equipped(task'[t])
  PROVE  Tasks'
BY DEF Tasks, Moves, Equipped

LEMMA Goes ==
  ASSUME Tasks, NEW t \in Task, NEW pc \in {"completing", "failing"}, Goto(t, pc),
         task[t].pc \in Active
  PROVE  Moves(t) /\ task'[t].pc = pc /\ Keeps(t, {"o", "rev"}) /\ Tasks'
<1> DEFINE x == [pc |-> pc]
<1>1. DOMAIN x = {"pc"} /\ x.pc = pc /\ Local(t, x) /\ Kept(pc) = {"pc", "o", "rev"}
  BY KeptIs DEF Goto
<1>2. {"pc", "o", "rev"} \subseteq DOMAIN task[t] /\ task[t].o \in Observation /\ task[t].rev \in Nat
  BY DEF Tasks, Equipped, Active
<1> HIDE DEF x
<1>3. Moves(t) /\ task'[t].pc = pc /\ Keeps(t, {"o", "rev"}) /\ DOMAIN task'[t] = {"pc", "o", "rev"}
  BY <1>1, <1>2, LocalMoves DEF Keeps
<1>4. Equipped(task'[t])
  BY <1>2, <1>3 DEF Equipped, Keeps, Active, InEvent, Reviewing, Writing
<1> QED
  BY <1>3, <1>4, TasksMove

\* The events an observation may join.
Fits(o) == {e \in Candidates : TopicOf[e] = Topic(o)}

LEMMA Chooses ==
  ASSUME Tasks, NEW t \in Task, NEW tries, Choose(t, tries), task[t].pc \in {"queued"} \cup InEvent
  PROVE  /\ Moves(t) /\ Keeps(t, {"o", "rev", "prov"}) /\ Tasks'
         /\ \/ task'[t].pc = "reading" /\ task'[t].e \in Fits(task[t].o)
            \/ task'[t].pc = "creating" /\ task'[t].e = EventOf[task[t].o] /\ Fits(task[t].o) = {}
<1>1. {"pc", "o", "rev", "prov"} \subseteq DOMAIN task[t] /\ task[t].o \in Observation /\ task[t].rev \in Nat
  BY DEF Tasks, Equipped, Active, InEvent
<1>2. ASSUME NEW pc \in {"reading", "creating"}, NEW e \in Event, NEW created,
             Local(t, [pc |-> pc, e |-> e, created |-> created, tries |-> tries])
      PROVE  /\ Moves(t) /\ Keeps(t, {"o", "rev", "prov"}) /\ Tasks'
             /\ task'[t].pc = pc /\ task'[t].e = e
  <2> DEFINE x == [pc |-> pc, e |-> e, created |-> created, tries |-> tries]
  <2>1. DOMAIN x = {"pc", "e", "created", "tries"} /\ x.pc = pc /\ x.e = e /\ Local(t, x)
        /\ Kept(pc) = {"pc", "o", "rev", "prov", "tries", "e", "created", "ver", "cv", "joined"}
    BY <1>2, KeptIs DEF Active, Writing
  <2> HIDE DEF x
  <2>2. /\ Moves(t) /\ task'[t].pc = pc /\ task'[t].e = e /\ Keeps(t, {"o", "rev", "prov"})
        /\ {"pc", "o", "rev", "prov", "e", "created", "tries"} \subseteq DOMAIN task'[t]
    BY <1>1, <2>1, LocalMoves DEF Keeps
  <2>3. Equipped(task'[t])
    BY <1>1, <2>2 DEF Equipped, Keeps, Active, InEvent, Reviewing, Writing
  <2> QED
    BY <2>2, <2>3, TasksMove
<1>3. CASE \E e \in Fits(task[t].o) :
              Local(t, [pc |-> "reading", e |-> e, created |-> FALSE, tries |-> tries])
  BY <1>2, <1>3 DEF Fits, Candidates
<1>4. CASE /\ Fits(task[t].o) = {}
           /\ Local(t, [pc |-> "creating", e |-> EventOf[task[t].o], created |-> TRUE, tries |-> tries])
  <2>1. EventOf[task[t].o] \in Event
    BY <1>1, ScoringAssumption
  <2> QED
    BY <1>2, <1>4, <2>1
<1> QED
  BY <1>3, <1>4 DEF Choose, Fits

\* After a conflict a task starts over or fails.
Restarted(t) ==
    /\ Moves(t) /\ Keeps(t, {"o", "rev"}) /\ Tasks'
    /\ \/ task'[t].pc = "failing"
       \/ Keeps(t, {"prov"}) /\ task'[t].pc = "reading" /\ task'[t].e \in Fits(task[t].o)
       \/ /\ Keeps(t, {"prov"}) /\ task'[t].pc = "creating" /\ task'[t].e = EventOf[task[t].o]
          /\ Fits(task[t].o) = {}

LEMMA Conflicts ==
  ASSUME Tasks, NEW t \in Task, Conflict(t), task[t].pc \in InEvent
  PROVE  Restarted(t)
<1>1. CASE Choose(t, task[t].tries + 1)
  BY <1>1, Chooses DEF Restarted, Keeps
<1>2. CASE Goto(t, "failing")
  BY <1>2, Goes DEF Restarted, InEvent
<1> QED
  BY <1>1, <1>2 DEF Conflict

LEMMA Rests ==
  ASSUME Tasks, NEW t \in Task, task' = [task EXCEPT ![t] = Idle]
  PROVE  Moves(t) /\ task'[t].pc = "idle" /\ Tasks'
<1>1. Moves(t) /\ task'[t] = Idle
  BY DEF Tasks, Moves
<1>2. Equipped(Idle)
  BY DEF Idle, Equipped, Active, InEvent, Reviewing, Writing
<1> QED
  BY <1>1, <1>2, TasksMove DEF Idle

LEMMA Handles ==
  ASSUME Tasks, NEW t \in Task, NEW o \in Observation, NEW prov, Handle(t, o, prov),
         task[t].pc = "idle"
  PROVE  /\ Moves(t) /\ Tasks' /\ task'[t].pc = "claiming" /\ task'[t].o = o /\ task'[t].prov = prov
<1> DEFINE x == [pc |-> "claiming", o |-> o, prov |-> prov]
<1>1. /\ DOMAIN x = {"pc", "o", "prov"} /\ x.pc = "claiming" /\ x.o = o /\ x.prov = prov /\ Local(t, x)
      /\ Kept("claiming") = {"pc", "o", "rev", "prov", "tries", "e", "created", "ver", "cv", "joined"}
  BY KeptIs DEF Handle, Writing
<1> HIDE DEF x
<1>2. /\ Moves(t) /\ task'[t].pc = "claiming" /\ task'[t].o = o /\ task'[t].prov = prov
      /\ {"pc", "o", "prov"} \subseteq DOMAIN task'[t]
  BY <1>1, LocalMoves
<1>3. Equipped(task'[t])
  BY <1>2 DEF Equipped, Active, InEvent, Reviewing, Writing
<1> QED
  BY <1>2, <1>3, TasksMove

LEMMA Claims ==
  ASSUME Tasks, Store, NEW t \in Task, task[t].pc = "claiming",
         Local(t, [pc |-> "queued", rev |-> obs[task[t].o].rev])
  PROVE  /\ Moves(t) /\ Tasks' /\ task'[t].pc = "queued" /\ task'[t].rev = obs[task[t].o].rev
         /\ Keeps(t, {"o", "prov"})
<1> DEFINE x == [pc |-> "queued", rev |-> obs[task[t].o].rev]
<1>1. /\ DOMAIN x = {"pc", "rev"} /\ x.pc = "queued" /\ x.rev = obs[task[t].o].rev /\ Local(t, x)
      /\ Kept("queued") = {"pc", "o", "rev", "prov", "tries", "e", "created", "ver", "cv", "joined"}
  BY KeptIs DEF Active, Writing
<1>2. {"pc", "o", "prov"} \subseteq DOMAIN task[t] /\ task[t].o \in Observation
      /\ obs[task[t].o].rev \in Nat
  BY DEF Tasks, Equipped, Active, InEvent, Store
<1> HIDE DEF x
<1>3. /\ Moves(t) /\ task'[t].pc = "queued" /\ task'[t].rev = obs[task[t].o].rev
      /\ Keeps(t, {"o", "prov"}) /\ {"pc", "o", "prov", "rev"} \subseteq DOMAIN task'[t]
  BY <1>1, <1>2, LocalMoves DEF Keeps
<1>4. Equipped(task'[t])
  BY <1>2, <1>3 DEF Equipped, Keeps, Active, InEvent, Reviewing, Writing
<1> QED
  BY <1>3, <1>4, TasksMove

LEMMA Creates ==
  ASSUME Tasks, NEW t \in Task, task[t].pc = "creating", Goto(t, "reading")
  PROVE  Moves(t) /\ Tasks' /\ task'[t].pc = "reading" /\ Keeps(t, {"o", "rev", "prov", "e"})
<1> DEFINE x == [pc |-> "reading"]
<1>1. /\ DOMAIN x = {"pc"} /\ x.pc = "reading" /\ Local(t, x)
      /\ Kept("reading") = {"pc", "o", "rev", "prov", "tries", "e", "created", "ver", "cv", "joined"}
  BY KeptIs DEF Goto, Active, Writing
<1>2. /\ {"pc", "o", "rev", "prov", "e", "created", "tries"} \subseteq DOMAIN task[t]
      /\ task[t].o \in Observation /\ task[t].rev \in Nat /\ task[t].e \in Event
  BY DEF Tasks, Equipped, Active, InEvent
<1> HIDE DEF x
<1>3. /\ Moves(t) /\ task'[t].pc = "reading" /\ Keeps(t, {"o", "rev", "prov", "e", "created", "tries"})
      /\ "pc" \in DOMAIN task'[t]
  BY <1>1, <1>2, LocalMoves DEF Keeps
<1>4. Equipped(task'[t])
  BY <1>2, <1>3 DEF Equipped, Keeps, Active, InEvent, Reviewing, Writing
<1> QED
  BY <1>3, <1>4, TasksMove DEF Keeps

LEMMA Reads ==
  ASSUME Tasks, Store, NEW t \in Task, Read(t)
  PROVE  /\ Moves(t) /\ Tasks' /\ task'[t].pc = "assigning" /\ Keeps(t, {"o", "rev", "prov", "e"})
         /\ task'[t].ver = event[task[t].e].version
<1> DEFINE x == [pc |-> "assigning", ver |-> event[task[t].e].version, cv |-> event[task[t].e].cv]
<1>1. /\ DOMAIN x = {"pc", "ver", "cv"} /\ x.pc = "assigning" /\ x.ver = event[task[t].e].version
      /\ Local(t, x) /\ task[t].pc = "reading"
      /\ Kept("assigning") = {"pc", "o", "rev", "prov", "tries", "e", "created", "ver", "cv", "joined"}
  BY KeptIs DEF Read, At, Active, Writing
<1>2. /\ {"pc", "o", "rev", "prov", "e", "created", "tries"} \subseteq DOMAIN task[t]
      /\ task[t].o \in Observation /\ task[t].rev \in Nat /\ task[t].e \in Event
      /\ event[task[t].e].version \in Nat
  BY <1>1 DEF Tasks, Equipped, Active, InEvent, Store
<1> HIDE DEF x
<1>3. /\ Moves(t) /\ task'[t].pc = "assigning" /\ Keeps(t, {"o", "rev", "prov", "e", "created", "tries"})
      /\ {"pc", "ver", "cv"} \subseteq DOMAIN task'[t] /\ task'[t].ver = event[task[t].e].version
  BY <1>1, <1>2, LocalMoves DEF Keeps
<1>4. Equipped(task'[t])
  BY <1>2, <1>3 DEF Equipped, Keeps, Active, InEvent, Reviewing, Writing
<1> QED
  BY <1>3, <1>4, TasksMove DEF Keeps

LEMMA Assigns ==
  ASSUME Tasks, NEW t \in Task, assign_observation(t)
  PROVE  /\ Moves(t) /\ Tasks' /\ task'[t].pc = "loading"
         /\ Keeps(t, {"o", "rev", "prov", "e", "ver"})
<1>0. PICK joined : Local(t, [pc |-> "loading", joined |-> joined]) /\ task[t].pc = "assigning"
  BY DEF assign_observation, At
<1> DEFINE x == [pc |-> "loading", joined |-> joined]
<1>1. /\ DOMAIN x = {"pc", "joined"} /\ x.pc = "loading" /\ Local(t, x)
      /\ Kept("loading") = {"pc", "o", "rev", "prov", "tries", "e", "created", "ver", "cv", "joined"}
  BY <1>0, KeptIs DEF Active, Writing
<1>2. /\ {"pc", "o", "rev", "prov", "e", "created", "tries", "ver", "cv"} \subseteq DOMAIN task[t]
      /\ task[t].o \in Observation /\ task[t].rev \in Nat /\ task[t].e \in Event /\ task[t].ver \in Nat
  BY <1>0 DEF Tasks, Equipped, Active, InEvent, Reviewing
<1> HIDE DEF x
<1>3. /\ Moves(t) /\ task'[t].pc = "loading" /\ "pc" \in DOMAIN task'[t]
      /\ Keeps(t, {"o", "rev", "prov", "e", "created", "tries", "ver", "cv"})
  BY <1>1, <1>2, LocalMoves DEF Keeps
<1>4. Equipped(task'[t])
  BY <1>2, <1>3 DEF Equipped, Keeps, Active, InEvent, Reviewing, Writing
<1> QED
  BY <1>3, <1>4, TasksMove DEF Keeps

LEMMA TrustedIsInput == Store => \A e : TrustedInput(e) \in Inputs
<1> SUFFICES ASSUME Store, NEW e, NEW x \in TrustedInput(e) PROVE x \in Observation \X Nat
  BY DEF Inputs
<1>1. PICK o \in Observation : x = <<o, obs[o].rev>>
  BY DEF TrustedInput
<1> QED
  BY <1>1 DEF Store

\* Where a task goes when it has read what its event rests on.
Loaded(t) ==
    LET v == task[t]
        input == TrustedInput(task[t].e)
    IN /\ Moves(t) /\ Tasks' /\ Keeps(t, {"o", "rev"})
       /\ \/ v.prov = "unverified" /\ task'[t].pc = "noting" /\ Keeps(t, {"prov", "e", "ver"})
          \/ task'[t].pc = "failing"
          \/ /\ v.prov # "unverified" /\ input # {}
             /\ \/ task'[t].pc \in Writing /\ Keeps(t, {"prov", "e", "ver"}) /\ task'[t].input = input
                \/ task'[t].pc = "completing" /\ Digest(t, input) \in runs

LEMMA Loads ==
  ASSUME Tasks, Store, NEW t \in Task, Load(t)
  PROVE  Loaded(t)
<1> DEFINE input == TrustedInput(task[t].e)
<1> DEFINE pc == IF task[t].prov = "unverified" THEN "noting"
                 ELSE IF input = {} THEN "failing"
                 ELSE IF Basis(input) \in Unsupported THEN "triaging"
                 ELSE IF Digest(t, input) \in runs THEN "completing" ELSE "scoring"
           at == IF input = {} THEN NoPoint ELSE Signal(input)
<1>a. Local(t, [pc |-> pc, input |-> input, at |-> at]) /\ task[t].pc = "loading"
  BY DEF Load, At
<1>b. \/ pc = "noting" /\ task[t].prov = "unverified"
      \/ task[t].prov # "unverified" /\ input = {} /\ pc = "failing"
      \/ /\ task[t].prov # "unverified" /\ input # {}
         /\ \/ pc \in Writing
            \/ pc = "completing" /\ Digest(t, input) \in runs
  <2> HIDE DEF input
  <2> QED
    BY DEF Writing
<1> HIDE DEF pc, at
<1>0. Local(t, [pc |-> pc, input |-> input, at |-> at]) /\ task[t].pc = "loading"
  BY <1>a
<1> DEFINE x == [pc |-> pc, input |-> input, at |-> at]
<1>1. /\ DOMAIN x = {"pc", "input", "at"} /\ x.pc = pc /\ x.input = input /\ Local(t, x)
  BY <1>0
<1>2. /\ {"pc", "o", "rev", "prov", "e", "created", "tries", "ver", "cv"} \subseteq DOMAIN task[t]
      /\ task[t].o \in Observation /\ task[t].rev \in Nat /\ task[t].e \in Event /\ task[t].ver \in Nat
  BY <1>0 DEF Tasks, Equipped, Active, InEvent, Reviewing
<1>3. input \in Inputs
  BY TrustedIsInput
<1> HIDE DEF x, input
<1>4. CASE pc \in {"completing", "failing"}
  <2>1. Kept(pc) = {"pc", "o", "rev"}
    BY <1>4, KeptIs
  <2>2. Moves(t) /\ task'[t].pc = pc /\ Keeps(t, {"o", "rev"}) /\ "pc" \in DOMAIN task'[t]
    BY <1>1, <1>2, <2>1, LocalMoves DEF Keeps
  <2>3. Equipped(task'[t])
    BY <1>2, <1>4, <2>2 DEF Equipped, Keeps, Active, InEvent, Reviewing, Writing
  <2> QED
    BY <1>b, <1>4, <2>2, <2>3, TasksMove DEF Loaded, Writing, input
<1>5. CASE pc \in {"noting"} \cup Writing
  <2>1. {"pc", "o", "rev", "prov", "tries", "e", "created", "ver", "cv"} \subseteq Kept(pc)
        /\ (pc \in Writing => {"input", "at"} \subseteq Kept(pc))
    BY <1>5, KeptIs DEF Active, Writing
  <2>2. /\ Moves(t) /\ task'[t].pc = pc /\ Keeps(t, {"o", "rev", "prov", "e", "created", "tries", "ver", "cv"})
        /\ "pc" \in DOMAIN task'[t]
        /\ pc \in Writing => {"input", "at"} \subseteq DOMAIN task'[t] /\ task'[t].input = input
    BY <1>1, <1>2, <2>1, LocalMoves DEF Keeps
  <2>3. Equipped(task'[t])
    BY <1>2, <1>3, <1>5, <2>2 DEF Equipped, Keeps, Active, InEvent, Reviewing, Writing
  <2>4. pc # "completing" /\ pc # "failing"
    BY <1>5 DEF Writing
  <2>5. Moves(t) /\ Tasks' /\ Keeps(t, {"o", "rev"}) /\ Keeps(t, {"prov", "e", "ver"})
    BY <2>2, <2>3, TasksMove DEF Keeps
  <2> QED
    BY <1>b, <1>5, <2>2, <2>4, <2>5 DEF Loaded, input
<1> QED
  BY <1>b, <1>4, <1>5 DEF Writing

-----------------------------------------------------------------------------
(***************************************************************************)
(* What has gone into events, into scores and into the hands of tasks: of  *)
(* a later revision at most, never more than what was trusted, and what a  *)
(* task read of an event holds as long as the event's version does.        *)
(***************************************************************************)
\* For every revision in small there is the same or a later one in big.
Covers(big, small) == \A x \in small : \E y \in big : y[1] = x[1] /\ y[2] >= x[2]

Trusted(e, input) ==
    \A x \in input : <<e, x[1]>> \in members /\ obs[x[1]].prov = "verified" /\ x[2] <= obs[x[1]].rev

StoreInv ==
    /\ \A e \in Event : /\ Trusted(e, event[e].input)
                        /\ event[e].version = 0 => event[e].input = {}
    /\ \A d \in runs : d.e \in Event /\ d.input \in Inputs /\ Covers(event[d.e].input, d.input)

Reading(t) ==
    LET v == task[t] IN
    /\ v.pc \in Active => v.rev <= obs[v.o].rev
    /\ v.pc \in InEvent \ {"creating"} => event[v.e].version > 0
    /\ v.pc \in Reviewing => v.ver <= event[v.e].version
    /\ v.pc \in Reviewing \ {"assigning"} => <<v.e, v.o>> \in members
    /\ v.pc \in Writing => /\ Trusted(v.e, v.input)
                           /\ event[v.e].version = v.ver => Covers(v.input, event[v.e].input)

\* What a sweep has read of an event is the event, or older.
Fresh(s) ==
    /\ "pc" \in DOMAIN s
    /\ s.pc \in {"looking", "storing", "penalising"} =>
          /\ "read" \in DOMAIN s /\ DOMAIN s.read \subseteq Event
          /\ \A e \in DOMAIN s.read : /\ event[e].version > 0
                                      /\ s.read[e].version \in Nat
                                      /\ s.read[e].version <= event[e].version
                                      /\ s.read[e].version = event[e].version => s.read[e] = event[e]
    /\ s.pc = "storing" => s.e \in DOMAIN s.read /\ s.read[s.e].last < s.at

ScoreInv ==
    /\ Store /\ Tasks /\ StoreInv
    /\ \A t \in Task : Reading(t)
    /\ DOMAIN sweep = Process /\ \A p \in Process : Fresh(sweep[p])

(***************************************************************************)
(* What no step takes back, and what remains to be shown of a step when    *)
(* nothing is taken back.                                                  *)
(***************************************************************************)
Onward ==
    /\ members \subseteq members'
    /\ \A o \in Observation : /\ obs[o].rev <= obs'[o].rev
                              /\ obs'[o].rev = obs[o].rev => obs'[o].prov = obs[o].prov
                              /\ obs[o].prov = "verified" => obs'[o].prov = "verified"
    /\ \A e \in Event : event'[e] = event[e] \/ event[e].version < event'[e].version
    /\ \A e \in Event : /\ Covers(event'[e].input, event[e].input)
                        /\ event'[e].input = event[e].input \/ Trusted(e, event'[e].input)
    /\ \A d \in runs' : d \in runs \/ (d.e \in Event /\ d.input = event'[d.e].input)

Stored == Store' /\ Onward
Swept == DOMAIN sweep' = Process /\ \A p \in Process : sweep'[p] = sweep[p] \/ Fresh(sweep[p])'
Progress ==
    /\ Stored /\ Tasks' /\ Swept
    /\ \A t \in Task : task'[t] = task[t] \/ Reading(t)'

LEMMA CoversItself == ASSUME NEW x \in Inputs PROVE Covers(x, x)
BY DEF Covers, Inputs

LEMMA CoversAll ==
  ASSUME NEW a \in Inputs, NEW b \in Inputs, NEW c \in Inputs, Covers(a, b), Covers(b, c)
  PROVE  Covers(a, c)
<1> SUFFICES ASSUME NEW x \in c PROVE \E y \in a : y[1] = x[1] /\ y[2] >= x[2]
  BY DEF Covers
<1>1. PICK y \in b : y[1] = x[1] /\ y[2] >= x[2]
  BY DEF Covers
<1>2. PICK z \in a : z[1] = y[1] /\ z[2] >= y[2]
  BY DEF Covers
<1>3. x[2] \in Nat /\ y[2] \in Nat /\ z[2] \in Nat
  BY DEF Inputs
<1> QED
  BY <1>1, <1>2, <1>3

\* What is trusted stays trusted.
LEMMA TrustedStays ==
  ASSUME Store, Store', Onward, NEW e, NEW x \in Inputs, Trusted(e, x)
  PROVE  Trusted(e, x)'
<1> SUFFICES ASSUME NEW y \in x
             PROVE  <<e, y[1]>> \in members' /\ obs'[y[1]].prov = "verified" /\ y[2] <= obs'[y[1]].rev
  BY DEF Trusted
<1>1. y[1] \in Observation /\ y[2] \in Nat
  BY DEF Inputs
<1>2. <<e, y[1]>> \in members /\ obs[y[1]].prov = "verified" /\ y[2] <= obs[y[1]].rev
  BY DEF Trusted
<1>3. obs[y[1]].rev \in Nat /\ obs'[y[1]].rev \in Nat
  BY <1>1 DEF Store
<1> QED
  BY <1>1, <1>2, <1>3 DEF Onward

LEMMA EventOnward ==
  ASSUME Store, Store', Onward, NEW e \in Event
  PROVE  /\ event[e].version <= event'[e].version
         /\ event'[e].version = event[e].version => event'[e] = event[e]
BY DEF Store, Onward

LEMMA ReadingStays ==
  ASSUME Store, Store', Tasks, Onward, NEW t \in Task, task'[t] = task[t], Reading(t)
  PROVE  Reading(t)'
<1> DEFINE v == task[t]
<1>0. Equipped(v) /\ task'[t] = v
  BY DEF Tasks
<1>1. v.pc \in Active => v.rev <= obs'[v.o].rev
  <2> SUFFICES ASSUME v.pc \in Active PROVE v.rev <= obs'[v.o].rev
    OBVIOUS
  <2>1. v.rev \in Nat /\ v.o \in Observation /\ v.rev <= obs[v.o].rev
    BY <1>0 DEF Equipped, Reading, Active
  <2> QED
    BY <2>1 DEF Store, Onward
<1>2. v.pc \in InEvent => v.e \in Event
  BY <1>0 DEF Equipped
<1>3. v.pc \in InEvent \ {"creating"} => event'[v.e].version > 0
  BY <1>2, EventOnward DEF Store, Reading
<1>4. v.pc \in Reviewing => v.ver <= event'[v.e].version
  BY <1>0, <1>2, EventOnward DEF Equipped, Store, Reading, Reviewing
<1>5. v.pc \in Reviewing \ {"assigning"} => <<v.e, v.o>> \in members'
  BY DEF Reading, Onward
<1>6. ASSUME v.pc \in Writing
      PROVE  Trusted(v.e, v.input)' /\ (event'[v.e].version = v.ver => Covers(v.input, event'[v.e].input))
  <2>1. v.input \in Inputs /\ Trusted(v.e, v.input) /\ v.e \in Event
        /\ v.ver \in Nat /\ v.ver <= event[v.e].version
        /\ (event[v.e].version = v.ver => Covers(v.input, event[v.e].input))
    BY <1>0, <1>2, <1>6 DEF Equipped, Reading, Writing, InEvent, Active, Reviewing
  <2>2. Trusted(v.e, v.input)'
    <3>1. PICK e, x : e = v.e /\ x = v.input
      OBVIOUS
    <3>2. Trusted(e, x)'
      BY <2>1, <3>1, TrustedStays
    <3> QED
      BY <1>0, <3>1, <3>2 DEF Trusted
  <2>3. event'[v.e].version = v.ver => event'[v.e] = event[v.e] /\ event[v.e].version = v.ver
    BY <2>1, EventOnward DEF Store
  <2> QED
    BY <2>1, <2>2, <2>3
<1> QED
  BY <1>0, <1>1, <1>3, <1>4, <1>5, <1>6 DEF Reading

LEMMA FreshStays ==
  ASSUME Store, Store', Onward, NEW p \in Process, sweep'[p] = sweep[p], Fresh(sweep[p])
  PROVE  Fresh(sweep[p])'
<1> DEFINE s == sweep[p]
<1>1. ASSUME s.pc \in {"looking", "storing", "penalising"}, NEW e \in DOMAIN s.read
      PROVE  /\ event'[e].version > 0 /\ s.read[e].version <= event'[e].version
             /\ s.read[e].version = event'[e].version => s.read[e] = event'[e]
  <2>1. e \in Event /\ event[e].version \in Nat /\ event'[e].version \in Nat
    BY <1>1 DEF Fresh, Store
  <2> QED
    BY <1>1, <2>1, EventOnward DEF Fresh
<1> QED
  BY <1>1 DEF Fresh

LEMMA StoreInvStays ==
  ASSUME Store, Store', Onward, StoreInv
  PROVE  StoreInv'
<1>1. ASSUME NEW e \in Event PROVE Trusted(e, event[e].input)'
  <2>1. PICK x : x = event'[e].input
    OBVIOUS
  <2>2. x \in Inputs /\ Trusted(e, x)
    BY <2>1 DEF Store, Onward, StoreInv
  <2>3. Trusted(e, x)'
    BY <2>2, TrustedStays
  <2> QED
    BY <2>1, <2>3 DEF Trusted
<1>2. ASSUME NEW e \in Event, event'[e].version = 0 PROVE event'[e].input = {}
  BY <1>2, EventOnward DEF Store, StoreInv
<1>3. ASSUME NEW d \in runs' PROVE d.e \in Event /\ d.input \in Inputs /\ Covers(event'[d.e].input, d.input)
  <2>1. CASE d \in runs
    <3>1. d.e \in Event /\ d.input \in Inputs /\ Covers(event[d.e].input, d.input)
          /\ Covers(event'[d.e].input, event[d.e].input)
      BY <2>1 DEF StoreInv, Onward
    <3> QED
      BY <3>1, CoversAll DEF Store
  <2>2. CASE d.e \in Event /\ d.input = event'[d.e].input
    BY <2>2, CoversItself DEF Store
  <2> QED
    BY <2>1, <2>2 DEF Onward
<1> QED
  BY <1>1, <1>2, <1>3 DEF StoreInv

LEMMA ProgressKeeps == ASSUME ScoreInv, Progress PROVE ScoreInv'
<1>1. Store /\ Store' /\ Onward /\ Tasks /\ Tasks'
  BY DEF ScoreInv, Progress, Stored
<1>2. StoreInv'
  BY <1>1, StoreInvStays DEF ScoreInv
<1>3. \A t \in Task : Reading(t)'
  BY <1>1, ReadingStays DEF ScoreInv, Progress
<1>4. \A p \in Process : Fresh(sweep[p])'
  BY <1>1, FreshStays DEF ScoreInv, Progress, Swept
<1> QED
  BY <1>1, <1>2, <1>3, <1>4 DEF ScoreInv, Progress, Swept

(***************************************************************************)
(* How a step may change what is stored.                                   *)
(***************************************************************************)
LEMMA NothingStored ==
  ASSUME ScoreInv, UNCHANGED <<obs, members, event, runs>>
  PROVE  Stored
<1>1. Store /\ Store'
  BY DEF ScoreInv, Store
<1>2. \A e \in Event : Covers(event[e].input, event[e].input)
  BY <1>1, CoversItself DEF Store
<1>3. \A o \in Observation : obs[o].rev <= obs[o].rev
  BY <1>1 DEF Store
<1> QED
  BY <1>1, <1>2, <1>3 DEF Stored, Onward

LEMMA ObservationStored ==
  ASSUME ScoreInv, UNCHANGED <<members, event, runs>>, DOMAIN obs' = Observation,
         \A o \in Observation :
            \/ obs'[o] = obs[o]
            \/ /\ DOMAIN obs'[o] = {"prov", "rev", "at", "done", "leased"} /\ obs'[o].rev \in Nat
               /\ \/ obs'[o].rev = obs[o].rev /\ obs'[o].prov = obs[o].prov
                  \/ obs[o].rev < obs'[o].rev /\ (obs[o].prov = "verified" => obs'[o].prov = "verified")
  PROVE  Stored
<1>0. Store
  BY DEF ScoreInv
<1>1. Store'
  BY <1>0 DEF Store
<1>2. \A e \in Event : Covers(event[e].input, event[e].input)
  BY <1>0, CoversItself DEF Store
<1>3. \A o \in Observation : /\ obs[o].rev <= obs'[o].rev
                             /\ obs'[o].rev = obs[o].rev => obs'[o].prov = obs[o].prov
                             /\ obs[o].prov = "verified" => obs'[o].prov = "verified"
  BY <1>0 DEF Store
<1> QED
  BY <1>1, <1>2, <1>3 DEF Stored, Onward

\* One event is overwritten by one that covers it.
LEMMA EventStored ==
  ASSUME ScoreInv, UNCHANGED <<obs, members>>, NEW e \in Event, NEW row,
         event' = [event EXCEPT ![e] = row],
         DOMAIN row = {"version", "cv", "input", "last"},
         row.version \in Nat, event[e].version < row.version,
         row.input \in Inputs, Covers(row.input, event[e].input),
         row.input = event[e].input \/ Trusted(e, row.input),
         \A d \in runs' : d \in runs \/ (d.e = e /\ d.input = row.input)
  PROVE  Stored
<1>0. Store /\ event'[e] = row /\ \A f \in Event \ {e} : event'[f] = event[f]
  BY DEF ScoreInv, Store
<1>1. Store'
  BY <1>0 DEF Store
<1>2. \A f \in Event : Covers(event[f].input, event[f].input)
  BY <1>0, CoversItself DEF Store
<1>3. \A o \in Observation : obs[o].rev <= obs[o].rev
  BY <1>0 DEF Store
<1>4. \A f \in Event : /\ event'[f] = event[f] \/ event[f].version < event'[f].version
                       /\ Covers(event'[f].input, event[f].input)
                       /\ event'[f].input = event[f].input \/ Trusted(f, event'[f].input)
  BY <1>0, <1>2
<1> QED
  BY <1>0, <1>1, <1>3, <1>4 DEF Stored, Onward

LEMMA TaskProgress ==
  ASSUME ScoreInv, Stored, sweep' = sweep, NEW t \in Task, Moves(t), Tasks', Reading(t)'
  PROVE  Progress
BY DEF Progress, Swept, Moves, ScoreInv

\* A task at one of these places has nothing in its hands.
LEMMA OffDuty ==
  ASSUME NEW t \in Task, task'[t].pc \in {"idle", "claiming"}
  PROVE  Reading(t)'
BY DEF Reading, Active, InEvent, Reviewing, Writing

LEMMA OutOfEvent ==
  ASSUME NEW t \in Task, task'[t].pc \in {"queued", "completing", "failing"},
         task'[t].rev <= obs'[task'[t].o].rev
  PROVE  Reading(t)'
BY DEF Reading, InEvent, Reviewing, Writing

LEMMA InHand ==
  ASSUME ScoreInv, NEW t \in Task
  PROVE  /\ Equipped(task[t]) /\ Reading(t)
         /\ task[t].pc \in Active =>
               task[t].o \in Observation /\ task[t].rev \in Nat /\ task[t].rev <= obs[task[t].o].rev
         /\ task[t].pc \in InEvent => task[t].e \in Event
BY DEF ScoreInv, Tasks, Equipped, Reading, Active

LEMMA RestartedReads ==
  ASSUME ScoreInv, NEW t \in Task, task[t].pc \in Active, Restarted(t), UNCHANGED <<obs, event>>
  PROVE  Reading(t)'
<1>1. task'[t].o = task[t].o /\ task'[t].rev = task[t].rev
  BY DEF Restarted, Keeps
<1>2. task'[t].rev <= obs'[task'[t].o].rev
  BY <1>1, InHand
<1>3. CASE task'[t].pc = "failing"
  BY <1>2, <1>3, OutOfEvent
<1>4. CASE task'[t].pc = "reading" /\ task'[t].e \in Fits(task[t].o)
  BY <1>2, <1>4 DEF Reading, Fits, Candidates, InEvent, Reviewing, Writing
<1>5. CASE task'[t].pc = "creating"
  BY <1>2, <1>5 DEF Reading, InEvent, Reviewing, Writing
<1> QED
  BY <1>3, <1>4, <1>5 DEF Restarted

(***************************************************************************)
(* Every action makes progress.                                            *)
(***************************************************************************)
LEMMA BeginCycleStep ==
  ASSUME ScoreInv, NEW p \in Process, BeginCycle(p)
  PROVE  Progress
<1>1. UNCHANGED <<obs, members, event, runs, task>> /\ sweep' = [sweep EXCEPT ![p].pc = "due"]
  BY DEF BeginCycle, results
<1>2. Stored
  BY <1>1, NothingStored
<1>3. Tasks' /\ \A t \in Task : task'[t] = task[t]
  BY <1>1 DEF ScoreInv, Tasks
<1>4. DOMAIN sweep' = Process /\ \A q \in Process \ {p} : sweep'[q] = sweep[q]
  BY <1>1 DEF ScoreInv
<1>5. "pc" \in DOMAIN sweep'[p] /\ sweep'[p].pc = "due"
  BY <1>1 DEF ScoreInv, Fresh
<1>6. Fresh(sweep[p])'
  BY <1>5 DEF Fresh
<1> QED
  BY <1>2, <1>3, <1>4, <1>6 DEF Progress, Swept

LEMMA CollectStep ==
  ASSUME ScoreInv, NEW t \in Task, NEW o \in Observation, NEW prov, NEW fresh, Collect(t, o, prov, fresh)
  PROVE  Progress
<1>1. /\ UNCHANGED <<members, event, runs, sweep>> /\ Handle(t, o, prov) /\ task[t].pc = "idle"
      /\ \/ obs' = obs
         \/ Changes(o, prov, fresh) /\ save_observation_with_outbox(o, prov)
  BY DEF Collect, results, housekeeping, MayStart, At
<1>2. Store /\ Tasks
  BY DEF ScoreInv
<1>3. Stored
  <2>1. CASE obs' = obs
    BY <1>1, <2>1, NothingStored
  <2>2. CASE Changes(o, prov, fresh) /\ save_observation_with_outbox(o, prov)
    <3>1. DOMAIN obs' = Observation /\ \A u \in Observation \ {o} : obs'[u] = obs[u]
      BY <1>2, <2>2 DEF Store, save_observation_with_outbox
    <3>2. /\ DOMAIN obs'[o] = {"prov", "rev", "at", "done", "leased"}
          /\ obs'[o].rev = obs[o].rev + 1 /\ obs'[o].prov = prov /\ obs[o].rev \in Nat
      BY <1>2, <2>2 DEF Store, save_observation_with_outbox
    <3>3. obs[o].prov = "verified" => prov = "verified"
      BY <2>2 DEF Changes
    <3> QED
      BY <1>1, <3>1, <3>2, <3>3, ObservationStored
  <2> QED
    BY <1>1, <2>1, <2>2
<1> QED
  BY <1>1, <1>2, <1>3, Handles, OffDuty, TaskProgress

LEMMA RetryStep ==
  ASSUME ScoreInv, NEW t \in Task, NEW o \in Observation, RetryPending(t, o)
  PROVE  Progress
<1>1. PICK prov : /\ UNCHANGED <<obs, members, event, runs, sweep>> /\ Handle(t, o, prov)
                  /\ task[t].pc = "idle"
  BY DEF RetryPending, results, housekeeping, MayStart, At
<1> QED
  BY <1>1, NothingStored, Handles, OffDuty, TaskProgress DEF ScoreInv

LEMMA ClaimStep ==
  ASSUME ScoreInv, NEW t \in Task, Claim(t)
  PROVE  Progress
<1>1. UNCHANGED <<members, event, runs, sweep>> /\ task[t].pc = "claiming" /\ Store /\ Tasks
  BY DEF Claim, results, housekeeping, At, ScoreInv
<1>2. task[t].o \in Observation
  BY <1>1 DEF Tasks, Equipped
<1>3. CASE /\ obs' = [obs EXCEPT ![task[t].o].leased = TRUE]
           /\ Local(t, [pc |-> "queued", rev |-> obs[task[t].o].rev])
  <2>1. DOMAIN obs' = Observation /\ \A u \in Observation \ {task[t].o} : obs'[u] = obs[u]
    BY <1>1, <1>3 DEF Store
  <2>2. LET o == task[t].o IN
        /\ DOMAIN obs'[o] = {"prov", "rev", "at", "done", "leased"}
        /\ obs'[o].rev = obs[o].rev /\ obs'[o].prov = obs[o].prov /\ obs[o].rev \in Nat
    BY <1>1, <1>2, <1>3 DEF Store
  <2>3. Stored
    BY <1>1, <2>1, <2>2, ObservationStored
  <2>4. /\ Moves(t) /\ Tasks' /\ task'[t].pc = "queued" /\ task'[t].rev = obs[task[t].o].rev
        /\ task'[t].o = task[t].o
    BY <1>1, <1>3, Claims DEF Keeps
  <2>5. task'[t].rev <= obs'[task'[t].o].rev
    BY <2>2, <2>4
  <2> QED
    BY <1>1, <2>3, <2>4, <2>5, OutOfEvent, TaskProgress
<1>4. CASE obs' = obs /\ task' = [task EXCEPT ![t] = Idle]
  BY <1>1, <1>4, NothingStored, Rests, OffDuty, TaskProgress
<1> QED
  BY <1>3, <1>4 DEF Claim

LEMMA EnterStep ==
  ASSUME ScoreInv, NEW t \in Task, Enter(t)
  PROVE  Progress
<1>1. /\ UNCHANGED <<obs, members, event, runs, sweep>> /\ task[t].pc = "queued" /\ Choose(t, 0)
      /\ Tasks
  BY DEF Enter, results, housekeeping, At, ScoreInv
<1>2. Restarted(t)
  BY <1>1, Chooses DEF Restarted, Keeps
<1>3. task[t].pc \in Active
  BY <1>1 DEF Active
<1> QED
  BY <1>1, <1>2, <1>3, NothingStored, RestartedReads, TaskProgress DEF Restarted

LEMMA ConflictStep ==
  ASSUME ScoreInv, NEW t \in Task, task[t].pc \in InEvent, Conflict(t),
         UNCHANGED <<obs, members, event, runs, sweep>>
  PROVE  Progress
<1>1. Restarted(t)
  BY Conflicts DEF ScoreInv
<1>2. task[t].pc \in Active
  BY DEF InEvent
<1> QED
  BY <1>1, <1>2, NothingStored, RestartedReads, TaskProgress DEF Restarted

LEMMA CreateStep ==
  ASSUME ScoreInv, NEW t \in Task, Create(t)
  PROVE  Progress
<1>1. UNCHANGED <<obs, members, runs, sweep>> /\ task[t].pc = "creating"
  BY DEF Create, housekeeping, At
<1>2. task[t].pc \in InEvent /\ task[t].pc \in Active
  BY <1>1 DEF InEvent, Active
<1>3. CASE Conflict(t) /\ event' = event
  BY <1>1, <1>2, <1>3, ConflictStep
<1>4. CASE /\ event[task[t].e].version = 0
           /\ event' = [event EXCEPT ![task[t].e] = _skeleton] /\ Goto(t, "reading")
  <2>1. Moves(t) /\ Tasks' /\ task'[t].pc = "reading" /\ Keeps(t, {"o", "rev", "prov", "e"})
    BY <1>1, <1>4, Creates DEF ScoreInv
  <2>2. PICK e \in Event : e = task[t].e
    BY <1>2, InHand
  <2>3. event[e].input = {} /\ Store
    BY <1>4, <2>2 DEF ScoreInv, StoreInv
  <2>4. /\ DOMAIN _skeleton = {"version", "cv", "input", "last"} /\ _skeleton.version = 1
        /\ _skeleton.input = {} /\ {} \in Inputs /\ Covers({}, {})
    BY DEF _skeleton, Inputs, Covers
  <2>5. Stored
    <3>1. PICK row : row = _skeleton
      OBVIOUS
    <3>2. /\ event' = [event EXCEPT ![e] = row] /\ event[e].version < row.version
          /\ DOMAIN row = {"version", "cv", "input", "last"} /\ row.version \in Nat
          /\ row.input \in Inputs /\ Covers(row.input, event[e].input) /\ row.input = event[e].input
      BY <1>4, <2>2, <2>3, <2>4, <3>1
    <3> QED
      BY <1>1, <3>2, EventStored
  <2>6. task'[t].o = task[t].o /\ task'[t].rev = task[t].rev /\ task'[t].e = e
    BY <2>1, <2>2 DEF Keeps
  <2>7. event'[e].version = 1
    BY <1>4, <2>2, <2>3, <2>4 DEF Store
  <2>8. task'[t].rev <= obs'[task'[t].o].rev
    BY <1>1, <1>2, <2>6, InHand
  <2>9. Reading(t)'
    BY <2>1, <2>6, <2>7, <2>8 DEF Reading, Reviewing, InEvent, Writing
  <2> QED
    BY <1>1, <2>1, <2>5, <2>9, TaskProgress
<1> QED
  BY <1>3, <1>4 DEF Create

LEMMA ReadStep ==
  ASSUME ScoreInv, NEW t \in Task, Read(t)
  PROVE  Progress
<1>1. UNCHANGED <<obs, members, event, runs, sweep>> /\ task[t].pc = "reading"
  BY DEF Read, results, housekeeping, At
<1>2. /\ Moves(t) /\ Tasks' /\ task'[t].pc = "assigning" /\ Keeps(t, {"o", "rev", "prov", "e"})
      /\ task'[t].ver = event[task[t].e].version
  BY Reads DEF ScoreInv
<1>3. task'[t].o = task[t].o /\ task'[t].rev = task[t].rev /\ task'[t].e = task[t].e
  BY <1>2 DEF Keeps
<1>4. task[t].e \in Event /\ event[task[t].e].version > 0 /\ task[t].rev <= obs[task[t].o].rev
  BY <1>1, InHand DEF InEvent, Active, Reading
<1>5. event[task[t].e].version \in Nat
  BY <1>4 DEF ScoreInv, Store
<1>6. Reading(t)'
  BY <1>1, <1>2, <1>3, <1>4, <1>5 DEF Reading, Writing
<1> QED
  BY <1>1, <1>2, <1>6, NothingStored, TaskProgress

LEMMA AssignStep ==
  ASSUME ScoreInv, NEW t \in Task, assign_observation(t)
  PROVE  Progress
<1>1. /\ UNCHANGED <<obs, event, runs, sweep>> /\ task[t].pc = "assigning"
      /\ members' = members \cup {<<task[t].e, task[t].o>>}
  BY DEF assign_observation, housekeeping, At
<1>2. /\ Moves(t) /\ Tasks' /\ task'[t].pc = "loading" /\ Keeps(t, {"o", "rev", "prov", "e", "ver"})
  BY Assigns DEF ScoreInv
<1>3. /\ task'[t].o = task[t].o /\ task'[t].rev = task[t].rev /\ task'[t].e = task[t].e
      /\ task'[t].ver = task[t].ver
  BY <1>2 DEF Keeps
<1>4. /\ task[t].e \in Event /\ task[t].o \in Observation /\ event[task[t].e].version > 0
      /\ task[t].rev <= obs[task[t].o].rev /\ task[t].ver <= event[task[t].e].version
  BY <1>1, InHand DEF InEvent, Active, Reading, Reviewing
<1>5. Store /\ Store'
  BY <1>1, <1>4 DEF ScoreInv, Store
<1>6. Onward
  <2>1. \A e \in Event : Covers(event[e].input, event[e].input)
    BY <1>5, CoversItself DEF Store
  <2> QED
    BY <1>1, <1>5, <2>1 DEF Onward, Store
<1>7. Reading(t)'
  BY <1>1, <1>2, <1>3, <1>4 DEF Reading, Writing
<1> QED
  BY <1>1, <1>2, <1>5, <1>6, <1>7, TaskProgress DEF Stored

LEMMA CoversTrusted ==
  ASSUME Store, NEW e \in Event, NEW input \in Inputs, Trusted(e, input)
  PROVE  Covers(TrustedInput(e), input)
<1> SUFFICES ASSUME NEW x \in input PROVE \E y \in TrustedInput(e) : y[1] = x[1] /\ y[2] >= x[2]
  BY DEF Covers
<1>1. /\ x[1] \in Observation /\ x[2] \in Nat /\ <<e, x[1]>> \in members
      /\ obs[x[1]].prov = "verified" /\ x[2] <= obs[x[1]].rev /\ obs[x[1]].rev \in Nat
  BY DEF Inputs, Trusted, Store
<1>2. <<x[1], obs[x[1]].rev>> \in TrustedInput(e)
  BY <1>1 DEF TrustedInput
<1> QED
  BY <1>1, <1>2

LEMMA TrustedIsTrusted ==
  ASSUME Store, NEW e \in Event
  PROVE  Trusted(e, TrustedInput(e))
<1> SUFFICES ASSUME NEW x \in TrustedInput(e)
             PROVE  <<e, x[1]>> \in members /\ obs[x[1]].prov = "verified" /\ x[2] <= obs[x[1]].rev
  BY DEF Trusted
<1>1. PICK o \in Observation : <<e, o>> \in members /\ obs[o].prov = "verified" /\ x = <<o, obs[o].rev>>
  BY DEF TrustedInput
<1> QED
  BY <1>1 DEF Store

LEMMA LoadStep ==
  ASSUME ScoreInv, NEW t \in Task, Load(t)
  PROVE  Progress
<1>1. UNCHANGED <<obs, members, event, runs, sweep>> /\ task[t].pc = "loading" /\ Store
  BY DEF Load, results, housekeeping, At, ScoreInv
<1>2. Loaded(t)
  BY Loads DEF ScoreInv
<1>3. Moves(t) /\ Tasks' /\ task'[t].o = task[t].o /\ task'[t].rev = task[t].rev
  BY <1>2 DEF Loaded, Keeps
<1>4. PICK e \in Event : e = task[t].e
  BY <1>1, InHand DEF InEvent, Active
<1>5. /\ task[t].o \in Observation /\ event[e].version > 0
      /\ task[t].rev <= obs[task[t].o].rev /\ task[t].ver <= event[e].version
      /\ <<e, task[t].o>> \in members
  BY <1>1, <1>4, InHand DEF InEvent, Active, Reading, Reviewing
<1>6. Reading(t)'
  <2>1. CASE task'[t].pc \in {"failing", "completing"}
    BY <1>1, <1>3, <1>5, <2>1, OutOfEvent
  <2>2. CASE task'[t].pc = "noting" /\ Keeps(t, {"prov", "e", "ver"})
    <3>1. task'[t].e = e /\ task'[t].ver = task[t].ver
      BY <1>4, <2>2 DEF Keeps
    <3> QED
      BY <1>1, <1>3, <1>5, <2>2, <3>1 DEF Reading, Writing
  <2>3. CASE task'[t].pc \in Writing /\ Keeps(t, {"prov", "e", "ver"}) /\ task'[t].input = TrustedInput(e)
    <3>1. task'[t].e = e /\ task'[t].ver = task[t].ver
      BY <1>4, <2>3 DEF Keeps
    <3>2. event[e].input \in Inputs /\ Trusted(e, event[e].input)
      BY DEF ScoreInv, Store, StoreInv
    <3>3. Covers(TrustedInput(e), event[e].input) /\ Trusted(e, TrustedInput(e))
      BY <1>1, <3>2, CoversTrusted, TrustedIsTrusted
    <3>4. Trusted(task[t].e, task[t].input)'
      BY <1>1, <2>3, <3>1, <3>3 DEF Trusted
    <3> QED
      BY <1>1, <1>3, <1>5, <2>3, <3>1, <3>3, <3>4 DEF Reading
  <2> QED
    BY <1>2, <1>4, <2>1, <2>2, <2>3 DEF Loaded
<1> QED
  BY <1>1, <1>3, <1>6, NothingStored, TaskProgress

\* A write over the version that was read, or a conflict.
LEMMA WriteStep ==
  ASSUME ScoreInv, NEW t \in Task, NEW row, NEW new, Write(t, row, new),
         task[t].pc \in Reviewing, UNCHANGED <<obs, members, sweep>>,
         DOMAIN row = {"version", "cv", "input", "last"},
         row.version = task[t].ver + 1, row.input \in Inputs,
         event[task[t].e].version = task[t].ver =>
            /\ Covers(row.input, event[task[t].e].input)
            /\ row.input = event[task[t].e].input \/ Trusted(task[t].e, row.input),
         \A d \in new : d.e = task[t].e /\ d.input = row.input
  PROVE  Progress
<1>1. task[t].pc \in InEvent /\ task[t].pc \in Active
  BY DEF Reviewing, InEvent
<1>2. CASE Conflict(t) /\ UNCHANGED <<event, runs>>
  BY <1>1, <1>2, ConflictStep
<1>3. CASE /\ event[task[t].e].version = task[t].ver
           /\ event' = [event EXCEPT ![task[t].e] = row] /\ runs' = runs \cup new
           /\ Goto(t, "completing")
  <2>1. PICK e \in Event : e = task[t].e
    BY <1>1, InHand
  <2>2. event[e].version \in Nat
    BY DEF ScoreInv, Store
  <2>3. /\ row.version \in Nat /\ event[e].version < row.version
        /\ Covers(row.input, event[e].input) /\ (row.input = event[e].input \/ Trusted(e, row.input))
        /\ \A d \in runs' : d \in runs \/ (d.e = e /\ d.input = row.input)
    BY <1>3, <2>1, <2>2
  <2>4. Stored
    BY <1>3, <2>1, <2>3, EventStored
  <2>5. Moves(t) /\ task'[t].pc = "completing" /\ Keeps(t, {"o", "rev"}) /\ Tasks'
    BY <1>1, <1>3, Goes DEF ScoreInv
  <2>6. task'[t].rev <= obs'[task'[t].o].rev
    BY <1>1, <2>5, InHand DEF Keeps
  <2> QED
    BY <2>4, <2>5, <2>6, OutOfEvent, TaskProgress
<1> QED
  BY <1>2, <1>3 DEF Write

LEMMA ReadyToWrite ==
  ASSUME ScoreInv, NEW t \in Task, task[t].pc \in Writing
  PROVE  /\ task[t].pc \in Reviewing /\ task[t].input \in Inputs /\ task[t].e \in Event
         /\ Trusted(task[t].e, task[t].input)
         /\ event[task[t].e].version = task[t].ver => Covers(task[t].input, event[task[t].e].input)
BY InHand DEF Writing, Reviewing, InEvent, Active, Equipped, Reading

LEMMA ScoreStep ==
  ASSUME ScoreInv, NEW t \in Task, commit_scored_event(t)
  PROVE  Progress
<1>1. /\ UNCHANGED <<obs, members, sweep>> /\ task[t].pc \in Writing
      /\ Write(t, updated(t), {Digest(t, task[t].input)})
  BY DEF commit_scored_event, housekeeping, At, Writing
<1>2. PICK row, new : row = updated(t) /\ new = {Digest(t, task[t].input)}
  OBVIOUS
<1>3. /\ DOMAIN row = {"version", "cv", "input", "last"} /\ row.version = task[t].ver + 1
      /\ row.input = task[t].input
  BY <1>2 DEF updated
<1>4. \A d \in new : d.e = task[t].e /\ d.input = row.input
  BY <1>2, <1>3 DEF Digest
<1>5. Write(t, row, new)
  BY <1>1, <1>2
<1> QED
  BY <1>1, <1>3, <1>4, <1>5, ReadyToWrite, WriteStep

LEMMA NoteStep ==
  ASSUME ScoreInv, NEW t \in Task, NoteCandidate(t)
  PROVE  Progress
<1>1. PICK cv :
        /\ UNCHANGED <<obs, members, sweep>> /\ task[t].pc = "noting"
        /\ Write(t, [event[task[t].e] EXCEPT !.version = task[t].ver + 1, !.cv = cv], {})
  BY DEF NoteCandidate, housekeeping, At
<1>2. task[t].pc \in Reviewing /\ task[t].e \in Event
  BY <1>1, InHand DEF Reviewing, InEvent, Active
<1>3. PICK row : row = [event[task[t].e] EXCEPT !.version = task[t].ver + 1, !.cv = cv]
  OBVIOUS
<1>4. /\ DOMAIN event[task[t].e] = {"version", "cv", "input", "last"}
      /\ event[task[t].e].input \in Inputs
  BY <1>2 DEF ScoreInv, Store
<1>5. /\ DOMAIN row = {"version", "cv", "input", "last"} /\ row.version = task[t].ver + 1
      /\ row.input = event[task[t].e].input
  BY <1>3, <1>4
<1>6. Covers(row.input, event[task[t].e].input) /\ Write(t, row, {}) /\ row.input \in Inputs
  BY <1>1, <1>3, <1>4, <1>5, CoversItself
<1> QED
  BY <1>1, <1>2, <1>5, <1>6, WriteStep

LEMMA TriageStep ==
  ASSUME ScoreInv, NEW t \in Task, Triage(t)
  PROVE  Progress
<1>1. /\ UNCHANGED <<obs, members, sweep>> /\ task[t].pc \in Writing
      /\ Write(t, [version |-> task[t].ver + 1, cv |-> task[t].cv, input |-> task[t].input,
                   last |-> NoPoint], {})
  BY DEF Triage, housekeeping, At, Writing
<1>2. PICK row : row = [version |-> task[t].ver + 1, cv |-> task[t].cv, input |-> task[t].input,
                        last |-> NoPoint]
  OBVIOUS
<1>3. /\ DOMAIN row = {"version", "cv", "input", "last"} /\ row.version = task[t].ver + 1
      /\ row.input = task[t].input
  BY <1>2
<1>4. Write(t, row, {})
  BY <1>1, <1>2
<1> QED
  BY <1>1, <1>3, <1>4, ReadyToWrite, WriteStep

LEMMA LeaveStep ==
  ASSUME ScoreInv, NEW t \in Task, UNCHANGED <<members, event, runs, sweep>>,
         task' = [task EXCEPT ![t] = Idle],
         NEW o \in Observation, NEW done, NEW leased,
         \/ obs' = obs
         \/ obs' = [obs EXCEPT ![o].leased = leased]
         \/ obs' = [obs EXCEPT ![o].done = done, ![o].leased = leased]
  PROVE  Progress
<1>1. Store /\ Tasks
  BY DEF ScoreInv
<1>2. DOMAIN obs' = Observation /\ \A u \in Observation \ {o} : obs'[u] = obs[u]
  BY <1>1 DEF Store
<1>3. /\ DOMAIN obs'[o] = {"prov", "rev", "at", "done", "leased"} /\ obs'[o].rev \in Nat
      /\ obs'[o].rev = obs[o].rev /\ obs'[o].prov = obs[o].prov
  BY <1>1 DEF Store
<1>4. Stored
  BY <1>2, <1>3, ObservationStored
<1> QED
  BY <1>1, <1>4, Rests, OffDuty, TaskProgress

LEMMA CompleteStep ==
  ASSUME ScoreInv, NEW t \in Task, complete_observation_processing(t)
  PROVE  Progress
<1>1. PICK done :
        /\ UNCHANGED <<members, event, runs, sweep>> /\ task[t].pc = "completing"
        /\ obs' = [obs EXCEPT ![task[t].o].done = done, ![task[t].o].leased = FALSE]
        /\ task' = [task EXCEPT ![t] = Idle]
  BY DEF complete_observation_processing, results, housekeeping, At, Leave
<1>2. task[t].o \in Observation
  BY <1>1, InHand DEF Active
<1> QED
  BY <1>1, <1>2, LeaveStep

LEMMA FailStep ==
  ASSUME ScoreInv, NEW t \in Task, fail_observation_processing(t)
  PROVE  Progress
<1>1. /\ UNCHANGED <<members, event, runs, sweep>> /\ task[t].pc = "failing"
      /\ obs' = [obs EXCEPT ![task[t].o].leased = FALSE] \/ obs' = obs
      /\ task' = [task EXCEPT ![t] = Idle]
  BY DEF fail_observation_processing, results, housekeeping, At, Leave
<1>2. task[t].o \in Observation
  BY <1>1, InHand DEF Active
<1> QED
  BY <1>1, <1>2, LeaveStep

LEMMA HandlingStep ==
  ASSUME ScoreInv, NEW t \in Task, Handling(t)
  PROVE  Progress
BY ClaimStep, EnterStep, CreateStep, ReadStep, AssignStep, LoadStep, ScoreStep, NoteStep,
   TriageStep, CompleteStep, FailStep DEF Handling

LEMMA RaisesStep ==
  ASSUME ScoreInv, NEW t \in Task, Raises(t)
  PROVE  Progress
<1>1. /\ UNCHANGED <<obs, members, event, runs, sweep>> /\ Goto(t, "failing")
      /\ task[t].pc \in Active
  BY DEF Raises, results, housekeeping
<1>2. Moves(t) /\ task'[t].pc = "failing" /\ Keeps(t, {"o", "rev"}) /\ Tasks'
  BY <1>1, Goes DEF ScoreInv
<1>3. task'[t].rev <= obs'[task'[t].o].rev
  BY <1>1, <1>2, InHand DEF Keeps
<1> QED
  BY <1>1, <1>2, <1>3, NothingStored, OutOfEvent, TaskProgress

LEMMA CrashStep ==
  ASSUME ScoreInv, NEW p \in Process, Crash(p)
  PROVE  Progress
<1>1. /\ UNCHANGED <<obs, members, event, runs>> /\ sweep' = [sweep EXCEPT ![p] = NoSweep]
      /\ task' = [t \in Task |-> IF t \in TasksOf(p) THEN Idle ELSE task[t]]
  BY DEF Crash, results
<1>2. Stored
  BY <1>1, NothingStored
<1>3. DOMAIN task' = Task /\ \A t \in Task : task'[t] = task[t] \/ task'[t] = Idle
  BY <1>1
<1>4. Equipped(Idle) /\ Idle.pc = "idle"
  BY DEF Idle, Equipped, Active, InEvent, Reviewing, Writing
<1>5. Tasks'
  BY <1>3, <1>4 DEF ScoreInv, Tasks, Equipped
<1>6. \A t \in Task : task'[t] = task[t] \/ Reading(t)'
  BY <1>3, <1>4, OffDuty
<1>7. /\ DOMAIN sweep' = Process /\ sweep'[p] = NoSweep
      /\ \A q \in Process \ {p} : sweep'[q] = sweep[q]
  BY <1>1 DEF ScoreInv
<1>8. Fresh(sweep[p])'
  BY <1>7 DEF Fresh, NoSweep
<1> QED
  BY <1>2, <1>5, <1>6, <1>7, <1>8 DEF Progress, Swept

LEMMA QuietStep ==
  ASSUME ScoreInv, Stored, UNCHANGED <<task, sweep>>
  PROVE  Progress
BY DEF ScoreInv, Progress, Swept, Tasks, Equipped

LEMMA ExpiryStep ==
  ASSUME ScoreInv, NEW o \in Observation, LeaseExpires(o)
  PROVE  Progress
<1>1. /\ UNCHANGED <<members, event, runs, task, sweep>> /\ Store
      /\ obs' = [obs EXCEPT ![o].leased = FALSE]
  BY DEF LeaseExpires, results, housekeeping, ScoreInv
<1>2. DOMAIN obs' = Observation /\ \A u \in Observation \ {o} : obs'[u] = obs[u]
  BY <1>1 DEF Store
<1>3. /\ DOMAIN obs'[o] = {"prov", "rev", "at", "done", "leased"} /\ obs'[o].rev \in Nat
      /\ obs'[o].rev = obs[o].rev /\ obs'[o].prov = obs[o].prov
  BY <1>1 DEF Store
<1> QED
  BY <1>1, <1>2, <1>3, ObservationStored, QuietStep

\* An event is stored again, its input as it was.
LEMMA SameInputStored ==
  ASSUME ScoreInv, UNCHANGED <<obs, members, runs>>, NEW e \in Event, NEW row,
         event' = [event EXCEPT ![e] = row],
         DOMAIN row = {"version", "cv", "input", "last"},
         row.version = event[e].version + 1, row.input = event[e].input
  PROVE  Stored
<1>1. event[e].version \in Nat /\ event[e].input \in Inputs
  BY DEF ScoreInv, Store
<1>2. Covers(row.input, event[e].input) /\ row.version \in Nat /\ event[e].version < row.version
  BY <1>1, CoversItself
<1> QED
  BY <1>1, <1>2, EventStored

LEMMA ForeignStep ==
  ASSUME ScoreInv, NEW e \in Event, ForeignWrite(e)
  PROVE  Progress
<1>1. /\ UNCHANGED <<obs, members, runs, task, sweep>> /\ Store
      /\ event' = [event EXCEPT ![e].version = event[e].version + 1]
  BY DEF ForeignWrite, housekeeping, ScoreInv
<1>2. PICK row : row = [event[e] EXCEPT !.version = event[e].version + 1]
  OBVIOUS
<1>3. /\ DOMAIN row = {"version", "cv", "input", "last"} /\ row.version = event[e].version + 1
      /\ row.input = event[e].input
  BY <1>1, <1>2 DEF Store
<1>4. event' = [event EXCEPT ![e] = row]
  BY <1>1, <1>2
<1> QED
  BY <1>1, <1>3, <1>4, SameInputStored, QuietStep

\* A step of a sweep, which then has x in hand.
LEMMA SweepStep ==
  ASSUME ScoreInv, NEW p \in Process, Stored, task' = task,
         sweep' = [sweep EXCEPT ![p] = sweep'[p]], Fresh(sweep[p])'
  PROVE  Progress
<1>1. DOMAIN sweep' = Process /\ \A q \in Process \ {p} : sweep'[q] = sweep[q]
  BY DEF ScoreInv
<1>2. Tasks'
  BY DEF ScoreInv, Tasks, Equipped
<1> QED
  BY <1>1, <1>2 DEF Progress, Swept

LEMMA Sweeps ==
  ASSUME ScoreInv, NEW p \in Process, NEW x, Sweep(p, x)
  PROVE  sweep'[p] = x /\ sweep' = [sweep EXCEPT ![p] = sweep'[p]]
BY DEF ScoreInv, Sweep

LEMMA ReadIsEvent ==
  ASSUME NEW wanted, NEW e \in DOMAIN Listed(wanted)
  PROVE  e \in Event /\ event[e].version > 0 /\ Listed(wanted)[e] = event[e]
BY DEF Listed

LEMMA ListedStep ==
  ASSUME ScoreInv, NEW p \in Process, UNCHANGED <<obs, members, event, runs, task>>,
         NEW wanted, NEW x, Sweep(p, x), "pc" \in DOMAIN x,
         \/ x = NoSweep
         \/ x.pc \in {"looking", "penalising"} /\ "read" \in DOMAIN x /\ x.read = Listed(wanted)
  PROVE  Progress
<1>1. sweep'[p] = x /\ sweep' = [sweep EXCEPT ![p] = sweep'[p]]
  BY Sweeps
<1>2. Fresh(sweep[p])'
  <2>1. CASE x = NoSweep
    BY <1>1, <2>1 DEF Fresh, NoSweep
  <2>2. CASE x.pc \in {"looking", "penalising"} /\ "read" \in DOMAIN x /\ x.read = Listed(wanted)
    <3>1. \A e \in DOMAIN x.read : e \in Event /\ event[e].version > 0 /\ x.read[e] = event[e]
      BY <2>2, ReadIsEvent
    <3>2. \A e \in Event : event[e].version \in Nat
      BY DEF ScoreInv, Store
    <3> QED
      BY <1>1, <2>2, <3>1, <3>2 DEF Fresh
  <2> QED
    BY <2>1, <2>2
<1> QED
  BY <1>1, <1>2, NothingStored, SweepStep

LEMMA PenaliseStep ==
  ASSUME ScoreInv, NEW p \in Process, Penalise(p)
  PROVE  Progress
<1>1. PICK read, wanted :
        /\ UNCHANGED <<obs, members, event, runs, task>>
        /\ read = Listed(wanted) /\ Sweep(p, [pc |-> "penalising", read |-> read])
  BY DEF Penalise, results
<1>2. PICK x : x = [pc |-> "penalising", read |-> read]
  OBVIOUS
<1>3. "pc" \in DOMAIN x /\ x.pc = "penalising" /\ "read" \in DOMAIN x /\ x.read = read
  BY <1>2
<1> QED
  BY <1>1, <1>2, <1>3, ListedStep

LEMMA RefreshStep ==
  ASSUME ScoreInv, NEW p \in Process, refresh_time_driven(p)
  PROVE  Progress
<1>1. PICK read, wanted :
        /\ UNCHANGED <<obs, members, event, runs, task>> /\ read = Listed(wanted)
        /\ \/ Sweep(p, NoSweep)
           \/ Sweep(p, [pc |-> "looking", read |-> read, at |-> bucket, again |-> {}])
  BY DEF refresh_time_driven, sweptRest
<1>2. CASE Sweep(p, NoSweep)
  BY <1>1, <1>2, ListedStep DEF NoSweep
<1>3. CASE Sweep(p, [pc |-> "looking", read |-> read, at |-> bucket, again |-> {}])
  <2>1. PICK x : x = [pc |-> "looking", read |-> read, at |-> bucket, again |-> {}]
    OBVIOUS
  <2>2. "pc" \in DOMAIN x /\ x.pc = "looking" /\ "read" \in DOMAIN x /\ x.read = read
    BY <2>1
  <2> QED
    BY <1>1, <1>3, <2>1, <2>2, ListedStep
<1> QED
  BY <1>1, <1>2, <1>3

\* A sweep goes on without the event that changed, if one did.
LEMMA OnwardFresh ==
  ASSUME ScoreInv, NEW p \in Process, sweep[p].pc \in {"looking", "storing", "penalising"},
         NEW e, \A f \in Event \ {e} : event'[f] = event[f],
         "pc" \in DOMAIN sweep'[p], "read" \in DOMAIN sweep'[p],
         sweep'[p].pc \in {"looking", "penalising"}, sweep'[p].read = Without(sweep[p].read, e)
  PROVE  Fresh(sweep[p])'
<1>1. Fresh(sweep[p])
  BY DEF ScoreInv
<1>2. /\ DOMAIN sweep'[p].read = DOMAIN sweep[p].read \ {e}
      /\ \A f \in DOMAIN sweep'[p].read : sweep'[p].read[f] = sweep[p].read[f]
  BY DEF Without
<1> QED
  BY <1>1, <1>2 DEF Fresh

LEMMA LeavingFresh ==
  ASSUME ScoreInv, NEW p \in Process, sweep[p].pc \in {"looking", "storing"}, NEW e,
         \A f \in Event \ {e} : event'[f] = event[f], sweep'[p] = Leaving(p, e)
  PROVE  Fresh(sweep[p])'
<1>1. PICK rest : rest = Without(sweep[p].read, e)
  OBVIOUS
<1>2. CASE sweep'[p] = NoSweep
  BY <1>2 DEF Fresh, NoSweep
<1>3. CASE sweep'[p] = [sweep[p] EXCEPT !.pc = "looking", !.read = rest, !.again = {}]
  <2>1. "pc" \in DOMAIN sweep[p] /\ "read" \in DOMAIN sweep[p]
    BY DEF ScoreInv, Fresh
  <2>2. /\ "pc" \in DOMAIN sweep'[p] /\ "read" \in DOMAIN sweep'[p]
        /\ sweep'[p].pc = "looking" /\ sweep'[p].read = rest
    BY <1>3, <2>1
  <2> QED
    BY <1>1, <2>2, OnwardFresh
<1> QED
  BY <1>1, <1>2, <1>3 DEF Leaving

LEMMA ApplyStep ==
  ASSUME ScoreInv, NEW p \in Process, NEW e \in Event, ApplyPenalty(p, e)
  PROVE  Progress
<1>1. /\ UNCHANGED <<obs, members, runs, task>> /\ sweep[p].pc = "penalising" /\ e \in DOMAIN sweep[p].read
      /\ Fresh(sweep[p])
  BY DEF ApplyPenalty, sweptRest, ScoreInv
<1>2. CASE Sweep(p, NoSweep) /\ event' = event
  BY <1>1, <1>2, Sweeps, NothingStored, SweepStep DEF Fresh, NoSweep
<1>3. CASE /\ event[e].version = sweep[p].read[e].version
           /\ event' = [event EXCEPT ![e] = [sweep[p].read[e] EXCEPT !.version = @ + 1]]
           /\ Sweep(p, IF DOMAIN Without(sweep[p].read, e) = {} THEN [pc |-> "due"]
                       ELSE [sweep[p] EXCEPT !.read = Without(sweep[p].read, e)])
  <2>1. sweep[p].read[e] = event[e] /\ Store
    BY <1>1, <1>3 DEF Fresh, ScoreInv
  <2>2. PICK row : row = [event[e] EXCEPT !.version = event[e].version + 1]
    OBVIOUS
  <2>3. /\ DOMAIN row = {"version", "cv", "input", "last"} /\ row.version = event[e].version + 1
        /\ row.input = event[e].input
    BY <2>1, <2>2 DEF Store
  <2>4. event' = [event EXCEPT ![e] = row]
    BY <1>3, <2>1, <2>2
  <2>5. Stored
    BY <1>1, <2>3, <2>4, SameInputStored
  <2>6. \A f \in Event \ {e} : event'[f] = event[f]
    BY <2>1, <2>4 DEF Store
  <2>7. PICK rest : rest = Without(sweep[p].read, e)
    OBVIOUS
  <2>8. /\ sweep' = [sweep EXCEPT ![p] = sweep'[p]]
        /\ \/ sweep'[p] = [pc |-> "due"]
           \/ sweep'[p] = [sweep[p] EXCEPT !.read = rest]
    BY <1>3, <2>7, Sweeps
  <2>9. Fresh(sweep[p])'
    <3>1. CASE sweep'[p] = [pc |-> "due"]
      BY <3>1 DEF Fresh
    <3>2. CASE sweep'[p] = [sweep[p] EXCEPT !.read = rest]
      <4>1. /\ "pc" \in DOMAIN sweep'[p] /\ "read" \in DOMAIN sweep'[p]
            /\ sweep'[p].pc = "penalising" /\ sweep'[p].read = rest
        BY <1>1, <3>2 DEF Fresh
      <4> QED
        BY <1>1, <2>6, <2>7, <4>1, OnwardFresh
    <3> QED
      BY <2>8, <3>1, <3>2
  <2> QED
    BY <1>1, <2>5, <2>8, <2>9, SweepStep
<1> QED
  BY <1>2, <1>3 DEF ApplyPenalty

LEMMA LookStep ==
  ASSUME ScoreInv, NEW p \in Process, NEW e \in Event, Look(p, e)
  PROVE  Progress
<1> DEFINE s == sweep[p]
           found == [pc |-> "storing", read |-> s.read, at |-> s.at, again |-> s.again, e |-> e]
<1>1. /\ UNCHANGED <<obs, members, event, runs, task>> /\ s.pc = "looking" /\ e \in DOMAIN s.read
      /\ Fresh(s)
      /\ \/ Sweep(p, Leaving(p, e))
         \/ Sweep(p, NoSweep)
         \/ s.read[e].last < s.at /\ Sweep(p, found)
  BY DEF Look, sweptRest, ScoreInv, Quiet
<1>2. /\ sweep' = [sweep EXCEPT ![p] = sweep'[p]]
      /\ \/ sweep'[p] = Leaving(p, e)
         \/ sweep'[p] = NoSweep
         \/ s.read[e].last < s.at /\ sweep'[p] = found
  BY <1>1, Sweeps
<1>3. Fresh(sweep[p])'
  <2>1. CASE sweep'[p] = Leaving(p, e)
    BY <1>1, <2>1, LeavingFresh
  <2>2. CASE sweep'[p] = NoSweep
    BY <2>2 DEF Fresh, NoSweep
  <2>3. CASE s.read[e].last < s.at /\ sweep'[p] = found
    <3>1. /\ "pc" \in DOMAIN found /\ "read" \in DOMAIN found /\ found.pc = "storing"
          /\ found.read = s.read /\ found.e = e /\ found.at = s.at
      OBVIOUS
    <3> HIDE DEF found
    <3> QED
      BY <1>1, <2>3, <3>1 DEF Fresh
  <2> QED
    BY <1>2, <2>1, <2>2, <2>3
<1> QED
  BY <1>1, <1>2, <1>3, NothingStored, SweepStep

\* What StoreOver does to the event of the sweep, when that is the event it read.
LEMMA Ages ==
  ASSUME ScoreInv, NEW p \in Process, StoreOver(p),
         event[sweep[p].e].version = sweep[p].read[sweep[p].e].version
  PROVE  LET e == sweep[p].e IN
         /\ e \in Event /\ Stored /\ \A f \in Event \ {e} : event'[f] = event[f]
         /\ event'[e].input = event[e].input /\ event'[e].cv = event[e].cv
         /\ event'[e].last = sweep[p].at /\ event[e].last < sweep[p].at
<1>1. Fresh(sweep[p]) /\ Store /\ sweep[p].pc = "storing"
  BY DEF ScoreInv, StoreOver
<1>2. PICK e : e = sweep[p].e
  OBVIOUS
<1>3. e \in Event /\ sweep[p].read[e] = event[e] /\ event[e].last < sweep[p].at
  BY <1>1, <1>2 DEF Fresh
<1>4. PICK row : row = [event[e] EXCEPT !.version = event[e].version + 1, !.last = sweep[p].at]
  OBVIOUS
<1>5. event' = [event EXCEPT ![e] = row] /\ UNCHANGED <<obs, members, runs>>
  BY <1>2, <1>3, <1>4 DEF StoreOver, sweptRest
<1>6. /\ DOMAIN row = {"version", "cv", "input", "last"} /\ row.version = event[e].version + 1
      /\ row.input = event[e].input /\ row.cv = event[e].cv /\ row.last = sweep[p].at
  BY <1>1, <1>3, <1>4 DEF Store
<1>7. Stored
  BY <1>3, <1>5, <1>6, SameInputStored
<1>8. event'[e] = row /\ \A f \in Event \ {e} : event'[f] = event[f]
  BY <1>1, <1>3, <1>5 DEF Store
<1> QED
  BY <1>2, <1>3, <1>6, <1>7, <1>8

LEMMA RefreshQuietStep ==
  ASSUME ScoreInv, NEW p \in Process, _refresh_quiet_event(p)
  PROVE  Progress
<1> DEFINE s == sweep[p]
<1>1. Fresh(s) /\ Store
  BY DEF ScoreInv
<1>2. CASE StoreOver(p) /\ ~(s.pc = "storing" /\ event[s.e].version # s.read[s.e].version)
  <2>1. s.pc = "storing" /\ task' = task /\ Sweep(p, Leaving(p, s.e))
    BY <1>2 DEF StoreOver, sweptRest
  <2>2. Stored /\ \A f \in Event \ {s.e} : event'[f] = event[f]
    BY <1>2, <2>1, Ages
  <2> QED
    BY <2>1, <2>2, Sweeps, LeavingFresh, SweepStep
<1>3. CASE s.pc = "storing" /\ event[s.e].version # s.read[s.e].version
  <2> DEFINE x == [pc |-> "looking", read |-> [s.read EXCEPT ![s.e] = event[s.e]],
                   at |-> s.at, again |-> {s.e}]
  <2>1. /\ UNCHANGED <<obs, members, event, runs, task>>
        /\ \/ Sweep(p, NoSweep)
           \/ Sweep(p, x)
    BY <1>3 DEF _refresh_quiet_event, sweptRest
  <2>2. /\ sweep' = [sweep EXCEPT ![p] = sweep'[p]]
        /\ \/ sweep'[p] = NoSweep
           \/ sweep'[p] = x
    BY <2>1, Sweeps
  <2>3. Fresh(sweep[p])'
    <3>1. CASE sweep'[p] = NoSweep
      BY <3>1 DEF Fresh, NoSweep
    <3>2. CASE sweep'[p] = x
      <4>1. /\ "pc" \in DOMAIN x /\ "read" \in DOMAIN x /\ x.pc = "looking"
            /\ x.read = [s.read EXCEPT ![s.e] = event[s.e]]
        OBVIOUS
      <4> HIDE DEF x
      <4>2. /\ DOMAIN x.read = DOMAIN s.read
            /\ \A f \in DOMAIN x.read : x.read[f] = event[f] \/ x.read[f] = s.read[f]
        BY <4>1
      <4>3. \A f \in DOMAIN x.read : f \in Event /\ event[f].version \in Nat
        BY <1>1, <1>3, <4>2 DEF Fresh, Store
      <4> QED
        BY <1>1, <1>3, <2>1, <3>2, <4>1, <4>2, <4>3 DEF Fresh
    <3> QED
      BY <2>2, <3>1, <3>2
  <2> QED
    BY <2>1, <2>2, <2>3, NothingStored, SweepStep
<1> QED
  BY <1>2, <1>3 DEF _refresh_quiet_event

LEMMA EveryStep == ASSUME ScoreInv, [Next]_vars PROVE Progress
<1>1. CASE UNCHANGED vars
  BY <1>1, NothingStored, QuietStep DEF vars
<1>2. ASSUME NEW p \in Process, Sweeping(p) PROVE Progress
  BY <1>2, RefreshStep, RefreshQuietStep, ApplyStep, LookStep DEF Sweeping
<1>3. CASE TimeForCooling
  BY <1>3, NothingStored, QuietStep DEF TimeForCooling, results
<1>4. CASE Next
  BY <1>2, <1>3, <1>4, BeginCycleStep, CollectStep, RetryStep, HandlingStep, RaisesStep,
     PenaliseStep, CrashStep, ExpiryStep, ForeignStep DEF Next
<1> QED
  BY <1>1, <1>4

LEMMA ScoreInvInit == Init => ScoreInv
<1> SUFFICES ASSUME Init PROVE ScoreInv
  OBVIOUS
<1>1. Store
  BY DEF Init, Store, Inputs
<1>2. Idle.pc = "idle" /\ Equipped(Idle)
  BY DEF Idle, Equipped, Active, InEvent, Reviewing, Writing
<1>3. Tasks /\ \A t \in Task : Reading(t)
  BY <1>2 DEF Init, Tasks, Reading, Active, InEvent, Reviewing, Writing
<1>4. StoreInv
  BY DEF Init, StoreInv, Trusted
<1>5. DOMAIN sweep = Process /\ \A p \in Process : Fresh(sweep[p])
  BY DEF Init, NoSweep, Fresh
<1> QED
  BY <1>1, <1>3, <1>4, <1>5 DEF ScoreInv

LEMMA ScoreInvHolds == Spec => []ScoreInv
<1>1. ScoreInv /\ [Next]_vars => ScoreInv'
  BY EveryStep, ProgressKeeps
<1> QED
  BY ScoreInvInit, <1>1, PTL DEF Spec

\* No stored event gives up what went into it, at any number of processes, whatever
\* fails: a score is stored over the version it was read at, and a reading of that
\* version covers its input.
THEOREM EventsNeverForget == Spec => ScoresNeverForget
<1>1. ScoreInv /\ [Next]_vars =>
        [\A e \in Event : \A x \in event[e].input :
           \E y \in event'[e].input : y[1] = x[1] /\ y[2] >= x[2]]_vars
  BY EveryStep DEF Progress, Stored, Onward, Covers
<1> QED
  BY <1>1, ScoreInvHolds, PTL DEF Spec, ScoresNeverForget

\* Only a refresh ends its own store of an event.
LEMMA RefreshAges ==
  ASSUME ScoreInv, Next, NEW p \in Process, sweep[p].pc = "storing", sweep'[p] # sweep[p], event' # event
  PROVE  LET e == sweep[p].e IN
         /\ event'[e].input = event[e].input /\ event'[e].cv = event[e].cv
         /\ event'[e].last > event[e].last
<1>1. ASSUME NEW q \in Process, NEW e \in Event, ApplyPenalty(q, e) PROVE FALSE
  <2>1. q # p /\ \E x : Sweep(q, x)
    BY <1>1 DEF ApplyPenalty
  <2> QED
    BY <2>1 DEF Sweep, ScoreInv
<1>2. PICK q \in Process : _refresh_quiet_event(q)
  <2>1. \A t \in Task : Handling(t) => sweep' = sweep
    BY DEF Handling, Claim, Enter, Create, Read, assign_observation, Load, commit_scored_event,
           NoteCandidate, Triage, complete_observation_processing, fail_observation_processing,
           housekeeping
  <2>2. (\E t \in Task, o \in Observation, prov \in Provenance, fresh \in BOOLEAN :
           Collect(t, o, prov, fresh)) => event' = event
    BY DEF Collect, results
  <2>3. (\E t \in Task : Raises(t)) \/ (\E t \in Task, o \in Observation : RetryPending(t, o))
        \/ (\E r \in Process : BeginCycle(r) \/ Penalise(r) \/ Crash(r) \/ refresh_time_driven(r))
        \/ TimeForCooling \/ (\E o \in Observation : LeaseExpires(o)) => event' = event
    BY DEF Raises, RetryPending, BeginCycle, Penalise, Crash, refresh_time_driven, TimeForCooling,
           LeaseExpires, results
  <2>4. (\E e \in Event : ForeignWrite(e)) => sweep' = sweep
    BY DEF ForeignWrite, housekeeping
  <2>5. \A r \in Process, e \in Event : Look(r, e) => event' = event
    BY DEF Look
  <2> QED
    BY <1>1, <2>1, <2>2, <2>3, <2>4, <2>5 DEF Next, Sweeping
<1>3. StoreOver(q) /\ event[sweep[q].e].version = sweep[q].read[sweep[q].e].version
  BY <1>2 DEF _refresh_quiet_event, StoreOver
<1>4. q = p
  BY <1>3, Sweeps DEF StoreOver, Sweep, ScoreInv
<1> QED
  BY <1>3, <1>4, Ages

\* The point of a refresh is newer than all others and leaves the score's input as it
\* is, whatever other processes store between its reading and its write.
THEOREM RefreshAgesOnly == Spec => RefreshOnlyAges
<1>1. ScoreInv /\ [Next]_vars =>
        [\A p \in Process : sweep[p].pc = "storing" /\ sweep'[p] # sweep[p] /\ event' # event
          => LET e == sweep[p].e IN
             /\ event'[e].input = event[e].input /\ event'[e].cv = event[e].cv
             /\ event'[e].last > event[e].last]_vars
  BY RefreshAges
<1> QED
  BY <1>1, ScoreInvHolds, PTL DEF Spec, RefreshOnlyAges

-----------------------------------------------------------------------------
(***************************************************************************)
(* A lease that nobody overran has one holder.                             *)
(***************************************************************************)
OneLease(o) ==
    /\ \A t, u \in Task : Holds(t, o) /\ Holds(u, o) => t = u
    /\ \A t \in Task : Holds(t, o) => obs[o].leased

HolderInv == \A o \in Observation \ overran : OneLease(o)

\* What a task does between its claim and its acknowledgement.
Works(t) ==
    \/ Enter(t) \/ Create(t) \/ Read(t) \/ assign_observation(t) \/ Load(t)
    \/ commit_scored_event(t) \/ NoteCandidate(t) \/ Triage(t) \/ Raises(t)

LEMMA WorksWhere ==
  ASSUME NEW t \in Task, Works(t)
  PROVE  /\ task[t].pc \in Active /\ UNCHANGED <<obs, overran, sweep>> /\ MayRun(t)
         /\ task[t].pc \notin {"queued", "completing", "failing"} => lock' = lock
<1> USE DEF At, history, housekeeping, Active
<1>1. CASE Enter(t) BY <1>1 DEF Enter
<1>2. CASE Create(t) BY <1>2 DEF Create
<1>3. CASE Read(t) BY <1>3 DEF Read
<1>4. CASE assign_observation(t) BY <1>4 DEF assign_observation
<1>5. CASE Load(t) BY <1>5 DEF Load
<1>6. CASE commit_scored_event(t) BY <1>6 DEF commit_scored_event
<1>7. CASE NoteCandidate(t) BY <1>7 DEF NoteCandidate
<1>8. CASE Triage(t) BY <1>8 DEF Triage
<1>9. CASE Raises(t) BY <1>9 DEF Raises
<1> QED
  BY <1>1, <1>2, <1>3, <1>4, <1>5, <1>6, <1>7, <1>8, <1>9 DEF Works

LEMMA WriteMoves ==
  ASSUME Tasks, NEW t \in Task, NEW row, NEW new, Write(t, row, new), task[t].pc \in InEvent
  PROVE  Moves(t) /\ Keeps(t, {"o", "rev"}) /\ task'[t].pc \in Active \ {"queued"}
<1>1. CASE Conflict(t)
  BY <1>1, Conflicts DEF Restarted, Active
<1>2. CASE Goto(t, "completing")
  <2>1. task[t].pc \in Active
    BY DEF InEvent
  <2> QED
    BY <1>2, <2>1, Goes DEF Active
<1> QED
  BY <1>1, <1>2 DEF Write

LEMMA WorksOn ==
  ASSUME ScoreInv, NEW t \in Task, Works(t)
  PROVE  Moves(t) /\ Keeps(t, {"o", "rev"}) /\ task'[t].pc \in Active \ {"queued"}
<1> USE DEF ScoreInv
<1>1. CASE Enter(t)
  BY <1>1, Chooses DEF Enter, At, Keeps, Active
<1>2. CASE Create(t)
  <2>1. task[t].pc = "creating" /\ task[t].pc \in InEvent /\ (Goto(t, "reading") \/ Conflict(t))
    BY <1>2 DEF Create, At, InEvent, Active
  <2> QED
    BY <2>1, Creates, Conflicts DEF Restarted, Keeps, Active
<1>3. CASE Read(t)
  BY <1>3, Reads DEF Keeps, Active
<1>4. CASE assign_observation(t)
  BY <1>4, Assigns DEF Keeps, Active
<1>5. CASE Load(t)
  BY <1>5, Loads DEF Loaded, Keeps, Active, Writing
<1>6. CASE commit_scored_event(t)
  BY <1>6, WriteMoves DEF commit_scored_event, At, InEvent, Active
<1>7. CASE NoteCandidate(t)
  BY <1>7, WriteMoves DEF NoteCandidate, At, InEvent, Active
<1>8. CASE Triage(t)
  BY <1>8, WriteMoves DEF Triage, At, InEvent, Active
<1>9. CASE Raises(t)
  BY <1>9, Goes DEF Raises, Active
<1> QED
  BY <1>1, <1>2, <1>3, <1>4, <1>5, <1>6, <1>7, <1>8, <1>9 DEF Works

LEMMA HoldersKept ==
  ASSUME HolderInv, overran \subseteq overran',
         \A o \in Observation : obs'[o].leased = obs[o].leased,
         \A t \in Task, o \in Observation : Holds(t, o)' => Holds(t, o)
  PROVE  HolderInv'
<1> SUFFICES ASSUME NEW o \in Observation \ overran' PROVE OneLease(o)'
  BY DEF HolderInv
<1>1. OneLease(o)
  BY DEF HolderInv
<1> QED
  BY <1>1 DEF OneLease

LEMMA HolderTask ==
  ASSUME ScoreInv, HolderInv, NEW t \in Task, Handling(t) \/ Raises(t)
  PROVE  HolderInv'
<1>0. Store /\ Tasks
  BY DEF ScoreInv
<1>1. CASE Works(t)
  <2>1. /\ Moves(t) /\ task'[t].o = task[t].o /\ task[t].pc \in Active
        /\ UNCHANGED <<obs, overran>>
    BY <1>1, WorksOn, WorksWhere DEF Keeps
  <2> QED
    BY <2>1, HoldersKept DEF Moves, Holds
<1>2. CASE Claim(t)
  <2>1. overran' = overran /\ task[t].pc = "claiming" /\ task[t].o \in Observation
    BY <1>0, <1>2 DEF Claim, history, At, Tasks, Equipped
  <2>2. CASE obs' = obs /\ task' = [task EXCEPT ![t] = Idle]
    <3>1. Moves(t) /\ task'[t].pc = "idle"
      BY <1>0, <2>2, Rests
    <3> QED
      BY <2>1, <2>2, <3>1, HoldersKept DEF Moves, Holds, Active
  <2>3. CASE /\ ~obs[task[t].o].leased /\ obs' = [obs EXCEPT ![task[t].o].leased = TRUE]
             /\ Local(t, [pc |-> "queued", rev |-> obs[task[t].o].rev])
    <3>1. Moves(t) /\ task'[t].o = task[t].o
      BY <1>0, <2>1, <2>3, Claims DEF Keeps
    <3>2. /\ obs'[task[t].o].leased = TRUE
          /\ \A o \in Observation \ {task[t].o} : obs'[o].leased = obs[o].leased
      BY <1>0, <2>1, <2>3 DEF Store
    <3> SUFFICES ASSUME NEW o \in Observation \ overran' PROVE OneLease(o)'
      BY DEF HolderInv
    <3>3. OneLease(o)
      BY <2>1 DEF HolderInv
    <3>4. CASE o = task[t].o
      <4>1. \A u \in Task : ~Holds(u, o)
        BY <2>3, <3>3, <3>4 DEF OneLease
      <4>2. \A u \in Task : Holds(u, o)' => u = t
        BY <3>1, <4>1 DEF Moves, Holds
      <4> QED
        BY <3>2, <3>4, <4>2 DEF OneLease
    <3>5. CASE o # task[t].o
      <4>1. \A u \in Task : Holds(u, o)' => Holds(u, o)
        BY <3>1, <3>5 DEF Moves, Holds
      <4> QED
        BY <3>2, <3>3, <3>5, <4>1 DEF OneLease
    <3> QED
      BY <3>4, <3>5
  <2> QED
    BY <1>2, <2>2, <2>3 DEF Claim, Claimable
<1>3. CASE complete_observation_processing(t) \/ fail_observation_processing(t)
  <2>1. /\ overran' = overran /\ task[t].pc \in Active /\ task' = [task EXCEPT ![t] = Idle]
        /\ \A o \in Observation \ {task[t].o} : obs'[o].leased = obs[o].leased
    BY <1>0, <1>3 DEF complete_observation_processing, fail_observation_processing, history, At,
       Leave, Active, Store
  <2>2. Moves(t) /\ task'[t].pc = "idle"
    BY <1>0, <2>1, Rests
  <2> SUFFICES ASSUME NEW o \in Observation \ overran' PROVE OneLease(o)'
    BY DEF HolderInv
  <2>3. OneLease(o)
    BY <2>1 DEF HolderInv
  <2>4. \A u \in Task : Holds(u, o)' => Holds(u, o) /\ u # t
    BY <2>2 DEF Moves, Holds, Active
  <2>5. o = task[t].o => \A u \in Task : ~Holds(u, o)'
    BY <2>1, <2>3, <2>4 DEF OneLease, Holds
  <2> QED
    BY <2>1, <2>3, <2>4, <2>5 DEF OneLease
<1> QED
  BY <1>1, <1>2, <1>3 DEF Handling, Works

LEMMA HolderStep == ASSUME ScoreInv, HolderInv, [Next]_vars PROVE HolderInv'
<1>0. Store /\ Tasks
  BY DEF ScoreInv
<1>1. CASE UNCHANGED <<obs, task, overran>>
  BY <1>1, HoldersKept DEF Holds
<1>2. ASSUME NEW t \in Task, NEW o \in Observation, NEW prov,
             \/ RetryPending(t, o)
             \/ \E fresh \in BOOLEAN : Collect(t, o, prov, fresh)
      PROVE  HolderInv'
  <2>1. /\ overran' = overran /\ task[t].pc = "idle" /\ (\E pr : Handle(t, o, pr))
        /\ obs' = obs \/ save_observation_with_outbox(o, prov)
    BY <1>2 DEF RetryPending, Collect, history, MayStart, At
  <2>2. \A u \in Observation : obs'[u].leased = obs[u].leased
    BY <1>0, <2>1 DEF Store, save_observation_with_outbox
  <2>3. Moves(t) /\ task'[t].pc = "claiming"
    BY <1>0, <2>1, Handles
  <2> QED
    BY <2>1, <2>2, <2>3, HoldersKept DEF Moves, Holds, Active
<1>3. ASSUME NEW p \in Process, Crash(p) PROVE HolderInv'
  <2>1. /\ UNCHANGED <<obs, overran>>
        /\ \A t \in Task : task'[t] = task[t] \/ task'[t] = Idle
    BY <1>3 DEF Crash
  <2> QED
    BY <2>1, HoldersKept DEF Holds, Idle, Active
<1>4. ASSUME NEW o \in Observation, LeaseExpires(o) PROVE HolderInv'
  <2>1. /\ task' = task /\ obs' = [obs EXCEPT ![o].leased = FALSE]
        /\ \/ (\E t \in Task : Holds(t, o)) /\ overran' = overran \cup {o}
           \/ (\A t \in Task : ~Holds(t, o)) /\ overran' = overran
    BY <1>4 DEF LeaseExpires, history
  <2> SUFFICES ASSUME NEW u \in Observation \ overran' PROVE OneLease(u)'
    BY DEF HolderInv
  <2>2. OneLease(u) /\ \A t \in Task : Holds(t, u)' <=> Holds(t, u)
    BY <2>1 DEF HolderInv, Holds
  <2>3. u # o => obs'[u].leased = obs[u].leased
    BY <1>0, <2>1 DEF Store
  <2>4. u = o => \A t \in Task : ~Holds(t, u)
    BY <2>1
  <2> QED
    BY <2>2, <2>3, <2>4 DEF OneLease
<1>5. ASSUME NEW p \in Process, Sweeping(p) PROVE UNCHANGED <<obs, task, overran>>
  BY <1>5 DEF Sweeping, refresh_time_driven, _refresh_quiet_event, StoreOver, ApplyPenalty, Look,
     sweptRest, history
<1>6. ASSUME NEW p \in Process, BeginCycle(p) \/ Penalise(p) PROVE UNCHANGED <<obs, task, overran>>
  BY <1>6 DEF BeginCycle, Penalise, history
<1>7. TimeForCooling \/ (\E e \in Event : ForeignWrite(e)) => UNCHANGED <<obs, task, overran>>
  BY DEF TimeForCooling, ForeignWrite, history
<1>8. CASE UNCHANGED vars
  BY <1>1, <1>8 DEF vars
<1> QED
  BY <1>1, <1>2, <1>3, <1>4, <1>5, <1>6, <1>7, <1>8, HolderTask DEF Next

LEMMA HolderInvHolds == Spec => []HolderInv
<1>1. Init => HolderInv
  BY DEF Init, HolderInv, OneLease, Holds, Idle, Active
<1> QED
  BY <1>1, HolderStep, ScoreInvHolds, PTL DEF Spec

\* At any number of processes, an observation whose lease nobody overran has at most
\* one task that works on it, and that task's lease is in the table.
THEOREM LeaseHasOneHolder == Spec => []OneHolder
<1>1. HolderInv => OneHolder
  <2> SUFFICES ASSUME HolderInv, NEW o \in Observation \ overran
               PROVE  /\ Cardinality({t \in Task : Holds(t, o)}) <= 1
                      /\ \A t \in Task : Holds(t, o) => obs[o].leased
    BY DEF OneHolder
  <2>1. OneLease(o)
    BY DEF HolderInv
  <2> DEFINE H == {t \in Task : Holds(t, o)}
  <2>2. H = {} \/ \E t : H = {t}
    BY <2>1 DEF OneLease
  <2> HIDE DEF H
  <2>3. Cardinality(H) = 0 \/ Cardinality(H) = 1
    BY <2>2, FS_EmptySet, FS_Singleton, Zenon
  <2>4. Cardinality(H) <= 1
    BY <2>3
  <2> QED
    BY <2>1, <2>4 DEF OneLease, H
<1> QED
  BY <1>1, HolderInvHolds, PTL

-----------------------------------------------------------------------------
(***************************************************************************)
(* What an acknowledged revision rests on.  A task that has claimed an     *)
(* unverified item must not find it verified under the same revision: so   *)
(* either nothing unverified ever comes, or one process alone collects and *)
(* no source takes a verification back.                                    *)
(***************************************************************************)
Honest == "unverified" \notin Arrivals
Orderly == Honest \/ (~Downgrades /\ \A p, q \in Process : p = q)

TakenIn(o, rev) == \E e \in Event : <<e, o>> \in members /\ <<o, rev>> \in event[e].input

Promised(t) ==
    LET v == task[t]
        current == obs[v.o].rev = v.rev
        trusted == obs[v.o].prov = "verified"
    IN
    /\ Honest /\ v.pc \in InEvent \cup {"claiming", "queued"} => v.prov # "unverified"
    /\ v.pc \in InEvent \cup {"queued"} => (v.prov = "unverified" /\ current => ~trusted)
    /\ v.pc = "claiming" => (v.prov = "unverified" => ~trusted) /\ running[ProcessOf[t]] = t
    /\ v.pc = "noting" => v.prov = "unverified"
    /\ v.pc \in Writing => (current /\ trusted => <<v.o, v.rev>> \in v.input)
    /\ v.pc = "completing" => (current /\ trusted => TakenIn(v.o, v.rev))

PromiseInv ==
    /\ DOMAIN running = Process
    /\ \A o \in Observation : /\ obs[o].done \in Nat /\ obs[o].done <= obs[o].rev
                              /\ Honest => obs[o].prov # "unverified"
    /\ NoRevisionLost
    /\ \A t \in Task : Promised(t)

LEMMA TakenInStays ==
  ASSUME ScoreInv, ScoreInv', Onward, NEW o \in Observation, NEW rev \in Nat,
         obs'[o].rev = rev, TakenIn(o, rev)
  PROVE  TakenIn(o, rev)'
<1>1. PICK e \in Event : <<e, o>> \in members /\ <<o, rev>> \in event[e].input
  BY DEF TakenIn
<1>2. PICK y \in event'[e].input : y[1] = o /\ y[2] >= rev
  BY <1>1 DEF Onward, Covers
<1>3. event'[e].input \in Inputs /\ Trusted(e, event[e].input)'
  BY DEF ScoreInv, Store, StoreInv
<1>4. y = <<y[1], y[2]>> /\ y[2] \in Nat
  BY <1>3 DEF Inputs
<1>5. y[2] <= obs'[o].rev
  BY <1>2, <1>3 DEF Trusted
<1>6. <<o, rev>> \in event'[e].input
  BY <1>2, <1>4, <1>5
<1> QED
  BY <1>1, <1>6 DEF TakenIn, Onward

\* An observation still at the revision a task has in hand is as it was.
LEMMA StillCurrent ==
  ASSUME ScoreInv, ScoreInv', Onward, NEW o \in Observation, NEW rev \in Nat,
         rev <= obs[o].rev, obs'[o].rev = rev
  PROVE  obs[o].rev = rev /\ obs'[o].prov = obs[o].prov
BY DEF ScoreInv, Store, Onward

LEMMA PromiseStays ==
  ASSUME ScoreInv, ScoreInv', Onward, NEW t \in Task, task'[t] = task[t], Promised(t),
         task[t].pc = "claiming" =>
            /\ running'[ProcessOf[t]] = t
            /\ task[t].prov = "unverified" => obs'[task[t].o].prov # "verified"
  PROVE  Promised(t)'
<1> DEFINE v == task[t]
<1>1. ASSUME v.pc \in Active
      PROVE  /\ v.o \in Observation /\ v.rev \in Nat
             /\ obs'[v.o].rev = v.rev => obs[v.o].rev = v.rev /\ obs'[v.o].prov = obs[v.o].prov
  <2>1. v.o \in Observation /\ v.rev \in Nat /\ v.rev <= obs[v.o].rev
    BY <1>1, InHand
  <2> QED
    BY <2>1, StillCurrent
<1>2. v.pc \in InEvent \cup {"queued"} \cup Writing \cup {"completing"} => v.pc \in Active
  BY DEF InEvent, Writing, Active
<1>3. v.pc = "completing" =>
        (obs'[v.o].rev = v.rev /\ obs'[v.o].prov = "verified" => TakenIn(v.o, v.rev)')
  <2> SUFFICES ASSUME v.pc = "completing", obs'[v.o].rev = v.rev, obs'[v.o].prov = "verified"
               PROVE  TakenIn(v.o, v.rev)'
    OBVIOUS
  <2>1. v.o \in Observation /\ v.rev \in Nat /\ TakenIn(v.o, v.rev)
    BY <1>1, <1>2 DEF Promised
  <2>2. PICK o, rev : o = v.o /\ rev = v.rev
    OBVIOUS
  <2>3. TakenIn(o, rev)'
    BY <2>1, <2>2, TakenInStays
  <2> QED
    BY <2>2, <2>3 DEF TakenIn
<1> QED
  BY <1>1, <1>2, <1>3 DEF Promised, TakenIn

\* A revision that was acknowledged stays taken in, one that was not is out of
\* the question.
LEMMA LostStays ==
  ASSUME ScoreInv, ScoreInv', Onward, NEW o \in Observation,
         obs[o].done \in Nat, obs[o].done <= obs[o].rev, obs'[o].done = obs[o].done,
         obs[o].prov = "verified" /\ obs[o].done = obs[o].rev => TakenIn(o, obs[o].rev),
         obs'[o].prov = "verified", obs'[o].done = obs'[o].rev
  PROVE  TakenIn(o, obs[o].rev)'
<1>1. PICK rev : rev = obs'[o].rev
  OBVIOUS
<1>2. rev \in Nat /\ obs[o].rev = rev /\ obs'[o].prov = obs[o].prov
  BY <1>1, StillCurrent DEF ScoreInv, Store
<1>3. TakenIn(o, rev)'
  BY <1>1, <1>2, TakenInStays
<1> QED
  BY <1>1, <1>3 DEF TakenIn

LEMMA DoneKept ==
  ASSUME ScoreInv, ScoreInv', Onward, PromiseInv,
         \A o \in Observation : obs'[o].done = obs[o].done
  PROVE  /\ \A o \in Observation : obs'[o].done \in Nat /\ obs'[o].done <= obs'[o].rev
         /\ NoRevisionLost'
<1>1. ASSUME NEW o \in Observation PROVE obs'[o].done \in Nat /\ obs'[o].done <= obs'[o].rev
  <2>1. obs[o].rev \in Nat /\ obs'[o].rev \in Nat /\ obs[o].rev <= obs'[o].rev
    BY DEF ScoreInv, Store, Onward
  <2> QED
    BY <2>1 DEF PromiseInv
<1>2. ASSUME NEW o \in Observation, obs'[o].prov = "verified", obs'[o].done = obs'[o].rev
      PROVE  TakenIn(o, obs[o].rev)'
  <2>1. obs[o].prov = "verified" /\ obs[o].done = obs[o].rev => TakenIn(o, obs[o].rev)
    BY DEF PromiseInv, NoRevisionLost, TakenIn
  <2> QED
    BY <1>2, <2>1, LostStays DEF PromiseInv
<1> QED
  BY <1>1, <1>2 DEF NoRevisionLost, TakenIn

\* Beside a task that keeps the event loop no other is in the middle of a claim.
LEMMA LoopKept ==
  ASSUME DOMAIN running = Process, NEW t \in Task, NEW u \in Task \ {t},
         MayRun(t), Run(t) \/ Yield(t), running[ProcessOf[u]] = u
  PROVE  running'[ProcessOf[u]] = u /\ ProcessOf[u] # ProcessOf[t]
<1>1. ProcessOf[t] \in Process /\ ProcessOf[u] \in Process /\ NoTask \notin Task
  BY ScoringAssumption
<1>2. ProcessOf[u] # ProcessOf[t]
  BY <1>1 DEF MayRun
<1> QED
  BY <1>1, <1>2 DEF Run, Yield

(***************************************************************************)
(* The promise of the task that moves.                                     *)
(***************************************************************************)
\* On its way through an event a task keeps what it has in hand.
LEMMA PromiseOnTheWay ==
  ASSUME ScoreInv, NEW t \in Task, Promised(t), obs' = obs, Keeps(t, {"o", "rev", "prov"}),
         task[t].pc \in InEvent \cup {"queued"},
         task'[t].pc \in {"reading", "creating", "assigning", "loading"}
  PROVE  Promised(t)'
BY DEF Promised, Keeps, InEvent, Active, Writing

LEMMA PromiseFails ==
  ASSUME NEW t \in Task, task'[t].pc \in {"failing", "idle"}
  PROVE  Promised(t)'
BY DEF Promised, InEvent, Active, Writing

LEMMA PromiseRestarted ==
  ASSUME ScoreInv, NEW t \in Task, Promised(t), obs' = obs, Restarted(t),
         task[t].pc \in InEvent \cup {"queued"}
  PROVE  Promised(t)'
<1>1. CASE task'[t].pc = "failing"
  BY <1>1, PromiseFails
<1>2. CASE Keeps(t, {"prov"}) /\ task'[t].pc \in {"reading", "creating"}
  <2>1. Keeps(t, {"o", "rev", "prov"})
    BY <1>2 DEF Restarted, Keeps
  <2> QED
    BY <1>2, <2>1, PromiseOnTheWay
<1> QED
  BY <1>1, <1>2 DEF Restarted

LEMMA PromiseLoad ==
  ASSUME ScoreInv, NEW t \in Task, Promised(t), Load(t)
  PROVE  Promised(t)'
<1>1. UNCHANGED <<obs, members, event>> /\ task[t].pc = "loading" /\ Store
  BY DEF Load, results, At, ScoreInv
<1>2. Loaded(t)
  BY Loads DEF ScoreInv
<1>3. task'[t].o = task[t].o /\ task'[t].rev = task[t].rev
  BY <1>2 DEF Loaded, Keeps
<1>4. PICK e, o, rev : e = task[t].e /\ o = task[t].o /\ rev = task[t].rev
  OBVIOUS
<1>5. e \in Event /\ o \in Observation /\ rev \in Nat /\ <<e, o>> \in members
  BY <1>1, <1>4, InHand DEF InEvent, Active, Reading, Reviewing
<1>6. obs[o].rev = rev /\ obs[o].prov = "verified" => <<o, rev>> \in TrustedInput(e)
  BY <1>5 DEF TrustedInput
<1>7. CASE task'[t].pc = "failing"
  BY <1>7, PromiseFails
<1>8. CASE task'[t].pc = "noting" /\ task[t].prov = "unverified" /\ Keeps(t, {"prov", "e", "ver"})
  BY <1>1, <1>3, <1>8 DEF Promised, Keeps, InEvent, Active, Writing
<1>9. CASE task'[t].pc \in Writing /\ Keeps(t, {"prov", "e", "ver"}) /\ task'[t].input = TrustedInput(e)
  <2>1. task'[t].prov = task[t].prov
    BY <1>9 DEF Keeps
  <2> QED
    BY <1>1, <1>3, <1>4, <1>6, <1>9, <2>1 DEF Promised, InEvent, Active, Writing
<1>10. CASE task'[t].pc = "completing" /\ Digest(t, TrustedInput(e)) \in runs
  <2>1. Covers(event[e].input, TrustedInput(e))
    BY <1>4, <1>10 DEF ScoreInv, StoreInv, Digest
  <2>2. Trusted(e, event[e].input) /\ event[e].input \in Inputs
    BY <1>5 DEF ScoreInv, Store, StoreInv
  <2>3. ASSUME obs[o].rev = rev, obs[o].prov = "verified" PROVE TakenIn(o, rev)
    <3>1. PICK y \in event[e].input : y[1] = o /\ y[2] >= rev
      BY <1>6, <2>1, <2>3 DEF Covers
    <3>2. y = <<y[1], y[2]>> /\ y[2] \in Nat
      BY <2>2, <3>1 DEF Inputs
    <3>3. y[2] <= obs[y[1]].rev
      BY <2>2, <3>1 DEF Trusted
    <3>4. y[2] = rev
      BY <1>5, <2>3, <3>1, <3>2, <3>3
    <3>5. <<o, rev>> \in event[e].input
      BY <3>1, <3>2, <3>4
    <3> QED
      BY <1>5, <3>5 DEF TakenIn
  <2> QED
    BY <1>1, <1>3, <1>4, <1>10, <2>3 DEF Promised, TakenIn, InEvent, Active, Writing
<1> QED
  BY <1>2, <1>4, <1>7, <1>8, <1>9, <1>10 DEF Loaded

LEMMA PromiseWrite ==
  ASSUME ScoreInv, NEW t \in Task, Promised(t), UNCHANGED <<obs, members>>,
         NEW row, NEW new, Write(t, row, new),
         \/ task[t].pc \in Writing /\ row.input = task[t].input
         \/ task[t].pc = "noting"
  PROVE  Promised(t)'
<1>0. task[t].pc \in InEvent /\ task[t].pc \in Active
  BY DEF Writing, InEvent, Active
<1>1. CASE Conflict(t)
  BY <1>0, <1>1, Conflicts, PromiseRestarted DEF ScoreInv
<1>2. CASE event' = [event EXCEPT ![task[t].e] = row] /\ Goto(t, "completing")
  <2>1. task'[t].pc = "completing" /\ task'[t].o = task[t].o /\ task'[t].rev = task[t].rev
    BY <1>0, <1>2, Goes DEF ScoreInv, Keeps
  <2>2. PICK e, o, rev : e = task[t].e /\ o = task[t].o /\ rev = task[t].rev
    OBVIOUS
  <2>3. e \in Event /\ event'[e] = row
    BY <1>0, <1>2, <2>2, InHand DEF ScoreInv, Store
  <2>4. CASE task[t].pc = "noting"
    <3>1. ~(obs[o].rev = rev /\ obs[o].prov = "verified")
      BY <1>0, <2>2, <2>4 DEF Promised
    <3> QED
      BY <2>1, <2>2, <3>1 DEF Promised, InEvent, Active, Writing
  <2>5. CASE task[t].pc \in Writing /\ row.input = task[t].input
    <3>1. <<e, o>> \in members
      BY <2>2, <2>5, InHand DEF Reading, Writing, Reviewing, InEvent, Active
    <3>2. obs[o].rev = rev /\ obs[o].prov = "verified" => <<o, rev>> \in event'[e].input
      BY <2>2, <2>3, <2>5 DEF Promised
    <3>3. obs[o].rev = rev /\ obs[o].prov = "verified" => TakenIn(o, rev)'
      BY <2>3, <3>1, <3>2 DEF TakenIn
    <3> QED
      BY <2>1, <2>2, <3>3 DEF Promised, TakenIn, InEvent, Active, Writing
  <2> QED
    BY <2>4, <2>5
<1> QED
  BY <1>1, <1>2 DEF Write

LEMMA PromiseWorks ==
  ASSUME ScoreInv, NEW t \in Task, Promised(t), Works(t)
  PROVE  Promised(t)'
<1>0. Tasks /\ Store
  BY DEF ScoreInv
<1>1. CASE Enter(t)
  <2>1. obs' = obs /\ Choose(t, 0) /\ task[t].pc = "queued"
    BY <1>1 DEF Enter, At
  <2> QED
    BY <1>0, <2>1, Chooses, PromiseOnTheWay
<1>2. CASE Create(t)
  <2>1. obs' = obs /\ task[t].pc = "creating" /\ task[t].pc \in InEvent
        /\ (Conflict(t) \/ Goto(t, "reading"))
    BY <1>2 DEF Create, At, InEvent, Active
  <2>2. CASE Conflict(t)
    BY <1>0, <2>1, <2>2, Conflicts, PromiseRestarted
  <2>3. CASE Goto(t, "reading")
    <3>1. task'[t].pc = "reading" /\ Keeps(t, {"o", "rev", "prov"})
      BY <1>0, <2>1, <2>3, Creates DEF Keeps
    <3> QED
      BY <2>1, <3>1, PromiseOnTheWay
  <2> QED
    BY <2>1, <2>2, <2>3
<1>3. CASE Read(t)
  <2>1. obs' = obs /\ task[t].pc \in InEvent
    BY <1>3 DEF Read, At, InEvent, Active
  <2>2. task'[t].pc = "assigning" /\ Keeps(t, {"o", "rev", "prov"})
    BY <1>0, <1>3, Reads DEF Keeps
  <2> QED
    BY <2>1, <2>2, PromiseOnTheWay
<1>4. CASE assign_observation(t)
  <2>1. obs' = obs /\ task[t].pc \in InEvent
    BY <1>4 DEF assign_observation, At, InEvent, Active
  <2>2. task'[t].pc = "loading" /\ Keeps(t, {"o", "rev", "prov"})
    BY <1>0, <1>4, Assigns DEF Keeps
  <2> QED
    BY <2>1, <2>2, PromiseOnTheWay
<1>5. CASE Load(t)
  BY <1>5, PromiseLoad
<1>6. CASE commit_scored_event(t)
  <2>1. PICK row, new : row = updated(t) /\ Write(t, row, new)
    BY <1>6 DEF commit_scored_event
  <2>2. UNCHANGED <<obs, members>> /\ task[t].pc \in Writing /\ row.input = task[t].input
    BY <1>6, <2>1 DEF commit_scored_event, At, Writing, updated
  <2> QED
    BY <2>1, <2>2, PromiseWrite
<1>7. CASE NoteCandidate(t)
  <2>1. UNCHANGED <<obs, members>> /\ task[t].pc = "noting" /\ \E row, new : Write(t, row, new)
    BY <1>7 DEF NoteCandidate, At
  <2> QED
    BY <2>1, PromiseWrite
<1>8. CASE Triage(t)
  <2>1. PICK row, new : row.input = task[t].input /\ Write(t, row, new)
    BY <1>8 DEF Triage
  <2>2. UNCHANGED <<obs, members>> /\ task[t].pc \in Writing
    BY <1>8 DEF Triage, At, Writing
  <2> QED
    BY <2>1, <2>2, PromiseWrite
<1>9. CASE Raises(t)
  <2>1. Goto(t, "failing") /\ task[t].pc \in Active
    BY <1>9 DEF Raises
  <2>2. task'[t].pc = "failing"
    BY <1>0, <2>1, Goes
  <2> QED
    BY <2>2, PromiseFails
<1> QED
  BY <1>1, <1>2, <1>3, <1>4, <1>5, <1>6, <1>7, <1>8, <1>9 DEF Works

\* The promises of the tasks beside one that moves.
LEMMA PromiseBeside ==
  ASSUME ScoreInv, ScoreInv', Onward, PromiseInv, NEW t \in Task, NEW u \in Task \ {t},
         MayRun(t), Run(t) \/ Yield(t), task'[u] = task[u],
         \/ \A o \in Observation : obs'[o].prov = obs[o].prov
         \/ Orderly
  PROVE  Promised(u)'
<1>1. Promised(u) /\ DOMAIN running = Process
  BY DEF PromiseInv
<1>2. ASSUME task[u].pc = "claiming"
      PROVE  /\ running'[ProcessOf[u]] = u
             /\ task[u].prov = "unverified" => obs'[task[u].o].prov # "verified"
  <2>1. running[ProcessOf[u]] = u /\ (task[u].prov = "unverified" => obs[task[u].o].prov # "verified")
        /\ (Honest => task[u].prov # "unverified")
    BY <1>1, <1>2 DEF Promised
  <2>2. running'[ProcessOf[u]] = u /\ ProcessOf[u] # ProcessOf[t]
    BY <1>1, <2>1, LoopKept
  <2>3. task[u].o \in Observation
    BY <1>2, InHand DEF Equipped
  <2>4. ProcessOf[u] \in Process /\ ProcessOf[t] \in Process
    BY ScoringAssumption
  <2> QED
    BY <2>1, <2>2, <2>3, <2>4 DEF Orderly
<1> QED
  BY <1>1, <1>2, PromiseStays

LEMMA PromiseAssembles ==
  ASSUME ScoreInv, ScoreInv', Onward, PromiseInv, DOMAIN running' = Process,
         \A o \in Observation : obs'[o].done = obs[o].done,
         \A o \in Observation : obs'[o].prov = obs[o].prov \/ (Honest => obs'[o].prov # "unverified"),
         \A t \in Task : Promised(t)'
  PROVE  PromiseInv'
BY DoneKept DEF PromiseInv

\* Nothing happens to the tasks, nor to what observations are worth.
LEMMA PromiseAside ==
  ASSUME ScoreInv, ScoreInv', Onward, PromiseInv, UNCHANGED <<task, running>>,
         \A o \in Observation : obs'[o].done = obs[o].done /\ obs'[o].prov = obs[o].prov
  PROVE  PromiseInv'
<1>1. ASSUME NEW t \in Task PROVE Promised(t)'
  <2>1. Promised(t)
    BY DEF PromiseInv
  <2>2. task[t].pc = "claiming" => task[t].o \in Observation
    BY InHand DEF Equipped
  <2> QED
    BY <2>1, <2>2, PromiseStays DEF Promised
<1>2. DOMAIN running' = Process
  BY DEF PromiseInv
<1> QED
  BY <1>1, <1>2, PromiseAssembles

LEMMA PromiseCollect ==
  ASSUME Orderly, ScoreInv, ScoreInv', Onward, PromiseInv, NEW t \in Task, NEW o \in Observation,
         NEW prov, NEW fresh, Collect(t, o, prov, fresh)
  PROVE  PromiseInv'
<1>0. Store /\ Tasks /\ DOMAIN running = Process
  BY DEF ScoreInv, PromiseInv
<1>1. /\ MayRun(t) /\ Run(t) /\ Handle(t, o, prov) /\ task[t].pc = "idle" /\ prov \in Arrivals
      /\ prov = "unverified" => Downgrades \/ obs[o].prov # "verified"
      /\ \/ Changes(o, prov, fresh) /\ save_observation_with_outbox(o, prov)
         \/ obs' = obs
  BY DEF Collect, MayStart, At
<1>2. /\ Moves(t) /\ task'[t].pc = "claiming" /\ task'[t].o = o /\ task'[t].prov = prov
  BY <1>0, <1>1, Handles
<1>3. \A u \in Observation : /\ obs'[u].done = obs[u].done
                             /\ obs'[u].prov = obs[u].prov \/ (u = o /\ obs'[u].prov = prov)
  BY <1>0, <1>1 DEF Store, save_observation_with_outbox
<1>4. DOMAIN running' = Process /\ running'[ProcessOf[t]] = t
  BY <1>0, <1>1, ScoringAssumption DEF Run
<1>5. prov = "unverified" => obs'[o].prov # "verified"
  <2> SUFFICES ASSUME prov = "unverified" PROVE obs'[o].prov # "verified"
    OBVIOUS
  <2>1. ~Honest /\ obs[o].prov # "verified"
    BY <1>1 DEF Honest, Orderly
  <2> QED
    BY <1>3, <2>1
<1>6. Promised(t)'
  BY <1>1, <1>2, <1>4, <1>5 DEF Promised, Honest, InEvent, Active, Writing
<1>7. \A u \in Task \ {t} : Promised(u)'
  BY <1>1, <1>2, PromiseBeside DEF Moves
<1>8. \A u \in Observation : obs'[u].prov = obs[u].prov \/ (Honest => obs'[u].prov # "unverified")
  BY <1>1, <1>3 DEF Honest
<1> QED
  BY <1>3, <1>4, <1>6, <1>7, <1>8, PromiseAssembles

LEMMA PromiseRetry ==
  ASSUME ScoreInv, ScoreInv', Onward, PromiseInv, NEW t \in Task, NEW o \in Observation,
         RetryPending(t, o)
  PROVE  PromiseInv'
<1>0. Store /\ Tasks /\ DOMAIN running = Process
  BY DEF ScoreInv, PromiseInv
<1>1. /\ MayRun(t) /\ Run(t) /\ Handle(t, o, obs[o].prov) /\ task[t].pc = "idle" /\ obs' = obs
  BY DEF RetryPending, MayStart, At, get_latest_observation
<1>2. /\ Moves(t) /\ task'[t].pc = "claiming" /\ task'[t].o = o /\ task'[t].prov = obs[o].prov
  BY <1>0, <1>1, Handles
<1>3. DOMAIN running' = Process /\ running'[ProcessOf[t]] = t
  BY <1>0, <1>1, ScoringAssumption DEF Run
<1>4. Honest => obs[o].prov # "unverified"
  BY DEF PromiseInv
<1>5. Promised(t)'
  BY <1>1, <1>2, <1>3, <1>4 DEF Promised, InEvent, Active, Writing
<1>6. \A u \in Task \ {t} : Promised(u)'
  BY <1>1, <1>2, PromiseBeside DEF Moves
<1> QED
  BY <1>1, <1>3, <1>5, <1>6, PromiseAssembles

LEMMA PromiseClaim ==
  ASSUME ScoreInv, ScoreInv', Onward, PromiseInv, NEW t \in Task, Claim(t)
  PROVE  PromiseInv'
<1>0. Store /\ Tasks /\ DOMAIN running = Process /\ Promised(t)
  BY DEF ScoreInv, PromiseInv
<1>1. MayRun(t) /\ (Run(t) \/ Yield(t)) /\ task[t].pc = "claiming"
  BY DEF Claim, At
<1>2. PICK o : o = task[t].o
  OBVIOUS
<1>3. o \in Observation
  BY <1>1, <1>2, InHand DEF Equipped
<1>4. \/ obs' = obs /\ task' = [task EXCEPT ![t] = Idle]
      \/ /\ obs' = [obs EXCEPT ![o].leased = TRUE]
         /\ Local(t, [pc |-> "queued", rev |-> obs[task[t].o].rev])
  BY <1>2 DEF Claim
<1>5. \A u \in Observation : /\ obs'[u].done = obs[u].done /\ obs'[u].prov = obs[u].prov
                             /\ obs'[u].rev = obs[u].rev
  BY <1>0, <1>4 DEF Store
<1>6. Moves(t) /\ Promised(t)'
  <2>1. CASE task' = [task EXCEPT ![t] = Idle]
    BY <1>0, <2>1, Rests, PromiseFails
  <2>2. CASE Local(t, [pc |-> "queued", rev |-> obs[task[t].o].rev])
    <3>1. /\ Moves(t) /\ task'[t].pc = "queued" /\ task'[t].rev = obs[o].rev
          /\ task'[t].o = o /\ task'[t].prov = task[t].prov
      BY <1>0, <1>1, <1>2, <2>2, Claims DEF Keeps
    <3> QED
      BY <1>0, <1>1, <1>2, <1>3, <1>5, <3>1 DEF Promised, InEvent, Active, Writing
  <2> QED
    BY <1>4, <2>1, <2>2
<1>7. \A u \in Task \ {t} : Promised(u)'
  BY <1>1, <1>5, <1>6, PromiseBeside DEF Moves
<1>8. DOMAIN running' = Process
  BY <1>0, <1>1 DEF Run, Yield
<1> QED
  BY <1>5, <1>6, <1>7, <1>8, PromiseAssembles

LEMMA PromiseLeaves ==
  ASSUME ScoreInv, ScoreInv', Onward, PromiseInv, NEW t \in Task,
         complete_observation_processing(t) \/ fail_observation_processing(t)
  PROVE  PromiseInv'
<1>0. Store /\ Tasks /\ DOMAIN running = Process /\ Promised(t)
  BY DEF ScoreInv, PromiseInv
<1>1. PICK o, rev : o = task[t].o /\ rev = task[t].rev
  OBVIOUS
<1>2. /\ MayRun(t) /\ Yield(t) /\ task' = [task EXCEPT ![t] = Idle]
      /\ task[t].pc \in {"completing", "failing"}
      /\ \/ obs' = obs
         \/ obs' = [obs EXCEPT ![o].leased = FALSE]
         \/ /\ task[t].pc = "completing"
            /\ obs' = [obs EXCEPT ![o].done = Greater(obs[o].done, rev), ![o].leased = FALSE]
  BY <1>1 DEF complete_observation_processing, fail_observation_processing, At, Leave
<1>3. o \in Observation /\ rev \in Nat /\ rev <= obs[o].rev
  BY <1>1, <1>2, InHand DEF Active
<1>4. \A u \in Observation : obs'[u].prov = obs[u].prov /\ obs'[u].rev = obs[u].rev
  BY <1>0, <1>2 DEF Store
<1>5. Moves(t) /\ Promised(t)'
  BY <1>0, <1>2, Rests, PromiseFails
<1>6. \A u \in Task \ {t} : Promised(u)'
  BY <1>2, <1>4, <1>5, PromiseBeside DEF Moves
<1>7. DOMAIN running' = Process
  BY <1>0, <1>2 DEF Yield
<1>8. CASE \A u \in Observation : obs'[u].done = obs[u].done
  BY <1>4, <1>5, <1>6, <1>7, <1>8, PromiseAssembles
<1>9. CASE /\ task[t].pc = "completing"
           /\ obs' = [obs EXCEPT ![o].done = Greater(obs[o].done, rev), ![o].leased = FALSE]
  <2>1. \A u \in Observation \ {o} : obs'[u] = obs[u]
    BY <1>0, <1>9 DEF Store
  <2>2. obs'[o].done = Greater(obs[o].done, rev)
    BY <1>0, <1>3, <1>9 DEF Store
  <2>3. obs[o].done \in Nat /\ obs[o].done <= obs[o].rev
    BY <1>3 DEF PromiseInv
  <2>4. obs'[o].done \in Nat /\ obs'[o].done <= obs'[o].rev /\ obs'[o].done \in {obs[o].done, rev}
    BY <1>3, <1>4, <2>2, <2>3 DEF Greater
  <2>5. UNCHANGED <<members, event>>
    BY DEF complete_observation_processing, fail_observation_processing, results
  <2>6. ASSUME NEW u \in Observation, obs'[u].prov = "verified", obs'[u].done = obs'[u].rev
        PROVE  \E e \in Event : <<e, u>> \in members' /\ <<u, obs'[u].rev>> \in event'[e].input
    <3>1. CASE obs'[u].done = obs[u].done
      BY <1>4, <2>5, <2>6, <3>1 DEF PromiseInv, NoRevisionLost
    <3>2. CASE u = o /\ obs'[u].done = rev
      BY <1>0, <1>1, <1>4, <1>9, <2>5, <2>6, <3>2 DEF Promised, TakenIn
    <3> QED
      BY <2>1, <2>4, <3>1, <3>2
  <2>7. NoRevisionLost'
    BY <2>6 DEF NoRevisionLost
  <2> QED
    BY <1>4, <1>5, <1>6, <1>7, <2>1, <2>4, <2>7 DEF PromiseInv
<1>10. obs' = obs \/ obs' = [obs EXCEPT ![o].leased = FALSE]
         => \A u \in Observation : obs'[u].done = obs[u].done
  BY <1>0 DEF Store
<1> QED
  BY <1>2, <1>8, <1>9, <1>10

LEMMA WorksRun == ASSUME NEW t \in Task, Works(t) PROVE Run(t) \/ Yield(t)
BY DEF Works, Enter, Create, Read, assign_observation, Load, commit_scored_event, NoteCandidate,
       Triage, Raises, Write, Conflict, Choose

LEMMA PromiseTask ==
  ASSUME ScoreInv, ScoreInv', Onward, PromiseInv, NEW t \in Task, Works(t)
  PROVE  PromiseInv'
<1>1. MayRun(t) /\ (Run(t) \/ Yield(t)) /\ obs' = obs
  BY WorksWhere, WorksRun
<1>2. Moves(t) /\ Promised(t)'
  BY WorksOn, PromiseWorks DEF PromiseInv
<1>3. \A u \in Task \ {t} : Promised(u)'
  BY <1>1, <1>2, PromiseBeside DEF Moves
<1>4. DOMAIN running' = Process
  BY <1>1 DEF Run, Yield, PromiseInv
<1> QED
  BY <1>1, <1>2, <1>3, <1>4, PromiseAssembles

LEMMA PromiseCrash ==
  ASSUME ScoreInv, ScoreInv', Onward, PromiseInv, NEW p \in Process, Crash(p)
  PROVE  PromiseInv'
<1>1. /\ obs' = obs /\ running' = [running EXCEPT ![p] = NoTask]
      /\ task' = [t \in Task |-> IF t \in TasksOf(p) THEN Idle ELSE task[t]]
  BY DEF Crash
<1>2. ASSUME NEW t \in Task PROVE Promised(t)'
  <2>1. CASE ProcessOf[t] = p
    <3>1. task'[t].pc = "idle"
      BY <1>1, <2>1 DEF TasksOf, Idle
    <3> QED
      BY <3>1, PromiseFails
  <2>2. CASE ProcessOf[t] # p
    <3>1. task'[t] = task[t] /\ running'[ProcessOf[t]] = running[ProcessOf[t]] /\ Promised(t)
      BY <1>1, <2>2, ScoringAssumption DEF TasksOf, PromiseInv
    <3> QED
      BY <1>1, <3>1, PromiseStays DEF Promised
  <2> QED
    BY <2>1, <2>2
<1>3. DOMAIN running' = Process
  BY <1>1 DEF PromiseInv
<1> QED
  BY <1>1, <1>2, <1>3, PromiseAssembles

LEMMA PromiseStep ==
  ASSUME Orderly, ScoreInv, ScoreInv', PromiseInv, [Next]_vars
  PROVE  PromiseInv'
<1>0. Onward /\ Store
  BY EveryStep DEF Progress, Stored, ScoreInv
<1>1. CASE UNCHANGED <<obs, task, running>>
  BY <1>0, <1>1, PromiseAside
<1>2. ASSUME NEW p \in Process, Sweeping(p) PROVE UNCHANGED <<obs, task, running>>
  BY <1>2 DEF Sweeping, refresh_time_driven, _refresh_quiet_event, StoreOver, ApplyPenalty, Look,
     sweptRest
<1>3. ASSUME NEW p \in Process, BeginCycle(p) \/ Penalise(p) PROVE UNCHANGED <<obs, task, running>>
  BY <1>3 DEF BeginCycle, Penalise
<1>4. TimeForCooling \/ (\E e \in Event : ForeignWrite(e)) => UNCHANGED <<obs, task, running>>
  BY DEF TimeForCooling, ForeignWrite
<1>5. ASSUME NEW o \in Observation, LeaseExpires(o) PROVE PromiseInv'
  <2>1. UNCHANGED <<task, running>> /\ obs' = [obs EXCEPT ![o].leased = FALSE]
    BY <1>5 DEF LeaseExpires
  <2>2. \A u \in Observation : obs'[u].done = obs[u].done /\ obs'[u].prov = obs[u].prov
    BY <1>0, <2>1 DEF Store
  <2> QED
    BY <1>0, <2>1, <2>2, PromiseAside
<1>6. ASSUME NEW t \in Task, Handling(t) \/ Raises(t) PROVE PromiseInv'
  BY <1>0, <1>6, PromiseTask, PromiseClaim, PromiseLeaves DEF Handling, Works
<1>7. CASE UNCHANGED vars
  BY <1>1, <1>7 DEF vars
<1>8. CASE Next
  BY <1>0, <1>1, <1>2, <1>3, <1>4, <1>5, <1>6, <1>8, PromiseCollect, PromiseRetry, PromiseCrash DEF Next
<1> QED
  BY <1>7, <1>8

\* A verified revision that is acknowledged has gone into an event it belongs to, at
\* any number of processes when all that comes is verified, and otherwise with one
\* process and sources that take no verification back.
THEOREM NothingIsLost ==
  ASSUME Orderly
  PROVE  Spec => []NoRevisionLost
<1>1. Init => PromiseInv
  <2> SUFFICES ASSUME Init PROVE PromiseInv
    OBVIOUS
  <2>1. Idle.pc = "idle"
    BY DEF Idle
  <2>2. \A t \in Task : Promised(t)
    BY <2>1 DEF Init, Promised, InEvent, Active, Writing
  <2> QED
    BY <2>2 DEF Init, PromiseInv, NoRevisionLost
<1>2. ScoreInv /\ ScoreInv' /\ PromiseInv /\ [Next]_vars => PromiseInv'
  BY PromiseStep
<1>3. PromiseInv => NoRevisionLost
  BY DEF PromiseInv
<1> QED
  BY <1>1, <1>2, <1>3, ScoreInvHolds, PTL DEF Spec

-----------------------------------------------------------------------------
(***************************************************************************)
(* In one process, the event that a task is about to create is the first   *)
(* of its topic: the task has the lock, and only under it events come into *)
(* being.                                                                  *)
(***************************************************************************)
Alone == \A p, q \in Process : p = q

Exclusive(t) ==
    LET v == task[t] IN
    /\ v.pc \in Active \ {"queued"} => lock[ProcessOf[t]] = t
    /\ v.pc = "creating" => v.e = EventOf[v.o] /\ Fits(v.o) = {}

TopicInv ==
    /\ DOMAIN lock = Process
    /\ OneEventPerTopic
    /\ \A t \in Task : Exclusive(t)

\* No event comes into being.
NoBirth == \A e \in Event : event[e].version = 0 => event'[e].version = 0

LEMMA RewriteIsNoBirth ==
  ASSUME Store, NEW e \in Event, event[e].version > 0, NEW row, event' = [event EXCEPT ![e] = row]
  PROVE  NoBirth
BY DEF NoBirth, Store

LEMMA WorkNoBirth ==
  ASSUME ScoreInv, NEW t \in Task, Works(t), ~Create(t)
  PROVE  NoBirth
<1>0. Store
  BY DEF ScoreInv
<1>1. CASE event' = event
  BY <1>1 DEF NoBirth
<1>2. ASSUME task[t].pc \in {"scoring", "noting", "triaging"}, NEW row, NEW new, Write(t, row, new)
      PROVE  NoBirth
  <2>1. task[t].e \in Event /\ event[task[t].e].version > 0
    BY <1>2, InHand DEF Reading, InEvent, Active
  <2>2. event' = event \/ event' = [event EXCEPT ![task[t].e] = row]
    BY <1>2 DEF Write
  <2> QED
    BY <1>0, <1>1, <2>1, <2>2, RewriteIsNoBirth
<1>3. Enter(t) \/ Read(t) \/ assign_observation(t) \/ Load(t) \/ Raises(t) => event' = event
  BY DEF Enter, Read, assign_observation, Load, Raises, results
<1>4. commit_scored_event(t) \/ NoteCandidate(t) \/ Triage(t) =>
        task[t].pc \in {"scoring", "noting", "triaging"} /\ \E row, new : Write(t, row, new)
  BY DEF commit_scored_event, NoteCandidate, Triage, At
<1> QED
  BY <1>1, <1>2, <1>3, <1>4 DEF Works

LEMMA SweepNoBirth ==
  ASSUME ScoreInv, NEW p \in Process, Sweeping(p)
  PROVE  NoBirth
<1>0. Store /\ Fresh(sweep[p])
  BY DEF ScoreInv
<1>1. CASE event' = event
  BY <1>1 DEF NoBirth
<1>2. ASSUME NEW e, e \in DOMAIN sweep[p].read, sweep[p].pc \in {"storing", "penalising"},
             NEW row, event' = [event EXCEPT ![e] = row]
      PROVE  NoBirth
  BY <1>0, <1>2, RewriteIsNoBirth DEF Fresh
<1>3. refresh_time_driven(p) \/ (\E e \in Event : Look(p, e)) => event' = event
  BY DEF refresh_time_driven, Look
<1>4. ASSUME NEW e \in Event, ApplyPenalty(p, e) PROVE NoBirth
  BY <1>1, <1>2, <1>4 DEF ApplyPenalty
<1>5. ASSUME _refresh_quiet_event(p) PROVE NoBirth
  <2>1. CASE StoreOver(p)
    <3>1. sweep[p].pc = "storing" /\ \E row : event' = [event EXCEPT ![sweep[p].e] = row]
      BY <2>1 DEF StoreOver
    <3> QED
      BY <1>0, <1>2, <3>1 DEF Fresh
  <2> QED
    BY <1>1, <1>5, <2>1 DEF _refresh_quiet_event
<1> QED
  BY <1>1, <1>3, <1>4, <1>5 DEF Sweeping

LEMMA NoBirthFits == ASSUME Store, Store', NoBirth, NEW o PROVE Fits(o)' \subseteq Fits(o)
BY DEF NoBirth, Fits, Candidates, Store, Topic

LEMMA ExclusiveStays ==
  ASSUME Store, Store', NEW t \in Task, Exclusive(t), task'[t] = task[t],
         task[t].pc \in Active \ {"queued"} => lock'[ProcessOf[t]] = lock[ProcessOf[t]],
         NoBirth \/ task[t].pc # "creating"
  PROVE  Exclusive(t)'
<1>1. ASSUME task[t].pc = "creating" PROVE Fits(task[t].o)' = {}
  <2>1. PICK o : o = task[t].o
    OBVIOUS
  <2>2. Fits(o)' \subseteq Fits(o) /\ Fits(o) = {}
    BY <1>1, <2>1, NoBirthFits DEF Exclusive
  <2> QED
    BY <2>1, <2>2 DEF Fits, Candidates, Topic
<1> QED
  BY <1>1 DEF Exclusive, Fits, Candidates, Topic

LEMMA NoBirthTopic ==
  ASSUME Store, Store', NoBirth, OneEventPerTopic
  PROVE  OneEventPerTopic'
BY DEF NoBirth, OneEventPerTopic, Store

\* Nobody else is at work in the process of a task that has the lock, and a task
\* that takes or frees it has it from nobody.
LEMMA LockKept ==
  ASSUME TopicInv, NEW t \in Task, NEW u \in Task \ {t}, task[u].pc \in Active \ {"queued"},
         \/ lock' = lock
         \/ lock[ProcessOf[t]] = NoTask /\ lock' = [lock EXCEPT ![ProcessOf[t]] = t]
         \/ lock' = [lock EXCEPT ![ProcessOf[t]] = Free(ProcessOf[t], t)]
  PROVE  lock'[ProcessOf[u]] = lock[ProcessOf[u]]
<1>1. lock[ProcessOf[u]] = u /\ DOMAIN lock = Process
  BY DEF TopicInv, Exclusive
<1>2. ProcessOf[t] \in Process /\ ProcessOf[u] \in Process /\ NoTask \notin Task
  BY ScoringAssumption
<1> QED
  BY <1>1, <1>2 DEF Free

LEMMA CreatingAlone ==
  ASSUME Alone, TopicInv, NEW t \in Task, NEW u \in Task \ {t},
         task[t].pc = "creating", task[u].pc = "creating"
  PROVE  FALSE
<1>1. lock[ProcessOf[t]] = t /\ lock[ProcessOf[u]] = u
  BY DEF TopicInv, Exclusive, Active
<1>2. ProcessOf[t] = ProcessOf[u]
  BY ScoringAssumption DEF Alone
<1> QED
  BY <1>1, <1>2

\* What a task does when it starts over, or goes on.
LEMMA ExclusiveRestarted ==
  ASSUME Store, NEW t \in Task, event' = event, Restarted(t), lock'[ProcessOf[t]] = t
  PROVE  Exclusive(t)'
<1>1. task'[t].o = task[t].o
  BY DEF Restarted, Keeps
<1>2. task'[t].pc = "creating" => task'[t].e = EventOf[task[t].o] /\ Fits(task[t].o) = {}
  BY DEF Restarted
<1> QED
  BY <1>1, <1>2 DEF Exclusive, Fits, Candidates, Topic

LEMMA WriteExclusive ==
  ASSUME ScoreInv, NEW t \in Task, NEW row, NEW new, Write(t, row, new), task[t].pc \in InEvent,
         lock'[ProcessOf[t]] = t
  PROVE  Exclusive(t)'
<1>1. CASE Conflict(t) /\ event' = event
  BY <1>1, Conflicts, ExclusiveRestarted DEF ScoreInv
<1>2. CASE Goto(t, "completing")
  <2>1. task[t].pc \in Active
    BY DEF InEvent
  <2>2. task'[t].pc = "completing"
    BY <1>2, <2>1, Goes DEF ScoreInv
  <2> QED
    BY <2>2 DEF Exclusive
<1> QED
  BY <1>1, <1>2 DEF Write

LEMMA WorksExclusive ==
  ASSUME ScoreInv, TopicInv, NEW t \in Task, Works(t)
  PROVE  /\ Exclusive(t)' /\ DOMAIN lock' = Process
         /\ \/ lock' = lock
            \/ lock[ProcessOf[t]] = NoTask /\ lock' = [lock EXCEPT ![ProcessOf[t]] = t]
<1>0. /\ Store /\ Tasks /\ Exclusive(t) /\ DOMAIN lock = Process /\ ProcessOf[t] \in Process
  BY ScoringAssumption DEF ScoreInv, TopicInv
<1>1. CASE Enter(t)
  <2>1. /\ event' = event /\ task[t].pc = "queued" /\ Choose(t, 0)
        /\ lock[ProcessOf[t]] = NoTask /\ lock' = [lock EXCEPT ![ProcessOf[t]] = t]
    BY <1>1 DEF Enter, At, results
  <2>2. Restarted(t)
    BY <1>0, <2>1, Chooses DEF Restarted, Keeps
  <2> QED
    BY <1>0, <2>1, <2>2, ExclusiveRestarted
<1>a. ASSUME ~Enter(t) PROVE lock' = lock /\ lock'[ProcessOf[t]] = t
  <2>1. task[t].pc \in Active \ {"queued", "completing", "failing"}
    BY <1>a DEF Works, Create, Read, assign_observation, Load, commit_scored_event, NoteCandidate,
                Triage, Raises, At, Active
  <2> QED
    BY <1>0, <2>1, WorksWhere DEF Exclusive
<1>2. CASE Create(t) /\ ~Enter(t)
  <2>1. task[t].pc = "creating" /\ task[t].pc \in InEvent
        /\ (Goto(t, "reading") \/ (Conflict(t) /\ event' = event))
    BY <1>2 DEF Create, At, InEvent, Active
  <2>2. CASE Conflict(t) /\ event' = event
    BY <1>0, <1>a, <1>2, <2>1, <2>2, Conflicts, ExclusiveRestarted
  <2>3. CASE Goto(t, "reading")
    BY <1>0, <1>a, <1>2, <2>1, <2>3, Creates DEF Exclusive
  <2> QED
    BY <1>0, <1>a, <1>2, <2>1, <2>2, <2>3
<1>3. CASE ~Enter(t) /\ (Read(t) \/ assign_observation(t) \/ Load(t) \/ Raises(t))
  <2>1. task'[t].pc # "creating"
    <3>1. Read(t) => task'[t].pc = "assigning"
      BY <1>0, Reads
    <3>2. assign_observation(t) => task'[t].pc = "loading"
      BY <1>0, Assigns
    <3>3. Load(t) => task'[t].pc # "creating"
      BY <1>0, Loads DEF Loaded, Writing
    <3>4. Raises(t) => task'[t].pc = "failing"
      BY <1>0, Goes DEF Raises
    <3> QED
      BY <1>3, <3>1, <3>2, <3>3, <3>4
  <2> QED
    BY <1>0, <1>a, <1>3, <2>1 DEF Exclusive
<1>4. CASE ~Enter(t) /\ (commit_scored_event(t) \/ NoteCandidate(t) \/ Triage(t))
  <2>1. task[t].pc \in InEvent /\ \E row, new : Write(t, row, new)
    BY <1>4 DEF commit_scored_event, NoteCandidate, Triage, At, InEvent, Active
  <2> QED
    BY <1>0, <1>a, <1>4, <2>1, WriteExclusive
<1> QED
  BY <1>1, <1>2, <1>3, <1>4 DEF Works

LEMMA CreateTopic ==
  ASSUME ScoreInv, ScoreInv', TopicInv, NEW t \in Task, Create(t)
  PROVE  OneEventPerTopic'
<1>0. Store /\ task[t].pc = "creating" /\ Exclusive(t) /\ OneEventPerTopic
  BY DEF Create, At, ScoreInv, TopicInv
<1>1. PICK e, o : e = task[t].e /\ o = task[t].o
  OBVIOUS
<1>2. e \in Event /\ e = EventOf[o] /\ Fits(o) = {}
  BY <1>0, <1>1, InHand DEF Exclusive, InEvent, Active
<1>3. CASE event' = event
  BY <1>0, <1>3 DEF OneEventPerTopic
<1>4. CASE event' = [event EXCEPT ![e] = _skeleton]
  <2>1. \A f \in Event \ {e} : event'[f] = event[f]
    BY <1>0, <1>4 DEF Store
  <2>2. \A f \in Event : event[f].version > 0 => TopicOf[f] # TopicOf[e]
    BY <1>2 DEF Fits, Candidates, Topic
  <2> QED
    BY <1>0, <2>1, <2>2 DEF OneEventPerTopic
<1> QED
  BY <1>1, <1>3, <1>4 DEF Create

LEMMA TopicStep ==
  ASSUME Alone, ScoreInv, ScoreInv', TopicInv, [Next]_vars
  PROVE  TopicInv'
<1>0. Store /\ Store' /\ Tasks /\ DOMAIN lock = Process /\ OneEventPerTopic
      /\ \A t \in Task : Exclusive(t)
  BY DEF ScoreInv, TopicInv
<1>1. ASSUME NoBirth, DOMAIN lock' = Process, NEW t \in Task, Exclusive(t)',
             \A u \in Task \ {t} : task'[u] = task[u],
             \/ lock' = lock
             \/ lock[ProcessOf[t]] = NoTask /\ lock' = [lock EXCEPT ![ProcessOf[t]] = t]
             \/ lock' = [lock EXCEPT ![ProcessOf[t]] = Free(ProcessOf[t], t)]
      PROVE  TopicInv'
  BY <1>0, <1>1, NoBirthTopic, LockKept, ExclusiveStays DEF TopicInv
<1>2. CASE NoBirth /\ UNCHANGED <<task, lock>>
  BY <1>0, <1>2, NoBirthTopic, ExclusiveStays DEF TopicInv
<1>3. ASSUME NEW t \in Task, Works(t), ~Create(t) PROVE TopicInv'
  BY <1>1, <1>3, WorkNoBirth, WorksExclusive, WorksOn DEF Moves
<1>4. ASSUME NEW t \in Task, Create(t) PROVE TopicInv'
  <2>1. Works(t) /\ task[t].pc = "creating" /\ lock' = lock
    BY <1>4 DEF Works, Create, At
  <2>2. Exclusive(t)' /\ Moves(t)
    BY <2>1, WorksExclusive, WorksOn
  <2>3. \A u \in Task \ {t} : Exclusive(u)'
    BY <1>0, <2>1, <2>2, CreatingAlone, ExclusiveStays DEF Moves
  <2> QED
    BY <1>0, <1>4, <2>1, <2>2, <2>3, CreateTopic DEF TopicInv
<1>5. ASSUME NEW t \in Task,
             \/ Claim(t)
             \/ \E o \in Observation : RetryPending(t, o)
             \/ \E o \in Observation, prov \in Provenance, fresh \in BOOLEAN : Collect(t, o, prov, fresh)
      PROVE  TopicInv'
  <2>1. UNCHANGED <<event, lock>> /\ NoBirth
    BY <1>5 DEF Claim, RetryPending, Collect, results, NoBirth
  <2>2. Moves(t) /\ task'[t].pc \in {"idle", "queued", "claiming"}
    <3>1. Claim(t) => Moves(t) /\ task'[t].pc \in {"idle", "queued"}
      BY <1>0, Claims, Rests DEF Claim, At
    <3>2. ASSUME NEW o \in Observation, NEW prov, Handle(t, o, prov), task[t].pc = "idle"
          PROVE  Moves(t) /\ task'[t].pc = "claiming"
      BY <1>0, <3>2, Handles
    <3>3. Claim(t) \/ (task[t].pc = "idle" /\ \E o \in Observation : \E prov : Handle(t, o, prov))
      BY <1>5 DEF RetryPending, Collect, MayStart, At
    <3> QED
      BY <3>1, <3>2, <3>3
  <2>3. Exclusive(t)'
    BY <2>2 DEF Exclusive, Active
  <2> QED
    BY <1>0, <1>1, <2>1, <2>2, <2>3 DEF Moves
<1>6. ASSUME NEW t \in Task, complete_observation_processing(t) \/ fail_observation_processing(t)
      PROVE  TopicInv'
  <2>1. /\ event' = event /\ NoBirth /\ task' = [task EXCEPT ![t] = Idle]
        /\ lock' = [lock EXCEPT ![ProcessOf[t]] = Free(ProcessOf[t], t)] /\ DOMAIN lock' = Process
    BY <1>0, <1>6 DEF complete_observation_processing, fail_observation_processing, Leave, results,
                      NoBirth
  <2>2. Moves(t) /\ task'[t].pc = "idle"
    BY <1>0, <2>1, Rests
  <2>3. Exclusive(t)'
    BY <2>2 DEF Exclusive, Active
  <2> QED
    BY <1>1, <2>1, <2>2, <2>3 DEF Moves
<1>7. ASSUME NEW p \in Process, Crash(p) PROVE TopicInv'
  <2>1. /\ NoBirth /\ lock' = [lock EXCEPT ![p] = NoTask]
        /\ task' = [t \in Task |-> IF t \in TasksOf(p) THEN Idle ELSE task[t]]
    BY <1>7 DEF Crash, results, NoBirth
  <2>2. ASSUME NEW t \in Task PROVE Exclusive(t)'
    <3>1. CASE ProcessOf[t] = p
      <4>1. task'[t].pc = "idle"
        BY <2>1, <3>1 DEF TasksOf, Idle
      <4> QED
        BY <4>1 DEF Exclusive, Active
    <3>2. CASE ProcessOf[t] # p
      <4>1. task'[t] = task[t] /\ lock'[ProcessOf[t]] = lock[ProcessOf[t]]
        BY <1>0, <2>1, <3>2, ScoringAssumption DEF TasksOf
      <4> QED
        BY <1>0, <2>1, <4>1, ExclusiveStays
    <3> QED
      BY <3>1, <3>2
  <2> QED
    BY <1>0, <2>1, <2>2, NoBirthTopic DEF TopicInv
<1>8. ASSUME NEW p \in Process, Sweeping(p) PROVE TopicInv'
  <2>1. UNCHANGED <<task, lock>>
    BY <1>8 DEF Sweeping, refresh_time_driven, _refresh_quiet_event, StoreOver, ApplyPenalty, Look,
       sweptRest
  <2> QED
    BY <1>2, <1>8, <2>1, SweepNoBirth
<1>9. ASSUME \/ \E p \in Process : BeginCycle(p) \/ Penalise(p)
             \/ TimeForCooling \/ \E o \in Observation : LeaseExpires(o)
      PROVE  TopicInv'
  <2>1. UNCHANGED <<task, lock, event>>
    BY <1>9 DEF BeginCycle, Penalise, TimeForCooling, LeaseExpires, results
  <2> QED
    BY <1>2, <2>1 DEF NoBirth
<1>10. ASSUME NEW e \in Event, ForeignWrite(e) PROVE TopicInv'
  <2>1. /\ UNCHANGED <<task, lock>> /\ event[e].version > 0
        /\ \E row : event' = [event EXCEPT ![e] = row]
    BY <1>10 DEF ForeignWrite
  <2> QED
    BY <1>0, <1>2, <2>1, RewriteIsNoBirth
<1>11. CASE UNCHANGED vars
  BY <1>2, <1>11 DEF vars, NoBirth
<1>12. ASSUME NEW t \in Task, Handling(t) \/ Raises(t) PROVE TopicInv'
  BY <1>3, <1>4, <1>5, <1>6, <1>12 DEF Handling, Works
<1>13. CASE Next
  BY <1>5, <1>7, <1>8, <1>9, <1>10, <1>12, <1>13 DEF Next
<1> QED
  BY <1>11, <1>13

\* In one process two events of a topic never exist, however many connectors and
\* retries run and fail.
THEOREM TopicsDoNotSplit ==
  ASSUME Alone
  PROVE  Spec => []OneEventPerTopic
<1>1. Init => TopicInv
  <2> SUFFICES ASSUME Init PROVE TopicInv
    OBVIOUS
  <2>1. Idle.pc = "idle"
    BY DEF Idle
  <2> QED
    BY <2>1 DEF Init, TopicInv, Exclusive, OneEventPerTopic, Active
<1>2. ScoreInv /\ ScoreInv' /\ TopicInv /\ [Next]_vars => TopicInv'
  BY TopicStep
<1>3. TopicInv => OneEventPerTopic
  BY DEF TopicInv
<1> QED
  BY <1>1, <1>2, <1>3, ScoreInvHolds, PTL DEF Spec

=============================================================================
