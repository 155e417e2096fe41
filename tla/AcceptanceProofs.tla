-------------------------- MODULE AcceptanceProofs --------------------------
(* Proofs about the acceptance monitor, for any number of collectors, of      *)
(* samples and of faults.                                                     *)
EXTENDS AcceptanceMonitor, FiniteSetTheorems, WellFoundedInduction, SequenceTheorems, TLAPS

LEMMA LeastExists ==
  ASSUME NEW S \in SUBSET Nat, S # {}
  PROVE  \E m \in S : \A k \in S : m <= k
<1> DEFINE T == {0..m : m \in S}
<1>1. T \subseteq FiniteSubsetsOf(Nat) /\ T # {}
  <2>1. ASSUME NEW m \in S PROVE IsFiniteSet(0..m) /\ 0..m \in SUBSET Nat
    BY FS_Interval
  <2> QED
    BY <2>1 DEF FiniteSubsetsOf
<1>2. PICK U \in T : \A V \in T : <<V, U>> \notin StrictSubsetOrdering(Nat)
  <2> HIDE DEF T
  <2> QED
    BY <1>1, WFMin, FS_StrictSubsetOrderingWellFounded
<1>3. PICK m \in S : U = 0..m
  OBVIOUS
<1>4. ASSUME NEW k \in S, k < m PROVE FALSE
  <2>1. /\ 0..k \in SUBSET Nat /\ 0..m \in SUBSET Nat /\ 0..k \subseteq 0..m
        /\ m \in 0..m /\ m \notin 0..k
    BY <1>4
  <2>2. <<0..k, 0..m>> \in StrictSubsetOrdering(Nat)
    BY <2>1 DEF StrictSubsetOrdering
  <2>3. 0..k \in T
    BY <1>4
  <2> HIDE DEF T
  <2>4. <<0..k, U>> \notin StrictSubsetOrdering(Nat)
    BY <1>2, <2>3, Zenon
  <2> QED
    BY <1>3, <2>2, <2>4, Zenon
<1> QED
  BY <1>4

\* A sequence that passes a bound passes it at some step.
LEMMA FirstAbove ==
  ASSUME NEW n \in Nat, NEW at, \A i \in 1..n : at[i] \in Int,
         NEW from \in Int, n > 0, at[1] <= from, from < at[n]
  PROVE  \E i \in 2..n : at[i - 1] <= from /\ from < at[i]
<1> DEFINE S == {i \in 1..n : from < at[i]}
<1>1. S \in SUBSET Nat /\ S # {}
  <2>1. n \in S
    OBVIOUS
  <2> QED
    BY <2>1
<1>2. PICK i \in S : \A k \in S : i <= k
  <2> HIDE DEF S
  <2> QED
    BY <1>1, LeastExists
<1>3. i \in 2..n
  BY <1>2
<1>4. i - 1 \in 1..n /\ i - 1 \notin S
  BY <1>2, <1>3
<1>5. at[i - 1] <= from
  BY <1>4
<1> QED
  BY <1>2, <1>3, <1>5

\* What each place of a sequence hands on to the next, a later place has.
LEMMA HandedOn ==
  ASSUME NEW n \in Nat, NEW P, \A i \in 1..(n - 1) : i \in P => i + 1 \in P,
         NEW i \in 1..n, i \in P, NEW j \in 1..n, i < j
  PROVE  j \in P
<1> DEFINE S == {k \in i..n : k \notin P}
<1>1. SUFFICES ASSUME j \notin P PROVE FALSE
  OBVIOUS
<1>2. S \in SUBSET Nat /\ S # {}
  <2>1. j \in S
    BY <1>1
  <2> QED
    BY <2>1
<1>3. PICK k \in S : \A l \in S : k <= l
  <2> HIDE DEF S
  <2> QED
    BY <1>2, LeastExists
<1>4. k # i /\ k \in i..n /\ k \notin P
  BY <1>3
<1>5. k - 1 \in i..n /\ k - 1 \in 1..(n - 1)
  BY <1>4
<1>6. k - 1 \notin S
  BY <1>3, <1>4
<1>7. k - 1 \in P
  BY <1>5, <1>6
<1>8. (k - 1) + 1 \in P
  BY <1>5, <1>7
<1> QED
  BY <1>4, <1>8

-----------------------------------------------------------------------------
(***************************************************************************)
(* What a line written to the file does to it: it comes after the lines    *)
(* there are, or runs on from the last one, which then cannot be read.     *)
(***************************************************************************)
LEMMA WrittenEnds ==
  ASSUME NEW S, file \in Seq(S), NEW line
  PROVE  /\ \E T : Written(line) \in Seq(T)
         /\ \/ /\ Len(Written(line)) = Len(file) + 1
               /\ \A i \in 1..Len(file) : Written(line)[i] = file[i]
               /\ Written(line)[Len(file) + 1] = line
            \/ /\ Len(file) > 0 /\ ~file[Len(file)].ended
               /\ Len(Written(line)) = Len(file)
               /\ \A i \in 1..(Len(file) - 1) : Written(line)[i] = file[i]
               /\ Written(line)[Len(file)] = Torn(line.ended)
<1>1. CASE file # <<>> /\ ~LastLine.ended
  <2> DEFINE front == Front(file)
             torn == Torn(line.ended)
             n == Len(file)
  <2>1. n \in Nat /\ n > 0 /\ LastLine = file[n]
    BY <1>1 DEF LastLine, Last
  <2>2. PICK m \in 0..Len(file) : m = n - 1
    <3>1. n - 1 \in 0..n
      BY <2>1
    <3> QED
      BY <3>1, Zenon
  <2>3. front \in Seq(S) /\ Len(front) = n - 1 /\ \A i \in 1..(n - 1) : front[i] = file[i]
    <3>1. PICK t : t = SubSeq(file, 1, m)
      OBVIOUS
    <3>2. t = front
      BY <2>2, <3>1 DEF Front
    <3>3. t \in Seq(S) /\ Len(t) = m /\ \A i \in 1..m : t[i] = file[i]
      BY <3>1
    <3> QED
      BY <2>2, <3>2, <3>3
  <2>4. Written(line) = Append(front, torn)
    BY <1>1 DEF Written
  <2> HIDE DEF front, torn
  <2>5. front \in Seq(S \cup {torn})
    BY <2>3
  <2>6. /\ Append(front, torn) \in Seq(S \cup {torn})
        /\ Len(Append(front, torn)) = n /\ Append(front, torn)[n] = torn
        /\ \A i \in 1..(n - 1) : Append(front, torn)[i] = file[i]
    BY <2>1, <2>3, <2>5
  <2> QED
    BY <1>1, <2>1, <2>4, <2>6 DEF torn
<1>2. CASE ~(file # <<>> /\ ~LastLine.ended)
  <2>1. Written(line) = Append(file, line)
    BY <1>2 DEF Written
  <2>2. file \in Seq(S \cup {line})
    OBVIOUS
  <2>3. /\ Append(file, line) \in Seq(S \cup {line})
        /\ Len(Append(file, line)) = Len(file) + 1 /\ Append(file, line)[Len(file) + 1] = line
        /\ \A i \in 1..Len(file) : Append(file, line)[i] = file[i]
    BY <2>2
  <2> QED
    BY <2>1, <2>3
<1> QED
  BY <1>1, <1>2

-----------------------------------------------------------------------------
(***************************************************************************)
(* The invariant behind PassedMeansUp and LoadableIsComplete: a healthy    *)
(* sample was taken at a moment at which the API answered, a line names a  *)
(* line of an earlier sample, and what was reported written is in a line   *)
(* that was ended, or ended one that cannot be read.                       *)
(***************************************************************************)
Taken(s) ==
    /\ s.run \in 1..taken /\ s.at \in 0..clock
    /\ s.healthy => s.at \notin down

Raw == {"run", "at", "slot", "healthy"}

JobInv(c) ==
    \/ job[c] = Idle
    \/ /\ job[c].stage = "reading" /\ Taken(job[c].sample) /\ job[c].sample.healthy
       /\ DOMAIN job[c] = {"stage", "sample", "read", "view"} /\ DOMAIN job[c].sample = Raw
    \/ job[c].stage = "holding" /\ Taken(job[c].sample)
    \/ /\ job[c].stage = "chained" /\ Taken(job[c].sample)
       /\ job[c].previous \in Nat /\ job[c].previous < job[c].sample.run

LineInv(line) ==
    \/ line.torn
    \/ Taken(line.sample) /\ line.previous \in Nat /\ line.previous < line.sample.run

ClockInv ==
    /\ clock \in Nat /\ taken \in Nat /\ DOMAIN job = Collector
    /\ down \subseteq 0..clock /\ (up => clock \notin down)

FileInv ==
    /\ \E S : file \in Seq(S)
    /\ \A i \in 1..Len(file) : LineInv(file[i])
    /\ \A r \in collected : \E i \in 1..Len(file) :
          file[i].ended /\ (file[i].torn \/ file[i].sample.run = r)

MonitorInv == ClockInv /\ FileInv /\ \A c \in Collector : JobInv(c)

LEMMA MonitorInvInit == ASSUME MetricsAssumption, Init PROVE MonitorInv
<1>1. ClockInv
  BY DEF MetricsAssumption, Init, MetricsInit, MonitorInit, ClockInv
<1>2. FileInv
  <2>1. file = <<>> /\ collected = {}
    BY DEF Init, MonitorInit
  <2>2. file \in Seq({}) /\ Len(file) = 0
    BY <2>1
  <2> QED
    BY <2>1, <2>2 DEF FileInv
<1>3. ASSUME NEW c \in Collector PROVE JobInv(c)
  BY DEF Init, MonitorInit, JobInv
<1> QED
  BY <1>1, <1>2, <1>3 DEF MonitorInv

\* What a sample says stays true while time passes.
LEMMA TakenStays ==
  ASSUME ClockInv, taken' \in Nat, taken <= taken', clock' \in Nat, clock <= clock',
         down' \cap 0..clock \subseteq down, NEW s, Taken(s)
  PROVE  /\ s.run \in 1..taken' /\ s.at \in 0..clock'
         /\ s.healthy => s.at \notin down'
  BY DEF ClockInv, Taken

\* Steps of the system that is watched.
LEMMA WatchedKeeps ==
  ASSUME MonitorInv, UNCHANGED <<job, taken, file, collected>>, ClockInv',
         clock <= clock', down' \cap 0..clock \subseteq down
  PROVE  MonitorInv'
<1>1. \A s : Taken(s) => Taken(s)'
  <2> SUFFICES ASSUME NEW s, Taken(s) PROVE Taken(s)'
    OBVIOUS
  <2>1. ClockInv /\ taken' \in Nat /\ taken <= taken' /\ clock' \in Nat
    BY DEF MonitorInv, ClockInv
  <2> QED
    BY <2>1, TakenStays DEF Taken
<1>2. \A c \in Collector : JobInv(c)'
  BY <1>1 DEF MonitorInv, JobInv
<1>3. FileInv'
  BY <1>1 DEF MonitorInv, FileInv, LineInv
<1> QED
  BY <1>2, <1>3 DEF MonitorInv

\* Steps in which a collector goes on and leaves the file alone.
LEMMA JobKeeps ==
  ASSUME MonitorInv, NEW c \in Collector,
         DOMAIN job' = Collector, \A d \in Collector \ {c} : job'[d] = job[d],
         UNCHANGED <<clock, up, down, file, collected>>,
         taken' \in Nat, taken <= taken', JobInv(c)'
  PROVE  MonitorInv'
<1>1. \A s : Taken(s) => Taken(s)'
  <2> SUFFICES ASSUME NEW s, Taken(s) PROVE Taken(s)'
    OBVIOUS
  <2>1. ClockInv /\ clock' \in Nat /\ clock <= clock' /\ down' \cap 0..clock \subseteq down
    BY DEF MonitorInv, ClockInv
  <2> QED
    BY <2>1, TakenStays DEF Taken
<1>2. ASSUME NEW d \in Collector, d # c PROVE JobInv(d)'
  <2>1. job'[d] = job[d] /\ JobInv(d)
    BY <1>2 DEF MonitorInv, ClockInv
  <2> QED
    BY <1>1, <2>1 DEF JobInv
<1>3. FileInv'
  BY <1>1 DEF MonitorInv, FileInv, LineInv
<1>4. ClockInv'
  BY DEF MonitorInv, ClockInv
<1> QED
  BY <1>2, <1>3, <1>4 DEF MonitorInv

\* Steps in which a collector writes, and is done.
LEMMA WriteKeeps ==
  ASSUME MonitorInv, NEW c \in Collector, DOMAIN job' = Collector, job'[c] = Idle,
         \A d \in Collector \ {c} : job'[d] = job[d],
         UNCHANGED <<clock, up, down, taken>>, NEW line, line.torn \in BOOLEAN, LineInv(line),
         file' = Written(line),
         \/ collected' = collected
         \/ /\ line.ended /\ ~line.torn
            /\ collected' = collected \cup {line.sample.run}
  PROVE  MonitorInv'
<1>1. \A s : Taken(s) <=> Taken(s)'
  BY DEF Taken
<1>2. ASSUME NEW d \in Collector PROVE JobInv(d)'
  <2>1. job'[d] = job[d] \/ job'[d] = Idle
    BY DEF MonitorInv, ClockInv
  <2>2. JobInv(d)
    BY DEF MonitorInv
  <2> QED
    BY <1>1, <2>1, <2>2 DEF JobInv
<1>3. ClockInv'
  BY DEF MonitorInv, ClockInv
<1>4. PICK S : file \in Seq(S)
  BY DEF MonitorInv, FileInv
<1>5. Len(file) \in Nat
  BY <1>4
<1>6. \E T : file' \in Seq(T)
  BY <1>4, WrittenEnds
<1>7. CASE /\ Len(file') = Len(file) + 1
           /\ \A i \in 1..Len(file) : file'[i] = file[i]
           /\ file'[Len(file) + 1] = line
  <2>1. \A i \in 1..Len(file') : i \in 1..Len(file) \/ i = Len(file) + 1
    BY <1>5, <1>7
  <2>2. 1..Len(file) \subseteq 1..Len(file') /\ Len(file) + 1 \in 1..Len(file')
    BY <1>5, <1>7
  <2>3. \A i \in 1..Len(file') : LineInv(file'[i])
    BY <1>7, <2>1 DEF MonitorInv, FileInv
  <2>4. ASSUME NEW r \in collected'
        PROVE  \E i \in 1..Len(file') : file'[i].ended /\ (file'[i].torn \/ file'[i].sample.run = r)
    <3>1. CASE r \in collected
      <4>1. PICK i \in 1..Len(file) : file[i].ended /\ (file[i].torn \/ file[i].sample.run = r)
        BY <3>1 DEF MonitorInv, FileInv
      <4> QED
        BY <1>7, <2>2, <4>1
    <3>2. CASE r \notin collected
      BY <1>7, <2>2, <2>4, <3>2
    <3> QED
      BY <3>1, <3>2
  <2>5. (\A i \in 1..Len(file) : LineInv(file[i]))'
    BY <1>1, <2>3 DEF LineInv
  <2> QED
    BY <1>2, <1>3, <1>6, <2>4, <2>5 DEF MonitorInv, FileInv
<1>8. CASE /\ Len(file) > 0 /\ ~file[Len(file)].ended
           /\ Len(file') = Len(file)
           /\ \A i \in 1..(Len(file) - 1) : file'[i] = file[i]
           /\ file'[Len(file)] = Torn(line.ended)
  <2>1. \A i \in 1..Len(file) : i \in 1..(Len(file) - 1) \/ i = Len(file)
    BY <1>5
  <2>2. 1..(Len(file) - 1) \subseteq 1..Len(file') /\ Len(file) \in 1..Len(file')
    BY <1>5, <1>8
  <2>3. file'[Len(file)].torn /\ file'[Len(file)].ended = line.ended
    BY <1>8 DEF Torn
  <2>4. \A i \in 1..Len(file') : LineInv(file'[i])
    <3>1. LineInv(file'[Len(file)])
      BY <2>3 DEF LineInv
    <3> QED
      BY <1>8, <2>1, <3>1 DEF MonitorInv, FileInv
  <2>5. ASSUME NEW r \in collected'
        PROVE  \E i \in 1..Len(file') : file'[i].ended /\ (file'[i].torn \/ file'[i].sample.run = r)
    <3>1. CASE r \in collected
      <4>1. PICK i \in 1..Len(file) : file[i].ended /\ (file[i].torn \/ file[i].sample.run = r)
        BY <3>1 DEF MonitorInv, FileInv
      <4>2. i \in 1..(Len(file) - 1)
        BY <1>8, <2>1, <4>1
      <4> QED
        BY <1>8, <2>2, <4>1, <4>2
    <3>2. CASE r \notin collected
      BY <2>2, <2>3, <2>5, <3>2
    <3> QED
      BY <3>1, <3>2
  <2>6. (\A i \in 1..Len(file) : LineInv(file[i]))'
    BY <1>1, <2>4 DEF LineInv
  <2> QED
    BY <1>2, <1>3, <1>6, <2>5, <2>6 DEF MonitorInv, FileInv
<1> QED
  BY <1>4, <1>7, <1>8, WrittenEnds

LEMMA SystemKeeps ==
  ASSUME MonitorInv,
         TimePasses \/ ((Transactions \/ Restore) /\ UNCHANGED monitor) \/ Miss \/ GoDown \/ ComeUp
  PROVE  MonitorInv'
<1> USE DEF MonitorInv, ClockInv
<1>1. CASE TimePasses
  <2>1. clock' = clock + 1
    BY <1>1 DEF TimePasses, Stamps, Wait, Reserve, Reinstate, _insert_review_queue_entry,
                add_feedback, create_metric_incident, ReviewQuality, RecordExclusion, Cross, Stamp, Pass
  <2>2. /\ down' = IF up THEN down ELSE down \cup {clock'}
        /\ UNCHANGED <<up, job, taken, file, collected>>
    BY <1>1 DEF TimePasses
  <2>3. ClockInv'
    BY <2>1, <2>2
  <2>4. down' \cap 0..clock \subseteq down
    BY <2>1, <2>2
  <2> QED
    BY <2>1, <2>2, <2>3, <2>4, WatchedKeeps
<1>2. CASE (Transactions \/ Restore) /\ UNCHANGED monitor
  <2>1. clock' = clock
    BY <1>2 DEF Transactions, Restore, Commit, confirm_alert_delivery, abort_alert_reservation
  <2> QED
    BY <1>2, <2>1, WatchedKeeps DEF monitor
<1>3. CASE Miss \/ GoDown \/ ComeUp
  <2>1. UNCHANGED <<clock, job, taken, file, collected>> /\ down' \subseteq down
    BY <1>3 DEF Miss, GoDown, ComeUp, metrics
  <2>2. ClockInv'
    BY <1>3, <2>1 DEF Miss, GoDown, ComeUp
  <2> QED
    BY <2>1, <2>2, WatchedKeeps
<1> QED
  BY <1>1, <1>2, <1>3

LEMMA CollectorKeeps ==
  ASSUME MonitorInv, NEW c \in Collector,
         collect_sample(c) \/ ReadTable(c) \/ ReadRanking(c) \/ ReadLast(c)
  PROVE  MonitorInv'
<1>0. /\ ClockInv /\ JobInv(c) /\ DOMAIN job = Collector /\ taken \in Nat /\ FileInv
  BY DEF MonitorInv, ClockInv
<1>a. DOMAIN job' = Collector /\ \A d \in Collector \ {c} : job'[d] = job[d]
  BY <1>0 DEF collect_sample, ReadTable, ReadRanking, ReadLast
<1>b. ASSUME UNCHANGED <<clock, up, down, file, collected, taken>>, JobInv(c)'
      PROVE  MonitorInv'
  BY <1>0, <1>a, <1>b, JobKeeps
<1>1. CASE collect_sample(c)
  <2> DEFINE sample == [run |-> taken + 1, at |-> clock, slot |-> scheduled_slot, healthy |-> up]
             j == IF up THEN [stage |-> "reading", sample |-> sample, read |-> 0,
                               view |-> [Now EXCEPT !.facts = {}]]
                         ELSE [stage |-> "holding", sample |-> sample]
  <2>1. /\ job' = [job EXCEPT ![c] = j] /\ taken' = taken + 1
        /\ UNCHANGED <<clock, up, down, file, collected>>
    BY <1>1 DEF collect_sample, run
  <2>2. PICK k : k = j
    OBVIOUS
  <2>3. /\ k.sample.run = taken + 1 /\ k.sample.at = clock /\ k.sample.healthy = up
        /\ DOMAIN k.sample = Raw
        /\ up => k.stage = "reading" /\ DOMAIN k = {"stage", "sample", "read", "view"}
        /\ ~up => k.stage = "holding"
    BY <2>2 DEF Raw
  <2> HIDE DEF j
  <2>4. job'[c] = k
    BY <1>0, <2>1, <2>2
  <2>5. Taken(k.sample)'
    BY <1>0, <2>1, <2>3 DEF Taken, ClockInv
  <2>6. JobInv(c)'
    BY <2>1, <2>3, <2>4, <2>5 DEF JobInv, Taken
  <2> QED
    BY <1>0, <1>a, <2>1, <2>6, JobKeeps
<1>2. CASE ReadTable(c) /\ up
  <2>1. job[c].stage = "reading" /\ UNCHANGED <<clock, up, down, file, collected, taken>>
    BY <1>2 DEF ReadTable, metrics
  <2>2. /\ Taken(job[c].sample) /\ job[c].sample.healthy
        /\ DOMAIN job[c] = {"stage", "sample", "read", "view"} /\ DOMAIN job[c].sample = Raw
    BY <1>0, <2>1 DEF JobInv, Idle
  <2> DEFINE j == Further(job[c])
  <2>a. job' = [job EXCEPT ![c] = IF up THEN j ELSE Unhealthy(c)]
    BY <1>2 DEF ReadTable
  <2>b. j.stage = job[c].stage /\ j.sample = job[c].sample /\ DOMAIN j = DOMAIN job[c]
    BY <2>2 DEF Further
  <2> HIDE DEF j
  <2>3. job'[c] = j
    BY <1>0, <1>2, <2>a
  <2>4. /\ job'[c].stage = "reading" /\ job'[c].sample = job[c].sample
        /\ DOMAIN job'[c] = DOMAIN job[c]
    BY <2>1, <2>b, <2>3
  <2>5. JobInv(c)'
    BY <2>1, <2>2, <2>4 DEF JobInv, Taken
  <2> QED
    BY <1>b, <2>1, <2>5
<1>3. CASE (ReadTable(c) \/ ReadRanking(c)) /\ ~up
  <2>1. /\ job[c].stage = "reading" /\ UNCHANGED <<clock, up, down, file, collected, taken>>
        /\ job' = [job EXCEPT ![c] = Unhealthy(c)]
    BY <1>3 DEF ReadTable, ReadRanking, metrics
  <2>2. Taken(job[c].sample) /\ DOMAIN job[c].sample = Raw
    BY <1>0, <2>1 DEF JobInv, Idle
  <2>3. /\ Unhealthy(c).stage = "holding" /\ ~Unhealthy(c).sample.healthy
        /\ Unhealthy(c).sample.run = job[c].sample.run
        /\ Unhealthy(c).sample.at = job[c].sample.at
    BY <2>2 DEF Unhealthy, Raw
  <2>4. job'[c] = Unhealthy(c)
    BY <1>0, <2>1
  <2>5. JobInv(c)'
    BY <2>1, <2>2, <2>3, <2>4 DEF JobInv, Taken
  <2> QED
    BY <1>b, <2>1, <2>5
<1>4. CASE ReadRanking(c) /\ up
  <2> DEFINE s == Answered(job[c].sample, job[c].view)
  <2>1. /\ job[c].stage = "reading" /\ UNCHANGED <<clock, up, down, file, collected, taken>>
        /\ job' = [job EXCEPT ![c] = [stage |-> "holding", sample |-> s]]
    BY <1>4 DEF ReadRanking, metrics
  <2>2. Taken(job[c].sample) /\ job[c].sample.healthy
    BY <1>0, <2>1 DEF JobInv, Idle
  <2>3. s.run = job[c].sample.run /\ s.at = job[c].sample.at /\ s.healthy = TRUE
    BY DEF Answered
  <2> HIDE DEF s
  <2>4. job'[c].stage = "holding" /\ job'[c].sample = s
    BY <1>0, <2>1
  <2>5. JobInv(c)'
    BY <2>1, <2>2, <2>3, <2>4 DEF JobInv, Taken
  <2> QED
    BY <1>b, <2>1, <2>5
<1>5. CASE ReadLast(c)
  <2> DEFINE previous == IF file = <<>> THEN NoLine ELSE LastLine.sample.run
  <2>1. /\ job[c].stage = "holding" /\ UNCHANGED <<clock, up, down, file, collected, taken>>
        /\ \/ job' = [job EXCEPT ![c] = Idle]
           \/ /\ job' = [job EXCEPT ![c] = [stage |-> "chained", sample |-> job[c].sample,
                                           previous |-> previous]]
              /\ ~(file # <<>> /\ (LastLine.torn \/ previous >= job[c].sample.run))
    BY <1>5 DEF ReadLast, metrics
  <2>2. Taken(job[c].sample)
    BY <1>0, <2>1 DEF JobInv, Idle
  <2>3. CASE job' = [job EXCEPT ![c] = Idle]
    <3>1. JobInv(c)'
      BY <1>0, <2>3 DEF JobInv
    <3> QED
      BY <1>b, <2>1, <3>1
  <2>4. CASE /\ job' = [job EXCEPT ![c] = [stage |-> "chained", sample |-> job[c].sample,
                                           previous |-> previous]]
             /\ ~(file # <<>> /\ (LastLine.torn \/ previous >= job[c].sample.run))
    <3>1. previous \in Nat /\ previous < job[c].sample.run
      <4>1. job[c].sample.run \in Nat \ {0}
        BY <1>0, <2>2 DEF Taken
      <4>2. CASE file = <<>>
        BY <4>1, <4>2 DEF NoLine
      <4>3. CASE file # <<>>
        <5>1. Len(file) \in 1..Len(file) /\ LastLine = file[Len(file)]
          BY <1>0, <4>3 DEF FileInv, LastLine, Last
        <5>2. LineInv(file[Len(file)])
          BY <1>0, <5>1 DEF FileInv
        <5>3. previous \in Nat
          BY <1>0, <2>4, <4>3, <5>1, <5>2 DEF LineInv, Taken
        <5> QED
          BY <2>4, <4>1, <4>3, <5>3
      <4> QED
        BY <4>2, <4>3
    <3> HIDE DEF previous
    <3>2. /\ job'[c].stage = "chained" /\ job'[c].sample = job[c].sample
          /\ job'[c].previous = previous
      BY <1>0, <2>4
    <3>3. JobInv(c)'
      BY <2>1, <2>2, <3>1, <3>2 DEF JobInv, Taken
    <3> QED
      BY <1>b, <2>1, <3>3
  <2> QED
    BY <2>1, <2>3, <2>4
<1> QED
  BY <1>1, <1>2, <1>3, <1>4, <1>5 DEF ReadTable, ReadRanking

LEMMA WriterKeeps ==
  ASSUME MonitorInv, NEW c \in Collector, append_sample(c) \/ Die(c)
  PROVE  MonitorInv'
<1>0. JobInv(c) /\ FileInv /\ ClockInv
  BY DEF MonitorInv
<1>1. ASSUME job[c].stage = "chained", NEW ended \in BOOLEAN
      PROVE  /\ LineInv(Line(job[c].sample, job[c].previous, ended))
             /\ Line(job[c].sample, job[c].previous, ended).torn = FALSE
             /\ Line(job[c].sample, job[c].previous, ended).ended = ended
             /\ Line(job[c].sample, job[c].previous, ended).sample = job[c].sample
  BY <1>0, <1>1 DEF JobInv, LineInv, Line, Idle
<1>a. /\ DOMAIN job' = Collector /\ job'[c] = Idle
      /\ \A d \in Collector \ {c} : job'[d] = job[d]
  BY <1>0 DEF append_sample, Die, ClockInv
<1>2. CASE append_sample(c)
  <2> DEFINE line == Line(job[c].sample, job[c].previous, TRUE)
  <2>1. /\ line.torn = FALSE /\ line.ended = TRUE /\ LineInv(line)
        /\ line.sample = job[c].sample
    BY <1>1, <1>2 DEF append_sample
  <2>2. /\ file' = Written(line) /\ collected' = collected \cup {job[c].sample.run}
        /\ UNCHANGED <<clock, up, down, taken>>
    BY <1>2 DEF append_sample, metrics
  <2> HIDE DEF line
  <2>3. line.torn \in BOOLEAN /\ line.ended /\ ~line.torn
        /\ collected' = collected \cup {line.sample.run}
    BY <2>1, <2>2
  <2> QED
    BY <1>a, <2>1, <2>2, <2>3, WriteKeeps
<1>3. CASE Die(c) /\ UNCHANGED file
  <2>1. UNCHANGED <<clock, up, down, file, collected, taken>>
    BY <1>3 DEF Die
  <2>2. JobInv(c)' /\ taken \in Nat
    BY <1>0, <1>a, <2>1 DEF JobInv, ClockInv
  <2> QED
    BY <1>a, <2>1, <2>2, JobKeeps
<1>4. CASE Die(c) /\ job[c].stage = "chained" /\ file' = Written(Torn(FALSE))
  <2> DEFINE line == Torn(FALSE)
  <2>1. line.torn = TRUE /\ LineInv(line)
    BY DEF Torn, LineInv
  <2>2. UNCHANGED <<clock, up, down, taken, collected>> /\ file' = Written(line)
    BY <1>4 DEF Die
  <2> HIDE DEF line
  <2>3. line.torn \in BOOLEAN /\ collected' = collected
    BY <2>1, <2>2
  <2> QED
    BY <1>a, <2>1, <2>2, <2>3, WriteKeeps
<1>5. CASE /\ Die(c) /\ job[c].stage = "chained"
           /\ file' = Written(Line(job[c].sample, job[c].previous, FALSE))
  <2> DEFINE line == Line(job[c].sample, job[c].previous, FALSE)
  <2>1. line.torn = FALSE /\ LineInv(line)
    BY <1>1, <1>5
  <2>2. UNCHANGED <<clock, up, down, taken, collected>> /\ file' = Written(line)
    BY <1>5 DEF Die
  <2> HIDE DEF line
  <2>3. line.torn \in BOOLEAN /\ collected' = collected
    BY <2>1, <2>2
  <2> QED
    BY <1>a, <2>1, <2>2, <2>3, WriteKeeps
<1> QED
  BY <1>2, <1>3, <1>4, <1>5 DEF Die

LEMMA MonitorInvStep == ASSUME MonitorInv, [Next]_vars PROVE MonitorInv'
<1>1. CASE UNCHANGED vars
  BY <1>1, WatchedKeeps DEF vars, metrics, monitor, MonitorInv, ClockInv
<1> QED
  BY <1>1, SystemKeeps, CollectorKeeps, WriterKeeps DEF Next

LEMMA Monitored == Spec => []MonitorInv
<1>1. Init => MonitorInv
  BY MonitorInvInit, MetricsAssumption
<1>2. MonitorInv /\ [Next]_vars => MonitorInv'
  BY MonitorInvStep
<1> QED
  BY <1>1, <1>2, PTL DEF Spec

\* The samples are those of the lines, one by one.
LEMMA SamplesOfLines ==
  ASSUME FileInv
  PROVE  /\ \E S : samples \in Seq(S)
         /\ Len(samples) = Len(file) /\ Len(file) \in Nat
         /\ \A i \in 1..Len(file) : samples[i] = file[i].sample
<1>1. PICK S : file \in Seq(S)
  BY DEF FileInv
<1>2. PICK n \in Nat : n = Len(file)
  BY <1>1
<1> DEFINE T == {file[i].sample : i \in 1..n}
<1>3. samples \in [1..n -> T]
  BY <1>2 DEF samples
<1> HIDE DEF T
<1>4. samples \in Seq(T)
  BY <1>3, SeqDef
<1>5. DOMAIN samples = 1..Len(samples) /\ Len(samples) \in Nat /\ DOMAIN samples = 1..n
  BY <1>3, <1>4, LenProperties
<1>6. Len(samples) = n
  <2>1. PICK m \in Nat : m = Len(samples) /\ 1..m = 1..n
    BY <1>5
  <2>2. (m > 0 => m \in 1..n) /\ (n > 0 => n \in 1..m)
    BY <2>1
  <2> QED
    BY <2>1, <2>2
<1>7. \A i \in 1..n : samples[i] = file[i].sample
  BY <1>2 DEF samples
<1> QED
  BY <1>2, <1>4, <1>6, <1>7

-----------------------------------------------------------------------------
(***************************************************************************)
(* What the archive of the log holds: the facts of a moment are among      *)
(* those of a later one, and of now.                                       *)
(***************************************************************************)
Kept == {log[i] : i \in 1..Len(log)}

LogInv ==
    /\ \E S : log \in Seq(S)
    /\ \A i \in 1..Len(log) : log[i].facts \subseteq facts
    /\ \A i, j \in 1..Len(log) : i <= j => log[i].facts \subseteq log[j].facts

\* A step archives what it commits, or sets the database back.
LEMMA StepArchives ==
  ASSUME [Next]_vars
  PROVE  \/ Restore
         \/ /\ UNCHANGED history /\ facts \subseteq facts'
            /\ log' = log \/ log' = Append(log, Committed')
<1> USE DEF metrics, database, recovery
<1>1. ASSUME NEW x, Stamp(x) PROVE UNCHANGED <<history, facts, log>>
  BY <1>1 DEF Stamp
<1>2. CASE Stamps
  <2>1. CASE Wait
    BY <2>1 DEF Wait
  <2>2. ASSUME NEW k \in Alert, Reserve(k)
        PROVE  UNCHANGED <<history, facts>> /\ log' = Append(log, Committed')
    BY <2>2 DEF Reserve, Archive
  <2>3. ASSUME NEW k \in Alert \cup {None}, add_feedback(k) PROVE \E x : Stamp(x)
    BY <2>3 DEF add_feedback
  <2>4. \/ Wait \/ (\E k \in Alert : Reserve(k)) \/ (\E x : Stamp(x))
    BY <1>2, <2>3 DEF Stamps, Reinstate, _insert_review_queue_entry, create_metric_incident,
                      ReviewQuality, RecordExclusion, Cross
  <2> QED
    BY <1>1, <2>1, <2>2, <2>4
<1>3. CASE Transactions
  <2>1. ASSUME NEW x \in open, Commit(x)
        PROVE  UNCHANGED history /\ facts \subseteq facts' /\ log' = Append(log, Committed')
    BY <2>1 DEF Commit, Archive
  <2>2. ASSUME NEW k \in Alert, confirm_alert_delivery(k) \/ abort_alert_reservation(k)
        PROVE  UNCHANGED <<history, facts>> /\ log' = Append(log, Committed')
    BY <2>2 DEF confirm_alert_delivery, abort_alert_reservation, Archive
  <2> QED
    BY <1>3, <2>1, <2>2 DEF Transactions
<1>4. ASSUME NEW c \in Collector,
             collect_sample(c) \/ ReadTable(c) \/ ReadRanking(c) \/ ReadLast(c)
             \/ append_sample(c) \/ Die(c)
      PROVE  UNCHANGED <<history, facts, log>>
  BY <1>4 DEF collect_sample, ReadTable, ReadRanking, ReadLast, append_sample, Die
<1>5. CASE Miss \/ GoDown \/ ComeUp \/ UNCHANGED vars
  BY <1>5 DEF Miss, GoDown, ComeUp, vars
<1> QED
  BY <1>2, <1>3, <1>4, <1>5 DEF Next, TimePasses

\* What is restored was kept, and what is kept is what was kept or is committed now.
LEMMA LogStep ==
  ASSUME LogInv, [Next]_vars
  PROVE  /\ LogInv'
         /\ \/ /\ Restore /\ Kept' \subseteq Kept /\ facts' \subseteq facts
               /\ forgotten' = forgotten \cup (All("crossing") \ facts')
               /\ \E b \in Kept : alert' = b.alert /\ facts' = b.facts
            \/ UNCHANGED history /\ facts \subseteq facts' /\ Kept' \subseteq Kept \cup {Committed'}
<1>1. PICK S : log \in Seq(S)
  BY DEF LogInv
<1>2. PICK n \in Nat : n = Len(log)
  BY <1>1
<1>3. /\ \A i \in 1..n : log[i].facts \subseteq facts
      /\ \A i, j \in 1..n : i <= j => log[i].facts \subseteq log[j].facts
  BY <1>2 DEF LogInv
<1>4. CASE Restore
  <2>1. PICK i \in 1..n : /\ alert' = log[i].alert /\ facts' = log[i].facts
                          /\ log' = SubSeq(log, 1, i)
                          /\ forgotten' = forgotten \cup (All("crossing") \ log[i].facts)
    BY <1>2, <1>4 DEF Restore
  <2>2. log' \in Seq(S) /\ Len(log') = i /\ \A j \in 1..i : log'[j] = log[j] /\ j \in 1..n
    BY <1>1, <1>2, <2>1
  <2>3. LogInv'
    BY <1>3, <2>1, <2>2 DEF LogInv
  <2>4. Kept' \subseteq Kept /\ log[i] \in Kept
    BY <1>2, <2>2 DEF Kept
  <2> QED
    BY <1>3, <1>4, <2>1, <2>3, <2>4
<1>5. CASE UNCHANGED history /\ facts \subseteq facts' /\ log' = log
  BY <1>5 DEF LogInv, Kept
<1>6. CASE UNCHANGED history /\ facts \subseteq facts' /\ log' = Append(log, Committed')
  <2>1. PICK b : b = Committed'
    OBVIOUS
  <2>2. log \in Seq(S \cup {b}) /\ b \in S \cup {b} /\ log' = Append(log, b)
    BY <1>1, <1>6, <2>1
  <2>3. /\ log' \in Seq(S \cup {b}) /\ Len(log') = n + 1
        /\ \A j \in 1..n : log'[j] = log[j]
        /\ log'[n + 1] = b
    BY <1>2, <2>2
  <2>4. b.facts = facts'
    BY <2>1 DEF Committed
  <2>5. \A j \in 1..(n + 1) : j \in 1..n \/ j = n + 1
    OBVIOUS
  <2>6. \A j \in 1..(n + 1) : log'[j].facts \subseteq facts'
    BY <1>3, <1>6, <2>3, <2>4, <2>5
  <2>7. \A i, j \in 1..(n + 1) : i <= j => log'[i].facts \subseteq log'[j].facts
    <3> SUFFICES ASSUME NEW i \in 1..(n + 1), NEW j \in 1..(n + 1), i <= j
                 PROVE  log'[i].facts \subseteq log'[j].facts
      OBVIOUS
    <3>1. CASE j = n + 1
      BY <2>3, <2>4, <2>6, <3>1
    <3>2. CASE j \in 1..n
      BY <1>3, <2>3, <3>2
    <3> QED
      BY <2>5, <3>1, <3>2
  <2>8. LogInv'
    BY <2>3, <2>6, <2>7 DEF LogInv
  <2>9. Kept' \subseteq Kept \cup {b}
    BY <1>2, <2>3, <2>5 DEF Kept
  <2> QED
    BY <1>6, <2>1, <2>8, <2>9
<1> QED
  BY <1>4, <1>5, <1>6, StepArchives

LEMMA RestoreArchivesNone == ASSUME LogInv, Restore PROVE Kept' \subseteq Kept
<1>1. PICK S : log \in Seq(S)
  BY DEF LogInv
<1>2. PICK i \in 1..Len(log) : log' = SubSeq(log, 1, i)
  BY DEF Restore
<1>3. Len(log') = i /\ \A j \in 1..i : log'[j] = log[j] /\ j \in 1..Len(log)
  BY <1>1, <1>2
<1> QED
  BY <1>3 DEF Kept

-----------------------------------------------------------------------------
(***************************************************************************)
(* The invariant behind PassedMeansRemembered.  A crossing is dated by a   *)
(* moment that has come, and no two are of one moment, so that one that    *)
(* was forgotten never comes back: no sample lists one that was forgotten  *)
(* before it was taken.  A file that passes lists it to the end.           *)
(***************************************************************************)
Held == {job[c].sample : c \in {d \in Collector : job[d].stage \in {"holding", "chained"}}}
InFile == {file[i].sample : i \in {k \in 1..Len(file) : ~file[k].torn}}
Sampled == Held \cup InFile

Listed(s) == s.rankingLedger.leadCrossings
Remembers(s) == s.healthy => Listed(s) \cap s.forgotten = {}

DatedInv ==
    /\ clock \in Int
    /\ \A x \in facts \cup open \cup forgotten : x.at \in Int /\ x.at <= clock
    /\ forgotten \cap (facts \cup open) = {}
RememberInv ==
    /\ LogInv /\ DatedInv
    /\ \A s \in Sampled : Remembers(s)

LEMMA RememberInvInit == ASSUME MetricsAssumption, Init PROVE RememberInv
<1>1. Held = {}
  BY DEF Init, MonitorInit, Held, Idle
<1>2. InFile = {}
  <2>1. file = <<>>
    BY DEF Init, MonitorInit
  <2>2. 1..Len(file) = {}
    BY <2>1
  <2> QED
    BY <2>2 DEF InFile
<1>3. DatedInv
  BY DEF Init, MetricsInit, MetricsAssumption, DatedInv, BeforeOpening, Entry, Crossing
<1>4. LogInv
  <2>1. log = <<BeforeOpening, Committed>>
    BY DEF Init, MetricsInit
  <2>2. BeforeOpening.facts \subseteq facts /\ Committed.facts = facts
    BY DEF Init, MetricsInit, Committed
  <2>3. PICK a, b : a = BeforeOpening /\ b = Committed
    OBVIOUS
  <2>4. log = <<a, b>> /\ a.facts \subseteq facts /\ b.facts = facts
    BY <2>1, <2>2, <2>3
  <2>5. log \in Seq({a, b}) /\ Len(log) = 2 /\ log[1] = a /\ log[2] = b
    BY <2>4
  <2>6. \A i \in 1..2 : i = 1 \/ i = 2
    OBVIOUS
  <2>7. \A i \in 1..2 : log[i].facts \subseteq facts
    BY <2>4, <2>5, <2>6
  <2>8. ASSUME NEW i \in 1..2, NEW j \in 1..2, i <= j
        PROVE  log[i].facts \subseteq log[j].facts
    <3>1. i = j \/ j = 2
      BY <2>6, <2>8
    <3> QED
      BY <2>4, <2>5, <2>7, <2>8, <3>1
  <2> QED
    BY <2>5, <2>7, <2>8 DEF LogInv
<1> QED
  BY <1>1, <1>2, <1>3, <1>4 DEF RememberInv, Sampled

\* Steps that add a sample of what the database holds by now, or of an endpoint that
\* did not answer.
LEMMA SampleKeeps ==
  ASSUME RememberInv, UNCHANGED <<clock, facts, open, recovery>>,
         NEW t, Sampled' \subseteq Sampled \cup {t},
         t.healthy => Listed(t) = All("crossing") /\ t.forgotten = forgotten
  PROVE  RememberInv'
<1>1. Remembers(t)
  BY DEF Remembers, RememberInv, DatedInv, All
<1>2. \A s \in Sampled' : Remembers(s)
  BY <1>1 DEF RememberInv
<1>3. (\A s \in Sampled : Remembers(s))'
  BY <1>2 DEF Remembers
<1>4. LogInv' /\ DatedInv'
  BY DEF RememberInv, LogInv, DatedInv, recovery, history
<1> QED
  BY <1>3, <1>4 DEF RememberInv

\* Steps of the database: nothing that was forgotten comes back.
LEMMA DatabaseKeeps ==
  ASSUME RememberInv, UNCHANGED <<job, file>>, LogInv', DatedInv'
  PROVE  RememberInv'
<1>1. Sampled' = Sampled
  BY DEF Sampled, Held, InFile
<1>2. (\A s \in Sampled : Remembers(s))'
  BY <1>1 DEF RememberInv, Remembers
<1> QED
  BY <1>2 DEF RememberInv

LEMMA SystemRemembers ==
  ASSUME MetricsAssumption, RememberInv,
         TimePasses \/ ((Transactions \/ Restore) /\ UNCHANGED monitor) \/ Miss \/ GoDown \/ ComeUp
  PROVE  RememberInv'
<1>0. DatedInv /\ LogInv /\ LogInv'
  BY LogStep DEF RememberInv, Next
<1>1. CASE TimePasses
  <2>1. clock' = clock + 1 /\ forgotten' = forgotten /\ UNCHANGED <<job, file>>
    BY <1>1 DEF recovery, history, Archive, TimePasses, Stamps, Wait, Reserve, Reinstate, _insert_review_queue_entry,
                add_feedback, create_metric_incident, ReviewQuality, RecordExclusion, Cross, Stamp, Pass
  <2>2. facts' = facts /\ (open' = open \/ \E x : x.at = clock + 1 /\ open' = open \cup {x})
    <3>1. CASE Wait \/ \E k \in Alert : Reserve(k)
      BY <3>1 DEF Wait, Reserve, database
    <3>2. ASSUME NEW x, Stamp(x), x.at = clock + 1 PROVE <2>2
      BY <3>2 DEF Stamp
    <3>3. CASE \E k \in Alert : Reinstate(k)
      BY <3>2, <3>3 DEF Reinstate, Reinstatement
    <3>4. CASE _insert_review_queue_entry
      BY <3>2, <3>4 DEF _insert_review_queue_entry, Entry
    <3>5. CASE \E k \in Alert \cup {None} : add_feedback(k)
      <4>1. PICK k, e : Stamp(Decision(clock + 1, e, k))
        BY <3>5 DEF add_feedback
      <4> QED
        BY <3>2, <4>1 DEF Decision
    <3>6. CASE \E target, canonical \in Alert : create_metric_incident(target, canonical)
      BY <3>2, <3>6 DEF create_metric_incident, Incident
    <3>7. CASE RecordExclusion
      BY <3>2, <3>7 DEF RecordExclusion, Exclusion
    <3>9. CASE \E k \in Reviewed, reviewer \in Reviewer : ReviewQuality(k, reviewer)
      <4>1. PICK k, reviewer, verdict : Stamp(Review(clock + 1, k, reviewer, verdict))
        BY <3>9 DEF ReviewQuality
      <4> QED
        BY <3>2, <4>1 DEF Review
    <3>8. CASE Cross
      BY <3>2, <3>8 DEF Cross, Crossing
    <3> QED
      BY <1>1, <3>1, <3>3, <3>4, <3>5, <3>6, <3>7, <3>8, <3>9 DEF TimePasses, Stamps
  <2>3. \A x \in facts' \cup open' : x \in facts \cup open \/ x.at = clock + 1
    BY <2>2
  <2>4. DatedInv'
    BY <1>0, <2>1, <2>3 DEF DatedInv
  <2> QED
    BY <1>0, <2>1, <2>4, DatabaseKeeps
<1>2. CASE Transactions /\ UNCHANGED monitor
  <2>1. UNCHANGED <<clock, forgotten, job, file>> /\ facts' \cup open' = facts \cup open
    BY <1>2 DEF Transactions, Commit, confirm_alert_delivery, abort_alert_reservation, monitor,
                Archive, history
  <2>2. DatedInv'
    BY <1>0, <2>1 DEF DatedInv
  <2> QED
    BY <1>0, <2>1, <2>2, DatabaseKeeps
<1>3. CASE Restore /\ UNCHANGED monitor
  <2>1. UNCHANGED <<clock, job, file>> /\ open' = {} /\ restored' = restored + 1
    BY <1>3 DEF Restore, monitor
  <2>2. PICK i \in 1..Len(log) : /\ facts' = log[i].facts
                                 /\ forgotten' = forgotten \cup (All("crossing") \ log[i].facts)
    BY <1>3 DEF Restore
  <2>3. facts' \subseteq facts
    BY <1>0, <2>2 DEF LogInv
  <2>4. DatedInv'
    BY <1>0, <2>1, <2>2, <2>3 DEF DatedInv, All
  <2> QED
    BY <1>0, <2>1, <2>4, DatabaseKeeps
<1>4. CASE Miss \/ GoDown \/ ComeUp
  <2>1. UNCHANGED <<clock, facts, open, forgotten, job, file>>
    BY <1>4 DEF Miss, GoDown, ComeUp, metrics, database, recovery, history
  <2>2. DatedInv'
    BY <1>0, <2>1 DEF DatedInv
  <2> QED
    BY <1>0, <2>1, <2>2, DatabaseKeeps
<1> QED
  BY <1>1, <1>2, <1>3, <1>4

\* Whatever a collector writes, every line that can be read was there or is its sample.
LEMMA LinesFromJob ==
  ASSUME FileInv, NEW line, file' = Written(line)
  PROVE  InFile' \subseteq InFile \cup (IF line.torn THEN {} ELSE {line.sample})
<1> SUFFICES ASSUME NEW k \in 1..Len(file'), ~file'[k].torn
             PROVE  \/ ~line.torn /\ file'[k].sample = line.sample
                    \/ file'[k].sample \in InFile
  BY DEF InFile
<1>1. PICK S : file \in Seq(S)
  BY DEF FileInv
<1>2. PICK n \in Nat : n = Len(file)
  BY <1>1
<1>3. CASE /\ Len(file') = n + 1
           /\ \A i \in 1..n : file'[i] = file[i]
           /\ file'[n + 1] = line
  <2>1. k \in 1..n \/ k = n + 1
    BY <1>3
  <2>2. CASE k \in 1..n
    BY <1>2, <1>3, <2>2 DEF InFile
  <2>3. CASE k = n + 1
    BY <1>3, <2>3
  <2> QED
    BY <2>1, <2>2, <2>3
<1>4. CASE /\ Len(file') = n
           /\ \A i \in 1..(n - 1) : file'[i] = file[i]
           /\ file'[n] = Torn(line.ended)
  <2>1. k \in 1..(n - 1) \/ k = n
    BY <1>4
  <2>2. CASE k \in 1..(n - 1)
    BY <1>2, <1>4, <2>2 DEF InFile
  <2>3. CASE k = n
    BY <1>4, <2>3 DEF Torn
  <2> QED
    BY <2>1, <2>2, <2>3
<1> QED
  BY <1>1, <1>2, <1>3, <1>4, WrittenEnds

\* A writer adds no sample that its job does not hold.
LEMMA WriterAddsNone ==
  ASSUME MonitorInv, NEW c \in Collector, append_sample(c) \/ Die(c)
  PROVE  /\ Held' \subseteq Held /\ InFile' \subseteq Sampled
         /\ job' = [job EXCEPT ![c] = Idle] /\ DOMAIN job = Collector
<1>0. DOMAIN job = Collector /\ FileInv
  BY DEF MonitorInv, ClockInv
<1>1. job' = [job EXCEPT ![c] = Idle]
  BY DEF append_sample, Die
<1>2. Held' \subseteq Held
  <2>2. job'[c] = Idle /\ \A d \in Collector \ {c} : job'[d] = job[d]
    BY <1>0, <1>1
  <2>3. job'[c].stage = "idle"
    BY <2>2 DEF Idle
  <2> QED
    BY <2>2, <2>3 DEF Held
<1>3. InFile' \subseteq Sampled
  <2>1. CASE UNCHANGED file
    BY <2>1 DEF InFile, Sampled
  <2>2. CASE job[c].stage = "chained" /\ file' = Written(Torn(FALSE))
    <3> DEFINE line == Torn(FALSE)
    <3>1. line.torn
      BY DEF Torn
    <3> HIDE DEF line
    <3> QED
      BY <1>0, <2>2, <3>1, LinesFromJob DEF Sampled, line
  <2>3. ASSUME NEW ended, job[c].stage = "chained",
               file' = Written(Line(job[c].sample, job[c].previous, ended))
        PROVE  InFile' \subseteq Sampled
    <3> DEFINE line == Line(job[c].sample, job[c].previous, ended)
    <3>1. ~line.torn /\ line.sample = job[c].sample
      BY DEF Line
    <3>2. job[c].sample \in Sampled
      BY <2>3 DEF Sampled, Held
    <3>3. file' = Written(line)
      BY <2>3
    <3> HIDE DEF line
    <3> QED
      BY <1>0, <3>1, <3>2, <3>3, LinesFromJob DEF Sampled
  <2> QED
    BY <2>1, <2>2, <2>3 DEF append_sample, Die
<1> QED
  BY <1>0, <1>1, <1>2, <1>3


Alike(s, t) == t.run = s.run /\ t.at = s.at /\ t.slot = s.slot
SlotOf(at) == at - (at % Cadence)

\* A collector begins a sample; an endpoint does not answer it; it reads a table more;
\* it has read all; or it gives up, or keeps its sample.
Begins(c) ==
    /\ taken' = taken + 1 /\ job[c] = Idle
    /\ job'[c].sample.run = taken + 1 /\ job'[c].sample.at = clock
    /\ job'[c].sample.slot = SlotOf(clock)
    /\ \/ job'[c].stage = "holding" /\ ~job'[c].sample.healthy
       \/ job'[c].stage = "reading" /\ job'[c].read = 0 /\ job'[c].view = [Now EXCEPT !.facts = {}]
Refused(c) ==
    /\ taken' = taken /\ job[c].stage = "reading" /\ job'[c].stage = "holding"
    /\ Alike(job[c].sample, job'[c].sample) /\ ~job'[c].sample.healthy
Reads(c) ==
    /\ taken' = taken /\ job[c].stage = "reading" /\ job[c].read < Len(Tables)
    /\ job'[c] = Further(job[c])
Answers(c) ==
    /\ taken' = taken /\ job[c].stage = "reading" /\ job[c].read = Len(Tables)
    /\ job'[c] = [stage |-> "holding", sample |-> Answered(job[c].sample, job[c].view)]
Passes(c) ==
    /\ taken' = taken /\ job[c].stage = "holding"
    /\ \/ job'[c] = Idle
       \/ job'[c].stage = "chained" /\ job'[c].sample = job[c].sample

LEMMA CollectorStep ==
  ASSUME MonitorInv, NEW c \in Collector,
         collect_sample(c) \/ ReadTable(c) \/ ReadRanking(c) \/ ReadLast(c)
  PROVE  /\ UNCHANGED <<clock, alert, facts, open, recovery, file>> /\ InFile' = InFile
         /\ DOMAIN job' = Collector /\ \A d \in Collector \ {c} : job'[d] = job[d]
         /\ Begins(c) \/ Refused(c) \/ Reads(c) \/ Answers(c) \/ Passes(c)
<1>0. DOMAIN job = Collector /\ JobInv(c)
  BY DEF MonitorInv, ClockInv
<1>1. UNCHANGED <<clock, alert, facts, open, recovery, file>>
  BY DEF collect_sample, run, ReadTable, ReadRanking, ReadLast, metrics, database
<1>2. InFile' = InFile
  BY <1>1 DEF InFile
<1>3. DOMAIN job' = Collector /\ \A d \in Collector \ {c} : job'[d] = job[d]
  BY <1>0 DEF collect_sample, ReadTable, ReadRanking, ReadLast
<1>5. CASE collect_sample(c)
  <2> DEFINE sample == [run |-> taken + 1, at |-> clock, slot |-> scheduled_slot, healthy |-> up]
             view == [Now EXCEPT !.facts = {}]
             j == IF up THEN [stage |-> "reading", sample |-> sample, read |-> 0, view |-> view]
                         ELSE [stage |-> "holding", sample |-> sample]
  <2>1. job' = [job EXCEPT ![c] = j] /\ taken' = taken + 1 /\ job[c] = Idle
    BY <1>5 DEF collect_sample, run
  <2>2. /\ sample.run = taken + 1 /\ sample.at = clock /\ sample.slot = SlotOf(clock)
        /\ sample.healthy = up
    BY DEF SlotOf, scheduled_slot
  <2>3. /\ j.sample = sample
        /\ up => j.stage = "reading" /\ j.read = 0 /\ j.view = view
        /\ ~up => j.stage = "holding"
    OBVIOUS
  <2> HIDE DEF j, sample
  <2>4. job'[c] = j
    BY <1>0, <2>1
  <2>5. Begins(c)
    BY <2>1, <2>2, <2>3, <2>4 DEF Begins
  <2> QED
    BY <1>1, <1>2, <1>3, <2>5
<1>6. CASE (ReadTable(c) \/ ReadRanking(c)) /\ ~up
  <2> DEFINE t == [job[c].sample EXCEPT !.healthy = FALSE]
  <2>1. job[c].stage = "reading" /\ job' = [job EXCEPT ![c] = Unhealthy(c)] /\ taken' = taken
    BY <1>6 DEF ReadTable, ReadRanking
  <2>2. DOMAIN job[c].sample = Raw
    BY <1>0, <2>1 DEF JobInv, Idle
  <2>3. ~t.healthy /\ Alike(job[c].sample, t)
    BY <2>2 DEF Raw, Alike
  <2>4. Unhealthy(c).sample = t /\ Unhealthy(c).stage = "holding"
    BY DEF Unhealthy
  <2>5. job'[c] = Unhealthy(c)
    BY <1>0, <2>1
  <2> HIDE DEF t
  <2>6. Refused(c)
    BY <2>1, <2>3, <2>4, <2>5 DEF Refused
  <2> QED
    BY <1>1, <1>2, <1>3, <2>6
<1>7. CASE ReadTable(c) /\ up
  <2>1. Reads(c)
    BY <1>0, <1>7 DEF ReadTable, Reads
  <2> QED
    BY <1>1, <1>2, <1>3, <2>1
<1>8. CASE ReadRanking(c) /\ up
  <2>1. Answers(c)
    BY <1>0, <1>8 DEF ReadRanking, Answers
  <2> QED
    BY <1>1, <1>2, <1>3, <2>1
<1>9. CASE ReadLast(c)
  <2> DEFINE previous == IF file = <<>> THEN NoLine ELSE LastLine.sample.run
             j == [stage |-> "chained", sample |-> job[c].sample, previous |-> previous]
  <2>1. /\ job[c].stage = "holding" /\ taken' = taken
        /\ job' = [job EXCEPT ![c] = Idle] \/ job' = [job EXCEPT ![c] = j]
    BY <1>9 DEF ReadLast
  <2>2. j.stage = "chained" /\ j.sample = job[c].sample
    OBVIOUS
  <2> HIDE DEF j
  <2>3. job'[c] = Idle \/ job'[c] = j
    BY <1>0, <2>1
  <2>4. Passes(c)
    BY <2>1, <2>2, <2>3 DEF Passes
  <2> QED
    BY <1>1, <1>2, <1>3, <2>4
<1> QED
  BY <1>5, <1>6, <1>7, <1>8, <1>9 DEF ReadTable, ReadRanking

LEMMA CollectorRemembers ==
  ASSUME MonitorInv, RememberInv, NEW c \in Collector,
         collect_sample(c) \/ ReadTable(c) \/ ReadRanking(c) \/ ReadLast(c)
  PROVE  RememberInv'
<1>1. /\ UNCHANGED <<clock, alert, facts, open, recovery, file>> /\ InFile' = InFile
      /\ \A d \in Collector \ {c} : job'[d] = job[d]
      /\ Begins(c) \/ Refused(c) \/ Reads(c) \/ Answers(c) \/ Passes(c)
  BY CollectorStep
<1>2. ASSUME NEW t, t.healthy => Listed(t) = All("crossing") /\ t.forgotten = forgotten,
             \/ job'[c].stage \notin {"holding", "chained"}
             \/ job'[c].sample = t \/ job'[c].sample \in Sampled
      PROVE  RememberInv'
  <2>1. Sampled' \subseteq Sampled \cup {t}
    BY <1>1, <1>2 DEF Sampled, Held
  <2> QED
    BY <1>1, <1>2, <2>1, SampleKeeps
<1>3. ASSUME \/ job'[c].stage \notin {"holding", "chained"}
             \/ ~job'[c].sample.healthy \/ job'[c].sample \in Sampled
      PROVE  RememberInv'
  <2>1. PICK t : t = [healthy |-> FALSE]
    OBVIOUS
  <2>2. ~t.healthy
    BY <2>1
  <2> QED
    BY <1>2, <1>3, <2>2
<1>4. CASE Begins(c)
  BY <1>3, <1>4 DEF Begins
<1>5. CASE Refused(c)
  BY <1>3, <1>5 DEF Refused
<1>6. CASE Reads(c)
  <2>1. job[c].stage = "reading" /\ DOMAIN job[c] = {"stage", "sample", "read", "view"}
    BY <1>6 DEF Reads, MonitorInv, JobInv, Idle
  <2>2. job'[c].stage = "reading"
    BY <1>6, <2>1 DEF Reads, Further
  <2> QED
    BY <1>3, <2>2
<1>7. CASE Answers(c)
  <2>1. PICK t : t = Answered(job[c].sample, job[c].view)
    OBVIOUS
  <2>2. Listed(t) = All("crossing") /\ t.forgotten = forgotten
    BY <2>1 DEF Answered, Listed, ranking_ledger
  <2>3. job'[c].sample = t
    BY <1>7, <2>1 DEF Answers
  <2> QED
    BY <1>2, <2>2, <2>3
<1>8. CASE Passes(c)
  <2>1. job[c].sample \in Sampled
    BY <1>8 DEF Passes, Sampled, Held
  <2> QED
    BY <1>3, <1>8, <2>1 DEF Passes, Idle
<1> QED
  BY <1>1, <1>4, <1>5, <1>6, <1>7, <1>8

LEMMA WriterRemembers ==
  ASSUME MonitorInv, RememberInv, NEW c \in Collector, append_sample(c) \/ Die(c)
  PROVE  RememberInv'
<1>1. UNCHANGED <<clock, facts, open, recovery>>
  BY DEF append_sample, Die, metrics, database
<1>2. PICK t : t = [healthy |-> FALSE]
  OBVIOUS
<1>3. ~t.healthy /\ Sampled' \subseteq Sampled \cup {t}
  BY <1>2, WriterAddsNone DEF Sampled
<1> QED
  BY <1>1, <1>3, SampleKeeps

LEMMA RememberInvStep ==
  ASSUME MetricsAssumption, MonitorInv, RememberInv, [Next]_vars PROVE RememberInv'
<1>1. CASE UNCHANGED vars
  <2>1. UNCHANGED <<clock, facts, open, recovery, job, file>>
    BY <1>1 DEF vars, metrics, monitor, database
  <2>2. LogInv' /\ DatedInv'
    BY <2>1 DEF RememberInv, LogInv, DatedInv, recovery, history
  <2> QED
    BY <2>1, <2>2, DatabaseKeeps
<1> QED
  BY <1>1, SystemRemembers, CollectorRemembers, WriterRemembers DEF Next

LEMMA Remembered == Spec => []RememberInv
<1>1. Init => RememberInv
  BY RememberInvInit, MetricsAssumption
<1>2. MonitorInv /\ RememberInv /\ [Next]_vars => RememberInv'
  BY RememberInvStep, MetricsAssumption
<1> QED
  BY <1>1, <1>2, Monitored, PTL DEF Spec

-----------------------------------------------------------------------------
LEMMA LoadedIsComplete == ASSUME MonitorInv PROVE LoadableIsComplete
<1> SUFFICES ASSUME Loadable
             PROVE  /\ collected \subseteq {samples[i].run : i \in 1..Len(samples)}
                    /\ time_integrity_ok(samples)
  BY DEF LoadableIsComplete
<1>1. FileInv
  BY DEF MonitorInv
<1>2. /\ Len(samples) = Len(file) /\ Len(file) \in Nat
      /\ \A i \in 1..Len(file) : samples[i] = file[i].sample
  BY <1>1, SamplesOfLines
<1>3. \A i \in 1..Len(file) : ~file[i].torn
  BY DEF Loadable
<1>4. ASSUME NEW r \in collected PROVE r \in {samples[i].run : i \in 1..Len(samples)}
  BY <1>1, <1>2, <1>3 DEF FileInv
<1>5. ASSUME NEW i \in 1..(Len(samples) - 1) PROVE samples[i].run < samples[i + 1].run
  <2>1. i \in 1..Len(file) /\ i + 1 \in 1..Len(file) /\ i + 1 # 1 /\ (i + 1) - 1 = i
    BY <1>2
  <2>2. file[i + 1].previous = file[i].sample.run
    BY <2>1 DEF Loadable, Chained
  <2>3. file[i + 1].previous < file[i + 1].sample.run
    BY <1>1, <1>3, <2>1 DEF FileInv, LineInv
  <2> QED
    BY <1>2, <2>1, <2>2, <2>3
<1> QED
  BY <1>4, <1>5 DEF time_integrity_ok

LEMMA PassingWasUp ==
  ASSUME MonitorAssumption, MonitorInv PROVE PassedMeansUp
<1> SUFFICES ASSUME Passed, NEW from \in Head(samples).at..Last(samples).at,
                    NEW to \in Head(samples).at..Last(samples).at,
                    to - from > MaxGap * Cadence
             PROVE  ~((from + 1)..(to - 1) \subseteq down)
  BY DEF PassedMeansUp
<1>1. FileInv
  BY DEF MonitorInv
<1>2. /\ Len(samples) = Len(file) /\ Len(file) \in Nat
      /\ \A i \in 1..Len(file) : samples[i] = file[i].sample
  BY <1>1, SamplesOfLines
<1>3. PICK n \in Nat : n = Len(file)
  BY <1>2
<1>4. samples # <<>> /\ cadence_ok(samples) /\ runtime_attestation_ok(samples)
  BY DEF Passed, acceptance_eligible
<1>5. ASSUME NEW i \in 1..n PROVE samples[i].at \in Nat /\ samples[i].at \notin down
  <2>1. Taken(file[i].sample)
    BY <1>1, <1>3 DEF FileInv, LineInv, Passed, Loadable
  <2>2. samples[i].healthy
    BY <1>2, <1>3, <1>4 DEF runtime_attestation_ok
  <2> QED
    BY <1>2, <1>3, <2>1, <2>2 DEF Taken, MonitorInv, ClockInv
<1>6. n > 0 /\ Head(samples) = samples[1] /\ Last(samples) = samples[n]
  <2>1. PICK S : samples \in Seq(S)
    BY <1>1, SamplesOfLines
  <2>2. n > 0 /\ Last(samples) = samples[n]
    BY <1>2, <1>3, <1>4, <2>1 DEF Last
  <2>3. Head(samples) = samples[1]
    BY <1>4, <2>1, HeadTailProperties
  <2> QED
    BY <2>2, <2>3
<1> DEFINE at == [i \in 1..n |-> samples[i].at]
<1>7. PICK g \in Nat : g = MaxGap * Cadence
  BY DEF MonitorAssumption
<1>8. /\ \A i \in 1..n : at[i] \in Nat /\ at[i] \notin down /\ at[i] = samples[i].at
      /\ at[1] <= from /\ from < at[n] /\ to <= at[n] /\ from \in Int /\ to \in Int
  BY <1>5, <1>6, <1>7
<1>9. \A i \in 2..n : at[i] - at[i - 1] <= g
  <2> SUFFICES ASSUME NEW i \in 2..n PROVE at[i] - at[i - 1] <= g
    OBVIOUS
  <2>1. i - 1 \in 1..(Len(samples) - 1) /\ (i - 1) + 1 = i
    BY <1>2, <1>3
  <2>2. samples[(i - 1) + 1].at - samples[i - 1].at \in Gaps(samples)
    BY <2>1 DEF Gaps
  <2>3. samples[i].at - samples[i - 1].at <= g
    BY <1>4, <1>7, <2>1, <2>2 DEF cadence_ok
  <2> QED
    BY <1>8, <2>1, <2>3
<1> HIDE DEF at
<1>10. PICK i \in 2..n : at[i - 1] <= from /\ from < at[i]
  BY <1>6, <1>8, FirstAbove
<1>11. i - 1 \in 1..n /\ i \in 1..n
  OBVIOUS
<1>12. at[i] \in (from + 1)..(to - 1) /\ at[i] \notin down
  BY <1>7, <1>8, <1>9, <1>10, <1>11
<1> QED
  BY <1>12

LEMMA PassingRemembers ==
  ASSUME MonitorInv, RememberInv PROVE PassedMeansRemembered
<1> SUFFICES ASSUME Passed, NEW i \in 1..Len(samples), NEW j \in 1..Len(samples), i < j,
                    NEW x \in Listed(samples[i])
             PROVE  x \notin samples[j].forgotten
  BY DEF PassedMeansRemembered, Listed
<1>1. /\ Len(samples) = Len(file) /\ Len(file) \in Nat
      /\ \A k \in 1..Len(file) : samples[k] = file[k].sample
  BY SamplesOfLines DEF MonitorInv
<1>2. PICK n \in Nat : n = Len(samples)
  BY <1>1
<1> DEFINE P == {k \in 1..n : x \in Listed(samples[k])}
<1>4. \A k \in 1..(n - 1) : k \in P => k + 1 \in P
  BY <1>2 DEF Passed, score_ledger_ok, crossing_continuity_ok, Listed
<1>5. i \in P
  BY <1>2
<1>6. j \in P
  <2> HIDE DEF P
  <2> QED
    BY <1>2, <1>4, <1>5, HandedOn
<1>7. samples[j].healthy
  BY DEF Passed, score_ledger_ok, validated
<1>8. samples[j] \in Sampled
  BY <1>1 DEF Passed, Loadable, Sampled, InFile
<1> QED
  BY <1>6, <1>7, <1>8 DEF RememberInv, Remembers

\* A file that loads holds every sample that was reported written, each once and in order.
THEOREM LoadedFileIsComplete == Spec => []LoadableIsComplete
<1>1. MonitorInv => LoadableIsComplete
  BY LoadedIsComplete
<1> QED
  BY <1>1, Monitored, PTL

\* In the span of what passes, the API was never down for longer than the greatest gap allowed.
THEOREM PassingSystemWasUp == Spec => []PassedMeansUp
<1>1. MonitorInv => PassedMeansUp
  BY PassingWasUp, MonitorAssumption
<1> QED
  BY <1>1, Monitored, PTL

\* In what passes, no sample was taken of a database that a crossing which an earlier
\* sample lists had gone from, whatever moments it was set back to.
THEOREM PassingSystemRemembers == Spec => []PassedMeansRemembered
<1>1. MonitorInv /\ RememberInv => PassedMeansRemembered
  BY PassingRemembers
<1> QED
  BY <1>1, Monitored, Remembered, PTL

-----------------------------------------------------------------------------
(***************************************************************************)
(* Duty time.                                                              *)
(***************************************************************************)
OnDuty(from, to) == {t \in Duty : from <= t /\ t < to}

LEMMA InDuty ==
  ASSUME MetricsAssumption, NEW from, NEW to
  PROVE  \A t : t \in OnDuty(from, to) <=> t \in Duty /\ t \in Nat /\ from <= t /\ t < to
<1>1. \A t \in Duty : t \in Nat
  BY DEF MetricsAssumption
<1> QED
  BY <1>1 DEF OnDuty

LEMMA DutyFinite ==
  ASSUME MetricsAssumption, NEW from \in Nat, NEW to \in Nat
  PROVE  /\ IsFiniteSet(OnDuty(from, to)) /\ Cardinality(OnDuty(from, to)) \in Nat
         /\ duty_seconds_between(from, to) = Cardinality(OnDuty(from, to))
<1>1. IsFiniteSet(from..to)
  BY FS_Interval
<1>2. OnDuty(from, to) \subseteq from..to
  BY InDuty
<1>3. IsFiniteSet(OnDuty(from, to))
  BY <1>1, <1>2, FS_Subset
<1> QED
  BY <1>3, FS_CardinalityType DEF duty_seconds_between, OnDuty

LEMMA DutyGrows ==
  ASSUME MetricsAssumption, NEW from \in Nat, NEW to \in Nat, NEW later \in Nat, to <= later
  PROVE  /\ duty_seconds_between(from, to) \in Nat /\ duty_seconds_between(from, later) \in Nat
         /\ duty_seconds_between(from, to) <= duty_seconds_between(from, later)
<1>1. OnDuty(from, to) \subseteq OnDuty(from, later)
  BY InDuty
<1>2. Cardinality(OnDuty(from, to)) <= Cardinality(OnDuty(from, later))
  BY <1>1, DutyFinite, FS_Subset
<1> QED
  BY <1>2, DutyFinite

\* No more of it passes than time does.
LEMMA DutyIsTime ==
  ASSUME MetricsAssumption, NEW from \in Nat, NEW to \in Nat, NEW later \in Nat,
         NEW d \in Nat, later <= to + d
  PROVE  duty_seconds_between(from, later) <= duty_seconds_between(from, to) + d
<1> DEFINE A == OnDuty(from, to)
           B == to..(to + d - 1)
<1>1. IsFiniteSet(A) /\ Cardinality(A) \in Nat /\ duty_seconds_between(from, to) = Cardinality(A)
  BY DutyFinite
<1>2. IsFiniteSet(B) /\ Cardinality(B) = d
  <2>1. PICK b \in Int : b = to + d - 1
    OBVIOUS
  <2>2. /\ IsFiniteSet(to..b)
        /\ Cardinality(to..b) = IF to > b THEN 0 ELSE b - to + 1
    BY FS_Interval
  <2> QED
    BY <2>1, <2>2
<1>3. OnDuty(from, later) \subseteq A \cup B
  BY InDuty
<1> HIDE DEF A, B
<1>4. /\ IsFiniteSet(A \cup B)
      /\ Cardinality(A \cup B) = Cardinality(A) + Cardinality(B) - Cardinality(A \cap B)
  BY <1>1, <1>2, FS_Union
<1>5. IsFiniteSet(A \cap B) /\ Cardinality(A \cap B) \in Nat
  <2>1. IsFiniteSet(A \cap B)
    BY <1>1, FS_Subset
  <2> QED
    BY <2>1, FS_CardinalityType
<1>6. Cardinality(OnDuty(from, later)) <= Cardinality(A \cup B)
  BY <1>3, <1>4, FS_Subset
<1>7. duty_seconds_between(from, later) = Cardinality(OnDuty(from, later))
      /\ Cardinality(OnDuty(from, later)) \in Nat
  BY DutyFinite
<1> QED
  BY <1>1, <1>2, <1>4, <1>5, <1>6, <1>7

-----------------------------------------------------------------------------
(***************************************************************************)
(* A view v and a later one w: deliveries stay, facts are added, and what  *)
(* becomes visible late was stamped not long ago.  What counts in v counts *)
(* in w, save alerts that an exclusion was open of when the event was      *)
(* decided on.                                                             *)
(***************************************************************************)
Later(v, w) ==
    /\ v.at \in Nat /\ w.at \in Nat /\ v.at <= w.at /\ v.facts \subseteq w.facts
    /\ \A k \in DeliveredIn(v) : w.alert[k] = v.alert[k] /\ v.alert[k].at \in Nat
    /\ \A x \in w.facts : x.at \in Nat

Onward(v, w, except) ==
    /\ Later(v, w)
    /\ \A x \in Rows(v, "decision") : x.alert \in Alert => v.alert[x.alert].at < x.at
    /\ \A x \in Rows(w, "exclusion") :
          /\ {x.target, x.canonical} \subseteq DeliveredIn(v)
          /\ \/ x \in v.facts
             \/ /\ w.at <= x.at + Latency
                /\ \A d \in Rows(v, "decision") : x.at <= d.at => x.target \in except

LEMMA RowsAdded ==
  ASSUME NEW v, NEW w, Later(v, w), NEW kind
  PROVE  Rows(v, kind) \subseteq Rows(w, kind)
  BY DEF Later, Rows

LEMMA DeliveriesStay ==
  ASSUME NEW v, NEW w, Later(v, w)
  PROVE  DeliveredIn(v) \subseteq DeliveredIn(w)
  BY DEF Later, DeliveredIn

\* An exclusion that was visible is no more valid later.
LEMMA NoMoreValid ==
  ASSUME NEW v, NEW w, NEW except, Onward(v, w, except),
         NEW x \in Rows(v, "exclusion"), ValidExclusion(w, x)
  PROVE  ValidExclusion(v, x)
<1>0. Later(v, w)
  BY DEF Onward
<1>1. Rows(v, "decision") \subseteq Rows(w, "decision") /\ x \in Rows(w, "exclusion")
  BY <1>0, RowsAdded
<1>2. {x.target, x.canonical} \subseteq DeliveredIn(v)
  BY <1>1 DEF Onward, Later
<1>3. w.alert[x.target] = v.alert[x.target] /\ w.alert[x.canonical] = v.alert[x.canonical]
  BY <1>2 DEF Onward, Later
<1> QED
  BY <1>1, <1>2, <1>3 DEF ValidExclusion

LEMMA AlertsStayCounted ==
  ASSUME MetricsAssumption, NEW v, NEW w, NEW except, Onward(v, w, except),
         NEW k \in Alert, Counted(v, k), k \notin except
  PROVE  Counted(w, k)
<1>0. Later(v, w)
  BY DEF Onward
<1>1. k \in DeliveredIn(v) /\ k \in DeliveredIn(w) /\ w.alert[k] = v.alert[k] /\ v.alert[k].at \in Nat
  BY <1>0, DeliveriesStay DEF Counted, Onward, Later
<1>2. \/ \E d \in Rows(w, "decision") : d.alert = k
      \/ duty_seconds_between(w.alert[k].at, w.at) >= Window
  <2>1. CASE \E d \in Rows(v, "decision") : d.alert = k
    BY <2>1, <1>0, RowsAdded
  <2>2. CASE duty_seconds_between(v.alert[k].at, v.at) >= Window
    <3>1. v.at \in Nat /\ w.at \in Nat /\ v.at <= w.at
      BY DEF Onward, Later
    <3>2. /\ duty_seconds_between(v.alert[k].at, v.at) \in Nat
          /\ duty_seconds_between(v.alert[k].at, w.at) \in Nat
          /\ duty_seconds_between(v.alert[k].at, v.at) <= duty_seconds_between(v.alert[k].at, w.at)
      BY <1>1, <3>1, DutyGrows
    <3> QED
      BY <1>1, <2>2, <3>2 DEF MetricsAssumption
  <2> QED
    BY <2>1, <2>2 DEF Counted
<1>3. ASSUME Excluded(w, k) PROVE FALSE
  <2>1. PICK x \in Rows(w, "exclusion") :
          /\ x.target = k /\ ValidExclusion(w, x)
          /\ ~\E y \in Rows(w, "reinstatement") : y.target = k /\ x.at < y.at
    BY <1>3 DEF Excluded
  <2>2. CASE x \in v.facts
    <3>1. x \in Rows(v, "exclusion")
      BY <2>2 DEF Rows
    <3>2. ValidExclusion(v, x)
      BY <2>1, <3>1, NoMoreValid
    <3>3. ~\E y \in Rows(v, "reinstatement") : y.target = k /\ x.at < y.at
      BY <2>1, <1>0, RowsAdded
    <3>4. Excluded(v, k)
      BY <2>1, <3>1, <3>2, <3>3 DEF Excluded
    <3> QED
      BY <3>4 DEF Counted
  <2>3. CASE x \notin v.facts
    <3>1. /\ w.at <= x.at + Latency
          /\ \A d \in Rows(v, "decision") : x.at <= d.at => x.target \in except
      BY <2>3 DEF Onward, Later
    <3>2. x.at \in Nat /\ w.at \in Nat /\ v.at \in Nat /\ v.at <= w.at
      BY <2>1 DEF Onward, Later, Rows
    <3>3. CASE \E d \in Rows(v, "decision") : d.alert = k
      <4>1. PICK d \in Rows(v, "decision") : d.alert = k
        BY <3>3
      <4>2. d \in Rows(w, "decision") /\ v.alert[k].at < d.at /\ d.at \in Nat
        BY <4>1, <1>0, RowsAdded DEF Onward, Later, Rows
      <4>3. ~(w.alert[k].at <= d.at /\ d.at <= x.at)
        BY <2>1, <4>2 DEF ValidExclusion
      <4>4. x.at <= d.at
        BY <1>1, <3>2, <4>2, <4>3
      <4> QED
        BY <2>1, <3>1, <4>1, <4>4
    <3>4. CASE duty_seconds_between(v.alert[k].at, v.at) >= Window
      <4>1. duty_seconds_between(v.alert[k].at, x.at) <= Sla
        BY <1>1, <2>1 DEF ValidExclusion
      <4>2. /\ duty_seconds_between(v.alert[k].at, v.at) \in Nat
            /\ duty_seconds_between(v.alert[k].at, x.at) \in Nat
        BY <1>1, <3>2, DutyFinite
      <4>3. v.at <= x.at + Latency /\ Latency \in Nat
        BY <3>1, <3>2 DEF MetricsAssumption
      <4>4. duty_seconds_between(v.alert[k].at, v.at)
              <= duty_seconds_between(v.alert[k].at, x.at) + Latency
        BY <1>1, <3>2, <4>3, DutyIsTime
      <4> QED
        BY <3>4, <4>1, <4>2, <4>4 DEF MetricsAssumption
    <3> QED
      BY <3>3, <3>4 DEF Counted
  <2> QED
    BY <2>2, <2>3
<1> QED
  BY <1>1, <1>2, <1>3 DEF Counted

LEMMA EntriesStayCounted ==
  ASSUME MetricsAssumption, NEW v, NEW w, Later(v, w)
  PROVE  /\ triageDenominator(v) \subseteq triageDenominator(w)
         /\ completedReviews(v) \subseteq completedReviews(w)
<1>1. ASSUME NEW e PROVE FirstAnswer(v, e) \subseteq FirstAnswer(w, e)
  BY RowsAdded DEF FirstAnswer
<1>2. Rows(v, "entry") \subseteq Rows(w, "entry")
  BY RowsAdded
<1>3. ASSUME NEW e \in Rows(v, "entry"), CountedEntry(v, e) PROVE CountedEntry(w, e)
  <2>1. e.at \in Nat /\ v.at \in Nat /\ w.at \in Nat /\ v.at <= w.at
    BY <1>2 DEF Later, Rows
  <2>2. /\ duty_seconds_between(e.at, v.at) \in Nat /\ duty_seconds_between(e.at, w.at) \in Nat
        /\ duty_seconds_between(e.at, v.at) <= duty_seconds_between(e.at, w.at)
    BY <2>1, DutyGrows
  <2> QED
    BY <1>1, <1>3, <2>2 DEF CountedEntry, MetricsAssumption
<1> QED
  BY <1>1, <1>2, <1>3 DEF triageDenominator, completedReviews

-----------------------------------------------------------------------------
(***************************************************************************)
(* The invariant behind CountedStaysCounted: what a decision, an incident  *)
(* or an exclusion names was delivered, a decision later than what it is   *)
(* about; and whoever is decided on while an exclusion of it is open is    *)
(* noted as overtaken.                                                     *)
(***************************************************************************)
FoundedIn(x, rows, now) ==
    /\ x.at \in Nat /\ x.at <= now
    /\ x.kind = "decision" /\ x.alert \in Alert =>
          rows[x.alert].status = "delivered" /\ rows[x.alert].at < x.at
    /\ x.kind \in {"incident", "exclusion"} =>
          {x.target, x.canonical} \subseteq {k \in Alert : rows[k].status = "delivered"}
Founded(x) == FoundedIn(x, alert, clock)

Statuses == {"none", "reserved", "delivered", "aborted"}
TypedRows(rows, now) ==
    /\ rows \in [Alert -> [status : Statuses, at : Nat]]
    /\ \A k \in Alert : rows[k].at <= now
AlertTypes ==
    /\ clock \in Nat /\ Opening <= clock /\ restored \in Nat
    /\ TypedRows(alert, clock)

OvertakenInv ==
    \A x \in open : \A d \in facts \cup open :
        x.kind = "exclusion" /\ d.kind = "decision" /\ x.at <= d.at => x.target \in overtaken

CountInv ==
    /\ AlertTypes
    /\ \A x \in facts \cup open : Founded(x)
    /\ \A x \in open : clock <= x.at + Latency
    /\ OvertakenInv

\* So it was of what the log holds.
Sound(b) == TypedRows(b.alert, clock) /\ \A x \in b.facts : FoundedIn(x, b.alert, clock)
KeptInv == LogInv /\ \A b \in Kept : Sound(b)

LEMMA SoundStays ==
  ASSUME clock \in Nat, clock' \in Nat, clock <= clock', NEW b, Sound(b) PROVE Sound(b)'
<1>1. TypedRows(b.alert, clock')
  BY DEF Sound, TypedRows
<1>2. ASSUME NEW x \in b.facts PROVE FoundedIn(x, b.alert, clock')
  <2>1. FoundedIn(x, b.alert, clock)
    BY DEF Sound
  <2>2. x.at \in Nat /\ x.at <= clock'
    BY <2>1 DEF FoundedIn
  <2> QED
    BY <2>1, <2>2 DEF FoundedIn
<1> QED
  BY <1>1, <1>2 DEF Sound

\* What the model begins with is typed, and of before.
LEMMA OpeningTyped ==
  ASSUME MetricsAssumption, NEW a, a = BeforeOpening.alert, NEW now \in Nat, Opening <= now
  PROVE  TypedRows(a, now)
<1>1. /\ Opening - 2 \in Nat /\ Opening - 1 \in Nat
      /\ Opening - 2 <= now /\ Opening - 1 <= now
  BY DEF MetricsAssumption
<1>2. ASSUME NEW k \in Alert PROVE a[k] \in [status : Statuses, at : Nat] /\ a[k].at <= now
  <2>1. CASE k = First
    <3>1. a[k] = [status |-> "delivered", at |-> Opening - 2]
      BY <2>1 DEF BeforeOpening
    <3> QED
      BY <1>1, <3>1 DEF Statuses
  <2>2. CASE k = Second /\ k # First
    <3>1. a[k] = [status |-> "delivered", at |-> Opening - 1]
      BY <2>2 DEF BeforeOpening
    <3> QED
      BY <1>1, <3>1 DEF Statuses
  <2>3. CASE k # First /\ k # Second
    <3>1. a[k] = [status |-> "none", at |-> 0]
      BY <2>3 DEF BeforeOpening
    <3> QED
      BY <3>1 DEF Statuses
  <2> QED
    BY <2>1, <2>2, <2>3
<1>3. a = [k \in Alert |-> a[k]]
  BY DEF BeforeOpening
<1> QED
  BY <1>2, <1>3 DEF TypedRows

LEMMA CountInvInit == ASSUME MetricsAssumption, Init PROVE CountInv
<1>1. /\ clock = Opening /\ alert = BeforeOpening.alert /\ restored = 0 /\ open = {}
      /\ facts = {Entry(Opening - 3), Crossing(Opening)} /\ Opening \in Nat
  BY DEF Init, MetricsInit, BeforeOpening, MetricsAssumption
<1>2. AlertTypes
  BY <1>1, OpeningTyped DEF AlertTypes
<1>2e. Founded(Entry(Opening - 3))
  BY <1>1 DEF Founded, FoundedIn, Entry, MetricsAssumption
<1>3. Founded(Crossing(Opening))
  BY <1>1 DEF Founded, FoundedIn, Crossing
<1>4. \A x \in facts \cup open : Founded(x)
  BY <1>1, <1>2e, <1>3
<1> QED
  BY <1>1, <1>2, <1>4 DEF CountInv, OvertakenInv

LEMMA KeptInvInit == ASSUME MetricsAssumption, Init PROVE KeptInv
<1>1. LogInv
  BY RememberInvInit DEF RememberInv
<1>2. /\ clock = Opening /\ alert = BeforeOpening.alert /\ log = <<BeforeOpening, Committed>>
      /\ BeforeOpening.facts = {Entry(Opening - 3)} /\ BeforeOpening.facts \subseteq facts
  BY DEF Init, MetricsInit, BeforeOpening
<1>3. CountInv
  BY CountInvInit
<1>4. ASSUME NEW b, b.alert = alert, b.facts \subseteq facts PROVE Sound(b)
  BY <1>3, <1>4 DEF CountInv, AlertTypes, Founded, Sound
<1>5. Sound(BeforeOpening)
  BY <1>2, <1>4
<1>6. Committed.alert = alert /\ Committed.facts = facts
  BY DEF Committed
<1>7. Sound(Committed)
  BY <1>4, <1>6
<1>8. Kept \subseteq {BeforeOpening, Committed}
  <2>1. PICK a, b : a = BeforeOpening /\ b = Committed
    OBVIOUS
  <2>2. log = <<a, b>>
    BY <1>2, <2>1
  <2>3. Len(log) = 2 /\ log[1] = a /\ log[2] = b
    BY <2>2
  <2>4. \A i \in 1..2 : i = 1 \/ i = 2
    OBVIOUS
  <2> QED
    BY <2>1, <2>3, <2>4 DEF Kept
<1> QED
  BY <1>1, <1>5, <1>7, <1>8 DEF KeptInv

\* Deliveries stay as time passes and others are delivered.
DeliveriesKept == \A k \in Delivered : k \in Delivered' /\ alert'[k] = alert[k]

LEMMA FoundedStays ==
  ASSUME CountInv, clock' \in Nat, clock <= clock', DeliveriesKept, NEW x, Founded(x)
  PROVE  Founded(x)'
<1>1. clock \in Nat
  BY DEF CountInv, AlertTypes
<1>2. x.at \in Nat /\ x.at <= clock'
  BY <1>1 DEF Founded, FoundedIn
<1>3. \A k \in Alert : alert[k].status = "delivered" => alert'[k].status = "delivered" /\ alert'[k] = alert[k]
  BY DEF DeliveriesKept, Delivered
<1> QED
  BY <1>2, <1>3 DEF Founded, FoundedIn

\* Steps that stamp nothing of consequence, or nothing at all.
LEMMA QuietStepCounts ==
  ASSUME CountInv, UNCHANGED <<facts, open>>, overtaken \subseteq overtaken',
         clock <= clock', DeliveriesKept, AlertTypes', \A x \in open : clock' <= x.at + Latency
  PROVE  CountInv'
<1>1. \A x \in facts' \cup open' : Founded(x)'
  BY FoundedStays DEF CountInv, AlertTypes
<1>2. OvertakenInv'
  BY DEF CountInv, OvertakenInv
<1>3. (\A x \in facts \cup open : Founded(x))'
  BY <1>1
<1> QED
  BY <1>2, <1>3 DEF CountInv

LEMMA StampCounts ==
  ASSUME MetricsAssumption, CountInv, NEW x, Stamp(x), x.at = clock + 1, overtaken \subseteq overtaken',
         x.kind = "decision" =>
            /\ x.alert \in Alert => x.alert \in Delivered
            /\ \A y \in open : y.kind = "exclusion" => y.target \in overtaken',
         x.kind \in {"incident", "exclusion"} => {x.target, x.canonical} \subseteq Delivered
  PROVE  CountInv'
<1>1. /\ clock' = clock + 1 /\ open' = open \cup {x} /\ UNCHANGED <<alert, facts, restored>>
      /\ \A y \in open : clock' <= y.at + Latency
  BY DEF Stamp, Pass, recovery, history
<1>2. AlertTypes /\ clock \in Nat /\ clock' \in Nat /\ clock <= clock' /\ Latency \in Nat
  BY <1>1 DEF CountInv, AlertTypes, MetricsAssumption
<1>3. AlertTypes'
  BY <1>1, <1>2 DEF AlertTypes, TypedRows
<1>4. DeliveriesKept
  BY <1>1 DEF DeliveriesKept, Delivered
<1>5. Founded(x)'
  <2>1. x.at \in Nat /\ x.at <= clock'
    BY <1>1, <1>2
  <2>2. \A k \in Delivered : alert[k].at < x.at /\ k \in Delivered' /\ alert'[k] = alert[k]
    BY <1>2, <1>4 DEF AlertTypes, TypedRows, Delivered, DeliveriesKept
  <2>3. \A k \in Delivered' : k \in Alert /\ alert'[k].status = "delivered"
    BY DEF Delivered
  <2> QED
    BY <2>1, <2>2, <2>3 DEF Founded, FoundedIn
<1>6. ASSUME NEW y \in facts \cup open PROVE Founded(y)' /\ y.at \in Nat /\ y.at <= clock
  <2>1. Founded(y)
    BY DEF CountInv
  <2> QED
    BY <1>2, <1>4, <2>1, FoundedStays DEF Founded, FoundedIn
<1>7. (\A y \in facts \cup open : Founded(y))'
  BY <1>1, <1>5, <1>6
<1>8. \A y \in open' : clock' <= y.at + Latency
  BY <1>1, <1>2
<1>9. OvertakenInv'
  <2> SUFFICES ASSUME NEW y \in open', NEW d \in facts' \cup open',
                      y.kind = "exclusion", d.kind = "decision", y.at <= d.at
               PROVE  y.target \in overtaken'
    BY DEF OvertakenInv
  <2>1. CASE y \in open /\ d \in facts \cup open
    BY <2>1 DEF CountInv, OvertakenInv
  <2>2. CASE y \in open /\ d = x
    BY <2>2
  <2>3. CASE y = x /\ d \in facts \cup open
    <3>1. d.at <= clock /\ d.at \in Nat
      BY <1>6, <2>3
    <3> QED
      BY <1>2, <2>3, <3>1
  <2>4. CASE y = x /\ d = x
    BY <2>4
  <2> QED
    BY <1>1, <2>1, <2>2, <2>3, <2>4
<1> QED
  BY <1>3, <1>7, <1>8, <1>9 DEF CountInv

LEMMA StampsCount ==
  ASSUME MetricsAssumption, CountInv, Stamps
  PROVE  CountInv'
<1>0. /\ AlertTypes /\ clock \in Nat
      /\ \A x \in facts : x.kind = "incident" \/ x.kind = "exclusion" =>
            {x.target, x.canonical} \subseteq Delivered
  BY DEF CountInv, AlertTypes, Founded, FoundedIn, Delivered
<1>1. CASE Wait
  <2>1. /\ clock' = clock + 1 /\ UNCHANGED <<alert, facts, open, overtaken, restored>>
        /\ \A x \in open : clock' <= x.at + Latency
    BY <1>1 DEF Wait, Pass, database, recovery, history
  <2>2. AlertTypes' /\ DeliveriesKept /\ clock <= clock'
    BY <1>0, <2>1 DEF AlertTypes, TypedRows, DeliveriesKept, Delivered
  <2> QED
    BY <2>1, <2>2, QuietStepCounts
<1>2. ASSUME NEW k \in Alert, Reserve(k) PROVE CountInv'
  <2>1. /\ clock' = clock + 1 /\ UNCHANGED <<facts, open, overtaken, restored>>
        /\ \A x \in open : clock' <= x.at + Latency
        /\ alert[k].status = "none"
        /\ alert' = [alert EXCEPT ![k] = [status |-> "reserved", at |-> clock + 1]]
    BY <1>2 DEF Reserve, Pass, Archive, history
  <2>2. AlertTypes' /\ clock <= clock'
    BY <1>0, <2>1 DEF AlertTypes, TypedRows, Statuses
  <2>3. DeliveriesKept
    <3>1. k \notin Delivered
      BY <2>1 DEF Delivered
    <3>2. \A l \in Delivered : l \in Alert /\ l # k /\ alert'[l] = alert[l] /\ alert[l].status = "delivered"
      BY <1>0, <2>1, <3>1 DEF Delivered, AlertTypes, TypedRows
    <3> QED
      BY <3>2 DEF DeliveriesKept, Delivered
  <2> QED
    BY <2>1, <2>2, <2>3, QuietStepCounts
<1>3. ASSUME NEW k \in Alert, Reinstate(k) PROVE CountInv'
  <2>1. Stamp(Reinstatement(clock + 1, k)) /\ UNCHANGED overtaken
    BY <1>3 DEF Reinstate
  <2>2. Reinstatement(clock + 1, k).at = clock + 1 /\ Reinstatement(clock + 1, k).kind = "reinstatement"
    BY DEF Reinstatement
  <2> QED
    BY <2>1, <2>2, StampCounts
<1>4. CASE _insert_review_queue_entry
  <2>1. Stamp(Entry(clock + 1)) /\ UNCHANGED overtaken
    BY <1>4 DEF _insert_review_queue_entry
  <2>2. Entry(clock + 1).at = clock + 1 /\ Entry(clock + 1).kind = "entry"
    BY DEF Entry
  <2> QED
    BY <2>1, <2>2, StampCounts
<1>5. ASSUME NEW k \in Alert \cup {None}, add_feedback(k) PROVE CountInv'
  <2>1. PICK e : Stamp(Decision(clock + 1, e, k))
    BY <1>5 DEF add_feedback
  <2>2. /\ k \in Delivered \cup {None}
        /\ overtaken' = overtaken \cup {x.target : x \in {y \in open : y.kind = "exclusion"}}
    BY <1>5 DEF add_feedback
  <2>3. PICK d : d = Decision(clock + 1, e, k)
    OBVIOUS
  <2>4. d.at = clock + 1 /\ d.kind = "decision" /\ d.alert = k /\ Stamp(d)
    BY <2>1, <2>3 DEF Decision
  <2>5. /\ k \in Alert => k \in Delivered
        /\ \A y \in open : y.kind = "exclusion" => y.target \in overtaken'
        /\ overtaken \subseteq overtaken'
    BY <2>2 DEF MetricsAssumption
  <2> QED
    BY <2>4, <2>5, StampCounts
<1>6. ASSUME NEW target \in Alert, NEW canonical \in Alert, create_metric_incident(target, canonical)
      PROVE  CountInv'
  <2>1. /\ Stamp(Incident(clock + 1, target, canonical)) /\ UNCHANGED overtaken
        /\ {target, canonical} \subseteq Delivered
    BY <1>6 DEF create_metric_incident
  <2>2. PICK d : d = Incident(clock + 1, target, canonical)
    OBVIOUS
  <2>3. /\ d.at = clock + 1 /\ d.kind = "incident" /\ Stamp(d)
        /\ d.target = target /\ d.canonical = canonical
    BY <2>1, <2>2 DEF Incident
  <2> QED
    BY <2>1, <2>3, StampCounts
<1>7. CASE RecordExclusion
  <2>1. PICK x \in All("incident") : Stamp(Exclusion(clock + 1, x)) /\ UNCHANGED overtaken
    BY <1>7 DEF RecordExclusion
  <2>2. PICK d : d = Exclusion(clock + 1, x)
    OBVIOUS
  <2>3. /\ d.at = clock + 1 /\ d.kind = "exclusion" /\ Stamp(d)
        /\ d.target = x.target /\ d.canonical = x.canonical
    BY <2>1, <2>2 DEF Exclusion
  <2>4. {x.target, x.canonical} \subseteq Delivered
    BY <1>0 DEF All
  <2> QED
    BY <2>1, <2>3, <2>4, StampCounts
<1>8. CASE Cross
  <2>1. Stamp(Crossing(clock + 1)) /\ UNCHANGED overtaken
    BY <1>8 DEF Cross
  <2>2. Crossing(clock + 1).at = clock + 1 /\ Crossing(clock + 1).kind = "crossing"
    BY DEF Crossing
  <2> QED
    BY <2>1, <2>2, StampCounts
<1>9. ASSUME NEW k \in Reviewed, NEW reviewer \in Reviewer, ReviewQuality(k, reviewer)
      PROVE  CountInv'
  <2>1. PICK verdict : Stamp(Review(clock + 1, k, reviewer, verdict)) /\ UNCHANGED overtaken
    BY <1>9 DEF ReviewQuality
  <2>2. PICK d : d = Review(clock + 1, k, reviewer, verdict)
    OBVIOUS
  <2>3. d.at = clock + 1 /\ d.kind = "review" /\ Stamp(d)
    BY <2>1, <2>2 DEF Review
  <2> QED
    BY <2>1, <2>3, StampCounts
<1> QED
  BY <1>1, <1>2, <1>3, <1>4, <1>5, <1>6, <1>7, <1>8, <1>9 DEF Stamps

LEMMA TransactionsCount ==
  ASSUME MetricsAssumption, CountInv, Transactions
  PROVE  CountInv' /\ DeliveriesKept
<1>0. AlertTypes
  BY DEF CountInv
<1>1. ASSUME NEW x \in open, Commit(x) PROVE CountInv' /\ DeliveriesKept
  <2>1. /\ open' \subseteq open /\ facts' \cup open' = facts \cup open
        /\ UNCHANGED <<clock, alert, overtaken, restored>>
    BY <1>1 DEF Commit, Archive, history
  <2>2. AlertTypes' /\ DeliveriesKept
    BY <1>0, <2>1 DEF AlertTypes, TypedRows, DeliveriesKept, Delivered
  <2>3. \A y \in facts' \cup open' : Founded(y)'
    BY <1>0, <2>1, <2>2, FoundedStays DEF CountInv, AlertTypes
  <2>4. (\A y \in facts \cup open : Founded(y))'
    BY <2>3
  <2>5. OvertakenInv'
    BY <2>1 DEF CountInv, OvertakenInv
  <2>6. \A y \in open' : clock' <= y.at + Latency
    BY <2>1 DEF CountInv
  <2> QED
    BY <2>2, <2>4, <2>5, <2>6 DEF CountInv
<1>2. ASSUME NEW k \in Alert, confirm_alert_delivery(k) \/ abort_alert_reservation(k)
      PROVE  CountInv' /\ DeliveriesKept
  <2>1. /\ UNCHANGED <<clock, facts, open, overtaken, restored>>
        /\ alert[k].status = "reserved"
        /\ \/ alert' = [alert EXCEPT ![k].status = "delivered"]
           \/ alert' = [alert EXCEPT ![k].status = "aborted"]
    BY <1>2 DEF confirm_alert_delivery, abort_alert_reservation, Archive, history
  <2>2. AlertTypes'
    BY <1>0, <2>1 DEF AlertTypes, TypedRows, Statuses
  <2>3. DeliveriesKept
    <3>1. k \notin Delivered
      BY <2>1 DEF Delivered
    <3>2. \A l \in Delivered : l \in Alert /\ l # k /\ alert'[l] = alert[l] /\ alert[l].status = "delivered"
      BY <1>0, <2>1, <3>1 DEF Delivered, AlertTypes, TypedRows
    <3> QED
      BY <3>2 DEF DeliveriesKept, Delivered
  <2>4. clock <= clock' /\ overtaken \subseteq overtaken' /\ \A x \in open : clock' <= x.at + Latency
    BY <1>0, <2>1 DEF CountInv, AlertTypes
  <2> QED
    BY <2>1, <2>2, <2>3, <2>4, QuietStepCounts
<1> QED
  BY <1>1, <1>2 DEF Transactions

\* A restore is noted; and what was sound when it was archived is sound when it is back.
LEMMA RestoreIsNoted == ASSUME AlertTypes, Restore PROVE restored' # restored
  BY DEF Restore, AlertTypes

LEMMA RestoreCounts ==
  ASSUME CountInv, KeptInv, Restore
  PROVE  CountInv'
<1>1. open' = {} /\ UNCHANGED clock /\ restored' = restored + 1
  BY DEF Restore
<1>2. PICK b \in Kept : alert' = b.alert /\ facts' = b.facts
  BY DEF Restore, Kept
<1>3. Sound(b)
  BY DEF KeptInv
<1>4. AlertTypes'
  <2>1. clock' \in Nat /\ Opening <= clock' /\ restored' \in Nat
    BY <1>1 DEF CountInv, AlertTypes
  <2> QED
    BY <1>1, <1>2, <1>3, <2>1 DEF AlertTypes, Sound
<1>5. (\A x \in facts \cup open : Founded(x))'
  BY <1>1, <1>2, <1>3 DEF Founded, Sound
<1> QED
  BY <1>1, <1>4, <1>5 DEF CountInv, OvertakenInv

\* What a step does to the metrics.
LEMMA StepsOfMetrics ==
  ASSUME [Next]_vars
  PROVE  Stamps \/ Transactions \/ Restore
         \/ UNCHANGED <<clock, alert, facts, open, overtaken, restored>>
<1> USE DEF metrics, database, recovery, history
<1>1. ASSUME NEW c \in Collector,
             collect_sample(c) \/ ReadTable(c) \/ ReadRanking(c) \/ ReadLast(c)
             \/ append_sample(c) \/ Die(c)
      PROVE  UNCHANGED <<clock, alert, facts, open, overtaken, restored>>
  BY <1>1 DEF collect_sample, ReadTable, ReadRanking, ReadLast, append_sample, Die
<1>2. CASE Miss \/ GoDown \/ ComeUp \/ UNCHANGED vars
  BY <1>2 DEF Miss, GoDown, ComeUp, vars
<1> QED
  BY <1>1, <1>2 DEF Next, TimePasses

LEMMA CountInvOnward == ASSUME MetricsAssumption, CountInv, [Next]_vars, ~Restore PROVE CountInv'
<1>1. CASE UNCHANGED <<clock, alert, facts, open, overtaken, restored>>
  <2>1. AlertTypes' /\ DeliveriesKept /\ clock <= clock' /\ \A x \in open : clock' <= x.at + Latency
    BY <1>1 DEF CountInv, AlertTypes, DeliveriesKept, Delivered
  <2> QED
    BY <1>1, <2>1, QuietStepCounts
<1> QED
  BY <1>1, StepsOfMetrics, StampsCount, TransactionsCount

LEMMA CountInvStep == ASSUME MetricsAssumption, CountInv, KeptInv, [Next]_vars PROVE CountInv'
  BY CountInvOnward, RestoreCounts

LEMMA KeptInvStep == ASSUME MetricsAssumption, CountInv, KeptInv, [Next]_vars PROVE KeptInv'
<1>1. CountInv'
  BY CountInvStep
<1>2. clock \in Nat /\ clock' \in Nat /\ clock <= clock'
  <2>1. clock \in Nat /\ clock' \in Nat
    BY <1>1 DEF CountInv, AlertTypes
  <2>2. clock' = clock \/ clock' = clock + 1
    BY StepsOfMetrics DEF Restore, Transactions, Commit, confirm_alert_delivery, abort_alert_reservation,
        Stamps, Wait, Reserve, Reinstate, _insert_review_queue_entry, add_feedback,
        create_metric_incident, ReviewQuality, RecordExclusion, Cross, Stamp, Pass
  <2> QED
    BY <2>1, <2>2
<1>3. LogInv' /\ Kept' \subseteq Kept \cup {Committed'}
  BY LogStep DEF KeptInv
<1>4. \A b \in Kept : Sound(b)'
  BY <1>2, SoundStays DEF KeptInv
<1>5. PICK b : b = Committed'
  OBVIOUS
<1>6. b.alert = alert' /\ b.facts = facts'
  BY <1>5 DEF Committed
<1>7. Sound(b)'
  BY <1>1, <1>6 DEF CountInv, AlertTypes, Founded, Sound
<1>8. \A k \in Kept' : Sound(k)'
  BY <1>3, <1>4, <1>5, <1>7
<1> QED
  BY <1>3, <1>8 DEF KeptInv

\* What a step that restores nothing does to a view.
LEMMA StepIsOnward ==
  ASSUME MetricsAssumption, CountInv, [Next]_vars, restored' = restored
  PROVE  /\ clock \in Nat /\ clock' \in Nat /\ clock <= clock'
         /\ DeliveriesKept /\ overtaken \subseteq overtaken' /\ facts \subseteq facts'
         /\ facts' = facts \/ (clock' = clock /\ facts' \subseteq facts \cup open)
<1>4. ~Restore
  BY RestoreIsNoted DEF CountInv
<1>0. AlertTypes /\ AlertTypes'
  BY <1>4, CountInvOnward DEF CountInv
<1>1. CASE UNCHANGED <<clock, alert, facts, open, overtaken, restored>>
  BY <1>0, <1>1 DEF AlertTypes, DeliveriesKept, Delivered
<1>2. CASE Stamps
  <2>1. clock' = clock + 1 /\ facts' = facts /\ overtaken \subseteq overtaken'
    BY <1>2 DEF Stamps, Wait, Reserve, Reinstate, _insert_review_queue_entry,
                add_feedback, create_metric_incident, ReviewQuality, RecordExclusion, Cross, Stamp, Pass, database
  <2>2. alert' = alert \/ \E k \in Alert : Reserve(k)
    BY <1>2 DEF Stamps, Wait, Reinstate, _insert_review_queue_entry,
                add_feedback, create_metric_incident, ReviewQuality, RecordExclusion, Cross, Stamp, database
  <2>3. CASE alert' = alert
    BY <1>0, <2>1, <2>3 DEF AlertTypes, DeliveriesKept, Delivered
  <2>4. ASSUME NEW k \in Alert, Reserve(k) PROVE DeliveriesKept
    <3>1. k \notin Delivered /\ \E a : alert' = [alert EXCEPT ![k] = a]
      BY <2>4 DEF Reserve, Delivered
    <3>2. \A l \in Delivered : l \in Alert /\ alert'[l] = alert[l] /\ alert[l].status = "delivered"
      BY <1>0, <3>1 DEF Delivered, AlertTypes
    <3> QED
      BY <3>2 DEF DeliveriesKept, Delivered
  <2> QED
    BY <1>0, <2>1, <2>2, <2>3, <2>4 DEF AlertTypes
<1>3. CASE Transactions
  <2>1. /\ clock' = clock /\ overtaken' = overtaken
        /\ facts \subseteq facts' /\ facts' \subseteq facts \cup open
    BY <1>3 DEF Transactions, Commit, confirm_alert_delivery, abort_alert_reservation
  <2>2. DeliveriesKept
    BY <1>3, TransactionsCount
  <2> QED
    BY <1>0, <2>1, <2>2 DEF AlertTypes
<1> QED
  BY <1>1, <1>2, <1>3, <1>4, StepsOfMetrics

LEMMA CountedStays ==
  ASSUME MetricsAssumption, CountInv, [Next]_vars, restored' = restored
  PROVE  /\ strongAlertDenominator(Now) \ overtaken' \subseteq strongAlertDenominator(Now)'
         /\ triageDenominator(Now) \subseteq triageDenominator(Now)'
         /\ completedReviews(Now) \subseteq completedReviews(Now)'
<1>1. PICK v : v = Now
  OBVIOUS
<1>2. PICK w : w = Now'
  OBVIOUS
<1>3. PICK except : except = overtaken'
  OBVIOUS
<1>4. /\ v.alert = alert /\ v.facts = facts /\ v.at = clock
      /\ w.alert = alert' /\ w.facts = facts' /\ w.at = clock'
  BY <1>1, <1>2 DEF Now
<1>5. DeliveredIn(v) = Delivered
  BY <1>4 DEF DeliveredIn, Delivered
<1>6. \A x \in facts \cup open : Founded(x)
  BY DEF CountInv
<1>7. facts' \subseteq facts \cup open
  BY StepIsOnward
<1>8. Onward(v, w, except) /\ Later(v, w)
  <2>1. v.at \in Nat /\ w.at \in Nat /\ v.at <= w.at /\ v.facts \subseteq w.facts
    BY <1>4, StepIsOnward
  <2>2. \A k \in DeliveredIn(v) : w.alert[k] = v.alert[k] /\ v.alert[k].at \in Nat
    BY <1>4, <1>5, StepIsOnward DEF DeliveriesKept, CountInv, AlertTypes, TypedRows, Delivered
  <2>3. \A x \in w.facts : x.at \in Nat
    BY <1>4, <1>6, <1>7 DEF Founded, FoundedIn
  <2>4. \A x \in Rows(v, "decision") : x.alert \in Alert => v.alert[x.alert].at < x.at
    BY <1>4, <1>6 DEF Founded, FoundedIn, Rows
  <2>5. ASSUME NEW x \in Rows(w, "exclusion")
        PROVE  /\ {x.target, x.canonical} \subseteq DeliveredIn(v)
               /\ \/ x \in v.facts
                  \/ /\ w.at <= x.at + Latency
                     /\ \A d \in Rows(v, "decision") : x.at <= d.at => x.target \in except
    <3>1. x \in facts \cup open /\ x.kind = "exclusion" /\ x \in facts'
      BY <1>4, <1>7 DEF Rows
    <3>2. {x.target, x.canonical} \subseteq DeliveredIn(v)
      BY <1>5, <1>6, <3>1 DEF Founded, FoundedIn, Delivered
    <3>3. CASE x \notin facts
      <4>1. clock' = clock /\ overtaken \subseteq overtaken' /\ x \in open
        BY <3>1, <3>3, StepIsOnward
      <4>2. w.at <= x.at + Latency
        BY <1>4, <4>1 DEF CountInv
      <4>3. \A d \in Rows(v, "decision") : x.at <= d.at => x.target \in except
        BY <1>3, <1>4, <3>1, <4>1 DEF CountInv, OvertakenInv, Rows
      <4> QED
        BY <3>2, <4>2, <4>3
    <3> QED
      BY <1>4, <3>2, <3>3
  <2> QED
    BY <2>1, <2>2, <2>3, <2>4, <2>5 DEF Onward, Later
<1>9. strongAlertDenominator(v) \ except \subseteq strongAlertDenominator(w)
  BY <1>8, AlertsStayCounted DEF strongAlertDenominator
<1>10. /\ triageDenominator(v) \subseteq triageDenominator(w)
       /\ completedReviews(v) \subseteq completedReviews(w)
  BY <1>8, EntriesStayCounted
<1> QED
  BY <1>1, <1>2, <1>3, <1>9, <1>10

\* Without a restore, what counts in a metric goes on to count.
THEOREM DenominatorsOnlyGrow == Spec => CountedStaysCounted
<1>1. Init => CountInv /\ KeptInv
  BY CountInvInit, KeptInvInit, MetricsAssumption
<1>2. CountInv /\ KeptInv /\ [Next]_vars => CountInv' /\ KeptInv'
  BY CountInvStep, KeptInvStep, MetricsAssumption
<1>3. CountInv /\ [Next]_vars =>
        [restored' = restored =>
           /\ strongAlertDenominator(Now) \ overtaken' \subseteq strongAlertDenominator(Now)'
           /\ triageDenominator(Now) \subseteq triageDenominator(Now)'
           /\ completedReviews(Now) \subseteq completedReviews(Now)']_metrics
  BY CountedStays, MetricsAssumption
<1> QED
  BY <1>1, <1>2, <1>3, PTL DEF Spec, CountedStaysCounted

-----------------------------------------------------------------------------
(***************************************************************************)
(* The ledger of a later view.                                             *)
(***************************************************************************)
Settled == {"delivered", "aborted"}
AlertRows == [Alert -> [status : Statuses, at : Nat]]
Sent(rows) == {k \in Alert : rows[k].status # "none"}

\* What alert rows become: a delivery that was sent is never again one that was not.
Keeps(rows, later) ==
    /\ \A k \in Alert : rows[k].status \in Settled => later[k] = rows[k]
    /\ Sent(rows) \subseteq Sent(later)

LedgerGrows(old, new) ==
    /\ \A k \in DOMAIN old.rows :
          \/ Cardinality(old.rows[k]) < Cardinality(new.rows[k])
          \/ old.rows[k] = new.rows[k]
    /\ \A d \in DOMAIN old.derived : old.derived[d] <= new.derived[d]

LEMMA MoreOrSame ==
  ASSUME NEW S, NEW T, IsFiniteSet(T), S \subseteq T
  PROVE  /\ Cardinality(S) < Cardinality(T) \/ S = T
         /\ Cardinality(S) <= Cardinality(T)
<1>1. IsFiniteSet(S) /\ Cardinality(S) <= Cardinality(T)
  BY FS_Subset
<1>2. Cardinality(S) \in Nat /\ Cardinality(T) \in Nat
  BY <1>1, FS_CardinalityType
<1>3. CASE S # T
  <2>1. Cardinality(S) # Cardinality(T)
    BY <1>3, FS_Subset
  <2> QED
    BY <1>1, <1>2, <2>1
<1> QED
  BY <1>1, <1>2, <1>3

LEMMA ListedStay ==
  ASSUME NEW v, NEW w, v.alert \in AlertRows, w.alert \in AlertRows, Keeps(v.alert, w.alert),
         \A row \in ListedDeliveries(v) : row[2].status # "reserved"
  PROVE  ListedDeliveries(v) \subseteq ListedDeliveries(w)
<1> SUFFICES ASSUME NEW k \in Alert,
                    \/ v.alert[k].status \in {"delivered", "aborted"}
                    \/ v.alert[k].status = "reserved" /\ v.at <= v.alert[k].at + Quarter
             PROVE  <<k, v.alert[k]>> \in ListedDeliveries(w)
  BY DEF ListedDeliveries
<1>1. <<k, v.alert[k]>> \in ListedDeliveries(v)
  BY DEF ListedDeliveries
<1>2. v.alert[k].status \in Settled
  <2>1. <<k, v.alert[k]>>[2] = v.alert[k]
    OBVIOUS
  <2> QED
    BY <1>1, <2>1 DEF Settled
<1>3. w.alert[k] = v.alert[k]
  BY <1>2 DEF Keeps
<1> QED
  BY <1>2, <1>3 DEF ListedDeliveries, Settled

LEMMA ListedFinite ==
  ASSUME NEW v, v.alert \in AlertRows, IsFiniteSet(Sent(v.alert))
  PROVE  IsFiniteSet(ListedDeliveries(v)) /\ IsFiniteSet(DeliveredIn(v))
<1>1. DeliveredIn(v) \subseteq Sent(v.alert)
  BY DEF DeliveredIn, Sent
<1> DEFINE f == [k \in Sent(v.alert) |-> <<k, v.alert[k]>>]
           T == {f[k] : k \in Sent(v.alert)}
<1>2. IsFiniteSet(T)
  <2>1. T = {<<k, v.alert[k]>> : k \in Sent(v.alert)}
    OBVIOUS
  <2>2. f \in Surjection(Sent(v.alert), T)
    BY DEF Surjection
  <2> QED
    BY <2>2, FS_Surjection
<1>3. ListedDeliveries(v) \subseteq T
  BY DEF ListedDeliveries, Sent
<1> QED
  BY <1>1, <1>2, <1>3, FS_Subset

LEMMA NoneExcluded ==
  ASSUME NEW v, Rows(v, "exclusion") = {}
  PROVE  /\ \A k : ~Excluded(v, k)
         /\ invalidExclusionAttempts(v) = {}
  BY DEF Excluded, invalidExclusionAttempts

LEMMA CountedGrow ==
  ASSUME MetricsAssumption, NEW v, NEW w, Later(v, w), Rows(w, "exclusion") = {}
  PROVE  /\ strongAlertDenominator(v) \subseteq strongAlertDenominator(w)
         /\ workdayStrongAlerts(v) \subseteq workdayStrongAlerts(w)
         /\ triageDenominator(v) \subseteq triageDenominator(w)
         /\ completedReviews(v) \subseteq completedReviews(w)
<1>1. \A k : ~Excluded(w, k)
  BY NoneExcluded
<1>2. DeliveredIn(v) \subseteq DeliveredIn(w)
  BY DeliveriesStay
<1>3. ASSUME NEW k \in Alert, Counted(v, k) PROVE Counted(w, k)
  <2>1. k \in DeliveredIn(v) /\ w.alert[k] = v.alert[k] /\ v.alert[k].at \in Nat
    BY <1>3 DEF Counted, Later
  <2>2. v.at \in Nat /\ w.at \in Nat /\ v.at <= w.at
    BY DEF Later
  <2>3. /\ duty_seconds_between(v.alert[k].at, v.at) \in Nat
        /\ duty_seconds_between(v.alert[k].at, w.at) \in Nat
        /\ duty_seconds_between(v.alert[k].at, v.at) <= duty_seconds_between(v.alert[k].at, w.at)
    BY <2>1, <2>2, DutyGrows
  <2>4. Rows(v, "decision") \subseteq Rows(w, "decision")
    BY RowsAdded
  <2>5. CASE duty_seconds_between(v.alert[k].at, v.at) >= Window
    <3>1. duty_seconds_between(w.alert[k].at, w.at) >= Window
      BY <2>1, <2>3, <2>5 DEF MetricsAssumption
    <3> QED
      BY <1>1, <1>2, <2>1, <3>1 DEF Counted
  <2>6. CASE \E d \in Rows(v, "decision") : d.alert = k
    BY <1>1, <1>2, <2>1, <2>4, <2>6 DEF Counted
  <2> QED
    BY <1>3, <2>5, <2>6 DEF Counted
<1>4. strongAlertDenominator(v) \subseteq strongAlertDenominator(w)
  BY <1>3 DEF strongAlertDenominator
<1>5. workdayStrongAlerts(v) \subseteq workdayStrongAlerts(w)
  BY <1>1, <1>2 DEF workdayStrongAlerts
<1> QED
  BY <1>4, <1>5, EntriesStayCounted

\* Who found something wrong in a view found it in a later one; that somebody found the
\* alert valid since, or before that, is a dispute.
NamedIn(v, k, verdict) ==
    {x.reviewer : x \in {y \in Rows(v, "review") : y.alert = k /\ y.verdict = verdict}}
DisputedIn(v, k) == Cardinality(NamedIn(v, k, "error")) >= 2 /\ NamedIn(v, k, "valid") # {}

LEMMA ReviewersFinite ==
  ASSUME NEW v, IsFiniteSet(v.facts), NEW k, NEW verdict
  PROVE  IsFiniteSet(NamedIn(v, k, verdict)) /\ IsFiniteSet(Reviewers(v, k, verdict))
<1> DEFINE R == {y \in Rows(v, "review") : y.alert = k /\ y.verdict = verdict}
           f == [x \in R |-> x.reviewer]
<1>1. IsFiniteSet(R)
  <2>1. R \subseteq v.facts
    BY DEF Rows
  <2> QED
    BY <2>1, FS_Subset
<1>2. f \in Surjection(R, NamedIn(v, k, verdict))
  BY DEF Surjection, NamedIn
<1>3. IsFiniteSet(NamedIn(v, k, verdict))
  BY <1>1, <1>2, FS_Surjection
<1>4. Reviewers(v, k, verdict) \subseteq NamedIn(v, k, verdict)
  BY DEF Reviewers, NamedIn
<1> QED
  BY <1>3, <1>4, FS_Subset

LEMMA ErrorsGrow ==
  ASSUME MetricsAssumption, NEW v, NEW w, Later(v, w), Rows(w, "exclusion") = {},
         IsFiniteSet(w.facts), \A k \in Alert : ~DisputedIn(w, k)
  PROVE  erroneousStrongAlerts(v) \subseteq erroneousStrongAlerts(w)
<1> SUFFICES ASSUME NEW k \in erroneousStrongAlerts(v) PROVE k \in erroneousStrongAlerts(w)
  OBVIOUS
<1>0. k \in workdayStrongAlerts(v) /\ Cardinality(Reviewers(v, k, "error")) >= 2
  BY DEF erroneousStrongAlerts
<1>1. /\ k \in Alert /\ k \in DeliveredIn(v) /\ k \in workdayStrongAlerts(v)
      /\ Cardinality(Reviewers(v, k, "error")) >= 2
  BY <1>0 DEF workdayStrongAlerts, DeliveredIn
<1>2. k \in workdayStrongAlerts(w)
  BY <1>1, CountedGrow
<1>3. Rows(v, "review") \subseteq Rows(w, "review") /\ w.alert[k] = v.alert[k]
  BY <1>1, RowsAdded DEF Later
<1>4. Reviewers(v, k, "error") \subseteq Reviewers(w, k, "error")
  BY <1>3 DEF Reviewers
<1>5. /\ Reviewers(w, k, "error") \subseteq NamedIn(w, k, "error")
      /\ Reviewers(w, k, "valid") \subseteq NamedIn(w, k, "valid")
  BY DEF Reviewers, NamedIn
<1>6. /\ Cardinality(Reviewers(v, k, "error")) <= Cardinality(Reviewers(w, k, "error"))
      /\ Cardinality(Reviewers(w, k, "error")) <= Cardinality(NamedIn(w, k, "error"))
  BY <1>4, <1>5, ReviewersFinite, MoreOrSame
<1>7. /\ IsFiniteSet(Reviewers(v, k, "error"))
      /\ Cardinality(Reviewers(v, k, "error")) \in Nat
      /\ Cardinality(Reviewers(w, k, "error")) \in Nat
      /\ Cardinality(NamedIn(w, k, "error")) \in Nat
  BY <1>4, ReviewersFinite, FS_Subset, FS_CardinalityType
<1>8. Cardinality(Reviewers(w, k, "error")) >= 2 /\ Cardinality(NamedIn(w, k, "error")) >= 2
  BY <1>1, <1>6, <1>7
<1>9. Reviewers(w, k, "valid") = {}
  BY <1>1, <1>5, <1>8 DEF DisputedIn
<1> QED
  BY <1>2, <1>8, <1>9 DEF erroneousStrongAlerts

\* The ledger of a later view has grown, if nothing is excluded or disputed and nothing
\* listed is still being sent.
LEMMA LaterLedgerGrows ==
  ASSUME MetricsAssumption, NEW v, NEW w, Later(v, w), v.alert \in AlertRows, w.alert \in AlertRows,
         Keeps(v.alert, w.alert), IsFiniteSet(Sent(w.alert)), IsFiniteSet(w.facts),
         Rows(w, "exclusion") = {}, \A k \in Alert : ~DisputedIn(w, k),
         \A row \in ListedDeliveries(v) : row[2].status # "reserved"
  PROVE  LedgerGrows(factLedger(v), factLedger(w))
<1>1. ASSUME NEW kind
      PROVE  Rows(v, kind) \subseteq Rows(w, kind) /\ IsFiniteSet(Rows(w, kind))
  <2>1. Rows(w, kind) \subseteq w.facts
    BY DEF Rows
  <2> QED
    BY <2>1, RowsAdded, FS_Subset
<1>2. Rows(v, "exclusion") = {}
  BY <1>1
<1> DEFINE old == factLedger(v)
           new == factLedger(w)
<1>3. /\ DOMAIN old.rows = {"feedback", "queueEntries", "interactions", "metricIncidents", "alertDeliveries"}
      /\ DOMAIN old.derived = 1..6
  BY DEF factLedger
<1>4. /\ old.rows["feedback"] = Rows(v, "decision") /\ new.rows["feedback"] = Rows(w, "decision")
      /\ old.rows["queueEntries"] = Rows(v, "entry") /\ new.rows["queueEntries"] = Rows(w, "entry")
      /\ old.rows["interactions"] = Rows(v, "exclusion") \cup Rows(v, "reinstatement")
                                     \cup Rows(v, "review")
      /\ new.rows["interactions"] = Rows(w, "exclusion") \cup Rows(w, "reinstatement")
                                     \cup Rows(w, "review")
      /\ old.rows["metricIncidents"] = Rows(v, "incident")
      /\ new.rows["metricIncidents"] = Rows(w, "incident")
      /\ old.rows["alertDeliveries"] = ListedDeliveries(v)
      /\ new.rows["alertDeliveries"] = ListedDeliveries(w)
  BY DEF factLedger
<1>5. /\ old.derived[1] = Cardinality(strongAlertDenominator(v))
      /\ old.derived[2] = Cardinality(workdayStrongAlerts(v))
      /\ old.derived[3] = Cardinality(erroneousStrongAlerts(v))
      /\ old.derived[4] = Cardinality(triageDenominator(v))
      /\ old.derived[5] = Cardinality(completedReviews(v))
      /\ old.derived[6] = Cardinality(invalidExclusionAttempts(v))
      /\ new.derived[1] = Cardinality(strongAlertDenominator(w))
      /\ new.derived[2] = Cardinality(workdayStrongAlerts(w))
      /\ new.derived[3] = Cardinality(erroneousStrongAlerts(w))
      /\ new.derived[4] = Cardinality(triageDenominator(w))
      /\ new.derived[5] = Cardinality(completedReviews(w))
      /\ new.derived[6] = Cardinality(invalidExclusionAttempts(w))
  BY DEF factLedger
<1> HIDE DEF old, new
<1>6. ASSUME NEW k \in DOMAIN old.rows
      PROVE  old.rows[k] \subseteq new.rows[k] /\ IsFiniteSet(new.rows[k])
  <2>1. k \in {"feedback", "queueEntries", "metricIncidents"} => <1>6!2
    BY <1>1, <1>4
  <2>2. /\ IsFiniteSet(Rows(w, "exclusion") \cup Rows(w, "reinstatement"))
        /\ IsFiniteSet((Rows(w, "exclusion") \cup Rows(w, "reinstatement")) \cup Rows(w, "review"))
    BY <1>1, FS_Union
  <2>3. /\ old.rows["interactions"] \subseteq new.rows["interactions"]
        /\ IsFiniteSet(new.rows["interactions"])
    BY <1>1, <1>4, <2>2
  <2>4. /\ old.rows["alertDeliveries"] \subseteq new.rows["alertDeliveries"]
        /\ IsFiniteSet(new.rows["alertDeliveries"])
    BY <1>4, ListedStay, ListedFinite
  <2> QED
    BY <1>3, <2>1, <2>3, <2>4
<1>7. ASSUME NEW k \in DOMAIN old.rows
      PROVE  \/ Cardinality(old.rows[k]) < Cardinality(new.rows[k])
             \/ old.rows[k] = new.rows[k]
  BY <1>6, MoreOrSame
<1>8. /\ strongAlertDenominator(v) \subseteq strongAlertDenominator(w)
      /\ workdayStrongAlerts(v) \subseteq workdayStrongAlerts(w)
      /\ triageDenominator(v) \subseteq triageDenominator(w)
      /\ completedReviews(v) \subseteq completedReviews(w)
      /\ erroneousStrongAlerts(v) \subseteq erroneousStrongAlerts(w)
  BY CountedGrow, ErrorsGrow
<1>9. /\ IsFiniteSet(strongAlertDenominator(w)) /\ IsFiniteSet(workdayStrongAlerts(w))
      /\ IsFiniteSet(triageDenominator(w)) /\ IsFiniteSet(completedReviews(w))
      /\ IsFiniteSet(erroneousStrongAlerts(w))
  <2>1. IsFiniteSet(DeliveredIn(w)) /\ IsFiniteSet(Rows(w, "entry"))
    BY <1>1, ListedFinite
  <2>2. /\ strongAlertDenominator(w) \subseteq DeliveredIn(w)
        /\ workdayStrongAlerts(w) \subseteq DeliveredIn(w)
        /\ triageDenominator(w) \subseteq Rows(w, "entry")
        /\ completedReviews(w) \subseteq Rows(w, "entry")
        /\ erroneousStrongAlerts(w) \subseteq DeliveredIn(w)
    BY DEF erroneousStrongAlerts, strongAlertDenominator, workdayStrongAlerts, triageDenominator, completedReviews, Counted
  <2> QED
    BY <2>1, <2>2, FS_Subset
<1>10. /\ old.derived[1] <= new.derived[1] /\ old.derived[2] <= new.derived[2]
       /\ old.derived[3] <= new.derived[3] /\ old.derived[4] <= new.derived[4]
       /\ old.derived[5] <= new.derived[5]
  BY <1>5, <1>8, <1>9, MoreOrSame
<1>11. old.derived[6] <= new.derived[6]
  <2>1. old.derived[6] = Cardinality({}) /\ new.derived[6] = Cardinality({})
    BY <1>2, <1>5, NoneExcluded
  <2> QED
    BY <2>1, FS_EmptySet
<1>12. ASSUME NEW d \in DOMAIN old.derived PROVE old.derived[d] <= new.derived[d]
  <2>1. d \in {1, 2, 3, 4, 5, 6}
    BY <1>3
  <2> QED
    BY <1>10, <1>11, <2>1
<1> QED
  BY <1>7, <1>12 DEF LedgerGrows, old, new

-----------------------------------------------------------------------------
(***************************************************************************)
(* There are finitely many rows at any time.                               *)
(***************************************************************************)
FiniteInv ==
    /\ IsFiniteSet(facts) /\ IsFiniteSet(open) /\ IsFiniteSet(Sent(alert))
    /\ \A b \in Kept : IsFiniteSet(b.facts) /\ IsFiniteSet(Sent(b.alert))

\* What a step does to the database.
LEMMA RowsOfStep ==
  ASSUME MetricsAssumption, CountInv, [Next]_vars
  PROVE  \/ Restore
         \/ /\ restored' = restored /\ Keeps(alert, alert')
            /\ \E k : Sent(alert') \subseteq Sent(alert) \cup {k}
            /\ \E x : facts' \subseteq facts \cup {x}
            /\ \E x : open' \subseteq open \cup {x}
<1> DEFINE Added == \E x : Sent(alert') \subseteq Sent(alert) \cup {x}
           Same == Keeps(alert, alert') /\ Added
<1>0. alert \in AlertRows
  BY DEF CountInv, AlertTypes, TypedRows, AlertRows
<1>1. alert' = alert => Same
  BY DEF Keeps
<1>2. CASE UNCHANGED <<clock, alert, facts, open, overtaken, restored>>
  BY <1>1, <1>2
<1>3. ASSUME NEW x, Stamp(x) PROVE Same /\ restored' = restored /\ facts' = facts /\ open' = open \cup {x}
  BY <1>1, <1>3 DEF Stamp, recovery, history
<1>4. ASSUME NEW k \in Alert, NEW row,
             \/ alert[k].status = "none"
             \/ alert[k].status = "reserved" /\ row.status # "none",
             row.status # "none", alert' = [alert EXCEPT ![k] = row]
      PROVE  Same
  <2>1. /\ \A i \in Alert \ {k} : alert'[i] = alert[i]
        /\ alert'[k] = row /\ alert[k].status \notin Settled
    BY <1>0, <1>4 DEF Settled, AlertRows
  <2> QED
    BY <1>4, <2>1 DEF Keeps, Sent
<1>5. CASE Stamps
  <2>1. CASE Wait
    BY <1>1, <2>1 DEF Wait, database, recovery, history
  <2>2. ASSUME NEW k \in Alert, Reserve(k)
        PROVE  Same /\ restored' = restored /\ facts' = facts /\ open' = open
    <3>1. PICK row : row = [status |-> "reserved", at |-> clock']
      OBVIOUS
    <3>2. row.status # "none" /\ alert' = [alert EXCEPT ![k] = row] /\ alert[k].status = "none"
      BY <2>2, <3>1 DEF Reserve
    <3>3. Same
      BY <1>4, <3>2
    <3> QED
      BY <2>2, <3>3 DEF Reserve, Archive, history
  <2>3. ASSUME NEW k \in Alert \cup {None}, add_feedback(k) PROVE \E x : Stamp(x)
    BY <2>3 DEF add_feedback
  <2>4. \/ Wait \/ (\E k \in Alert : Reserve(k)) \/ (\E x : Stamp(x))
    BY <1>5, <2>3 DEF Stamps, Reinstate, _insert_review_queue_entry, create_metric_incident,
                      ReviewQuality, RecordExclusion, Cross
  <2>5. CASE \E x : Stamp(x)
    BY <1>3, <2>5
  <2>6. CASE \E k \in Alert : Reserve(k)
    BY <2>2, <2>6
  <2> QED
    BY <2>1, <2>4, <2>5, <2>6 DEF Wait, database, recovery, history
<1>6. CASE Transactions
  <2>1. CASE \E x \in open : Commit(x)
    BY <1>1, <2>1 DEF Commit, Archive, history
  <2>2. ASSUME NEW k \in Alert, confirm_alert_delivery(k) \/ abort_alert_reservation(k)
        PROVE  Same
    <3>1. PICK status \in {"delivered", "aborted"} : alert' = [alert EXCEPT ![k].status = status]
      BY <2>2 DEF confirm_alert_delivery, abort_alert_reservation
    <3>2. PICK row : row = [alert[k] EXCEPT !.status = status]
      OBVIOUS
    <3>3. alert' = [alert EXCEPT ![k] = row]
      BY <3>1, <3>2
    <3>4. row.status # "none"
      BY <1>0, <3>2 DEF AlertRows
    <3>5. alert[k].status = "reserved"
      BY <2>2 DEF confirm_alert_delivery, abort_alert_reservation
    <3> QED
      BY <1>4, <3>3, <3>4, <3>5
  <2>3. ASSUME NEW k \in Alert, confirm_alert_delivery(k) \/ abort_alert_reservation(k)
        PROVE  restored' = restored /\ facts' = facts /\ open' = open
    BY <2>3 DEF confirm_alert_delivery, abort_alert_reservation, Archive, history
  <2> QED
    BY <1>6, <2>1, <2>2, <2>3 DEF Transactions
<1> QED
  BY <1>2, <1>5, <1>6, StepsOfMetrics

LEMMA OneMore ==
  ASSUME NEW S, NEW T, IsFiniteSet(S), \E x : T \subseteq S \cup {x}
  PROVE  IsFiniteSet(T)
<1>1. PICK x : T \subseteq S \cup {x}
  OBVIOUS
<1>2. IsFiniteSet(S \cup {x})
  BY FS_AddElement
<1> QED
  BY <1>1, <1>2, FS_Subset

\* The rows the model begins with.
LEMMA OpeningFinite ==
  ASSUME MetricsAssumption, NEW a, a = BeforeOpening.alert, NEW f, f = BeforeOpening.facts
  PROVE  IsFiniteSet(f) /\ IsFiniteSet(Sent(a))
<1>1. Sent(a) \subseteq {First, Second}
  <2>1. ASSUME NEW k \in Alert, k # First, k # Second PROVE a[k].status = "none"
    <3>1. a[k] = [status |-> "none", at |-> 0]
      BY <2>1 DEF BeforeOpening
    <3> QED
      BY <3>1
  <2> QED
    BY <2>1 DEF Sent
<1>2. IsFiniteSet({First}) /\ IsFiniteSet({First} \cup {Second})
  BY FS_Singleton, FS_AddElement
<1>3. IsFiniteSet(Sent(a))
  BY <1>1, <1>2, FS_Subset
<1>4. f = {Entry(Opening - 3)}
  BY DEF BeforeOpening
<1>5. IsFiniteSet({Entry(Opening - 3)})
  BY FS_Singleton
<1> QED
  BY <1>3, <1>4, <1>5

LEMMA FiniteInvInit == ASSUME MetricsAssumption, Init PROVE FiniteInv
<1>1. alert = BeforeOpening.alert /\ facts = BeforeOpening.facts \cup {Crossing(Opening)} /\ open = {}
  BY DEF Init, MetricsInit
<1>2. PICK f : f = BeforeOpening.facts
  OBVIOUS
<1>3. IsFiniteSet(f) /\ IsFiniteSet(Sent(alert))
  BY <1>1, <1>2, OpeningFinite
<1>4. facts \subseteq f \cup {Crossing(Opening)}
  BY <1>1, <1>2
<1>5. IsFiniteSet(facts)
  BY <1>3, <1>4, OneMore
<1>6. ASSUME NEW b \in Kept PROVE b.alert = alert /\ (b.facts = f \/ b.facts = facts)
  <2>1. log = <<BeforeOpening, Committed>>
    BY DEF Init, MetricsInit
  <2>2. PICK a, c : a = BeforeOpening /\ c = Committed
    OBVIOUS
  <2>3. log = <<a, c>>
    BY <2>1, <2>2
  <2>4. Len(log) = 2 /\ log[1] = a /\ log[2] = c /\ \A i \in 1..2 : i = 1 \/ i = 2
    BY <2>3
  <2>5. b = a \/ b = c
    BY <2>4 DEF Kept
  <2> QED
    BY <1>1, <1>2, <2>2, <2>5 DEF Committed
<1>7. \A b \in Kept : IsFiniteSet(b.facts) /\ IsFiniteSet(Sent(b.alert))
  BY <1>3, <1>5, <1>6
<1> QED
  BY <1>1, <1>3, <1>5, <1>7, FS_EmptySet DEF FiniteInv

LEMMA FiniteInvStep ==
  ASSUME MetricsAssumption, CountInv, LogInv, FiniteInv, [Next]_vars PROVE FiniteInv'
<1>1. CASE Restore
  <2>1. PICK b \in Kept : alert' = b.alert /\ facts' = b.facts
    BY <1>1 DEF Restore, Kept
  <2>2. open' = {}
    BY <1>1 DEF Restore
  <2>3. IsFiniteSet(b.facts) /\ IsFiniteSet(Sent(b.alert))
    BY DEF FiniteInv
  <2>4. Kept' \subseteq Kept
    BY <1>1, RestoreArchivesNone
  <2>5. IsFiniteSet(facts') /\ IsFiniteSet(open') /\ IsFiniteSet(Sent(alert'))
    BY <2>1, <2>2, <2>3, FS_EmptySet
  <2> QED
    BY <2>4, <2>5 DEF FiniteInv, Sent
<1>2. CASE /\ \E k : Sent(alert') \subseteq Sent(alert) \cup {k}
           /\ \E x : facts' \subseteq facts \cup {x}
           /\ \E x : open' \subseteq open \cup {x}
  <2>1. IsFiniteSet(facts') /\ IsFiniteSet(open') /\ IsFiniteSet(Sent(alert'))
    BY <1>2, OneMore DEF FiniteInv
  <2>2. PICK b : b = Committed'
    OBVIOUS
  <2>3. b.alert = alert' /\ b.facts = facts'
    BY <2>2 DEF Committed
  <2>4. Kept' \subseteq Kept \cup {b}
    BY <2>2, LogStep
  <2>5. \A k \in Kept' : IsFiniteSet(k.facts) /\ IsFiniteSet(Sent(k.alert))
    BY <2>1, <2>3, <2>4 DEF FiniteInv
  <2>6. (\A k \in Kept : IsFiniteSet(k.facts) /\ IsFiniteSet(Sent(k.alert)))'
    BY <2>5 DEF Sent
  <2> QED
    BY <2>1, <2>6 DEF FiniteInv, Sent
<1> QED
  BY <1>1, <1>2, RowsOfStep

-----------------------------------------------------------------------------
(***************************************************************************)
(* Samples are numbered in the order of their moments.                     *)
(***************************************************************************)
Drawn == {job[c].sample : c \in {d \in Collector : job[d].stage = "reading"}} \cup Sampled

DrawnInv ==
    /\ \A s \in Drawn : s.run \in 1..taken /\ s.at \in 0..clock /\ s.slot = SlotOf(s.at)
    /\ \A s, t \in Drawn : s.run < t.run => s.at <= t.at

LEMMA DrawnKeeps ==
  ASSUME DrawnInv, clock \in Nat, clock' \in Nat, clock <= clock', taken \in Nat,
         \/ taken' = taken /\ \A t \in Drawn' : \E s \in Drawn : Alike(s, t)
         \/ /\ taken' = taken + 1
            /\ \A t \in Drawn' : \/ \E s \in Drawn : Alike(s, t)
                                 \/ t.run = taken + 1 /\ t.at = clock /\ t.slot = SlotOf(clock)
  PROVE  DrawnInv'
<1>1. \A t \in Drawn' : \/ t.run \in 1..taken /\ \E s \in Drawn : Alike(s, t)
                        \/ t.run = taken + 1 /\ taken' = taken + 1 /\ t.at = clock
  BY DEF DrawnInv, Alike
<1>2. \A t \in Drawn' : t.at \in 0..clock /\ t.slot = SlotOf(t.at)
  BY DEF DrawnInv, Alike
<1>3. \A s, t \in Drawn' : s.run < t.run => s.at <= t.at
  <2> SUFFICES ASSUME NEW s \in Drawn', NEW t \in Drawn', s.run < t.run PROVE s.at <= t.at
    OBVIOUS
  <2>1. CASE t.at = clock
    BY <1>2, <2>1
  <2>2. CASE t.run \in 1..taken /\ \E r \in Drawn : Alike(r, t)
    <3>1. s.run \in 1..taken /\ \E r \in Drawn : Alike(r, s)
      BY <1>1, <2>2
    <3> QED
      BY <2>2, <3>1 DEF DrawnInv, Alike
  <2> QED
    BY <1>1, <2>1, <2>2
<1>4. \A t \in Drawn' : t.run \in 1..taken' /\ t.at \in 0..clock'
  BY <1>1, <1>2
<1> QED
  BY <1>2, <1>3, <1>4 DEF DrawnInv, SlotOf

LEMMA DrawnInvInit == ASSUME Init PROVE DrawnInv
<1>1. Drawn = {}
  <2>1. file = <<>> /\ job = [c \in Collector |-> Idle]
    BY DEF Init, MonitorInit
  <2>2. 1..Len(file) = {}
    BY <2>1
  <2> QED
    BY <2>1, <2>2 DEF Drawn, Sampled, Held, InFile, Idle
<1> QED
  BY <1>1 DEF DrawnInv

LEMMA AlikeItself == \A s : Alike(s, s)
  BY DEF Alike

LEMMA DrawnInvStep ==
  ASSUME MetricsAssumption, MonitorInv, CountInv, DrawnInv, [Next]_vars PROVE DrawnInv'
<1>0. clock \in Nat /\ clock' \in Nat /\ clock <= clock' /\ taken \in Nat /\ DOMAIN job = Collector
  <2>1. clock \in Nat /\ taken \in Nat /\ DOMAIN job = Collector
    BY DEF CountInv, AlertTypes, MonitorInv, ClockInv
  <2>2. CASE Restore
    BY <2>1, <2>2 DEF Restore
  <2>3. CASE restored' = restored
    BY <2>1, <2>3, StepIsOnward
  <2> QED
    BY <2>2, <2>3, RowsOfStep
<1>1. CASE UNCHANGED <<job, file, taken>>
  <2>1. Drawn' = Drawn
    BY <1>1 DEF Drawn, Sampled, Held, InFile
  <2> QED
    BY <1>0, <1>1, <2>1, AlikeItself, DrawnKeeps
<1>2. ASSUME NEW c \in Collector, append_sample(c) \/ Die(c) PROVE DrawnInv'
  <2>1. Sampled' \subseteq Sampled /\ job' = [job EXCEPT ![c] = Idle]
    BY <1>2, WriterAddsNone DEF Sampled
  <2>2. job'[c].stage = "idle" /\ \A d \in Collector \ {c} : job'[d] = job[d]
    BY <1>0, <2>1 DEF Idle
  <2>3. taken' = taken
    BY <1>2 DEF append_sample, Die
  <2>4. \A d \in Collector : job'[d].stage = "reading" => d # c /\ job'[d] = job[d]
    BY <2>2
  <2>5. Drawn' \subseteq Drawn
    BY <2>1, <2>4 DEF Drawn
  <2> QED
    BY <1>0, <2>3, <2>5, AlikeItself, DrawnKeeps
<1>3. ASSUME NEW c \in Collector,
             collect_sample(c) \/ ReadTable(c) \/ ReadRanking(c) \/ ReadLast(c)
      PROVE  DrawnInv'
  <2>1. /\ UNCHANGED <<clock, alert, facts, open, recovery, file>> /\ InFile' = InFile
        /\ DOMAIN job' = Collector /\ \A d \in Collector \ {c} : job'[d] = job[d]
        /\ Begins(c) \/ Refused(c) \/ Reads(c) \/ Answers(c) \/ Passes(c)
    BY <1>3, CollectorStep
  <2>2. \A t \in Drawn' : \/ t \in Drawn
                          \/ /\ job'[c].stage \in {"reading", "holding", "chained"}
                             /\ t = job'[c].sample
    BY <2>1 DEF Drawn, Sampled, Held
  <2>3. job[c].stage \in {"reading", "holding"} => job[c].sample \in Drawn
    BY DEF Drawn, Sampled, Held
  <2>4. CASE Begins(c)
    BY <1>0, <2>2, <2>4, AlikeItself, DrawnKeeps DEF Begins
  <2>5. CASE Refused(c)
    BY <1>0, <2>2, <2>3, <2>5, AlikeItself, DrawnKeeps DEF Refused
  <2>6. CASE Reads(c)
    <3>1. job[c].stage = "reading" /\ DOMAIN job[c] = {"stage", "sample", "read", "view"}
      BY <2>6 DEF Reads, MonitorInv, JobInv, Idle
    <3>2. job'[c].sample = job[c].sample
      BY <2>6, <3>1 DEF Reads, Further
    <3> QED
      BY <1>0, <2>2, <2>3, <2>6, <3>1, <3>2, AlikeItself, DrawnKeeps DEF Reads
  <2>7. CASE Answers(c)
    <3>1. job'[c].sample = Answered(job[c].sample, job[c].view)
      BY <2>7 DEF Answers
    <3>2. Alike(job[c].sample, Answered(job[c].sample, job[c].view))
      BY DEF Alike, Answered
    <3> QED
      BY <1>0, <2>2, <2>3, <2>7, <3>1, <3>2, AlikeItself, DrawnKeeps DEF Answers
  <2>8. CASE Passes(c)
    BY <1>0, <2>2, <2>3, <2>8, AlikeItself, DrawnKeeps DEF Passes, Idle
  <2> QED
    BY <2>1, <2>4, <2>5, <2>6, <2>7, <2>8
<1>4. UNCHANGED <<job, file, taken>> \/ \E c \in Collector :
          \/ append_sample(c) \/ Die(c)
          \/ collect_sample(c) \/ ReadTable(c) \/ ReadRanking(c) \/ ReadLast(c)
  BY DEF Next, TimePasses, monitor, Miss, GoDown, ComeUp, vars
<1> QED
  BY <1>1, <1>2, <1>3, <1>4


-----------------------------------------------------------------------------
(***************************************************************************)
(* The invariant behind HonestLedgersPass, as long as nothing was          *)
(* restored.  A healthy sample is the ledger of a view of what the         *)
(* database still holds; of two samples of different moments, the view of  *)
(* the later has all of the earlier's; and so has what a collector has     *)
(* read until now.                                                         *)
(***************************************************************************)
Kinds == <<{"decision"}, {"entry"}, {"exclusion", "reinstatement", "review"}, {"incident"}>>
IsRead(x, n) == \E m \in 1..n : x.kind \in Kinds[m]

Seen(v) ==
    /\ v.at \in 0..clock /\ v.alert \in AlertRows /\ Keeps(v.alert, alert)
    /\ v.facts \subseteq facts /\ \A x \in v.facts : IsRead(x, 4)
Holds(s, v) == Seen(v) /\ s.ledger = factLedger(v)

Before(v, w, n) ==
    /\ v.at <= w.at /\ Keeps(v.alert, w.alert)
    /\ \A x \in v.facts : IsRead(x, n) => x \in w.facts

Healthy == {s \in Sampled : s.healthy}

HealthyInv(s) ==
    /\ s.at \in 0..clock /\ s.rankingLedger.generated = s.at
    /\ Listed(s) \subseteq All("crossing") /\ \A x \in Listed(s) : x.at <= s.at
    /\ \E v : Holds(s, v) /\ v.at = s.at
PairInv(s, t) ==
    s.at < t.at =>
        /\ Listed(s) \subseteq Listed(t)
        /\ \E v, w : Holds(s, v) /\ Holds(t, w) /\ Before(v, w, 4)
ReaderInv(c) ==
    job[c].stage = "reading" =>
        /\ job[c].read \in 0..4 /\ job[c].sample.at = clock /\ job[c].view.at = clock
        /\ DOMAIN job[c].view = {"alert", "facts", "at"} /\ Seen(job[c].view)
        /\ \A s \in Healthy : s.at < clock =>
              \E v : Holds(s, v) /\ Before(v, job[c].view, job[c].read)
GrownInv ==
    restored = 0 =>
        /\ \A s \in Healthy : HealthyInv(s)
        /\ \A s, t \in Healthy : PairInv(s, t)
        /\ \A c \in Collector : ReaderInv(c)

Growth ==
    /\ clock \in Nat /\ clock' \in Nat /\ clock <= clock' /\ facts \subseteq facts'
    /\ alert \in AlertRows /\ alert' \in AlertRows /\ Keeps(alert, alert')

LEMMA KeepsOn ==
  ASSUME NEW a \in AlertRows, NEW b \in AlertRows, NEW c \in AlertRows, Keeps(a, b), Keeps(b, c)
  PROVE  Keeps(a, c)
  BY DEF Keeps, AlertRows

LEMMA SeenStays == ASSUME Growth, NEW v, Seen(v) PROVE Seen(v)'
<1>1. Keeps(v.alert, alert')
  BY KeepsOn DEF Growth, Seen
<1>2. v.at \in 0..clock' /\ v.alert \in AlertRows /\ v.facts \subseteq facts'
  BY DEF Growth, Seen
<1>3. \A x \in v.facts : IsRead(x, 4)
  BY DEF Seen
<1>4. Keeps(v.alert, alert)'
  BY <1>1
<1> QED
  BY <1>2, <1>3, <1>4 DEF Seen

LEMMA HoldsStays == ASSUME Growth, NEW s, NEW v, Holds(s, v) PROVE Holds(s, v)'
<1>1. Seen(v)'
  BY SeenStays DEF Holds
<1> QED
  BY <1>1 DEF Holds

LEMMA HealthyStays ==
  ASSUME Growth, NEW s, HealthyInv(s) PROVE HealthyInv(s)'
<1>1. PICK v : Holds(s, v) /\ v.at = s.at
  BY DEF HealthyInv
<1>2. Holds(s, v)'
  BY <1>1, HoldsStays
<1>3. s.at \in 0..clock' /\ Listed(s) \subseteq All("crossing")'
  BY DEF HealthyInv, Growth, All
<1>4. s.rankingLedger.generated = s.at /\ \A x \in Listed(s) : x.at <= s.at
  BY DEF HealthyInv
<1>5. (\E u : Holds(s, u) /\ u.at = s.at)'
  BY <1>1, <1>2
<1> QED
  BY <1>3, <1>4, <1>5 DEF HealthyInv

LEMMA PairStays ==
  ASSUME Growth, NEW s, NEW t, PairInv(s, t) PROVE PairInv(s, t)'
<1>1. CASE s.at < t.at
  <2>1. PICK v, w : Holds(s, v) /\ Holds(t, w) /\ Before(v, w, 4)
    BY <1>1 DEF PairInv
  <2>2. Holds(s, v)' /\ Holds(t, w)' /\ Before(v, w, 4)
    BY <2>1, HoldsStays
  <2>3. (\E u, x : Holds(s, u) /\ Holds(t, x) /\ Before(u, x, 4))'
    BY <2>2
  <2>4. Listed(s) \subseteq Listed(t)
    BY <1>1 DEF PairInv
  <2> QED
    BY <2>3, <2>4 DEF PairInv
<1>2. CASE ~(s.at < t.at)
  BY <1>2 DEF PairInv
<1> QED
  BY <1>1, <1>2

\* What has to be known of a job for a collector to be reading.
LEMMA ReaderOf ==
  ASSUME Growth, NEW c \in Collector, NEW j, j = job'[c], clock' = clock,
         \A s \in Healthy' : s \in Healthy \/ s.at = clock,
         j.read \in 0..4, j.sample.at = clock, j.view.at = clock,
         DOMAIN j.view = {"alert", "facts", "at"}, Seen(j.view),
         \A s \in Healthy : s.at < clock => \E v : Holds(s, v) /\ Before(v, j.view, j.read)
  PROVE  ReaderInv(c)'
<1>1. Seen(j.view)'
  BY SeenStays
<1>2. ASSUME NEW s \in Healthy', s.at < clock
      PROVE  \E v : Holds(s, v)' /\ Before(v, j.view, j.read)
  <2>1. s \in Healthy
    BY <1>2 DEF Growth
  <2>2. PICK v : Holds(s, v) /\ Before(v, j.view, j.read)
    BY <1>2, <2>1
  <2>3. Holds(s, v)'
    BY <2>2, HoldsStays
  <2> QED
    BY <2>2, <2>3
<1>3. (\A s \in Healthy : s.at < clock => \E v : Holds(s, v) /\ Before(v, j.view, j.read))'
  BY <1>2
<1>4. (/\ j.read \in 0..4 /\ j.sample.at = clock /\ j.view.at = clock
       /\ DOMAIN j.view = {"alert", "facts", "at"})'
  OBVIOUS
<1> QED
  BY <1>1, <1>3, <1>4 DEF ReaderInv

\* A collector that does not move while others do within the moment.
LEMMA ReaderStays ==
  ASSUME Growth, NEW c \in Collector, ReaderInv(c), job'[c] = job[c], clock' = clock,
         \A s \in Healthy' : s \in Healthy \/ s.at = clock
  PROVE  ReaderInv(c)'
<1>1. CASE job[c].stage = "reading"
  <2>1. PICK j : j = job[c]
    OBVIOUS
  <2>2. /\ j.read \in 0..4 /\ j.sample.at = clock /\ j.view.at = clock
        /\ DOMAIN j.view = {"alert", "facts", "at"} /\ Seen(j.view)
        /\ \A s \in Healthy : s.at < clock => \E v : Holds(s, v) /\ Before(v, j.view, j.read)
    BY <1>1, <2>1 DEF ReaderInv
  <2>3. j = job'[c]
    BY <2>1
  <2> QED
    BY <2>2, <2>3, ReaderOf
<1>2. CASE job[c].stage # "reading"
  BY <1>2 DEF ReaderInv
<1> QED
  BY <1>1, <1>2

LEMMA GrownKeeps ==
  ASSUME Growth, GrownInv, restored = 0, Healthy' \subseteq Healthy,
         \A c \in Collector : ReaderInv(c)'
  PROVE  GrownInv'
<1>1. ASSUME NEW s \in Healthy' PROVE HealthyInv(s)'
  BY HealthyStays DEF GrownInv
<1>2. ASSUME NEW s \in Healthy', NEW t \in Healthy' PROVE PairInv(s, t)'
  BY PairStays DEF GrownInv
<1>3. (\A s \in Healthy : HealthyInv(s))'
  BY <1>1
<1>4. (\A s, t \in Healthy : PairInv(s, t))'
  BY <1>2
<1> QED
  BY <1>3, <1>4 DEF GrownInv

\* A sample more, of this moment.
LEMMA GrownByOne ==
  ASSUME Growth, GrownInv, restored = 0, clock' = clock, NEW t, t.at = clock,
         Healthy' \subseteq Healthy \cup {t},
         HealthyInv(t)', \A s \in Healthy : PairInv(s, t)',
         \A c \in Collector : ReaderInv(c)'
  PROVE  GrownInv'
<1>1. ASSUME NEW s \in Healthy' PROVE HealthyInv(s)'
  <2>1. s \in Healthy => HealthyInv(s)'
    BY HealthyStays DEF GrownInv
  <2> QED
    BY <2>1
<1>2. ASSUME NEW s \in Healthy', NEW r \in Healthy' PROVE PairInv(s, r)'
  <2>1. CASE s \in Healthy /\ r \in Healthy
    BY <2>1, PairStays DEF GrownInv
  <2>2. CASE s \in Healthy /\ r = t
    BY <2>2
  <2>3. CASE s = t
    <3>1. r.at \in 0..clock
      BY <1>1 DEF HealthyInv
    <3>2. ~(s.at < r.at)
      BY <2>3, <3>1 DEF Growth
    <3> QED
      BY <3>2 DEF PairInv
  <2> QED
    BY <2>1, <2>2, <2>3
<1>3. (\A s \in Healthy : HealthyInv(s))'
  BY <1>1
<1>4. (\A s, r \in Healthy : PairInv(s, r))'
  BY <1>2
<1> QED
  BY <1>3, <1>4 DEF GrownInv

LEMMA StepGrows ==
  ASSUME MetricsAssumption, CountInv, [Next]_vars, restored' = restored PROVE Growth
<1>1. ~Restore
  BY RestoreIsNoted DEF CountInv
<1>2. Keeps(alert, alert')
  BY <1>1, RowsOfStep
<1>3. alert \in AlertRows /\ alert' \in AlertRows
  BY <1>1, CountInvOnward DEF CountInv, AlertTypes, TypedRows, AlertRows
<1> QED
  BY <1>2, <1>3, StepIsOnward DEF Growth

LEMMA TablesByKind ==
  /\ Len(Tables) = 4
  /\ \A n \in 1..4 : Tables[n] = {x \in facts : x.kind \in Kinds[n]}
<1>1. /\ Tables[1] = All("decision") /\ Tables[2] = All("entry")
      /\ Tables[3] = All("exclusion") \cup All("reinstatement") \cup All("review") /\ Tables[4] = All("incident")
      /\ Len(Tables) = 4
  BY DEF Tables, list_feedback, list_review_queue_entries, list_product_interactions,
         list_metric_incidents
<1>2. /\ Kinds[1] = {"decision"} /\ Kinds[2] = {"entry"}
      /\ Kinds[3] = {"exclusion", "reinstatement", "review"} /\ Kinds[4] = {"incident"}
  BY DEF Kinds
<1>3. \A n \in 1..4 : n = 1 \/ n = 2 \/ n = 3 \/ n = 4
  OBVIOUS
<1> QED
  BY <1>1, <1>2, <1>3 DEF All

LEMMA NextTable == ASSUME NEW x, NEW n \in 0..3
  PROVE IsRead(x, n + 1) <=> IsRead(x, n) \/ x.kind \in Kinds[n + 1]
<1>1. \A m : m \in 1..(n + 1) <=> m \in 1..n \/ m = n + 1
  OBVIOUS
<1> QED
  BY <1>1 DEF IsRead

\* A collector's first read.
LEMMA BeginGrows ==
  ASSUME Growth, GrownInv, restored = 0, NEW c \in Collector, Begins(c), UNCHANGED <<clock, alert, facts>>,
         Healthy' \subseteq Healthy
  PROVE  ReaderInv(c)'
<1>1. CASE job'[c].stage # "reading"
  BY <1>1 DEF ReaderInv
<1>2. CASE job'[c].stage = "reading"
  <2>1. PICK j : j = job'[c]
    OBVIOUS
  <2>2. PICK w : w = [Now EXCEPT !.facts = {}]
    OBVIOUS
  <2>3. j.read = 0 /\ j.view = w /\ j.sample.at = clock
    BY <1>2, <2>1, <2>2 DEF Begins
  <2>4. /\ DOMAIN w = {"alert", "facts", "at"}
        /\ w.alert = alert /\ w.facts = {} /\ w.at = clock
    BY <2>2 DEF Now
  <2>5. Keeps(alert, alert)
    BY DEF Keeps
  <2>6. Seen(w)
    BY <2>4, <2>5 DEF Seen, Growth
  <2>7. ASSUME NEW s \in Healthy, s.at < clock PROVE \E v : Holds(s, v) /\ Before(v, w, 0)
    <3>1. PICK v : Holds(s, v) /\ v.at = s.at
      BY DEF GrownInv, HealthyInv
    <3>2. s.at \in 0..clock
      BY DEF GrownInv, HealthyInv
    <3>3. v.at <= w.at /\ Keeps(v.alert, w.alert)
      BY <2>4, <3>1, <3>2 DEF Holds, Seen, Growth
    <3>4. \A x : ~IsRead(x, 0)
      BY DEF IsRead
    <3> QED
      BY <3>1, <3>3, <3>4 DEF Before
  <2> QED
    BY <2>1, <2>3, <2>4, <2>6, <2>7, ReaderOf
<1> QED
  BY <1>1, <1>2

\* Another table.
LEMMA ReadGrows ==
  ASSUME Growth, MonitorInv, NEW c \in Collector, ReaderInv(c), Reads(c),
         UNCHANGED <<clock, alert, facts>>, Healthy' \subseteq Healthy
  PROVE  ReaderInv(c)'
<1>1. PICK i : i = job[c]
  OBVIOUS
<1>2. PICK j : j = job'[c]
  OBVIOUS
<1>3. /\ i.read \in 0..3 /\ i.sample.at = clock /\ i.view.at = clock
      /\ DOMAIN i.view = {"alert", "facts", "at"} /\ Seen(i.view)
      /\ \A s \in Healthy : s.at < clock => \E v : Holds(s, v) /\ Before(v, i.view, i.read)
  BY <1>1, TablesByKind DEF ReaderInv, Reads
<1>4. DOMAIN i = {"stage", "sample", "read", "view"}
  BY <1>1 DEF Reads, MonitorInv, JobInv, Idle
<1>5. PICK T : T = {x \in facts : x.kind \in Kinds[i.read + 1]}
  OBVIOUS
<1>6. Tables[i.read + 1] = T
  <2>1. i.read + 1 \in 1..4
    BY <1>3
  <2> QED
    BY <1>5, <2>1, TablesByKind
<1>7. j = [i EXCEPT !.read = @ + 1, !.view.facts = @ \cup T]
  BY <1>1, <1>2, <1>6 DEF Reads, Further
<1>8. /\ j.read = i.read + 1 /\ j.sample = i.sample /\ DOMAIN j.view = DOMAIN i.view
      /\ j.view.at = i.view.at /\ j.view.alert = i.view.alert /\ j.view.facts = i.view.facts \cup T
  BY <1>3, <1>4, <1>7
<1>9. Seen(j.view)
  <2>1. j.view.facts \subseteq facts
    BY <1>3, <1>5, <1>8 DEF Seen
  <2>2. \A x \in j.view.facts : IsRead(x, 4)
    BY <1>3, <1>5, <1>8 DEF Seen, IsRead
  <2> QED
    BY <1>3, <1>8, <2>1, <2>2 DEF Seen
<1>10. ASSUME NEW s \in Healthy, s.at < clock PROVE \E v : Holds(s, v) /\ Before(v, j.view, j.read)
  <2>1. PICK v : Holds(s, v) /\ Before(v, i.view, i.read)
    BY <1>3, <1>10
  <2>2. ASSUME NEW x \in v.facts, IsRead(x, j.read) PROVE x \in j.view.facts
    <3>1. IsRead(x, i.read) \/ x.kind \in Kinds[i.read + 1]
      BY <1>3, <1>8, <2>2, NextTable
    <3>2. x \in facts
      BY <2>1 DEF Holds, Seen
    <3> QED
      BY <1>5, <1>8, <2>1, <3>1, <3>2 DEF Before
  <2> QED
    BY <1>8, <2>1, <2>2 DEF Before
<1> QED
  BY <1>2, <1>3, <1>8, <1>9, <1>10, ReaderOf

\* The last answer makes a sample.
LEMMA AnswerGrows ==
  ASSUME MetricsAssumption, CountInv, Growth, GrownInv, restored = 0, NEW c \in Collector, Answers(c),
         UNCHANGED <<clock, alert, facts>>, NEW t, t = Answered(job[c].sample, job[c].view)
  PROVE  t.at = clock /\ HealthyInv(t)' /\ \A s \in Healthy : PairInv(s, t)'
<1>1. PICK j : j = job[c]
  OBVIOUS
<1>2. /\ j.read = 4 /\ j.sample.at = clock /\ j.view.at = clock /\ Seen(j.view)
      /\ \A s \in Healthy : s.at < clock => \E v : Holds(s, v) /\ Before(v, j.view, 4)
  BY <1>1, TablesByKind DEF GrownInv, ReaderInv, Answers
<1>3. /\ t.at = clock /\ t.rankingLedger.generated = clock /\ Listed(t) = All("crossing")
      /\ t.ledger = factLedger(j.view)
  BY <1>1, <1>2 DEF Answered, ranking_ledger, Listed
<1>4. Holds(t, j.view)
  BY <1>2, <1>3 DEF Holds
<1>5. HealthyInv(t)
  <2>1. \A x \in Listed(t) : x.at <= t.at
    BY <1>3 DEF All, CountInv, Founded, FoundedIn
  <2> QED
    BY <1>2, <1>3, <1>4, <2>1 DEF HealthyInv, Growth
<1>6. ASSUME NEW s \in Healthy PROVE PairInv(s, t)
  <2>1. Listed(s) \subseteq Listed(t)
    BY <1>3 DEF GrownInv, HealthyInv
  <2>2. s.at < clock => \E v : Holds(s, v) /\ Before(v, j.view, 4)
    BY <1>2
  <2> QED
    BY <1>3, <1>4, <2>1, <2>2 DEF PairInv
<1>7. HealthyInv(t)'
  BY <1>5, HealthyStays
<1>8. \A s \in Healthy : PairInv(s, t)'
  BY <1>6, PairStays
<1> QED
  BY <1>3, <1>7, <1>8

LEMMA GrownInvInit == ASSUME Init PROVE GrownInv
<1>1. Sampled = {} /\ \A c \in Collector : job[c].stage = "idle"
  <2>1. file = <<>> /\ job = [c \in Collector |-> Idle]
    BY DEF Init, MonitorInit
  <2>2. 1..Len(file) = {}
    BY <2>1
  <2> QED
    BY <2>1, <2>2 DEF Sampled, Held, InFile, Idle
<1> QED
  BY <1>1 DEF GrownInv, Healthy, ReaderInv

LEMMA GrownInvStep ==
  ASSUME MetricsAssumption, MonitorInv, CountInv, GrownInv, [Next]_vars PROVE GrownInv'
<1> SUFFICES ASSUME restored' = 0 PROVE GrownInv'
  BY DEF GrownInv
<1>0. restored' = restored /\ restored = 0
  <2>1. CASE Restore
    <3>1. restored \in Nat /\ restored' = restored + 1
      BY <2>1 DEF Restore, CountInv, AlertTypes
    <3> QED
      BY <3>1
  <2> QED
    BY <2>1, RowsOfStep
<1>1. Growth
  BY <1>0, StepGrows
<1>2. ASSUME NEW c \in Collector, Healthy' \subseteq Healthy, clock' = clock, ReaderInv(c)',
             \A d \in Collector \ {c} : job'[d] = job[d]
      PROVE  GrownInv'
  <2>1. \A d \in Collector : ReaderInv(d)'
    BY <1>0, <1>1, <1>2, ReaderStays DEF GrownInv
  <2> QED
    BY <1>0, <1>1, <1>2, <2>1, GrownKeeps
<1>3. CASE UNCHANGED <<job, file>>
  <2>1. Healthy' = Healthy
    BY <1>3 DEF Healthy, Sampled, Held, InFile
  <2>2. CASE clock' = clock
    <3>1. \A d \in Collector : ReaderInv(d)'
      BY <1>0, <1>1, <1>3, <2>1, <2>2, ReaderStays DEF GrownInv
    <3> QED
      BY <1>0, <1>1, <2>1, <3>1, GrownKeeps
  <2>3. CASE TimePasses
    <3>1. \A d \in Collector : job'[d].stage = "idle"
      BY <1>3, <2>3 DEF TimePasses, Idle
    <3>2. \A d \in Collector : ReaderInv(d)'
      BY <3>1 DEF ReaderInv
    <3> QED
      BY <1>0, <1>1, <2>1, <3>2, GrownKeeps
  <2>4. clock' = clock \/ TimePasses
    BY DEF Next, vars, metrics, Transactions, Restore, Commit, confirm_alert_delivery,
           abort_alert_reservation, Miss, GoDown, ComeUp, collect_sample, ReadTable,
           ReadRanking, ReadLast, append_sample, Die
  <2> QED
    BY <2>2, <2>3, <2>4
<1>4. ASSUME NEW c \in Collector, append_sample(c) \/ Die(c) PROVE GrownInv'
  <2>1. Sampled' \subseteq Sampled /\ job' = [job EXCEPT ![c] = Idle] /\ DOMAIN job = Collector
    BY <1>4, WriterAddsNone DEF Sampled
  <2>2. job'[c].stage = "idle" /\ \A d \in Collector \ {c} : job'[d] = job[d]
    BY <2>1 DEF Idle
  <2>3. Healthy' \subseteq Healthy
    BY <2>1 DEF Healthy
  <2>4. clock' = clock
    BY <1>4 DEF append_sample, Die, metrics
  <2>5. ReaderInv(c)'
    BY <2>2 DEF ReaderInv
  <2> QED
    BY <1>2, <2>2, <2>3, <2>4, <2>5
<1>5. ASSUME NEW c \in Collector,
             collect_sample(c) \/ ReadTable(c) \/ ReadRanking(c) \/ ReadLast(c)
      PROVE  GrownInv'
  <2>1. /\ UNCHANGED <<clock, alert, facts, open, recovery, file>> /\ InFile' = InFile
        /\ \A d \in Collector \ {c} : job'[d] = job[d]
        /\ Begins(c) \/ Refused(c) \/ Reads(c) \/ Answers(c) \/ Passes(c)
    BY <1>5, CollectorStep
  <2>2. \A t \in Sampled' : \/ t \in Sampled
                            \/ /\ job'[c].stage \in {"holding", "chained"}
                               /\ t = job'[c].sample
    BY <2>1 DEF Sampled, Held
  <2>3. CASE Begins(c)
    <3>1. Healthy' \subseteq Healthy
      BY <2>2, <2>3 DEF Healthy, Begins
    <3>2. ReaderInv(c)'
      BY <1>0, <1>1, <2>1, <2>3, <3>1, BeginGrows
    <3> QED
      BY <1>2, <2>1, <3>1, <3>2
  <2>4. CASE Refused(c)
    <3>1. Healthy' \subseteq Healthy /\ ReaderInv(c)'
      BY <2>2, <2>4 DEF Healthy, Refused, ReaderInv
    <3> QED
      BY <1>2, <2>1, <3>1
  <2>5. CASE Passes(c)
    <3>1. job[c].stage = "holding" => job[c].sample \in Sampled
      BY DEF Sampled, Held
    <3>2. Healthy' \subseteq Healthy /\ ReaderInv(c)'
      BY <2>2, <2>5, <3>1 DEF Healthy, Passes, ReaderInv, Idle
    <3> QED
      BY <1>2, <2>1, <3>2
  <2>6. CASE Reads(c)
    <3>1. DOMAIN job[c] = {"stage", "sample", "read", "view"} /\ job[c].stage = "reading"
      BY <2>6 DEF Reads, MonitorInv, JobInv, Idle
    <3>2. job'[c].stage = "reading"
      BY <2>6, <3>1 DEF Reads, Further
    <3>3. Healthy' \subseteq Healthy
      BY <2>2, <3>2 DEF Healthy
    <3>4. ReaderInv(c)
      BY <1>0 DEF GrownInv
    <3>5. ReaderInv(c)'
      BY <1>1, <2>1, <2>6, <3>3, <3>4, ReadGrows
    <3> QED
      BY <1>2, <2>1, <3>3, <3>5
  <2>7. CASE Answers(c)
    <3>1. PICK t : t = Answered(job[c].sample, job[c].view)
      OBVIOUS
    <3>2. t.at = clock /\ HealthyInv(t)' /\ \A s \in Healthy : PairInv(s, t)'
      BY <1>0, <1>1, <2>1, <2>7, <3>1, AnswerGrows
    <3>3. job'[c].stage = "holding" /\ job'[c].sample = t
      BY <2>7, <3>1 DEF Answers
    <3>4. Healthy' \subseteq Healthy \cup {t}
      BY <2>2, <3>3 DEF Healthy
    <3>5. ReaderInv(c)'
      BY <3>3 DEF ReaderInv
    <3>6. \A d \in Collector \ {c} : ReaderInv(d)'
      BY <1>0, <1>1, <2>1, <3>2, <3>4, ReaderStays DEF GrownInv
    <3> QED
      BY <1>0, <1>1, <2>1, <3>2, <3>4, <3>5, <3>6, GrownByOne
  <2> QED
    BY <2>1, <2>3, <2>4, <2>5, <2>6, <2>7
<1>6. UNCHANGED <<job, file>> \/ \E c \in Collector :
          \/ append_sample(c) \/ Die(c)
          \/ collect_sample(c) \/ ReadTable(c) \/ ReadRanking(c) \/ ReadLast(c)
  BY DEF Next, TimePasses, monitor, Miss, GoDown, ComeUp, vars
<1> QED
  BY <1>3, <1>4, <1>5, <1>6

\* A view of a later sample is later.
LEMMA BeforeIsLater ==
  ASSUME CountInv, NEW v, NEW w, Seen(v), Seen(w), Before(v, w, 4) PROVE Later(v, w)
<1>1. v.at \in Nat /\ w.at \in Nat /\ v.at <= w.at
  BY DEF Seen, Before, CountInv, AlertTypes
<1>2. v.facts \subseteq w.facts
  BY DEF Seen, Before
<1>3. \A k \in DeliveredIn(v) : w.alert[k] = v.alert[k] /\ v.alert[k].at \in Nat
  BY DEF DeliveredIn, Seen, Before, Keeps, Settled, AlertRows
<1>4. \A x \in w.facts : x.at \in Nat
  BY DEF Seen, CountInv, Founded, FoundedIn
<1> QED
  BY <1>1, <1>2, <1>3, <1>4 DEF Later

LEMMA HonestPass ==
  ASSUME MetricsAssumption, MonitorAssumption, MonitorInv, CountInv, DrawnInv, FiniteInv, GrownInv
  PROVE  HonestLedgersPass
<1> SUFFICES ASSUME Loadable, restored = 0, All("exclusion") = {}, \A k \in Alert : ~Disputed(k),
                    \A i \in 1..(Len(samples) - 1) : samples[i].slot # samples[i + 1].slot,
                    \A i \in 1..Len(samples) :
                       /\ samples[i].healthy
                       /\ \A row \in samples[i].ledger.rows.alertDeliveries : row[2].status # "reserved"
             PROVE  score_ledger_ok(samples) /\ fact_ledger_ok(samples)
  BY DEF HonestLedgersPass
<1>1. /\ Len(samples) = Len(file) /\ Len(file) \in Nat
      /\ \A i \in 1..Len(file) : samples[i] = file[i].sample
  BY SamplesOfLines DEF MonitorInv
<1>2. ASSUME NEW i \in 1..Len(samples)
      PROVE  samples[i] \in Healthy /\ samples[i] \in Drawn /\ HealthyInv(samples[i])
  <2>1. samples[i] \in InFile
    BY <1>1 DEF InFile, Loadable
  <2> QED
    BY <2>1 DEF Healthy, Sampled, Drawn, GrownInv
<1>3. ASSUME NEW i \in 1..Len(samples) PROVE validated(samples[i])
  <2>1. HealthyInv(samples[i])
    BY <1>2
  <2>2. samples[i].rankingLedger.generated = samples[i].at /\ samples[i].at \in Nat
    BY <2>1 DEF HealthyInv, CountInv, AlertTypes
  <2>3. samples[i].rankingLedger.generated - samples[i].at \in (-Tolerance)..Tolerance
    BY <2>2 DEF MonitorAssumption
  <2> QED
    BY <2>1, <2>2, <2>3 DEF validated, HealthyInv, Listed
<1>4. ASSUME NEW i \in 1..(Len(samples) - 1)
      PROVE  /\ samples[i] \in Healthy /\ samples[i + 1] \in Healthy
             /\ PairInv(samples[i], samples[i + 1]) /\ samples[i].at < samples[i + 1].at
  <2>1. i \in 1..Len(samples) /\ i + 1 \in 1..Len(samples)
    BY <1>1
  <2>2. samples[i].run < samples[i + 1].run
    BY LoadedIsComplete DEF LoadableIsComplete, time_integrity_ok
  <2>3. samples[i].at <= samples[i + 1].at
    BY <1>2, <2>1, <2>2 DEF DrawnInv
  <2>4. samples[i].at # samples[i + 1].at
    BY <1>2, <2>1 DEF DrawnInv
  <2>5. samples[i].at \in Nat /\ samples[i + 1].at \in Nat
    BY <1>2, <2>1 DEF HealthyInv, CountInv, AlertTypes
  <2> QED
    BY <1>2, <2>1, <2>3, <2>4, <2>5 DEF GrownInv
<1>5. score_ledger_ok(samples)
  BY <1>3, <1>4 DEF score_ledger_ok, crossing_continuity_ok, PairInv, Listed
<1>6. ASSUME NEW i \in 1..(Len(samples) - 1)
      PROVE  LedgerGrows(samples[i].ledger, samples[i + 1].ledger)
  <2>1. PICK v, w : Holds(samples[i], v) /\ Holds(samples[i + 1], w) /\ Before(v, w, 4)
    BY <1>4 DEF PairInv
  <2>2. Seen(v) /\ Seen(w) /\ Later(v, w)
    BY <2>1, BeforeIsLater DEF Holds
  <2>3. IsFiniteSet(w.facts) /\ IsFiniteSet(Sent(w.alert))
    <3>1. w.facts \subseteq facts
      BY <2>2 DEF Seen
    <3>2. Sent(w.alert) \subseteq Sent(alert)
      BY <2>2 DEF Seen, Keeps
    <3> QED
      BY <3>1, <3>2, FS_Subset DEF FiniteInv
  <2>4. Rows(w, "exclusion") = {}
    BY <2>2 DEF Rows, Seen, All
  <2>5. \A row \in ListedDeliveries(v) : row[2].status # "reserved"
    <3>1. i \in 1..Len(samples)
      BY <1>1
    <3>2. samples[i].ledger.rows.alertDeliveries = ListedDeliveries(v)
      BY <2>1 DEF Holds, factLedger
    <3> QED
      BY <3>1, <3>2
  <2>7. ASSUME NEW k \in Alert PROVE ~DisputedIn(w, k)
    <3>1. /\ NamedIn(w, k, "error") \subseteq Named(k, "error")
          /\ NamedIn(w, k, "valid") \subseteq Named(k, "valid")
      BY <2>2 DEF NamedIn, Named, Rows, All, Seen
    <3>2. PICK f : f = Now
      OBVIOUS
    <3>3. f.facts = facts
      BY <3>2 DEF Now
    <3>4. NamedIn(f, k, "error") = Named(k, "error")
      BY <3>3 DEF NamedIn, Named, Rows, All
    <3>5. IsFiniteSet(Named(k, "error"))
      BY <3>3, <3>4, ReviewersFinite DEF FiniteInv
    <3>6. /\ Cardinality(NamedIn(w, k, "error")) <= Cardinality(Named(k, "error"))
          /\ Cardinality(NamedIn(w, k, "error")) \in Nat /\ Cardinality(Named(k, "error")) \in Nat
      BY <3>1, <3>5, MoreOrSame, FS_Subset, FS_CardinalityType
    <3> QED
      BY <3>1, <3>6 DEF Disputed, DisputedIn
  <2>6. LedgerGrows(factLedger(v), factLedger(w))
    BY <2>1, <2>2, <2>3, <2>4, <2>5, <2>7, LaterLedgerGrows DEF Seen, Before
  <2> QED
    BY <2>1, <2>6 DEF Holds
<1>7. fact_ledger_ok(samples)
  BY <1>6 DEF fact_ledger_ok, LedgerGrows
<1> QED
  BY <1>5, <1>7

\* A system that loses nothing, excludes and disputes nothing and had no alert in the sending
\* when it was sampled is not failed by its ledgers.
THEOREM HonestSystemsPass == Spec => []HonestLedgersPass
<1>1. Init => CountInv /\ KeptInv /\ DrawnInv /\ FiniteInv /\ GrownInv
  BY CountInvInit, KeptInvInit, DrawnInvInit, FiniteInvInit, GrownInvInit, MetricsAssumption
<1>2. /\ MonitorInv /\ CountInv /\ KeptInv /\ DrawnInv /\ FiniteInv /\ GrownInv /\ [Next]_vars
      => CountInv' /\ KeptInv' /\ DrawnInv' /\ FiniteInv' /\ GrownInv'
  <2>1. KeptInv => LogInv
    BY DEF KeptInv
  <2> QED
    BY <2>1, CountInvStep, KeptInvStep, DrawnInvStep, FiniteInvStep, GrownInvStep, MetricsAssumption
<1>3. MonitorInv /\ CountInv /\ DrawnInv /\ FiniteInv /\ GrownInv => HonestLedgersPass
  BY HonestPass, MetricsAssumption, MonitorAssumption
<1> QED
  BY <1>1, <1>2, <1>3, Monitored, PTL DEF Spec
=============================================================================
