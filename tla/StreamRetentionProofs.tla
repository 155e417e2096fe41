----------------------- MODULE StreamRetentionProofs -----------------------
(* Proofs about Stream retention, for any number of publishers, groups,      *)
(* retention runs and rows.                                                  *)
EXTENDS StreamRetention, FiniteSetTheorems, TLAPS

-----------------------------------------------------------------------------
(***************************************************************************)
(* The invariant behind NoGuardIsLeaked and TrimmedIsRecoverable.  While a *)
(* run trims, it holds the rows of everything below its boundary; entries  *)
(* added by others get ids above any boundary.                             *)
(***************************************************************************)
Fields == {"pc", "execute", "confirmed", "first", "todo", "marks", "before", "min", "entries", "cancelled"}

\* The run has listed its candidates.
Listed(x) == run[x].pc \in {"locking", "trimming"} \/ ~run[x].first

Types ==
    /\ log \in Seq(Row) /\ stream \subseteq 1..Len(log)
    /\ row \in [Row -> {"pending", "published", "gone"}]
    /\ pub \in [Publisher -> {"out", "in"} \cup Row]
    /\ guard \in [Run -> SUBSET Row]
    /\ approved.min \in 0..(Len(log) + 1)
    /\ DOMAIN run = Run /\ DOMAIN underway = Run
    /\ \A x \in Run : DOMAIN run[x] = Fields

Bounded(x) ==
    run[x].min \in 0..(Len(log) + 1) /\ run[x].confirmed.min \in 0..(Len(log) + 1)

Covered(x) ==
    Listed(x) => /\ run[x].entries \subseteq 1..Len(log)
                 /\ \A id \in stream : id < run[x].min => id \in run[x].entries

Awaited(x) ==
    \/ underway[x] = Nothing
    \/ underway[x].op = "lock" /\ run[x].pc = "locking" /\ underway[x].rows \subseteq Row
    \/ /\ underway[x].op = "trim" /\ run[x].pc = "trimming"
       /\ underway[x].min = run[x].min
       /\ \A id \in run[x].entries : log[id] \in guard[x]

Held(x) ==
    /\ run[x].pc \in {"idle", "leaving"} => guard[x] = {}
    /\ \A r \in guard[x] : row[r] = "published"

RunInv(x) == Bounded(x) /\ Covered(x) /\ Awaited(x) /\ Held(x)

RetentionInv == Types /\ \A x \in Run : RunInv(x)

LEMMA InitInv == Init => RetentionInv
  BY RetentionAssumption
  DEF Init, RetentionInv, Types, RunInv, Bounded, Covered, Listed, Awaited, Held, IdleRun, Fields,
      NoReview

\* A log that grows by at most one entry.
LEMMA LogGrows ==
  ASSUME NEW s \in Seq(Row), NEW t, t = s \/ \E r \in Row : t = Append(s, r)
  PROVE  /\ t \in Seq(Row) /\ Len(s) \in Nat /\ Len(t) \in {Len(s), Len(s) + 1}
         /\ \A id \in 1..Len(s) : t[id] = s[id]
<1>1. CASE t = s
  BY <1>1
<1>2. ASSUME NEW r \in Row, t = Append(s, r)
      PROVE  /\ t \in Seq(Row) /\ Len(t) = Len(s) + 1
             /\ \A id \in 1..Len(s) : t[id] = s[id]
  BY <1>2
<1> QED
  BY <1>1, <1>2

\* A step beside the runs that adds at most one entry, at the end, and leaves
\* the rows published that a run holds.
LEMMA BesideKeeps ==
  ASSUME RetentionInv, UNCHANGED runVars,
         log' = log \/ \E r \in Row : log' = Append(log, r),
         stream' \subseteq 1..Len(log'),
         stream' \cap 1..Len(log) \subseteq stream,
         (row \in [Row -> {"pending", "published", "gone"}])',
         (pub \in [Publisher -> {"out", "in"} \cup Row])',
         \A x \in Run : \A r \in guard[x] : row'[r] = "published"
  PROVE  RetentionInv'
<1> USE DEF RetentionInv, Types, RunInv, runVars
<1>1. log' \in Seq(Row) /\ Len(log) <= Len(log') /\ Len(log) \in Nat /\ Len(log') \in Nat
  BY LogGrows
<1>2. \A id \in 1..Len(log) : log'[id] = log[id]
  BY LogGrows
<1>3. Types'
  BY <1>1
<1>4. ASSUME NEW x \in Run PROVE RunInv(x)'
  <2>1. Bounded(x)'
    BY <1>1, <1>4 DEF Bounded
  <2>2. Covered(x)'
    <3> SUFFICES ASSUME Listed(x)
                 PROVE  /\ run[x].entries \subseteq 1..Len(log')
                        /\ \A id \in stream' : id < run[x].min => id \in run[x].entries
      BY DEF Covered, Listed
    <3>1. run[x].entries \subseteq 1..Len(log)
      BY <1>4 DEF Covered
    <3>2. ASSUME NEW id \in stream', id < run[x].min
          PROVE  id \in run[x].entries
      <4>1. run[x].min \in 0..(Len(log) + 1) /\ id \in 1..Len(log')
        BY <1>4, <3>2 DEF Bounded
      <4>2. id \in 1..Len(log)
        BY <1>1, <3>2, <4>1
      <4> QED
        BY <1>4, <3>2, <4>2 DEF Covered
    <3> QED
      BY <1>1, <3>1, <3>2
  <2>3. Awaited(x)'
    BY <1>2, <1>4 DEF Awaited, Covered, Listed
  <2>4. Held(x)'
    BY <1>4 DEF Held
  <2> QED
    BY <2>1, <2>2, <2>3, <2>4
<1> QED
  BY <1>3, <1>4

LEMMA TrafficKeeps ==
  ASSUME RetentionInv, Traffic
  PROVE  RetentionInv'
<1> USE DEF RetentionInv, Types
<1>0. /\ stream \cap 1..Len(log) \subseteq stream
      /\ \A x \in Run : \A r \in guard[x] : r \in Row /\ row[r] = "published"
  BY DEF RunInv, Held
<1>1. ASSUME NEW p \in Publisher, PublisherJoins(p) \/ PublisherLeaves(p)
      PROVE  RetentionInv'
  <2> (pub \in [Publisher -> {"out", "in"} \cup Row])'
    BY <1>1 DEF PublisherJoins, PublisherLeaves
  <2> QED
    BY <1>0, <1>1, BesideKeeps DEF PublisherJoins, PublisherLeaves, streamVars
<1>2. ASSUME NEW p \in Publisher, NEW r \in Row, Xadd(p, r)
      PROVE  RetentionInv'
  <2>1. log' = Append(log, r) /\ stream' = stream \cup {Len(log) + 1}
    BY <1>2 DEF Xadd
  <2>2. Len(log') = Len(log) + 1 /\ Len(log) \in Nat
    BY <2>1
  <2>3. stream' \subseteq 1..Len(log') /\ stream' \cap 1..Len(log) \subseteq stream
    <3> DEFINE n == Len(log)
    <3>1. n \in Nat /\ stream \subseteq 1..n /\ stream' = stream \cup {n + 1} /\ Len(log') = n + 1
      BY <2>1, <2>2
    <3> HIDE DEF n
    <3>2. stream' \subseteq 1..(n + 1) /\ stream' \cap 1..n \subseteq stream
      BY <3>1
    <3> QED
      BY <3>1, <3>2 DEF n
  <2>4. (pub \in [Publisher -> {"out", "in"} \cup Row])'
    BY <1>2 DEF Xadd
  <2> QED
    BY <1>0, <1>2, <2>1, <2>3, <2>4, BesideKeeps DEF Xadd
<1>3. ASSUME NEW p \in Publisher, MarkPublished(p)
      PROVE  RetentionInv'
  <2>1. row' = [row EXCEPT ![pub[p]] = "published"] /\ pub[p] \in Row
    BY <1>3 DEF MarkPublished
  <2>2. /\ (row \in [Row -> {"pending", "published", "gone"}])'
        /\ \A r \in Row : row[r] = "published" => row'[r] = "published"
    BY <2>1
  <2>3. (pub \in [Publisher -> {"out", "in"} \cup Row])'
    BY <1>3 DEF MarkPublished
  <2> QED
    BY <1>0, <1>3, <2>2, <2>3, BesideKeeps DEF MarkPublished, streamVars
<1>4. ASSUME NEW g \in Group, EnsureGroup(g) \/ ReadGroup(g) \/ \E id \in Id : Acknowledge(g, id)
      PROVE  RetentionInv'
  BY <1>0, <1>4, BesideKeeps DEF EnsureGroup, ReadGroup, Acknowledge, streamVars, others
<1>5. ASSUME NEW r \in Row, CleanUp(r)
      PROVE  RetentionInv'
  <2>1. row' = [row EXCEPT ![r] = "gone"] /\ \A x \in Run : r \notin guard[x]
    BY <1>5 DEF CleanUp
  <2>2. /\ (row \in [Row -> {"pending", "published", "gone"}])'
        /\ \A x \in Run : \A q \in guard[x] : row'[q] = "published"
    BY <1>0, <2>1
  <2> QED
    BY <1>0, <1>5, <2>2, BesideKeeps DEF CleanUp, streamVars
<1> QED
  BY <1>1, <1>2, <1>3, <1>4, <1>5 DEF Traffic

LEMMA EnvironmentKeeps ==
  ASSUME RetentionInv,
         (\E t \in Participant \cup Run : LeaseRunsOut(t)) \/ StreamLost \/ UNCHANGED vars
  PROVE  RetentionInv'
<1> USE DEF RetentionInv, Types
<1>0. \A x \in Run : \A r \in guard[x] : row[r] = "published"
  BY DEF RunInv, Held
<1>1. CASE \E t \in Participant \cup Run : LeaseRunsOut(t)
  BY <1>0, <1>1, BesideKeeps DEF LeaseRunsOut, Outside, others, streamVars
<1>2. CASE StreamLost
  BY <1>0, <1>2, BesideKeeps DEF StreamLost, others
<1>3. CASE UNCHANGED vars
  BY <1>0, <1>3, BesideKeeps DEF vars, others, streamVars
<1> QED
  BY <1>1, <1>2, <1>3

\* A step of run x leaves the others alone and adds no entry.
LEMMA RunStepKeeps ==
  ASSUME RetentionInv, NEW x \in Run,
         UNCHANGED <<log, row>>, stream' \subseteq stream, Types', RunInv(x)',
         \A y \in Run \ {x} : /\ run'[y] = run[y] /\ guard'[y] = guard[y]
                              /\ underway'[y] = underway[y]
  PROVE  RetentionInv'
<1> SUFFICES ASSUME NEW y \in Run, y # x
             PROVE  RunInv(y)'
  BY DEF RetentionInv
<1> QED
  BY DEF RetentionInv, RunInv, Bounded, Covered, Listed, Awaited, Held

\* A run that awaits nothing changes its own variables only.
LEMMA LocalStepKeeps ==
  ASSUME RetentionInv, NEW x \in Run, underway[x] = Nothing,
         UNCHANGED <<log, stream, row, pub, guard, underway>>,
         approved'.min \in 0..(Len(log) + 1),
         DOMAIN run' = Run, \A y \in Run \ {x} : run'[y] = run[y],
         DOMAIN run'[x] = Fields, run'[x].min \in 0..(Len(log) + 1),
         run'[x].confirmed.min \in 0..(Len(log) + 1),
         run'[x].pc \in {"idle", "leaving"} => guard[x] = {},
         run'[x].pc \in {"locking", "trimming"} \/ ~run'[x].first =>
            Listed(x) /\ run'[x].min = run[x].min /\ run'[x].entries = run[x].entries
  PROVE  RetentionInv'
<1>1. Types'
  BY DEF RetentionInv, Types
<1>2. RunInv(x)'
  <2>1. RunInv(x)
    BY DEF RetentionInv
  <2>2. Bounded(x)'
    BY DEF Bounded
  <2>3. Covered(x)'
    BY <2>1 DEF RunInv, Covered, Listed
  <2>4. Awaited(x)'
    BY DEF Awaited
  <2>5. Held(x)'
    BY <2>1 DEF RunInv, Held
  <2> QED
    BY <2>2, <2>3, <2>4, <2>5 DEF RunInv
<1> QED
  BY <1>1, <1>2, RunStepKeeps

\* What a run becomes when it raises.
LEMMA RaiseShape ==
  ASSUME NEW x \in Run, DOMAIN run = Run, Raise(x)
  PROVE  /\ DOMAIN run' = Run /\ \A y \in Run \ {x} : run'[y] = run[y]
         /\ DOMAIN run'[x] = Fields /\ run'[x].min = 0 /\ run'[x].first = TRUE
         /\ run'[x].confirmed.min = 0
         /\ run'[x].pc = IF guard[x] = {} THEN "leaving" ELSE "releasing"
  BY DEF Raise, IdleRun, NoReview, Fields

LEMMA RaiseKeeps ==
  ASSUME RetentionInv, NEW x \in Run, underway[x] = Nothing, Raise(x),
         UNCHANGED <<log, stream, row, pub, guard, underway>>,
         approved'.min \in 0..(Len(log) + 1)
  PROVE  RetentionInv'
<1>1. DOMAIN run = Run /\ 0 \in 0..(Len(log) + 1)
  BY DEF RetentionInv, Types
<1> QED
  BY <1>1, RaiseShape, LocalStepKeeps

LEMMA AwaitsNothing ==
  ASSUME RetentionInv, NEW x \in Run, run[x].pc \notin {"locking", "trimming"}
  PROVE  underway[x] = Nothing
  BY DEF RetentionInv, RunInv, Awaited

\* The steps that only read, or move on.
LEMMA LookingKeeps ==
  ASSUME RetentionInv, NEW x \in Run,
         \/ \E execute \in BOOLEAN : Begin(x, execute)
         \/ Inspect(x) \/ (\E g \in Group : AskPending(x, g)) \/ Decide(x) \/ Locked(x)
  PROVE  RetentionInv'
<1> USE DEF Outside, streamVars, others
<1>0. /\ DOMAIN run = Run /\ DOMAIN run[x] = Fields /\ Bounded(x)
      /\ approved.min \in 0..(Len(log) + 1) /\ 0 \in 0..(Len(log) + 1)
  BY DEF RetentionInv, Types, RunInv
<1>1. CASE \E execute \in BOOLEAN : Begin(x, execute)
  <2>1. PICK execute \in BOOLEAN : Begin(x, execute)
    BY <1>1
  <2>2. /\ DOMAIN run' = Run /\ \A y \in Run \ {x} : run'[y] = run[y]
        /\ DOMAIN run'[x] = Fields /\ run'[x].min = 0 /\ run'[x].first = TRUE
        /\ run'[x].confirmed.min \in 0..(Len(log) + 1)
        /\ run'[x].pc = "inspecting"
    BY <1>0, <2>1 DEF Begin, IdleRun, NoReview, Fields
  <2> QED
    BY <1>0, <2>1, <2>2, AwaitsNothing, LocalStepKeeps DEF Begin
<1>2. CASE Inspect(x)
  <2>1. CASE Raise(x)
    BY <1>0, <1>2, <2>1, AwaitsNothing, RaiseKeeps DEF Inspect
  <2>2. CASE run' = [run EXCEPT ![x].pc = "asking",
                               ![x].marks = [g \in Present |-> Mark(g)],
                               ![x].todo = {g \in Present : group[g].pending # {}}]
    <3>1. /\ DOMAIN run' = Run /\ \A y \in Run \ {x} : run'[y] = run[y]
          /\ DOMAIN run'[x] = Fields /\ run'[x].min = run[x].min /\ run'[x].pc = "asking"
          /\ run'[x].confirmed = run[x].confirmed
          /\ run'[x].first = run[x].first /\ run'[x].entries = run[x].entries
      BY <1>0, <2>2 DEF Fields
    <3> QED
      BY <1>0, <1>2, <3>1, AwaitsNothing, LocalStepKeeps DEF Inspect, Bounded, Listed
  <2> QED
    BY <1>2, <2>1, <2>2 DEF Inspect
<1>3. CASE \E g \in Group : AskPending(x, g)
  <2>1. PICK g \in Group : AskPending(x, g)
    BY <1>3
  <2>2. CASE Raise(x)
    BY <1>0, <2>1, <2>2, AwaitsNothing, RaiseKeeps DEF AskPending
  <2>3. CASE run' = [run EXCEPT ![x].todo = @ \ {g},
                               ![x].marks = [@ EXCEPT ![g].first = Min(group[g].pending)]]
    <3>1. /\ DOMAIN run' = Run /\ \A y \in Run \ {x} : run'[y] = run[y]
          /\ DOMAIN run'[x] = Fields /\ run'[x].min = run[x].min /\ run'[x].pc = run[x].pc
          /\ run'[x].confirmed = run[x].confirmed
          /\ run'[x].first = run[x].first /\ run'[x].entries = run[x].entries
      BY <1>0, <2>3 DEF Fields
    <3> QED
      BY <1>0, <2>1, <3>1, AwaitsNothing, LocalStepKeeps DEF AskPending, Bounded, Listed
  <2> QED
    BY <2>1, <2>2, <2>3 DEF AskPending
<1>4. CASE Decide(x)
  <2>1. CASE Raise(x)
    BY <1>0, <1>4, <2>1, AwaitsNothing, RaiseKeeps DEF Decide
  <2>2. ASSUME NEW calculated \in Calculable(x),
               run' = [run EXCEPT ![x].pc = "listing", ![x].min = TrimMin(x, calculated),
                 ![x].before = [g \in DOMAIN run[x].marks |-> SafeBoundary(run[x].marks[g])],
                 ![x].marks = <<>>]
        PROVE  RetentionInv'
    <3>1. /\ DOMAIN run' = Run /\ \A y \in Run \ {x} : run'[y] = run[y]
          /\ DOMAIN run'[x] = Fields /\ run'[x].min = TrimMin(x, calculated)
          /\ run'[x].confirmed = run[x].confirmed
          /\ run'[x].pc = "listing" /\ run'[x].first = run[x].first
      BY <1>0, <2>2 DEF Fields
    <3>2. TrimMin(x, calculated) \in 0..(Len(log) + 1)
      BY <1>0, <2>2 DEF TrimMin, Calculable, Bounded
    <3>3. /\ underway[x] = Nothing /\ run[x].first
          /\ UNCHANGED <<log, stream, row, pub, guard, underway, approved>>
      BY <1>4, AwaitsNothing DEF Decide
    <3>4. /\ run'[x].confirmed.min \in 0..(Len(log) + 1) /\ run'[x].min \in 0..(Len(log) + 1)
          /\ run'[x].pc = "listing" /\ run'[x].first
      BY <1>0, <3>1, <3>2, <3>3 DEF Bounded
    <3> QED
      BY <1>0, <3>1, <3>3, <3>4, LocalStepKeeps
  <2> QED
    BY <1>4, <2>1, <2>2 DEF Decide
<1>5. CASE Locked(x)
  <2>1. CASE Raise(x)
    BY <1>0, <1>5, <2>1, RaiseKeeps DEF Locked
  <2>2. CASE run' = [run EXCEPT ![x].pc = "inspecting", ![x].first = FALSE]
    <3>1. /\ DOMAIN run' = Run /\ \A y \in Run \ {x} : run'[y] = run[y]
          /\ DOMAIN run'[x] = Fields /\ run'[x].min = run[x].min /\ run'[x].pc = "inspecting"
          /\ run'[x].confirmed = run[x].confirmed
          /\ run'[x].entries = run[x].entries
      BY <1>0, <2>2 DEF Fields
    <3> QED
      BY <1>0, <1>5, <3>1, LocalStepKeeps DEF Locked, Bounded, Listed
  <2> QED
    BY <1>5, <2>1, <2>2 DEF Locked
<1> QED
  BY <1>1, <1>2, <1>3, <1>4, <1>5

LEMMA ListKeeps ==
  ASSUME RetentionInv, NEW x \in Run, List(x)
  PROVE  RetentionInv'
<1> DEFINE ids == {id \in stream : id < run[x].min}
<1>1. /\ run[x].pc = "listing" /\ UNCHANGED <<log, stream, row, pub, guard, approved>>
      /\ run' = [run EXCEPT ![x].pc = "locking", ![x].entries = ids]
      /\ underway' = [underway EXCEPT ![x] = [op |-> "lock", rows |-> Rows(ids)]]
  BY DEF List, Outside, streamVars, others
<1> HIDE DEF ids
<1>2. /\ DOMAIN run' = Run /\ \A y \in Run \ {x} : run'[y] = run[y]
      /\ DOMAIN run'[x] = Fields /\ run'[x].min = run[x].min
      /\ run'[x].confirmed = run[x].confirmed
      /\ run'[x].pc = "locking" /\ run'[x].entries = ids
  BY <1>1 DEF RetentionInv, Types, Fields
<1>3. /\ DOMAIN underway' = Run /\ \A y \in Run \ {x} : underway'[y] = underway[y]
      /\ underway'[x].op = "lock" /\ underway'[x].rows = Rows(ids)
  BY <1>1 DEF RetentionInv, Types
<1>4. ids \subseteq 1..Len(log) /\ \A id \in stream : id < run[x].min => id \in ids
  BY DEF RetentionInv, Types, ids
<1>7. Rows(ids) \subseteq Row
  BY <1>4 DEF RetentionInv, Types, Rows
<1>5. RunInv(x)'
  <2>1. RunInv(x)
    BY DEF RetentionInv
  <2>2. Bounded(x)' /\ Covered(x)'
    BY <1>1, <1>2, <1>4, <2>1 DEF RunInv, Bounded, Covered
  <2>3. Awaited(x)' /\ Held(x)'
    BY <1>1, <1>2, <1>3, <1>7, <2>1 DEF RunInv, Awaited, Held
  <2> QED
    BY <2>2, <2>3 DEF RunInv
<1>6. Types'
  BY <1>1, <1>2, <1>3 DEF RetentionInv, Types
<1> QED
  BY <1>1, <1>2, <1>3, <1>5, <1>6, RunStepKeeps

LEMMA LockLedgerKeeps ==
  ASSUME RetentionInv, NEW x \in Run, LockLedger(x)
  PROVE  RetentionInv'
<1> DEFINE found == {r \in underway[x].rows : row[r] = "published"}
<1>1. /\ UNCHANGED <<log, stream, row, pub, run, approved>>
      /\ guard' = [guard EXCEPT ![x] = found] /\ underway' = [underway EXCEPT ![x] = Nothing]
  BY DEF LockLedger, Outside, streamVars, others
<1>2. run[x].pc = "locking" /\ underway[x].rows \subseteq Row
  BY DEF RetentionInv, RunInv, Awaited, LockLedger, Nothing
<1>3. found \subseteq Row /\ \A r \in found : row[r] = "published"
  BY <1>2
<1> HIDE DEF found
<1>4. /\ (guard \in [Run -> SUBSET Row])' /\ guard'[x] = found
      /\ DOMAIN underway' = Run /\ underway'[x] = Nothing
      /\ \A y \in Run \ {x} : guard'[y] = guard[y] /\ underway'[y] = underway[y]
  BY <1>1, <1>3 DEF RetentionInv, Types
<1>5. RunInv(x)'
  BY <1>1, <1>2, <1>3, <1>4 DEF RetentionInv, RunInv, Bounded, Covered, Listed, Awaited, Held
<1>6. Types'
  BY <1>1, <1>4 DEF RetentionInv, Types
<1> QED
  BY <1>1, <1>4, <1>5, <1>6, RunStepKeeps

LEMMA VerifyKeeps ==
  ASSUME RetentionInv, NEW x \in Run, Verify(x)
  PROVE  RetentionInv'
<1> USE DEF Outside, streamVars, others
<1>0. /\ DOMAIN run = Run /\ DOMAIN run[x] = Fields /\ RunInv(x)
      /\ approved.min \in 0..(Len(log) + 1) /\ underway[x] = Nothing
  BY AwaitsNothing DEF RetentionInv, Types, Verify
<1>1. ASSUME approved' = [min |-> run[x].min, entries |-> run[x].entries],
             Raise(x), UNCHANGED underway
      PROVE  RetentionInv'
  <2>1. approved'.min \in 0..(Len(log) + 1)
    BY <1>0, <1>1 DEF RunInv, Bounded
  <2> QED
    BY <1>0, <1>1, <2>1, RaiseKeeps DEF Verify
<1>2. ASSUME Raise(x), UNCHANGED <<underway, approved>>
      PROVE  RetentionInv'
  BY <1>0, <1>2, RaiseKeeps DEF Verify
<1>3. ASSUME guard[x] = Rows(run[x].entries), ~run[x].first,
             underway' = [underway EXCEPT ![x] =
                             [op |-> "trim", min |-> run[x].min, marks |-> run[x].marks]],
             Goto(x, "trimming"), UNCHANGED approved
      PROVE  RetentionInv'
  <2>1. /\ DOMAIN run' = Run /\ \A y \in Run \ {x} : run'[y] = run[y]
        /\ DOMAIN run'[x] = Fields /\ run'[x].pc = "trimming" /\ run'[x].min = run[x].min
        /\ run'[x].confirmed = run[x].confirmed
        /\ run'[x].entries = run[x].entries
    BY <1>0, <1>3 DEF Goto, Fields
  <2>2. /\ DOMAIN underway' = Run /\ \A y \in Run \ {x} : underway'[y] = underway[y]
        /\ underway'[x].op = "trim" /\ underway'[x].min = run[x].min
    BY <1>3 DEF RetentionInv, Types
  <2>3. UNCHANGED <<log, stream, row, pub, guard>>
    BY DEF Verify
  <2>4. Types'
    BY <1>3, <2>1, <2>2, <2>3 DEF RetentionInv, Types
  <2>5. \A id \in run[x].entries : log[id] \in guard[x]
    BY <1>3 DEF Rows
  <2>6. RunInv(x)'
    BY <1>0, <1>3, <2>1, <2>2, <2>3, <2>5 DEF RunInv, Bounded, Covered, Listed, Awaited, Held
  <2> QED
    BY <2>1, <2>2, <2>3, <2>4, <2>6, RunStepKeeps
<1> QED
  BY <1>1, <1>2, <1>3 DEF Verify

\* The script ran, or refused to: in both cases nothing is underway any more.
LEMMA ScriptKeeps ==
  ASSUME RetentionInv, NEW x \in Run, Trim(x) \/ TrimRefused(x)
  PROVE  RetentionInv'
<1>1. /\ UNCHANGED <<log, row, pub, run, guard, approved>> /\ stream' \subseteq stream
      /\ underway' = [underway EXCEPT ![x] = Nothing]
  BY DEF Trim, XtrimMinId, TrimRefused, Outside, streamVars, others
<1>2. /\ DOMAIN underway' = Run /\ underway'[x] = Nothing
      /\ \A y \in Run \ {x} : underway'[y] = underway[y]
  BY <1>1 DEF RetentionInv, Types
<1>3. Types'
  BY <1>1, <1>2 DEF RetentionInv, Types
<1>4. RunInv(x)'
  BY <1>1, <1>2 DEF RetentionInv, RunInv, Bounded, Covered, Listed, Awaited, Held
<1> QED
  BY <1>1, <1>2, <1>3, <1>4, RunStepKeeps

LEMMA LeavingKeeps ==
  ASSUME RetentionInv, NEW x \in Run,
         Trimmed(x) \/ ReleaseGuard(x) \/ release_stream_exclusive(x) \/ Cancel(x) \/ Die(x)
  PROVE  RetentionInv'
<1> USE DEF Outside, streamVars, others
<1>0. /\ DOMAIN run = Run /\ DOMAIN run[x] = Fields /\ RunInv(x)
      /\ guard \in [Run -> SUBSET Row] /\ DOMAIN underway = Run
      /\ approved.min \in 0..(Len(log) + 1) /\ 0 \in 0..(Len(log) + 1)
  BY DEF RetentionInv, Types
<1>1. CASE Trimmed(x)
  BY <1>0, <1>1, RaiseKeeps DEF Trimmed
<1>2. CASE ReleaseGuard(x)
  <2>1. /\ DOMAIN run' = Run /\ \A y \in Run \ {x} : run'[y] = run[y]
        /\ DOMAIN run'[x] = Fields /\ run'[x].pc = "leaving" /\ run'[x].min = run[x].min
        /\ run'[x].confirmed = run[x].confirmed
        /\ run'[x].entries = run[x].entries /\ run'[x].first = run[x].first
    BY <1>0, <1>2 DEF ReleaseGuard, Goto, Fields
  <2>2. /\ (guard \in [Run -> SUBSET Row])' /\ guard'[x] = {}
        /\ \A y \in Run \ {x} : guard'[y] = guard[y]
    BY <1>0, <1>2 DEF ReleaseGuard
  <2>3. underway[x] = Nothing /\ UNCHANGED <<log, stream, row, pub, underway, approved>>
    BY <1>2, AwaitsNothing DEF ReleaseGuard
  <2>4. Types'
    BY <2>1, <2>2, <2>3 DEF RetentionInv, Types
  <2>5. RunInv(x)'
    BY <1>0, <2>1, <2>2, <2>3 DEF RunInv, Bounded, Covered, Listed, Awaited, Held
  <2> QED
    BY <2>1, <2>2, <2>3, <2>4, <2>5, RunStepKeeps
<1>3. CASE release_stream_exclusive(x)
  <2>1. /\ DOMAIN run' = Run /\ \A y \in Run \ {x} : run'[y] = run[y]
        /\ DOMAIN run'[x] = Fields /\ run'[x].pc = "idle" /\ run'[x].min = 0
        /\ run'[x].confirmed.min = 0
        /\ run'[x].first = TRUE
    BY <1>0, <1>3 DEF release_stream_exclusive, IdleRun, NoReview, Fields
  <2>2. guard[x] = {} /\ underway[x] = Nothing
    BY <1>0, <1>3, AwaitsNothing DEF release_stream_exclusive, RunInv, Held
  <2> QED
    BY <1>0, <1>3, <2>1, <2>2, LocalStepKeeps DEF release_stream_exclusive
<1>4. CASE Cancel(x)
  <2>1. CASE run[x].pc \in {"locking", "trimming"}
    <3>1. /\ DOMAIN run' = Run /\ \A y \in Run \ {x} : run'[y] = run[y]
          /\ DOMAIN run'[x] = Fields /\ run'[x].pc = run[x].pc /\ run'[x].min = run[x].min
          /\ run'[x].confirmed = run[x].confirmed
          /\ run'[x].entries = run[x].entries /\ run'[x].first = run[x].first
      BY <1>0, <1>4, <2>1 DEF Cancel, Fields
    <3>2. UNCHANGED <<log, stream, row, pub, guard, underway, approved>>
      BY <1>4 DEF Cancel
    <3>3. Types'
      BY <3>1, <3>2 DEF RetentionInv, Types
    <3>4. RunInv(x)'
      BY <1>0, <3>1, <3>2 DEF RunInv, Bounded, Covered, Listed, Awaited, Held
    <3> QED
      BY <3>1, <3>2, <3>3, <3>4, RunStepKeeps
  <2>2. CASE run[x].pc \notin {"locking", "trimming"}
    BY <1>0, <1>4, <2>2, AwaitsNothing, RaiseKeeps DEF Cancel
  <2> QED
    BY <2>1, <2>2
<1>5. CASE Die(x)
  <2>1. /\ DOMAIN run' = Run /\ \A y \in Run \ {x} : run'[y] = run[y]
        /\ DOMAIN run'[x] = Fields /\ run'[x].pc = "idle" /\ run'[x].min = 0
        /\ run'[x].confirmed.min = 0
        /\ run'[x].first = TRUE
    BY <1>0, <1>5 DEF Die, IdleRun, NoReview, Fields
  <2>2. /\ (guard \in [Run -> SUBSET Row])' /\ guard'[x] = {}
        /\ DOMAIN underway' = Run /\ underway'[x] = Nothing
        /\ \A y \in Run \ {x} : guard'[y] = guard[y] /\ underway'[y] = underway[y]
    BY <1>0, <1>5 DEF Die
  <2>3. UNCHANGED <<log, stream, row, pub, approved>>
    BY <1>5 DEF Die
  <2>4. Types'
    BY <2>1, <2>2, <2>3 DEF RetentionInv, Types
  <2>5. RunInv(x)'
    BY <1>0, <2>1, <2>2, <2>3 DEF RunInv, Bounded, Covered, Listed, Awaited, Held
  <2> QED
    BY <2>1, <2>2, <2>3, <2>4, <2>5, RunStepKeeps
<1> QED
  BY <1>1, <1>2, <1>3, <1>4, <1>5

LEMMA InvIsInductive ==
  ASSUME RetentionInv, [Next]_vars
  PROVE  RetentionInv'
<1>1. ASSUME NEW x \in Run, Retention(x)
      PROVE  RetentionInv'
  BY <1>1, LookingKeeps, ListKeeps, LockLedgerKeeps, VerifyKeeps, ScriptKeeps, LeavingKeeps
     DEF Retention
<1> QED
  BY <1>1, TrafficKeeps, EnvironmentKeeps DEF Next

LEMMA InvHolds == Spec => []RetentionInv
<1>1. RetentionInv /\ [Next]_vars => RetentionInv'
  BY InvIsInductive
<1> QED
  BY InitInv, <1>1, PTL DEF Spec

(***************************************************************************)
(* acquire_locked_outbox_ledger and the two finally clauses: a run that is *)
(* over holds no row locks, in whatever step it was cancelled or killed.   *)
(***************************************************************************)
THEOREM GuardIsReleased == Spec => []NoGuardIsLeaked
<1>1. RetentionInv => NoGuardIsLeaked
  BY DEF RetentionInv, RunInv, Held, NoGuardIsLeaked
<1> QED
  BY <1>1, InvHolds, PTL

\* Only the script of trim_stream_at_verified_watermarks removes entries.
LEMMA OnlyTrimRemoves ==
  ASSUME Next, \A x \in Run : ~Trim(x)
  PROVE  Removed = {}
<1> SUFFICES exists' => stream \subseteq stream'
  BY DEF Removed
<1>1. CASE Traffic
  BY <1>1 DEF Traffic, PublisherJoins, Xadd, MarkPublished, PublisherLeaves, EnsureGroup,
              ReadGroup, Acknowledge, CleanUp, streamVars
<1>2. ASSUME NEW x \in Run, Retention(x)
      PROVE  stream' = stream
  BY <1>2 DEF Retention, Begin, Inspect, AskPending, Decide, List, LockLedger, Locked, Verify,
              TrimRefused, Trimmed, ReleaseGuard, release_stream_exclusive, Cancel, Die,
              Outside, streamVars
<1>3. CASE \E t \in Participant \cup Run : LeaseRunsOut(t)
  BY <1>3 DEF LeaseRunsOut, Outside, streamVars
<1>4. CASE StreamLost
  BY <1>4 DEF StreamLost
<1> QED
  BY <1>1, <1>2, <1>3, <1>4 DEF Next

(***************************************************************************)
(* maintain_stream_retention deletes from the Stream only what a replay    *)
(* could bring back: the rows are published, and there, at that moment.    *)
(***************************************************************************)
THEOREM TrimIsRecoverable == Spec => TrimmedIsRecoverable
<1>1. ASSUME RetentionInv, Next
      PROVE  \A id \in Removed : row[log[id]] = "published"
  <2>1. ASSUME NEW x \in Run, Trim(x), NEW id \in Removed
        PROVE  row[log[id]] = "published"
    <3>1. id \in stream /\ id \notin stream' /\ stream' = {i \in stream : i >= underway[x].min}
      BY <2>1 DEF Removed, Trim, XtrimMinId
    <3>2. /\ RunInv(x) /\ underway[x] # Nothing /\ underway[x].op = "trim"
          /\ id \in 1..Len(log) /\ Len(log) \in Nat
      BY <1>1, <2>1, <3>1 DEF RetentionInv, Types, Trim, Nothing
    <3>3. run[x].pc = "trimming" /\ underway[x].min = run[x].min /\ run[x].min \in 0..(Len(log) + 1)
      BY <3>2 DEF RunInv, Awaited, Bounded
    <3>4. id < run[x].min
      BY <3>1, <3>2, <3>3
    <3>5. log[id] \in guard[x]
      BY <3>1, <3>2, <3>3, <3>4 DEF RunInv, Covered, Listed, Awaited
    <3> QED
      BY <3>2, <3>5 DEF RunInv, Held
  <2> QED
    BY <1>1, <2>1, OnlyTrimRemoves
<1>2. RetentionInv /\ [Next]_vars => [\A id \in Removed : row[log[id]] = "published"]_vars
  BY <1>1
<1> QED
  BY <1>2, InvHolds, PTL DEF Spec, TrimmedIsRecoverable

-----------------------------------------------------------------------------
(***************************************************************************)
(* The least and the greatest of some natural numbers.  The library's      *)
(* induction takes an operator; the well-founded order of finite sets does *)
(* not, and 0..m orders sets as m orders numbers.                          *)
(***************************************************************************)
LEMMA StrictPair ==
  ASSUME NEW A \in SUBSET Nat, NEW B \in SUBSET Nat, A \subseteq B, A # B
  PROVE  <<A, B>> \in StrictSubsetOrdering(Nat)
  BY DEF StrictSubsetOrdering

LEMMA LeastExists ==
  ASSUME NEW S \in SUBSET Nat, S # {}
  PROVE  \E m \in S : \A k \in S : m <= k
<1> DEFINE T == {0..m : m \in S}
<1>1. T \subseteq FiniteSubsetsOf(Nat) /\ T # {}
  <2>1. ASSUME NEW m \in S PROVE IsFiniteSet(0..m) /\ 0..m \in SUBSET Nat
    BY FS_Interval
  <2> QED
    BY <2>1 DEF FiniteSubsetsOf
<1>2. PICK U \in T : \A V \in T : <<V, U>> \notin StrictSubsetOrdering(Nat)
  <2> HIDE DEF T
  <2> QED
    BY <1>1, WFMin, FS_StrictSubsetOrderingWellFounded
<1>3. PICK m \in S : U = 0..m
  OBVIOUS
<1>4. ASSUME NEW k \in S, k < m PROVE FALSE
  <2>1. /\ 0..k \in SUBSET Nat /\ 0..m \in SUBSET Nat /\ 0..k \subseteq 0..m
        /\ m \in 0..m /\ m \notin 0..k
    BY <1>4
  <2>2. 0..k # 0..m
    BY <2>1
  <2>3. <<0..k, 0..m>> \in StrictSubsetOrdering(Nat)
    BY <2>1, <2>2, StrictPair
  <2>4. 0..k \in T
    BY <1>4
  <2> HIDE DEF T
  <2>5. <<0..k, U>> \notin StrictSubsetOrdering(Nat)
    BY <1>2, <2>4, Zenon
  <2> QED
    BY <1>3, <2>3, <2>5, Zenon
<1> QED
  BY <1>4

LEMMA MinIsLeast ==
  ASSUME NEW S \in SUBSET Nat, S # {}
  PROVE  Min(S) \in S /\ \A k \in S : Min(S) <= k
  BY LeastExists DEF Min

LEMMA MaxIsGreatest ==
  ASSUME NEW n \in Nat, NEW S \in SUBSET (0..n), S # {}
  PROVE  Max(S) \in S /\ \A k \in S : k <= Max(S)
<1> DEFINE D == {n - k : k \in S}
<1>1. D \in SUBSET Nat /\ D # {}
  <2>1. ASSUME NEW k \in S PROVE n - k \in Nat
    OBVIOUS
  <2> QED
    BY <2>1
<1>2. PICK d \in D : \A e \in D : d <= e
  <2> HIDE DEF D
  <2> QED
    BY <1>1, LeastExists
<1>3. \E x \in S : \A k \in S : x >= k
  BY <1>2
<1> QED
  BY <1>3 DEF Max

-----------------------------------------------------------------------------
(***************************************************************************)
(* The invariant behind NothingUnreadIsTrimmed: from Decide on, a run's    *)
(* boundary is within what every group allowed at the first inspection,    *)
(* and the marks the script compares allow it still.                       *)
(***************************************************************************)
Marks == [last : Nat, count : Nat, first : Nat]

GroupTypes ==
    /\ Len(log) <= MaxLen /\ stream \subseteq Id
    /\ group \in [Group -> [here : BOOLEAN, last : Nat, pending : SUBSET Id]]

Decided(x) == run[x].pc = "listing" \/ Listed(x)

MarkInv(x) ==
    /\ \A g \in DOMAIN run[x].marks : run[x].marks[g] \in Marks
    /\ Decided(x) => \A g \in DOMAIN run[x].before :
                        run[x].before[g] \in Nat /\ run[x].min <= run[x].before[g]
    /\ underway[x].op = "trim" => \A g \in DOMAIN underway[x].marks :
                                    underway[x].min <= SafeBoundary(underway[x].marks[g])

BoundaryInv == RetentionInv /\ GroupTypes /\ \A x \in Run : MarkInv(x)

LEMMA BoundaryInit == Init => BoundaryInv
<1> SUFFICES ASSUME Init PROVE BoundaryInv
  OBVIOUS
<1>1. GroupTypes
  BY RetentionAssumption DEF Init, GroupTypes, NoGroup, Id
<1>2. ASSUME NEW x \in Run PROVE MarkInv(x)
  BY DEF Init, MarkInv, Decided, Listed, IdleRun, Nothing
<1> QED
  BY InitInv, <1>1, <1>2 DEF BoundaryInv

LEMMA BoundaryAbove ==
  ASSUME NEW mark \in Marks
  PROVE  /\ SafeBoundary(mark) \in Nat
         /\ SafeBoundary(mark) <= mark.last
         /\ mark.count # 0 => SafeBoundary(mark) <= mark.first
<1>1. {mark.last, mark.first} \in SUBSET Nat /\ {mark.last, mark.first} # {}
  BY DEF Marks
<1>2. /\ Min({mark.last, mark.first}) \in Nat
      /\ Min({mark.last, mark.first}) <= mark.last /\ Min({mark.last, mark.first}) <= mark.first
  BY <1>1, MinIsLeast
<1> QED
  BY <1>2 DEF SafeBoundary, Marks

LEMMA MarkIsTyped ==
  ASSUME GroupTypes, NEW g \in Group
  PROVE  /\ Mark(g) \in Marks /\ IsFiniteSet(group[g].pending) /\ group[g].pending \subseteq Nat
         /\ Mark(g).count = Cardinality(group[g].pending)
<1>1. IsFiniteSet(Id) /\ Id \subseteq Nat
  BY RetentionAssumption, FS_Interval DEF Id
<1>2. group[g].pending \in SUBSET Id /\ group[g].last \in Nat
  BY DEF GroupTypes
<1>3. IsFiniteSet(group[g].pending)
  BY <1>1, <1>2, FS_Subset
<1> QED
  BY <1>1, <1>2, <1>3, FS_CardinalityType DEF Mark, Marks

LEMMA GroupTypesKept ==
  ASSUME RetentionInv, GroupTypes, [Next]_vars
  PROVE  GroupTypes'
<1> USE DEF GroupTypes
<1>1. ASSUME NEW p \in Publisher, PublisherJoins(p) \/ MarkPublished(p) \/ PublisherLeaves(p)
      PROVE  GroupTypes'
  BY <1>1 DEF PublisherJoins, MarkPublished, PublisherLeaves, streamVars
<1>2. ASSUME NEW p \in Publisher, NEW r \in Row, Xadd(p, r)
      PROVE  GroupTypes'
  <2>1. /\ log' = Append(log, r) /\ stream' = stream \cup {Len(log) + 1} /\ group' = group
        /\ Len(log) < MaxLen /\ log \in Seq(Row) /\ MaxLen \in Nat
    BY <1>2, RetentionAssumption DEF Xadd, RetentionInv, Types
  <2>2. Len(log') = Len(log) + 1 /\ Len(log) \in Nat
    BY <2>1
  <2>3. Len(log) + 1 \in Id
    BY <2>1, <2>2 DEF Id
  <2>4. Len(log') <= MaxLen
    BY <2>1, <2>2
  <2>5. Id' = Id
    BY DEF Id
  <2>6. stream' \subseteq Id
    BY <2>1, <2>3
  <2> QED
    BY <2>1, <2>4, <2>5, <2>6
<1>3. ASSUME NEW g \in Group, EnsureGroup(g) \/ \E id \in Id : Acknowledge(g, id)
      PROVE  GroupTypes'
  <2>1. CASE EnsureGroup(g)
    <3>1. NewGroup \in [here : BOOLEAN, last : Nat, pending : SUBSET Id]
      BY DEF NewGroup, NoGroup
    <3>2. group' = [group EXCEPT ![g] = NewGroup] /\ UNCHANGED <<log, stream>>
      BY <2>1 DEF EnsureGroup
    <3>3. (group \in [Group -> [here : BOOLEAN, last : Nat, pending : SUBSET Id]])'
      BY <3>1, <3>2 DEF Id
    <3> QED
      BY <3>2, <3>3 DEF Id
  <2>2. ASSUME NEW id \in Id, Acknowledge(g, id)
        PROVE  GroupTypes'
    <3>1. group' = [group EXCEPT ![g].pending = @ \ {id}] /\ UNCHANGED <<log, stream>>
      BY <2>2 DEF Acknowledge, streamVars
    <3>2. (group \in [Group -> [here : BOOLEAN, last : Nat, pending : SUBSET Id]])'
      BY <3>1 DEF Id
    <3> QED
      BY <3>1, <3>2 DEF Id
  <2> QED
    BY <1>3, <2>1, <2>2
<1>4. ASSUME NEW g \in Group, ReadGroup(g)
      PROVE  GroupTypes'
  <2> DEFINE new == {id \in stream : id > group[g].last}
  <2>1. /\ new # {} /\ UNCHANGED <<log, stream>>
        /\ group' = [group EXCEPT ![g].last = Max(new), ![g].pending = @ \cup new]
    BY <1>4 DEF ReadGroup, streamVars
  <2>2. new \in SUBSET Id /\ Id \subseteq 0..MaxLen
    <3>1. Id \subseteq 0..MaxLen
      BY RetentionAssumption DEF Id
    <3> QED
      BY <3>1
  <2> HIDE DEF new
  <2>3. Max(new) \in Nat
    BY <2>1, <2>2, RetentionAssumption, MaxIsGreatest DEF Id
  <2>4. (group \in [Group -> [here : BOOLEAN, last : Nat, pending : SUBSET Id]])'
    BY <2>1, <2>2, <2>3 DEF Id
  <2> QED
    BY <2>1, <2>4 DEF Id
<1>5. ASSUME NEW r \in Row, CleanUp(r)
      PROVE  GroupTypes'
  BY <1>5 DEF CleanUp, streamVars
<1>6. ASSUME NEW x \in Run, Retention(x)
      PROVE  GroupTypes'
  <2>1. /\ UNCHANGED <<log, group>> /\ stream' \subseteq stream
    BY <1>6 DEF Retention, Begin, Inspect, AskPending, Decide, List, LockLedger, Locked, Verify,
                Trim, XtrimMinId, TrimRefused, Trimmed, ReleaseGuard, release_stream_exclusive,
                Cancel, Die, Outside, streamVars
  <2> QED
    BY <2>1 DEF Id
<1>7. CASE \E t \in Participant \cup Run : LeaseRunsOut(t)
  BY <1>7 DEF LeaseRunsOut, Outside, streamVars, Id
<1>8. CASE StreamLost
  BY <1>8 DEF StreamLost, NoGroup, Id
<1>9. CASE UNCHANGED vars
  BY <1>9 DEF vars, streamVars, Id
<1> QED
  BY <1>1, <1>2, <1>3, <1>4, <1>5, <1>6, <1>7, <1>8, <1>9 DEF Next, Traffic

\* What run x does is nothing to the marks of the others.
LEMMA OthersKeepMarks ==
  ASSUME RetentionInv, NEW x \in Run, Retention(x), NEW y \in Run, y # x, MarkInv(y)
  PROVE  MarkInv(y)'
<1>1. run'[y] = run[y] /\ underway'[y] = underway[y]
  BY DEF RetentionInv, Types, Retention, Begin, Inspect, AskPending, Decide, List, LockLedger,
         Locked, Verify, Trim, XtrimMinId, TrimRefused, Trimmed, ReleaseGuard,
         release_stream_exclusive, Cancel, Die, Raise, Goto
<1> QED
  BY <1>1 DEF MarkInv, Decided, Listed

\* A run that awaits nothing keeps its marks, or forgets them.
LEMMA LocalMarks ==
  ASSUME RetentionInv, NEW x \in Run, MarkInv(x), underway'[x] = Nothing,
         \A g \in DOMAIN run'[x].marks : run'[x].marks[g] \in Marks,
         \/ run'[x].pc \notin {"listing", "locking", "trimming"} /\ run'[x].first
         \/ /\ Decided(x)
            /\ run'[x].min = run[x].min /\ run'[x].before = run[x].before
  PROVE  MarkInv(x)'
  BY DEF MarkInv, Decided, Listed, Nothing

LEMMA RaiseMarks ==
  ASSUME RetentionInv, NEW x \in Run, MarkInv(x), underway'[x] = Nothing, Raise(x)
  PROVE  MarkInv(x)'
<1>1. run'[x].marks = <<>> /\ run'[x].first = TRUE /\ run'[x].pc \in {"leaving", "releasing"}
  BY DEF RetentionInv, Types, Raise, IdleRun
<1> QED
  BY <1>1, LocalMarks

LEMMA OwnKeepsMarks ==
  ASSUME RetentionInv, GroupTypes, NEW x \in Run, Retention(x), MarkInv(x)
  PROVE  MarkInv(x)'
<1>0. DOMAIN run = Run /\ DOMAIN run[x] = Fields /\ DOMAIN underway = Run
  BY DEF RetentionInv, Types
<1>1. CASE \E execute \in BOOLEAN : Begin(x, execute)
  <2>1. PICK execute \in BOOLEAN : Begin(x, execute)
    BY <1>1
  <2>2. /\ run'[x].marks = <<>> /\ run'[x].first = TRUE /\ run'[x].pc = "inspecting"
        /\ underway'[x] = Nothing
    BY <1>0, <2>1, AwaitsNothing DEF Begin, IdleRun
  <2> QED
    BY <2>2, LocalMarks
<1>2. CASE Inspect(x)
  <2>1. underway'[x] = Nothing
    BY <1>2, AwaitsNothing DEF Inspect
  <2>2. CASE run' = [run EXCEPT ![x].pc = "asking",
                               ![x].marks = [g \in Present |-> Mark(g)],
                               ![x].todo = {g \in Present : group[g].pending # {}}]
    <3>1. /\ run'[x].pc = "asking" /\ run'[x].first = run[x].first /\ run'[x].min = run[x].min
          /\ run'[x].before = run[x].before /\ run'[x].marks = [g \in Present |-> Mark(g)]
      BY <1>0, <2>2 DEF Fields
    <3>2. \A g \in Present : Mark(g) \in Marks
      BY MarkIsTyped DEF Present
    <3>3. \A g \in DOMAIN run'[x].marks : run'[x].marks[g] \in Marks
      BY <3>1, <3>2
    <3> QED
      BY <2>1, <3>1, <3>3, LocalMarks DEF Decided, Listed
  <2> QED
    BY <1>2, <2>1, <2>2, RaiseMarks DEF Inspect
<1>3. CASE \E g \in Group : AskPending(x, g)
  <2>1. PICK g \in Group : AskPending(x, g)
    BY <1>3
  <2>2. underway'[x] = Nothing
    BY <2>1, AwaitsNothing DEF AskPending
  <2>3. CASE group[g].pending # {} /\
             run' = [run EXCEPT ![x].todo = @ \ {g},
                               ![x].marks = [@ EXCEPT ![g].first = Min(group[g].pending)]]
    <3> DEFINE first == Min(group[g].pending)
    <3>1. first \in Nat
      BY <2>3, MarkIsTyped, MinIsLeast
    <3> HIDE DEF first
    <3>2. /\ run'[x].pc = run[x].pc /\ run'[x].first = run[x].first /\ run'[x].min = run[x].min
          /\ run'[x].before = run[x].before
          /\ run'[x].marks = [run[x].marks EXCEPT ![g].first = first]
      BY <1>0, <2>3 DEF Fields, first
    <3>3. \A h \in DOMAIN run'[x].marks : run'[x].marks[h] \in Marks
      BY <3>1, <3>2 DEF MarkInv, Marks
    <3> QED
      BY <2>1, <2>2, <3>2, <3>3, LocalMarks DEF AskPending, Decided, Listed
  <2> QED
    BY <2>1, <2>2, <2>3, RaiseMarks DEF AskPending
<1>4. CASE Decide(x)
  <2>1. underway'[x] = Nothing
    BY <1>4, AwaitsNothing DEF Decide
  <2>2. ASSUME NEW calculated \in Calculable(x), ~(run[x].execute /\ calculated < run[x].confirmed.min),
               run' = [run EXCEPT ![x].pc = "listing", ![x].min = TrimMin(x, calculated),
                 ![x].before = [g \in DOMAIN run[x].marks |-> SafeBoundary(run[x].marks[g])],
                 ![x].marks = <<>>]
        PROVE  MarkInv(x)'
    <3>1. /\ run'[x].min = TrimMin(x, calculated) /\ run'[x].marks = <<>>
          /\ run'[x].before = [g \in DOMAIN run[x].marks |-> SafeBoundary(run[x].marks[g])]
      BY <1>0, <2>2 DEF Fields
    <3>2. /\ calculated \in Nat /\ \A g \in DOMAIN run[x].marks :
                                    calculated <= SafeBoundary(run[x].marks[g])
          /\ run[x].confirmed.min \in Nat /\ Len(log) \in Nat
      <4>1. calculated \in 0..(Len(log) + 1)
        BY <2>2 DEF Calculable
      <4>2. ASSUME NEW g \in DOMAIN run[x].marks
            PROVE  calculated <= SafeBoundary(run[x].marks[g])
        BY <2>2 DEF Calculable
      <4>3. run[x].confirmed.min \in Nat /\ Len(log) \in Nat
        BY DEF RetentionInv, Types, RunInv, Bounded
      <4> QED
        BY <4>1, <4>2, <4>3
    <3>3. TrimMin(x, calculated) \in Nat /\ TrimMin(x, calculated) <= calculated
      <4>1. CASE run[x].execute
        <5>1. TrimMin(x, calculated) = run[x].confirmed.min /\ ~(calculated < run[x].confirmed.min)
          BY <2>2, <4>1, Zenon DEF TrimMin
        <5> QED
          BY <3>2, <5>1
      <4>2. CASE ~run[x].execute
        <5>1. TrimMin(x, calculated) = calculated
          BY <4>2, Zenon DEF TrimMin
        <5> QED
          BY <3>2, <5>1
      <4> QED
        BY <4>1, <4>2
    <3>4. \A g \in DOMAIN run[x].marks : SafeBoundary(run[x].marks[g]) \in Nat
      BY BoundaryAbove DEF MarkInv
    <3> QED
      BY <2>1, <3>1, <3>2, <3>3, <3>4 DEF MarkInv, Nothing
  <2> QED
    BY <1>4, <2>1, <2>2, RaiseMarks DEF Decide
<1>5. CASE List(x)
  <2>1. /\ run'[x].pc = "locking" /\ run'[x].min = run[x].min /\ run'[x].before = run[x].before
        /\ run'[x].marks = run[x].marks /\ run[x].pc = "listing" /\ underway'[x].op = "lock"
    BY <1>0, <1>5 DEF List, Fields
  <2> QED
    BY <2>1 DEF MarkInv, Decided, Listed
<1>6. CASE LockLedger(x) \/ Trim(x) \/ TrimRefused(x)
  <2>1. run' = run /\ underway'[x] = Nothing
    BY <1>0, <1>6 DEF LockLedger, Trim, XtrimMinId, TrimRefused, Outside
  <2> QED
    BY <2>1 DEF MarkInv, Decided, Listed, Nothing
<1>7. CASE Locked(x)
  <2>1. CASE run' = [run EXCEPT ![x].pc = "inspecting", ![x].first = FALSE]
    <3>1. /\ run'[x].min = run[x].min /\ run'[x].before = run[x].before
          /\ run'[x].marks = run[x].marks
      BY <1>0, <2>1 DEF Fields
    <3> QED
      BY <1>7, <3>1, LocalMarks DEF Locked, MarkInv, Decided, Listed
  <2> QED
    BY <1>7, <2>1, RaiseMarks DEF Locked
<1>8. CASE Verify(x)
  <2>1. CASE ~Regressed(run[x].before, run[x].marks) /\ Goto(x, "trimming") /\
             underway' = [underway EXCEPT ![x] =
                             [op |-> "trim", min |-> run[x].min, marks |-> run[x].marks]]
    <3>1. /\ run'[x].min = run[x].min /\ run'[x].before = run[x].before
          /\ run'[x].marks = run[x].marks /\ underway'[x].marks = run[x].marks
          /\ underway'[x].min = run[x].min /\ Decided(x)
      BY <1>0, <1>8, <2>1 DEF Goto, Fields, Verify, Decided, Listed
    <3>2. run[x].min \in Nat /\ Len(log) \in Nat
      BY DEF RetentionInv, Types, RunInv, Bounded
    <3>3. ASSUME NEW g \in DOMAIN run[x].marks
          PROVE  run[x].min <= SafeBoundary(run[x].marks[g])
      <4>1. g \in DOMAIN run[x].before /\ ~(SafeBoundary(run[x].marks[g]) < run[x].before[g])
        BY <2>1 DEF Regressed
      <4>2. run[x].before[g] \in Nat /\ run[x].min <= run[x].before[g]
        BY <3>1, <4>1 DEF MarkInv
      <4>3. SafeBoundary(run[x].marks[g]) \in Nat
        BY BoundaryAbove DEF MarkInv
      <4> QED
        BY <3>2, <4>1, <4>2, <4>3
    <3> QED
      BY <3>1, <3>3 DEF MarkInv
  <2>2. CASE Raise(x) /\ UNCHANGED underway
    BY <1>8, <2>2, AwaitsNothing, RaiseMarks DEF Verify
  <2> QED
    BY <1>8, <2>1, <2>2, Zenon DEF Verify
<1>9. CASE Trimmed(x)
  BY <1>9, RaiseMarks DEF Trimmed
<1>10. CASE ReleaseGuard(x)
  <2>1. /\ run'[x].pc = "leaving" /\ run'[x].min = run[x].min /\ run'[x].before = run[x].before
        /\ run'[x].marks = run[x].marks /\ run'[x].first = run[x].first
        /\ underway'[x] = Nothing
    BY <1>0, <1>10, AwaitsNothing DEF ReleaseGuard, Goto, Fields
  <2> QED
    BY <2>1, LocalMarks DEF MarkInv, Decided, Listed
<1>11. CASE release_stream_exclusive(x) \/ Die(x)
  <2>1. /\ run'[x].marks = <<>> /\ run'[x].first = TRUE /\ run'[x].pc = "idle"
        /\ underway'[x] = Nothing
    BY <1>0, <1>11, AwaitsNothing DEF release_stream_exclusive, Die, IdleRun
  <2> QED
    BY <2>1, LocalMarks
<1>12. CASE Cancel(x)
  <2>1. CASE run' = [run EXCEPT ![x].cancelled = TRUE]
    <3>1. /\ run'[x].pc = run[x].pc /\ run'[x].min = run[x].min /\ run'[x].first = run[x].first
          /\ run'[x].before = run[x].before /\ run'[x].marks = run[x].marks
          /\ underway' = underway
      BY <1>0, <1>12, <2>1 DEF Fields, Cancel
    <3> QED
      BY <3>1 DEF MarkInv, Decided, Listed
  <2>2. CASE Raise(x) /\ run[x].pc \notin {"locking", "trimming"}
    BY <1>12, <2>2, AwaitsNothing, RaiseMarks DEF Cancel
  <2> QED
    BY <1>12, <2>1, <2>2 DEF Cancel
<1> QED
  BY <1>1, <1>2, <1>3, <1>4, <1>5, <1>6, <1>7, <1>8, <1>9, <1>10, <1>11, <1>12 DEF Retention

LEMMA BoundaryHolds == Spec => []BoundaryInv
<1>1. ASSUME BoundaryInv, [Next]_vars
      PROVE  BoundaryInv'
  <2>1. RetentionInv' /\ GroupTypes'
    BY <1>1, InvIsInductive, GroupTypesKept DEF BoundaryInv
  <2>2. ASSUME NEW x \in Run, Retention(x), NEW y \in Run
        PROVE  MarkInv(y)'
    BY <1>1, <2>2, OwnKeepsMarks, OthersKeepMarks DEF BoundaryInv
  <2>3. ASSUME ~\E x \in Run : Retention(x), NEW y \in Run
        PROVE  MarkInv(y)'
    <3>1. run' = run /\ underway' = underway
      BY <1>1, <2>3 DEF Next, Traffic, PublisherJoins, Xadd, MarkPublished, PublisherLeaves,
                        EnsureGroup, ReadGroup, Acknowledge, CleanUp, LeaseRunsOut, StreamLost,
                        vars, runVars
    <3>2. MarkInv(y)
      BY <1>1 DEF BoundaryInv
    <3> QED
      BY <3>1, <3>2 DEF MarkInv, Decided, Listed
  <2> QED
    BY <2>1, <2>2, <2>3 DEF BoundaryInv
<1> QED
  BY BoundaryInit, <1>1, PTL DEF Spec

(***************************************************************************)
(* What trim_stream_at_verified_watermarks deletes, every group that       *)
(* exists at that moment has received and acknowledged, for any number of  *)
(* groups, runs, publishers and entries, although consumers act beside the *)
(* fence at any time.                                                      *)
(***************************************************************************)
THEOREM TrimIsBehindEveryGroup == Spec => NothingUnreadIsTrimmed
<1> DEFINE Read == \A id \in Removed : \A g \in Present :
                     id <= group[g].last /\ id \notin group[g].pending
<1>1. ASSUME BoundaryInv, Next
      PROVE  Read
  <2>1. ASSUME NEW x \in Run, Trim(x), NEW id \in Removed, NEW g \in Present
        PROVE  id <= group[g].last /\ id \notin group[g].pending
    <3> DEFINE min == underway[x].min
               mark == underway[x].marks[g]
    <3>1. id \in stream /\ id \notin stream' /\ stream' = {i \in stream : i >= min}
      BY <2>1 DEF Removed, Trim, XtrimMinId
    <3>2. /\ MarkInv(x) /\ GroupTypes /\ RunInv(x) /\ underway[x] # Nothing
          /\ id \in 1..Len(log) /\ Len(log) \in Nat /\ g \in Group
      BY <1>1, <2>1, <3>1 DEF BoundaryInv, RetentionInv, Types, Trim, Nothing, Present
    <3>3. min \in Nat
      BY <2>1, <3>2 DEF RunInv, Awaited, Bounded, Trim
    <3>4. g \in DOMAIN underway[x].marks /\ mark = Now(g) /\ min <= SafeBoundary(mark)
      BY <2>1, <3>2 DEF Trim, Unchanged, MarkInv
    <3> HIDE DEF min, mark
    <3>5. id < min
      BY <3>1, <3>2, <3>3
    <3>6. /\ Mark(g) \in Marks /\ IsFiniteSet(group[g].pending) /\ group[g].pending \subseteq Nat
          /\ Mark(g).count = Cardinality(group[g].pending)
      BY <3>2, MarkIsTyped
    <3>7. CASE group[g].pending = {}
      <4>1. Now(g) \in Marks /\ Now(g).last = group[g].last
        BY <3>6, <3>7 DEF Now, Mark, Marks
      <4>2. SafeBoundary(mark) \in Nat /\ SafeBoundary(mark) <= group[g].last
        BY <3>4, <4>1, BoundaryAbove
      <4>3. group[g].last \in Nat
        BY <3>2 DEF GroupTypes
      <4> QED
        BY <3>2, <3>3, <3>4, <3>5, <3>7, <4>2, <4>3
    <3>8. CASE group[g].pending # {}
      <4> DEFINE first == Min(group[g].pending)
      <4>1. first \in Nat /\ \A k \in group[g].pending : first <= k
        BY <3>6, <3>8, MinIsLeast
      <4> HIDE DEF first
      <4>2. Mark(g).count # 0
        BY <3>6, <3>8, FS_EmptySet
      <4>3. Mark(g).first = 0
        BY DEF Mark
      <4>4. /\ Now(g) = [Mark(g) EXCEPT !.first = first]
        BY <3>8, <4>3 DEF Now, first
      <4>5. /\ Now(g) \in Marks /\ Now(g).first = first /\ Now(g).last = group[g].last
            /\ Now(g).count # 0
        BY <3>6, <4>1, <4>2, <4>4 DEF Mark, Marks
      <4>6. /\ SafeBoundary(mark) \in Nat /\ SafeBoundary(mark) <= group[g].last
            /\ SafeBoundary(mark) <= first
        BY <3>4, <4>5, BoundaryAbove
      <4>7. group[g].last \in Nat
        BY <3>2 DEF GroupTypes
      <4>8. id < first
        BY <3>2, <3>3, <3>4, <3>5, <4>1, <4>6
      <4>9. id \notin group[g].pending
        BY <3>2, <3>6, <4>1, <4>8
      <4> QED
        BY <3>2, <3>3, <3>4, <3>5, <4>6, <4>7, <4>9
    <3> QED
      BY <3>7, <3>8
  <2> QED
    BY <1>1, <2>1, OnlyTrimRemoves
<1>2. BoundaryInv /\ [Next]_vars => [Read]_vars
  BY <1>1
<1> QED
  BY <1>2, BoundaryHolds, PTL DEF Spec, NothingUnreadIsTrimmed
-----------------------------------------------------------------------------
(***************************************************************************)
(* The invariant behind OnlyWhatWasReviewed: a report goes on to list all  *)
(* that is left of the Stream below its boundary, since entries are added  *)
(* above it, and an executing run keeps to the boundary it was given.      *)
(***************************************************************************)
Reviewed(report) == \A id \in stream : id < report.min => id \in report.entries

ConfirmedInv(x) ==
    /\ Reviewed(run[x].confirmed)
    /\ underway[x].op = "trim" => run[x].execute
    /\ run[x].execute /\ Decided(x) => run[x].min = run[x].confirmed.min

ReviewInv == RetentionInv /\ Reviewed(approved) /\ \A x \in Run : ConfirmedInv(x)

LEMMA ReviewInit == Init => ReviewInv
  BY InitInv DEF Init, ReviewInv, Reviewed, ConfirmedInv, Decided, Listed, IdleRun, NoReview, Nothing

\* No entry appears but at the end of the log.
LEMMA EntriesAppearLast ==
  ASSUME RetentionInv, [Next]_vars, NEW id \in stream'
  PROVE  id \in stream \/ id = Len(log) + 1
<1>1. CASE Traffic
  BY <1>1 DEF Traffic, PublisherJoins, Xadd, MarkPublished, PublisherLeaves, EnsureGroup,
              ReadGroup, Acknowledge, CleanUp, streamVars
<1>2. ASSUME NEW x \in Run, Retention(x)
      PROVE  stream' \subseteq stream
  BY <1>2 DEF Retention, Begin, Inspect, AskPending, Decide, List, LockLedger, Locked, Verify,
              Trim, XtrimMinId, TrimRefused, Trimmed, ReleaseGuard, release_stream_exclusive,
              Cancel, Die, Outside, streamVars
<1>3. CASE \E t \in Participant \cup Run : LeaseRunsOut(t)
  BY <1>3 DEF LeaseRunsOut, Outside, streamVars
<1>4. CASE StreamLost
  BY <1>4 DEF StreamLost
<1>5. CASE UNCHANGED vars
  BY <1>5 DEF vars, streamVars
<1> QED
  BY <1>1, <1>2, <1>3, <1>4, <1>5 DEF Next

LEMMA ReportStands ==
  ASSUME RetentionInv, [Next]_vars, NEW report, Reviewed(report),
         report.min \in 0..(Len(log) + 1)
  PROVE  \A id \in stream' : id < report.min => id \in report.entries
<1> SUFFICES ASSUME NEW id \in stream', id < report.min
             PROVE  id \in stream
  BY DEF Reviewed
<1>1. Len(log) \in Nat
  BY DEF RetentionInv, Types
<1>2. id # Len(log) + 1
  BY <1>1
<1> QED
  BY <1>2, EntriesAppearLast

\* How a run's confirmation changes: not, when it begins, or when it is over.
LEMMA OwnKeepsConfirmation ==
  ASSUME ReviewInv, NEW x \in Run, Retention(x)
  PROVE  /\ run'[x].confirmed \in {run[x].confirmed, approved, NoReview}
         /\ underway'[x].op = "trim" => run'[x].execute
         /\ run'[x].execute /\ (Decided(x))' => run'[x].min = run'[x].confirmed.min
<1> DEFINE Goal == /\ run'[x].confirmed \in {run[x].confirmed, approved, NoReview}
                   /\ underway'[x].op = "trim" => run'[x].execute
                   /\ run'[x].execute /\ (Decided(x))' => run'[x].min = run'[x].confirmed.min
<1>0. /\ DOMAIN run = Run /\ DOMAIN run[x] = Fields /\ DOMAIN underway = Run
      /\ RetentionInv /\ ConfirmedInv(x)
  BY DEF ReviewInv, RetentionInv, Types
\* The run goes on with the same confirmation, or is over.
<1>a. ASSUME run'[x].confirmed = run[x].confirmed, run'[x].execute = run[x].execute,
             run'[x].min = run[x].min, (Decided(x))' => Decided(x),
             underway'[x].op = "trim" => run[x].execute
      PROVE  Goal
  BY <1>0, <1>a DEF ConfirmedInv
<1>b. ASSUME run'[x].confirmed = NoReview, run'[x].execute = FALSE, underway'[x] = Nothing
      PROVE  Goal
  BY <1>b DEF Nothing
<1>c. ASSUME Raise(x), underway'[x] = Nothing
      PROVE  Goal
  <2>1. run'[x].confirmed = NoReview /\ run'[x].execute = FALSE
    BY <1>0, <1>c DEF Raise, IdleRun
  <2> QED
    BY <1>b, <1>c, <2>1
<1>1. CASE \E execute \in BOOLEAN : Begin(x, execute)
  <2>1. PICK execute \in BOOLEAN : Begin(x, execute)
    BY <1>1
  <2>2. /\ run'[x].confirmed \in {approved, NoReview} /\ run'[x].first = TRUE
        /\ run'[x].pc = "inspecting" /\ underway'[x] = Nothing
    BY <1>0, <2>1, AwaitsNothing DEF Begin, IdleRun
  <2> QED
    BY <2>2 DEF Decided, Listed, Nothing
<1>2. CASE Inspect(x)
  <2>1. underway'[x] = Nothing
    BY <1>0, <1>2, AwaitsNothing DEF Inspect
  <2>2. CASE run' = [run EXCEPT ![x].pc = "asking",
                               ![x].marks = [g \in Present |-> Mark(g)],
                               ![x].todo = {g \in Present : group[g].pending # {}}]
    <3>1. /\ run'[x].pc = "asking" /\ run'[x].first = run[x].first /\ run'[x].min = run[x].min
          /\ run'[x].confirmed = run[x].confirmed /\ run'[x].execute = run[x].execute
      BY <1>0, <2>2 DEF Fields
    <3> QED
      BY <1>a, <2>1, <3>1 DEF Decided, Listed, Nothing
  <2> QED
    BY <1>2, <1>c, <2>1, <2>2 DEF Inspect
<1>3. CASE \E g \in Group : AskPending(x, g)
  <2>1. PICK g \in Group : AskPending(x, g)
    BY <1>3
  <2>2. underway'[x] = Nothing
    BY <1>0, <2>1, AwaitsNothing DEF AskPending
  <2>3. CASE run' = [run EXCEPT ![x].todo = @ \ {g},
                               ![x].marks = [@ EXCEPT ![g].first = Min(group[g].pending)]]
    <3>1. /\ run'[x].pc = run[x].pc /\ run'[x].first = run[x].first /\ run'[x].min = run[x].min
          /\ run'[x].confirmed = run[x].confirmed /\ run'[x].execute = run[x].execute
      BY <1>0, <2>3 DEF Fields
    <3> QED
      BY <1>a, <2>2, <3>1 DEF Decided, Listed, Nothing
  <2> QED
    BY <1>c, <2>1, <2>2, <2>3 DEF AskPending
<1>4. CASE Decide(x)
  <2>1. underway'[x] = Nothing
    BY <1>0, <1>4, AwaitsNothing DEF Decide
  <2>2. ASSUME NEW calculated \in Calculable(x),
               run' = [run EXCEPT ![x].pc = "listing", ![x].min = TrimMin(x, calculated),
                 ![x].before = [g \in DOMAIN run[x].marks |-> SafeBoundary(run[x].marks[g])],
                 ![x].marks = <<>>]
        PROVE  Goal
    <3>1. /\ run'[x].min = TrimMin(x, calculated) /\ run'[x].execute = run[x].execute
          /\ run'[x].confirmed = run[x].confirmed
      BY <1>0, <2>2 DEF Fields
    <3>2. run[x].execute => TrimMin(x, calculated) = run[x].confirmed.min
      BY Zenon DEF TrimMin
    <3> QED
      BY <2>1, <3>1, <3>2 DEF Nothing
  <2> QED
    BY <1>4, <1>c, <2>1, <2>2 DEF Decide
<1>5. CASE List(x)
  <2>1. /\ run'[x].min = run[x].min /\ run'[x].confirmed = run[x].confirmed
        /\ run'[x].execute = run[x].execute /\ run[x].pc = "listing"
        /\ underway'[x].op = "lock"
    BY <1>0, <1>5 DEF List, Fields
  <2> QED
    BY <1>a, <2>1 DEF Decided
<1>6. CASE LockLedger(x) \/ Trim(x) \/ TrimRefused(x)
  <2>1. run' = run /\ underway'[x] = Nothing
    BY <1>0, <1>6 DEF LockLedger, Trim, XtrimMinId, TrimRefused, Outside
  <2> QED
    BY <1>a, <2>1 DEF Decided, Listed, Nothing
<1>7. CASE Locked(x)
  <2>1. underway'[x] = Nothing
    BY <1>7 DEF Locked
  <2>2. CASE run' = [run EXCEPT ![x].pc = "inspecting", ![x].first = FALSE]
    <3>1. /\ run'[x].min = run[x].min /\ run'[x].confirmed = run[x].confirmed
          /\ run'[x].execute = run[x].execute /\ Decided(x)
      BY <1>0, <1>7, <2>2 DEF Fields, Locked, Decided, Listed
    <3> QED
      BY <1>a, <2>1, <3>1 DEF Nothing
  <2> QED
    BY <1>7, <1>c, <2>1, <2>2 DEF Locked
<1>8. CASE Verify(x)
  <2>1. CASE run[x].execute /\ Goto(x, "trimming")
    <3>1. /\ run'[x].min = run[x].min /\ run'[x].confirmed = run[x].confirmed
          /\ run'[x].execute = run[x].execute /\ Decided(x)
      BY <1>0, <1>8, <2>1 DEF Fields, Goto, Verify, Decided, Listed
    <3> QED
      BY <1>a, <2>1, <3>1
  <2>2. CASE Raise(x) /\ UNCHANGED underway
    <3>1. underway'[x] = Nothing
      BY <1>0, <1>8, <2>2, AwaitsNothing DEF Verify
    <3> QED
      BY <1>c, <2>2, <3>1
  <2> QED
    BY <1>8, <2>1, <2>2, Zenon DEF Verify
<1>9. CASE Trimmed(x)
  BY <1>9, <1>c DEF Trimmed
<1>10. CASE ReleaseGuard(x)
  <2>1. /\ run'[x].min = run[x].min /\ run'[x].confirmed = run[x].confirmed
        /\ run'[x].execute = run[x].execute /\ run'[x].first = run[x].first
        /\ run'[x].pc = "leaving" /\ underway'[x] = Nothing
    BY <1>0, <1>10, AwaitsNothing DEF ReleaseGuard, Goto, Fields
  <2> QED
    BY <1>a, <2>1 DEF Decided, Listed, Nothing
<1>11. CASE release_stream_exclusive(x) \/ Die(x)
  <2>1. /\ run'[x].confirmed = NoReview /\ run'[x].execute = FALSE /\ underway'[x] = Nothing
    BY <1>0, <1>11, AwaitsNothing DEF release_stream_exclusive, Die, IdleRun
  <2> QED
    BY <1>b, <2>1
<1>12. CASE Cancel(x)
  <2>1. CASE run' = [run EXCEPT ![x].cancelled = TRUE]
    <3>1. /\ run'[x].pc = run[x].pc /\ run'[x].min = run[x].min /\ run'[x].first = run[x].first
          /\ run'[x].confirmed = run[x].confirmed /\ run'[x].execute = run[x].execute
          /\ underway' = underway
      BY <1>0, <1>12, <2>1 DEF Fields, Cancel
    <3> QED
      BY <1>0, <1>a, <3>1 DEF ConfirmedInv, Decided, Listed
  <2>2. CASE Raise(x) /\ run[x].pc \notin {"locking", "trimming"}
    <3>1. underway'[x] = Nothing
      BY <1>0, <1>12, <2>2, AwaitsNothing DEF Cancel
    <3> QED
      BY <1>c, <2>2, <3>1
  <2> QED
    BY <1>12, <2>1, <2>2 DEF Cancel
<1> QED
  BY <1>1, <1>2, <1>3, <1>4, <1>5, <1>6, <1>7, <1>8, <1>9, <1>10, <1>11, <1>12 DEF Retention

\* The report of a dry run is what it has listed, or the last one.
LEMMA ReportChanges ==
  ASSUME RetentionInv, [Next]_vars
  PROVE  \/ approved' = approved
         \/ \E x \in Run : /\ Covered(x) /\ Listed(x) /\ Bounded(x)
                           /\ approved' = [min |-> run[x].min, entries |-> run[x].entries]
<1>1. CASE Traffic
  BY <1>1 DEF Traffic, PublisherJoins, Xadd, MarkPublished, PublisherLeaves, EnsureGroup,
              ReadGroup, Acknowledge, CleanUp, runVars
<1>2. ASSUME NEW x \in Run, Verify(x)
      PROVE  \/ approved' = approved
             \/ /\ Covered(x) /\ Listed(x) /\ Bounded(x)
                /\ approved' = [min |-> run[x].min, entries |-> run[x].entries]
  <2>1. Covered(x) /\ Bounded(x) /\ Listed(x)
    BY <1>2 DEF RetentionInv, RunInv, Verify, Listed
  <2> QED
    BY <1>2, <2>1 DEF Verify
<1>3. ASSUME NEW x \in Run, Retention(x), ~Verify(x)
      PROVE  approved' = approved
  BY <1>3 DEF Retention, Begin, Inspect, AskPending, Decide, List, LockLedger, Locked,
              Trim, XtrimMinId, TrimRefused, Trimmed, ReleaseGuard, release_stream_exclusive,
              Cancel, Die
<1>4. CASE \E t \in Participant \cup Run : LeaseRunsOut(t)
  BY <1>4 DEF LeaseRunsOut, runVars
<1>5. CASE StreamLost
  BY <1>5 DEF StreamLost, runVars
<1>6. CASE UNCHANGED vars
  BY <1>6 DEF vars, runVars
<1> QED
  BY <1>1, <1>2, <1>3, <1>4, <1>5, <1>6 DEF Next

LEMMA ReviewStep ==
  ASSUME ReviewInv, [Next]_vars
  PROVE  ReviewInv'
<1>0. RetentionInv /\ RetentionInv'
  BY InvIsInductive DEF ReviewInv
<1>1. \A id \in stream' : id < approved.min => id \in approved.entries
  BY <1>0, ReportStands DEF ReviewInv, RetentionInv, Types
<1>2. ASSUME NEW x \in Run
      PROVE  \A id \in stream' : id < run[x].confirmed.min => id \in run[x].confirmed.entries
  <2>1. Reviewed(run[x].confirmed) /\ run[x].confirmed.min \in 0..(Len(log) + 1)
    BY <1>0, <1>2 DEF ReviewInv, ConfirmedInv, RetentionInv, RunInv, Bounded
  <2> QED
    BY <1>0, <2>1, ReportStands
<1>3. Reviewed(approved)'
  <2>1. CASE approved' = approved
    BY <1>1, <2>1 DEF Reviewed
  <2>2. ASSUME NEW x \in Run, Covered(x), Listed(x), Bounded(x),
               approved' = [min |-> run[x].min, entries |-> run[x].entries]
        PROVE  Reviewed(approved)'
    <3> DEFINE report == [min |-> run[x].min, entries |-> run[x].entries]
    <3>1. report.min = run[x].min /\ report.entries = run[x].entries
      OBVIOUS
    <3>2. Reviewed(report) /\ report.min \in 0..(Len(log) + 1)
      BY <2>2, <3>1 DEF Reviewed, Covered, Bounded
    <3> HIDE DEF report
    <3>3. \A id \in stream' : id < report.min => id \in report.entries
      BY <1>0, <3>2, ReportStands
    <3> QED
      BY <2>2, <3>1, <3>3 DEF Reviewed
  <2> QED
    BY <1>0, <2>1, <2>2, ReportChanges
<1>4. ASSUME NEW x \in Run, Retention(x), NEW y \in Run
      PROVE  ConfirmedInv(y)'
  <2>1. CASE y = x
    <3>1. /\ run'[x].confirmed \in {run[x].confirmed, approved, NoReview}
          /\ underway'[x].op = "trim" => run'[x].execute
          /\ run'[x].execute /\ (Decided(x))' => run'[x].min = run'[x].confirmed.min
      BY <1>4, OwnKeepsConfirmation
    <3>2. \A id \in stream' : id < run'[x].confirmed.min => id \in run'[x].confirmed.entries
      <4>1. CASE run'[x].confirmed = NoReview
        <5>1. \A id \in stream' : id \in Nat /\ id > 0
          BY <1>0 DEF RetentionInv, Types
        <5>2. NoReview.min = 0
          BY DEF NoReview
        <5> QED
          BY <4>1, <5>1, <5>2
      <4> QED
        BY <1>1, <1>2, <1>4, <3>1, <4>1
    <3> QED
      BY <2>1, <3>1, <3>2 DEF ConfirmedInv, Reviewed
  <2>2. CASE y # x
    <3>1. run'[y] = run[y] /\ underway'[y] = underway[y]
      BY <1>0, <1>4, <2>2
      DEF RetentionInv, Types, Retention, Begin, Inspect, AskPending, Decide, List, LockLedger,
          Locked, Verify, Trim, XtrimMinId, TrimRefused, Trimmed, ReleaseGuard,
          release_stream_exclusive, Cancel, Die, Raise, Goto
    <3>2. ConfirmedInv(y)
      BY DEF ReviewInv
    <3> QED
      BY <1>2, <3>1, <3>2 DEF ConfirmedInv, Reviewed, Decided, Listed
  <2> QED
    BY <2>1, <2>2
<1>5. ASSUME ~\E x \in Run : Retention(x), NEW y \in Run
      PROVE  ConfirmedInv(y)'
  <2>1. run' = run /\ underway' = underway
    BY <1>5 DEF Next, Traffic, PublisherJoins, Xadd, MarkPublished, PublisherLeaves,
                EnsureGroup, ReadGroup, Acknowledge, CleanUp, LeaseRunsOut, StreamLost,
                vars, runVars
  <2>2. ConfirmedInv(y)
    BY DEF ReviewInv
  <2> QED
    BY <1>2, <2>1, <2>2 DEF ConfirmedInv, Reviewed, Decided, Listed
<1> QED
  BY <1>0, <1>3, <1>4, <1>5 DEF ReviewInv

(***************************************************************************)
(* What the script deletes was listed by the dry run whose boundary the    *)
(* operator confirmed, for any number of runs: dry runs that have lost     *)
(* their lease without noticing may go on to report beside it.             *)
(***************************************************************************)
THEOREM TrimWasReviewed == Spec => OnlyWhatWasReviewed
<1> DEFINE Confirmed == \A id \in Removed : \E x \in Run : owner = x /\ id \in run[x].confirmed.entries
<1>1. ASSUME ReviewInv, Next
      PROVE  Confirmed
  <2>0. RetentionInv
    BY <1>1 DEF ReviewInv
  <2>1. ASSUME NEW x \in Run, Trim(x), NEW id \in Removed
        PROVE  owner = x /\ id \in run[x].confirmed.entries
    <3>1. /\ owner = x /\ underway[x].op = "trim" /\ id \in stream /\ id \notin stream'
          /\ stream' = {i \in stream : i >= underway[x].min}
      BY <2>1 DEF Removed, Trim, XtrimMinId, Fence!OwnerWrite
    <3>2. /\ RunInv(x) /\ ConfirmedInv(x) /\ underway[x] # Nothing
          /\ id \in 1..Len(log) /\ Len(log) \in Nat
      BY <1>1, <2>0, <3>1 DEF ReviewInv, RetentionInv, Types, Nothing
    <3>3. /\ run[x].pc = "trimming" /\ underway[x].min = run[x].min
          /\ run[x].min \in 0..(Len(log) + 1)
      BY <3>1, <3>2 DEF RunInv, Awaited, Bounded
    <3>4. id < run[x].min
      BY <3>1, <3>2, <3>3
    <3>5. run[x].min = run[x].confirmed.min
      BY <3>1, <3>2, <3>3 DEF ConfirmedInv, Decided, Listed
    <3>6. id < run[x].confirmed.min
      BY <3>4, <3>5
    <3> QED
      BY <3>1, <3>2, <3>6 DEF ConfirmedInv, Reviewed
  <2> QED
    BY <1>1, <2>1, OnlyTrimRemoves
<1>2. ReviewInv /\ [Next]_vars => [Confirmed]_vars
  BY <1>1
<1>3. ReviewInv /\ [Next]_vars => ReviewInv'
  BY ReviewStep
<1> QED
  BY <1>2, <1>3, ReviewInit, PTL DEF Spec, OnlyWhatWasReviewed
=============================================================================
