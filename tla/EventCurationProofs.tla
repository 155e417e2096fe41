-------------------------- MODULE EventCurationProofs --------------------------
(* Proofs about the curation of events, for any number of observations,     *)
(* sources, events, edits, scorers and executors, and any budget.           *)
EXTENDS EventCuration, FiniteSetTheorems, WellFoundedInduction, TLAPS


Statuses == {"none", "queued", "completed", "failed", "reverted"}
OpFields == {"status", "parents", "picks", "expected", "moved"}
EventRows == [here : BOOLEAN, cv : Nat, by : SUBSET (Id \cup {Erased}), content : SUBSET Observation]
ScorerStates ==
    [pc : {"idle", "creating", "assigning", "loading", "committing", "completing"},
     o : Observation \cup {Nowhere}, e : Id \cup {Nowhere}, tries : Nat,
     stale : BOOLEAN, input : SUBSET Observation]

Types ==
    /\ event \in [Id -> EventRows]
    /\ member \in [Observation -> Id \cup {Nowhere}]
    /\ stored \subseteq Observation /\ pending \subseteq stored
    /\ \A o \in Observation : member[o] # Nowhere => o \in stored /\ event[member[o]].here
    /\ DOMAIN scoredIn = Observation
    /\ scorer \in [Scorer -> ScorerStates]
    /\ \A w \in Scorer : scorer[w].pc # "idle" => scorer[w].o \in Observation /\ scorer[w].e \in Id
    /\ \A w \in Scorer : scorer[w].pc = "creating" => scorer[w].e \in Event
    /\ \A w \in Scorer : scorer[w].pc \notin {"idle", "creating"} => event[scorer[w].e].here
    /\ DOMAIN op = Op
    /\ \A i \in Op : /\ DOMAIN op[i] = OpFields /\ op[i].status \in Statuses
                     /\ op[i].parents \subseteq Id

-----------------------------------------------------------------------------
(* What a step of a scorer may be.                                          *)

\* Claimed or begun again: a new event or one of the candidates.
Begins(v, o) ==
    /\ v \in ScorerStates /\ v.o = o /\ v.e \in Id
    /\ \/ v.pc = "creating" /\ v.e \in Event
       \/ v.pc = "assigning" /\ event[v.e].here

StartsOver(w, o) == \E v : Begins(v, o) /\ scorer' = [scorer EXCEPT ![w] = v]

LEMMA ChoiceBegins ==
  ASSUME Types, NEW o \in Observation, NEW x \in Choice(o)
  PROVE  Begins(x, o)
<1>1. CASE \E e \in Active : x = [Idle EXCEPT !.pc = "assigning", !.o = o, !.e = e]
  <2>1. PICK e \in Active : x = [Idle EXCEPT !.pc = "assigning", !.o = o, !.e = e]
    BY <1>1
  <2> QED
    BY <2>1 DEF Begins, ScorerStates, Active, Idle, Types
<1>2. CASE x = [Idle EXCEPT !.pc = "creating", !.o = o, !.e = EventOf[o]]
  <2>1. EventOf[o] \in Event
    BY CurationAssumption
  <2> QED
    BY <1>2, <2>1 DEF Begins, ScorerStates, Idle, Id
<1> QED
  BY <1>1, <1>2 DEF Choice

LEMMA RetryIs ==
  ASSUME Types, NEW w \in Scorer, scorer[w].pc # "idle", Retry(w)
  PROVE  (StartsOver(w, scorer[w].o) /\ UNCHANGED pending) \/ Fail(w)
<1>1. CASE Fail(w)
  BY <1>1
<1>2. ASSUME NEW x \in Choice(scorer[w].o), UNCHANGED pending,
             scorer' = [scorer EXCEPT ![w] = [x EXCEPT !.tries = scorer[w].tries + 1]]
      PROVE  StartsOver(w, scorer[w].o) /\ UNCHANGED pending
  <2>1. PICK v : v = [x EXCEPT !.tries = scorer[w].tries + 1]
    OBVIOUS
  <2>2. Begins(x, scorer[w].o)
    BY ChoiceBegins DEF Types
  <2>3. scorer[w].tries \in Nat
    BY DEF Types, ScorerStates
  <2>4. v \in ScorerStates /\ v.o = x.o /\ v.e = x.e /\ v.pc = x.pc
    BY <2>1, <2>2, <2>3 DEF Begins, ScorerStates
  <2>5. Begins(v, scorer[w].o)
    BY <2>2, <2>4 DEF Begins
  <2> QED
    BY <1>2, <2>1, <2>5 DEF StartsOver
<1> QED
  BY <1>1, <1>2 DEF Retry

IdleState == Idle \in ScorerStates /\ Idle.pc = "idle"
LEMMA IdleIs == IdleState
BY DEF IdleState, Idle, ScorerStates

\* The forms of a step of a scorer.
Claims(w) == /\ scorer[w].pc = "idle"
             /\ \E o \in pending \ Held : pending' = pending \ {o} /\ StartsOver(w, o)
             /\ UNCHANGED <<event, member, stored, scoredIn>>
Retries(w) == /\ scorer[w].pc \in {"creating", "committing"} /\ StartsOver(w, scorer[w].o)
              /\ UNCHANGED <<event, member, stored, pending, scoredIn>>
Fails(w) == scorer[w].pc # "idle" /\ Fail(w) /\ UNCHANGED <<event, member, stored, scoredIn>>
Creates(w) == /\ scorer[w].pc = "creating" /\ ~event[scorer[w].e].here
              /\ event' = [event EXCEPT ![scorer[w].e] = [here |-> TRUE, cv |-> 1, by |-> {},
                                                          content |-> {scorer[w].o}]]
              /\ Goto(w, "assigning") /\ UNCHANGED <<member, stored, pending, scoredIn>>
Assigns(w) == /\ scorer[w].pc = "assigning" /\ scorer[w].o \in stored
              /\ member[scorer[w].o] \in {Nowhere, scorer[w].e}
              /\ member' = [member EXCEPT ![scorer[w].o] = scorer[w].e]
              /\ Goto(w, "loading") /\ UNCHANGED <<event, stored, pending, scoredIn>>
Loads(w) == /\ scorer[w].pc = "loading"
            /\ scorer' = [scorer EXCEPT ![w].pc = "committing", ![w].input = Members(scorer[w].e)]
            /\ UNCHANGED <<event, member, stored, pending, scoredIn>>
Commits(w) == /\ scorer[w].pc = "committing" /\ ~scorer[w].stale
              /\ event' = [event EXCEPT ![scorer[w].e].content = scorer[w].input]
              /\ scorer' = [x \in Scorer |-> IF x = w THEN [scorer[w] EXCEPT !.pc = "completing"]
                                             ELSE Raised(scorer[w].e, scorer[x])]
              /\ UNCHANGED <<member, stored, pending, scoredIn>>

LEMMA ScoringForms ==
  ASSUME Types, NEW w \in Scorer,
         Scoring(w) \/ ScorerCrashes(w) \/ \E o \in Observation : Claim(w, o)
  PROVE  /\ UNCHANGED <<op, mark, disturbed, executor, erasures>>
         /\ \/ Claims(w) \/ Retries(w) \/ Fails(w) \/ Creates(w) \/ Assigns(w) \/ Loads(w)
            \/ Commits(w) \/ Complete(w)
<1>1. CASE \E o \in Observation : Claim(w, o)
  <2>1. PICK o \in Observation : Claim(w, o)
    BY <1>1
  <2>2. PICK x \in Choice(o) : scorer' = [scorer EXCEPT ![w] = x]
    BY <2>1 DEF Claim
  <2>3. StartsOver(w, o)
    BY <2>2, ChoiceBegins DEF StartsOver
  <2> QED
    BY <2>1, <2>3 DEF Claim, Claims, At, edits
<1>2. CASE ScorerCrashes(w)
  BY <1>2 DEF ScorerCrashes, Fails, At, edits
<1>3. CASE Create(w)
  <2>1. CASE Retry(w) /\ UNCHANGED event
    BY <1>3, <2>1, RetryIs DEF Create, At, edits, Retries, Fails
  <2> QED
    BY <1>3, <2>1 DEF Create, Creates, At, edits
<1>4. CASE assign_observation(w)
  BY <1>4 DEF assign_observation, Assigns, Fails, At, edits
<1>5. CASE Load(w)
  BY <1>5 DEF Load, Loads, Fails, At, edits
<1>6. CASE commit_scored_event(w)
  <2>1. CASE Retry(w) /\ UNCHANGED event
    BY <1>6, <2>1, RetryIs DEF commit_scored_event, At, edits, Retries, Fails
  <2> QED
    BY <1>6, <2>1 DEF commit_scored_event, Commits, At, edits
<1>7. CASE Complete(w)
  BY <1>7 DEF Complete, edits
<1> QED
  BY <1>1, <1>2, <1>3, <1>4, <1>5, <1>6, <1>7 DEF Scoring

-----------------------------------------------------------------------------
(* Types.                                                                   *)

\* A scorer moves and the events that exist go on existing.
LEMMA ScorerTyped ==
  ASSUME Types, NEW w \in Scorer, NEW v \in ScorerStates, scorer' = [scorer EXCEPT ![w] = v],
         v.pc # "idle" => v.o \in Observation /\ v.e \in Id,
         v.pc = "creating" => v.e \in Event,
         v.pc \notin {"idle", "creating"} => event'[v.e].here,
         event' \in [Id -> EventRows], \A e \in Id : event[e].here => event'[e].here,
         member' \in [Observation -> Id \cup {Nowhere}], stored' \subseteq Observation, pending' \subseteq stored',
         \A o \in Observation : member'[o] # Nowhere => o \in stored' /\ event'[member'[o]].here,
         DOMAIN scoredIn' = Observation, UNCHANGED op
  PROVE  Types'
<1>1. scorer' \in [Scorer -> ScorerStates]
  BY DEF Types
<1>2. ASSUME NEW x \in Scorer
      PROVE  /\ scorer'[x].pc # "idle" => scorer'[x].o \in Observation /\ scorer'[x].e \in Id
             /\ scorer'[x].pc = "creating" => scorer'[x].e \in Event
             /\ scorer'[x].pc \notin {"idle", "creating"} => event'[scorer'[x].e].here
  <2>1. CASE x = w
    BY <2>1 DEF Types
  <2>2. CASE x # w
    BY <2>2 DEF Types
  <2> QED
    BY <2>1, <2>2
<1> QED
  BY <1>1, <1>2 DEF Types

LEMMA ScoringTyped ==
  ASSUME Types, NEW w \in Scorer, UNCHANGED op,
         \/ Claims(w) \/ Retries(w) \/ Fails(w) \/ Creates(w) \/ Assigns(w) \/ Loads(w) \/ Complete(w)
  PROVE  Types'
<1>0. /\ scorer[w] \in ScorerStates /\ DOMAIN scorer = Scorer
      /\ event \in [Id -> EventRows] /\ member \in [Observation -> Id \cup {Nowhere}]
      /\ stored \subseteq Observation /\ pending \subseteq stored /\ DOMAIN scoredIn = Observation
      /\ \A o \in Observation : member[o] # Nowhere => o \in stored /\ event[member[o]].here
      /\ scorer[w].pc # "idle" => scorer[w].o \in Observation /\ scorer[w].e \in Id
      /\ scorer[w].pc \notin {"idle", "creating"} => event[scorer[w].e].here
  BY DEF Types
<1>1. ASSUME NEW o \in Observation, StartsOver(w, o), UNCHANGED <<event, member, stored, scoredIn>>,
             pending' \subseteq stored
      PROVE  Types'
  <2>1. PICK v : Begins(v, o) /\ scorer' = [scorer EXCEPT ![w] = v]
    BY <1>1 DEF StartsOver
  <2> QED
    BY <1>0, <1>1, <2>1, ScorerTyped DEF Begins
<1>2. CASE Claims(w)
  BY <1>0, <1>1, <1>2 DEF Claims
<1>3. CASE Retries(w)
  BY <1>0, <1>1, <1>3 DEF Retries
<1>4. CASE Fails(w)
  <2>1. pending' \subseteq stored /\ scorer' = [scorer EXCEPT ![w] = Idle]
    BY <1>0, <1>4 DEF Fails, Fail
  <2> QED
    BY <1>0, <1>4, <2>1, IdleIs, ScorerTyped DEF Fails, IdleState
<1>5. CASE Creates(w)
  <2>1. PICK v : v = [scorer[w] EXCEPT !.pc = "assigning"]
    OBVIOUS
  <2>2. v \in ScorerStates /\ v.pc = "assigning" /\ v.e = scorer[w].e /\ v.o = scorer[w].o
    BY <1>0, <2>1 DEF ScorerStates
  <2>3. scorer' = [scorer EXCEPT ![w] = v]
    BY <1>5, <2>1 DEF Creates, Goto
  <2>4. PICK r : r = [here |-> TRUE, cv |-> 1, by |-> {}, content |-> {scorer[w].o}]
    OBVIOUS
  <2>5. r \in EventRows /\ r.here
    BY <1>0, <1>5, <2>4 DEF EventRows, Creates
  <2>6. event' = [event EXCEPT ![scorer[w].e] = r] /\ UNCHANGED <<member, stored, pending, scoredIn>>
    BY <1>5, <2>4 DEF Creates
  <2>7. scorer[w].e \in Id /\ scorer[w].o \in Observation
    BY <1>0, <1>5 DEF Creates
  <2>8. event' \in [Id -> EventRows] /\ event'[v.e].here /\ \A e \in Id : event[e].here => event'[e].here
    BY <1>0, <2>2, <2>5, <2>6, <2>7
  <2>9. \A o \in Observation : member'[o] # Nowhere => o \in stored' /\ event'[member'[o]].here
    BY <1>0, <2>6, <2>8
  <2> QED
    BY <1>0, <2>2, <2>3, <2>6, <2>7, <2>8, <2>9, ScorerTyped
<1>6. CASE Assigns(w)
  <2>1. PICK v : v = [scorer[w] EXCEPT !.pc = "loading"]
    OBVIOUS
  <2>2. v \in ScorerStates /\ v.pc = "loading" /\ v.e = scorer[w].e /\ v.o = scorer[w].o
    BY <1>0, <2>1 DEF ScorerStates
  <2>3. scorer' = [scorer EXCEPT ![w] = v]
    BY <1>6, <2>1 DEF Assigns, Goto
  <2>4. member' \in [Observation -> Id \cup {Nowhere}]
        /\ \A o \in Observation : member'[o] # Nowhere => o \in stored' /\ event'[member'[o]].here
    BY <1>0, <1>6 DEF Assigns
  <2> QED
    BY <1>0, <1>6, <2>2, <2>3, <2>4, ScorerTyped DEF Assigns
<1>7. CASE Loads(w)
  <2>1. PICK v : v = [scorer[w] EXCEPT !.pc = "committing", !.input = Members(scorer[w].e)]
    OBVIOUS
  <2>2. v \in ScorerStates /\ v.pc = "committing" /\ v.e = scorer[w].e /\ v.o = scorer[w].o
    BY <1>0, <2>1 DEF ScorerStates, Members
  <2>3. scorer' = [scorer EXCEPT ![w] = v]
    BY <1>7, <2>1 DEF Loads
  <2> QED
    BY <1>0, <1>7, <2>2, <2>3, ScorerTyped DEF Loads
<1>8. CASE Complete(w)
  <2>1. DOMAIN scoredIn' = Observation
    BY <1>0, <1>8 DEF Complete
  <2>2. scorer' = [scorer EXCEPT ![w] = Idle] /\ UNCHANGED <<event, member, stored, pending>>
    BY <1>8 DEF Complete, rows
  <2> QED
    BY <1>0, <2>1, <2>2, IdleIs, ScorerTyped DEF IdleState
<1> QED
  BY <1>2, <1>3, <1>4, <1>5, <1>6, <1>7, <1>8

\* What raising the version of an event does to a scorer.
LEMMA RaisedIs ==
  ASSUME NEW e, NEW x \in ScorerStates
  PROVE  /\ Raised(e, x) \in ScorerStates
         /\ Raised(e, x).pc = x.pc /\ Raised(e, x).o = x.o /\ Raised(e, x).e = x.e
         /\ Raised(e, x).input = x.input
         /\ Raised(e, x).stale <=> x.stale \/ x.e = e
<1>1. CASE x.e = e
  <2>1. PICK v : v = [x EXCEPT !.stale = TRUE]
    OBVIOUS
  <2>2. v \in ScorerStates /\ v.pc = x.pc /\ v.o = x.o /\ v.e = x.e /\ v.input = x.input /\ v.stale = TRUE
    BY <2>1 DEF ScorerStates
  <2>3. Raised(e, x) = v
    BY <1>1, <2>1 DEF Raised
  <2> QED
    BY <1>1, <2>2, <2>3
<1>2. CASE x.e # e
  BY <1>2 DEF Raised
<1> QED
  BY <1>1, <1>2

\* Scorers keep their places, and the events that exist go on existing.
LEMMA RowsTyped ==
  ASSUME Types, scorer' \in [Scorer -> ScorerStates],
         \A x \in Scorer : scorer'[x].pc \in {scorer[x].pc, "completing"} /\ scorer'[x].o = scorer[x].o
                           /\ scorer'[x].e = scorer[x].e
                           /\ (scorer'[x].pc = "completing" => scorer[x].pc \in {"committing", "completing"}),
         event' \in [Id -> EventRows], \A e \in Id : event[e].here => event'[e].here,
         member' \in [Observation -> Id \cup {Nowhere}], stored' \subseteq Observation, pending' \subseteq stored',
         \A o \in Observation : member'[o] # Nowhere => o \in stored' /\ event'[member'[o]].here,
         DOMAIN scoredIn' = Observation,
         DOMAIN op' = Op,
         \A i \in Op : DOMAIN op'[i] = OpFields /\ op'[i].status \in Statuses /\ op'[i].parents \subseteq Id
  PROVE  Types'
<1>1. ASSUME NEW x \in Scorer
      PROVE  /\ scorer'[x].pc # "idle" => scorer'[x].o \in Observation /\ scorer'[x].e \in Id
             /\ scorer'[x].pc = "creating" => scorer'[x].e \in Event
             /\ scorer'[x].pc \notin {"idle", "creating"} => event'[scorer'[x].e].here
  BY DEF Types
<1> QED
  BY <1>1 DEF Types

LEMMA CommitTyped ==
  ASSUME Types, NEW w \in Scorer, Commits(w), UNCHANGED op
  PROVE  Types'
<1>1. /\ scorer \in [Scorer -> ScorerStates] /\ event \in [Id -> EventRows] /\ scorer[w].e \in Id
      /\ member \in [Observation -> Id \cup {Nowhere}]
      /\ \A o \in Observation : member[o] # Nowhere => o \in stored /\ event[member[o]].here
  BY DEF Types, Commits
<1>2. PICK v : v = [scorer[w] EXCEPT !.pc = "completing"]
  OBVIOUS
<1>3. v \in ScorerStates /\ v.pc = "completing" /\ v.e = scorer[w].e /\ v.o = scorer[w].o
  BY <1>1, <1>2 DEF ScorerStates
<1>4. /\ scorer' = [x \in Scorer |-> IF x = w THEN v ELSE Raised(scorer[w].e, scorer[x])]
      /\ UNCHANGED <<member, stored, pending, scoredIn>> /\ scorer[w].pc = "committing"
  BY <1>2 DEF Commits
<1>5. ASSUME NEW x \in Scorer
      PROVE  /\ scorer'[x] \in ScorerStates /\ scorer'[x].o = scorer[x].o /\ scorer'[x].e = scorer[x].e
             /\ scorer'[x].pc \in {scorer[x].pc, "completing"}
             /\ (scorer'[x].pc = "completing" => scorer[x].pc \in {"committing", "completing"})
  <2>1. CASE x = w
    BY <1>3, <1>4, <2>1
  <2>2. CASE x # w
    BY <1>1, <1>4, <2>2, RaisedIs
  <2> QED
    BY <2>1, <2>2
<1>6. scorer' \in [Scorer -> ScorerStates]
  BY <1>4, <1>5
<1>7. PICK r : r = [event[scorer[w].e] EXCEPT !.content = scorer[w].input]
  OBVIOUS
<1>8. scorer[w].input \subseteq Observation
  BY <1>1 DEF ScorerStates
<1>9. r \in EventRows /\ r.here = event[scorer[w].e].here
  BY <1>1, <1>7, <1>8 DEF EventRows
<1>10. event' = [event EXCEPT ![scorer[w].e] = r]
  BY <1>7 DEF Commits
<1>11. event' \in [Id -> EventRows] /\ \A e \in Id : event[e].here => event'[e].here
  BY <1>1, <1>9, <1>10
<1>12. \A o \in Observation : member'[o] # Nowhere => o \in stored' /\ event'[member'[o]].here
  BY <1>1, <1>4, <1>11
<1> QED
  BY <1>1, <1>4, <1>5, <1>6, <1>11, <1>12, RowsTyped DEF Types

\* The steps that leave the events as they are, and what they do to the edits.
LEMMA ForeignTyped ==
  ASSUME Types, NEW e \in Id, ForeignWrite(e)
  PROVE  Types'
<1>1. scorer \in [Scorer -> ScorerStates]
  BY DEF Types
<1>2. ASSUME NEW x \in Scorer
      PROVE  /\ scorer'[x] \in ScorerStates /\ scorer'[x].o = scorer[x].o /\ scorer'[x].e = scorer[x].e
             /\ scorer'[x].pc = scorer[x].pc
  BY <1>1, RaisedIs DEF ForeignWrite
<1>3. scorer' \in [Scorer -> ScorerStates]
  BY <1>2 DEF ForeignWrite
<1>4. UNCHANGED <<event, member, stored, pending, op, scoredIn>>
  BY DEF ForeignWrite, rows, edits
<1> QED
  BY <1>2, <1>3, <1>4 DEF Types

Queues(i, parents) ==
    /\ op[i].status = "none" /\ parents # {}
    /\ UNCHANGED <<event, member, stored, pending, disturbed, scorer, scoredIn, executor>>
    /\ \E v : /\ op' = [op EXCEPT ![i] = v] /\ DOMAIN v = OpFields /\ v.status = "queued"
              /\ v.parents = parents /\ v.expected = [e \in parents |-> event[e].cv]

LEMMA QueueIs ==
  ASSUME Types, NEW i \in Op, NEW parents \in SUBSET Active, NEW picks \in SUBSET Observation,
         queue_cluster_edit(i, parents, picks)
  PROVE  Queues(i, parents)
<1>1. parents # {}
  <2>1. Cardinality({}) = 0
    BY FS_EmptySet
  <2> QED
    BY <2>1 DEF queue_cluster_edit
<1>2. PICK v : v = [NoOp EXCEPT !.status = "queued", !.parents = parents, !.picks = picks,
                                !.expected = [e \in parents |-> event[e].cv]]
  OBVIOUS
<1>3. /\ DOMAIN v = OpFields /\ v.status = "queued" /\ v.parents = parents
      /\ v.expected = [e \in parents |-> event[e].cv]
  BY <1>2 DEF NoOp, OpFields
<1>4. op' = [op EXCEPT ![i] = v]
  BY <1>2 DEF queue_cluster_edit
<1> QED
  BY <1>1, <1>3, <1>4 DEF queue_cluster_edit, rows, Queues

LEMMA QueueTyped ==
  ASSUME Types, NEW i \in Op, NEW parents \in SUBSET Active, Queues(i, parents)
  PROVE  Types'
<1>1. PICK v : /\ op' = [op EXCEPT ![i] = v] /\ DOMAIN v = OpFields /\ v.status = "queued"
               /\ v.parents = parents
  BY DEF Queues
<1>2. UNCHANGED <<event, member, stored, pending, scorer, scoredIn>>
  BY DEF Queues
<1>3. parents \subseteq Id
  BY DEF Active
<1>4. DOMAIN op' = Op /\ \A j \in Op : DOMAIN op'[j] = OpFields /\ op'[j].status \in Statuses
                                       /\ op'[j].parents \subseteq Id
  BY <1>1, <1>3 DEF Types, Statuses
<1> QED
  BY <1>2, <1>4 DEF Types

\* Only the status of one edit changes.
StatusBecomes(i, s) ==
    /\ DOMAIN op' = Op
    /\ \A j \in Op : /\ DOMAIN op'[j] = OpFields /\ op'[j].parents = op[j].parents
                     /\ op'[j].expected = op[j].expected /\ op'[j].picks = op[j].picks
                     /\ op'[j].status = IF j = i THEN s ELSE op[j].status

LEMMA StatusIs ==
  ASSUME Types, NEW i \in Op, NEW s, op' = [op EXCEPT ![i].status = s]
  PROVE  StatusBecomes(i, s) /\ \A j \in Op : op'[j].moved = op[j].moved
<1>1. PICK v : v = [op[i] EXCEPT !.status = s]
  OBVIOUS
<1>2. /\ DOMAIN v = OpFields /\ v.status = s /\ v.parents = op[i].parents
      /\ v.expected = op[i].expected /\ v.picks = op[i].picks /\ v.moved = op[i].moved
  BY <1>1 DEF Types, OpFields
<1>3. op' = [op EXCEPT ![i] = v]
  BY <1>1
<1> QED
  BY <1>2, <1>3 DEF Types, StatusBecomes

\* What the merge or split of an edit, or its undoing, leaves of the scorers and edits.
LEMMA EditTyped ==
  ASSUME Types, NEW i \in Op, NEW s \in Statuses, StatusBecomes(i, s), UNCHANGED <<scorer, stored, scoredIn>>,
         event' \in [Id -> EventRows], \A e \in Id : event[e].here => event'[e].here,
         member' \in [Observation -> Id \cup {Nowhere}], pending' \subseteq stored,
         \A o \in Observation : member'[o] # Nowhere => o \in stored /\ event'[member'[o]].here
  PROVE  Types'
<1>1. /\ DOMAIN op' = Op
      /\ \A j \in Op : DOMAIN op'[j] = OpFields /\ op'[j].status \in Statuses /\ op'[j].parents \subseteq Id
  BY DEF StatusBecomes, Types
<1> QED
  BY <1>1 DEF Types

-----------------------------------------------------------------------------
(***************************************************************************)
(* Why no edit passes over another.                                        *)
(***************************************************************************)
\* The children of an edit that was not executed do not exist.
ChildrenAreFresh ==
    \A i \in Op : op[i].status \in {"none", "queued"} => ~event[<<i, 1>>].here /\ ~event[<<i, 2>>].here

ParentsExist ==
    \A i \in Op : op[i].status \in {"queued", "completed", "reverted"} =>
        /\ op[i].parents # {} /\ \A e \in op[i].parents : event[e].here
        /\ op[i].parents \cap Children(i) = {}

\* A version never falls behind what an edit expects of it.
Expectations ==
    \A i \in Op : op[i].status = "queued" =>
        \A e \in op[i].parents : op[i].expected[e] \in Nat /\ op[i].expected[e] <= event[e].cv

\* Once an event of the edit was edited, it is superseded or has a higher version.
Shows(i) == \E e \in op[i].parents : event[e].cv > op[i].expected[e] \/ event[e].by # {}

DisturbedShows ==
    \A i \in Op : i \in disturbed => op[i].status # "none" /\ (op[i].status = "queued" => Shows(i))

\* An executed edit knows from which of its events each member came.
MovedBack ==
    \A i \in Op : op[i].status = "completed" =>
        DOMAIN op[i].moved \subseteq Observation /\ \A o \in DOMAIN op[i].moved : op[i].moved[o] \in op[i].parents

EditInv == Types /\ ChildrenAreFresh /\ ParentsExist /\ Expectations /\ DisturbedShows /\ MovedBack

\* The greatest of finitely many numbers, by the well-founded order of the sets
\* of what is greater.
LEMMA GreatestIsIn ==
  ASSUME NEW S \in SUBSET Nat, IsFiniteSet(S), S # {}
  PROVE  Max(S) \in S
<1> DEFINE Above(m) == {k \in S : k > m}
           T == {Above(m) : m \in S}
<1>1. T \subseteq FiniteSubsetsOf(Nat) /\ T # {}
  <2>1. ASSUME NEW m \in S PROVE IsFiniteSet(Above(m)) /\ Above(m) \in SUBSET Nat
    BY FS_Subset
  <2> QED
    BY <2>1 DEF FiniteSubsetsOf
<1>2. PICK U \in T : \A V \in T : <<V, U>> \notin StrictSubsetOrdering(Nat)
  <2> HIDE DEF T
  <2> QED
    BY <1>1, WFMin, FS_StrictSubsetOrderingWellFounded
<1>3. PICK m \in S : U = Above(m)
  OBVIOUS
<1>4. ASSUME NEW k \in S, k > m PROVE FALSE
  <2>1. Above(k) \subseteq Above(m) /\ k \in Above(m) /\ k \notin Above(k)
    <3>1. k \in Nat /\ m \in Nat /\ ~(k > k)
      OBVIOUS
    <3>2. ASSUME NEW j \in S, j > k PROVE j > m
      <4>1. j \in Nat
        OBVIOUS
      <4> QED
        BY <1>4, <3>1, <3>2, <4>1
    <3> QED
      BY <1>4, <3>1, <3>2
  <2>2. Above(k) \in SUBSET Nat /\ Above(m) \in SUBSET Nat /\ Above(k) # Above(m)
    BY <2>1
  <2>3. <<Above(k), Above(m)>> \in StrictSubsetOrdering(Nat)
    BY <2>1, <2>2 DEF StrictSubsetOrdering
  <2>4. Above(k) \in T
    OBVIOUS
  <2> HIDE DEF T, Above
  <2> QED
    BY <1>2, <1>3, <2>3, <2>4
<1>5. \A k \in S : m >= k
  BY <1>4
<1> QED
  BY <1>5 DEF Max

LEMMA IdsAreFinite == IsFiniteSet(Id)
<1>1. IsFiniteSet({1, 2})
  <2>1. IsFiniteSet({1}) /\ {1, 2} = {1} \cup {2}
    BY FS_Singleton
  <2> QED
    BY <2>1, FS_AddElement
<1>2. IsFiniteSet(Child)
  BY <1>1, CurationAssumption, FS_Product DEF CurationAssumption, Child
<1> QED
  BY <1>2, CurationAssumption, FS_Union DEF CurationAssumption, Id

LEMMA ChildrenAre ==
  ASSUME NEW i \in Op
  PROVE  /\ Children(i) \subseteq {<<i, 1>>, <<i, 2>>} /\ Children(i) \subseteq Id /\ Children(i) # {}
         /\ Children(i) \cap Event = {}
         /\ \A j \in Op : i # j => Children(i) \cap Children(j) = {}
<1>1. {<<i, 1>>, <<i, 2>>} \subseteq Child
  BY DEF Child
<1>2. Event \cap Child = {}
  BY CurationAssumption DEF CurationAssumption
<1> QED
  BY <1>1, <1>2 DEF Children, Id

\* The execution of an edit, by an executor or by the API.
Executes(i) ==
    /\ op[i].status = "queued" /\ ParentsStand(i)
    /\ StatusBecomes(i, "completed")
    /\ op'[i].moved = [o \in Moving(i) |-> member[o]]
    /\ \A j \in Op \ {i} : op'[j].moved = op[j].moved
    /\ event' \in [Id -> EventRows]
    /\ \A c \in Children(i) : event'[c].here /\ event'[c].by = {} /\ event'[c].content = {}
    /\ \A e \in op[i].parents : event'[e].here /\ event'[e].cv = event[e].cv /\ event'[e].by = Children(i)
                                /\ event'[e].content = event[e].content
    /\ \A e \in Id \ (Children(i) \cup op[i].parents) : event'[e] = event[e]
    /\ member' \in [Observation -> Id \cup {Nowhere}]
    /\ \A o \in Observation : IF member[o] \in op[i].parents THEN member'[o] \in Children(i)
                                                             ELSE member'[o] = member[o]
    /\ pending' = pending \cup Moving(i)
    /\ disturbed' = disturbed \cup {j \in Op : op[j].status = "queued" /\ op[j].parents \cap op[i].parents # {}}
    /\ UNCHANGED <<stored, scorer, scoredIn>>

LEMMA ExecuteIs ==
  ASSUME EditInv, NEW i \in Op, Executable(i), execute_cluster_edit(i), UNCHANGED <<scorer, scoredIn>>
  PROVE  Executes(i)
<1>0. /\ event \in [Id -> EventRows] /\ member \in [Observation -> Id \cup {Nowhere}]
      /\ op[i].parents \subseteq Id /\ DOMAIN op = Op /\ \A j \in Op : DOMAIN op[j] = OpFields
      /\ \A o \in Observation : member[o] # Nowhere => o \in stored /\ event[member[o]].here
  BY DEF EditInv, Types
<1>1. /\ op[i].status = "queued" /\ ParentsStand(i) /\ op[i].parents # {}
      /\ \A e \in op[i].parents : event[e].here /\ op[i].expected[e] \in Nat
      /\ op[i].parents \cap Children(i) = {}
  BY DEF Executable, EditInv, ParentsExist, Expectations
<1>2. ResultVersion(i) \in Nat
  <2> DEFINE S == {op[i].expected[e] : e \in op[i].parents}
  <2>1. S \in SUBSET Nat /\ S # {}
    BY <1>1
  <2>2. IsFiniteSet(op[i].parents)
    BY <1>0, IdsAreFinite, FS_Subset
  <2>3. IsFiniteSet(S)
    <3> DEFINE f == [e \in op[i].parents |-> op[i].expected[e]]
    <3>1. f \in Surjection(op[i].parents, S)
      BY DEF Surjection
    <3> QED
      BY <2>2, <3>1, FS_Surjection
  <2>4. Max(S) \in Nat
    BY <2>1, <2>3, GreatestIsIn
  <2> QED
    BY <2>4 DEF ResultVersion
<1>3. PICK v : v = [op[i] EXCEPT !.status = "completed", !.moved = [o \in Moving(i) |-> member[o]]]
  OBVIOUS
<1>4. /\ DOMAIN v = OpFields /\ v.status = "completed" /\ v.parents = op[i].parents
      /\ v.expected = op[i].expected /\ v.picks = op[i].picks /\ v.moved = [o \in Moving(i) |-> member[o]]
  BY <1>0, <1>3 DEF OpFields
<1>5. op' = [op EXCEPT ![i] = v]
  BY <1>3 DEF execute_cluster_edit, Supersede
<1>6. /\ StatusBecomes(i, "completed") /\ op'[i].moved = [o \in Moving(i) |-> member[o]]
      /\ \A j \in Op \ {i} : op'[j].moved = op[j].moved
  BY <1>0, <1>4, <1>5 DEF StatusBecomes
<1>7. PICK fresh : fresh = [NoEvent EXCEPT !.here = TRUE, !.cv = ResultVersion(i)]
  OBVIOUS
<1>8. fresh \in EventRows /\ fresh.here /\ fresh.by = {} /\ fresh.content = {}
  BY <1>2, <1>7 DEF NoEvent, EventRows
<1>9. event' = [e \in Id |-> IF e \in Children(i) THEN fresh
                             ELSE IF e \in op[i].parents THEN [event[e] EXCEPT !.by = Children(i)] ELSE event[e]]
  BY <1>7 DEF execute_cluster_edit, Supersede
<1>10. ASSUME NEW e \in op[i].parents
       PROVE  /\ event'[e] \in EventRows /\ event'[e].here /\ event'[e].cv = event[e].cv
              /\ event'[e].by = Children(i) /\ event'[e].content = event[e].content
  <2>1. e \in Id /\ e \notin Children(i) /\ event[e].here /\ event[e] \in EventRows
    BY <1>0, <1>1
  <2>2. PICK r : r = [event[e] EXCEPT !.by = Children(i)]
    OBVIOUS
  <2>3. Children(i) \subseteq Id
    BY ChildrenAre
  <2>4. r \in EventRows /\ r.here = event[e].here /\ r.cv = event[e].cv /\ r.by = Children(i)
        /\ r.content = event[e].content
    BY <2>1, <2>2, <2>3 DEF EventRows
  <2>5. event'[e] = r
    BY <1>9, <2>1, <2>2
  <2> QED
    BY <2>1, <2>4, <2>5
<1>11. /\ \A c \in Children(i) : event'[c] = fresh
       /\ \A e \in Id \ (Children(i) \cup op[i].parents) : event'[e] = event[e]
  BY <1>9, ChildrenAre
<1>12. ASSUME NEW e \in Id PROVE event'[e] \in EventRows
  <2>1. CASE e \in Children(i)
    BY <1>8, <1>11, <2>1
  <2>2. CASE e \in op[i].parents
    BY <1>10, <2>2
  <2>3. CASE e \notin Children(i) \cup op[i].parents
    BY <1>0, <1>11, <2>3
  <2> QED
    BY <2>1, <2>2, <2>3
<1>13. event' \in [Id -> EventRows]
  BY <1>9, <1>12
<1>14. \A o \in Observation : ChildFor(i, o) \in Children(i)
  BY DEF ChildFor, Children
<1>15. ASSUME NEW o \in Observation
       PROVE  IF member[o] \in op[i].parents THEN member'[o] \in Children(i) ELSE member'[o] = member[o]
  BY <1>14 DEF execute_cluster_edit, Supersede, Moving
<1>16. member' \in [Observation -> Id \cup {Nowhere}]
  <2>1. \A o \in Observation : member'[o] \in Id \cup {Nowhere}
    BY <1>0, <1>15, ChildrenAre
  <2> QED
    BY <2>1 DEF execute_cluster_edit, Supersede
<1> QED
  BY <1>1, <1>6, <1>8, <1>10, <1>11, <1>13, <1>15, <1>16 DEF Executes, execute_cluster_edit, Disturb

LEMMA ExecuteTyped ==
  ASSUME EditInv, NEW i \in Op, Executes(i)
  PROVE  Types'
<1>0. /\ event \in [Id -> EventRows] /\ member \in [Observation -> Id \cup {Nowhere}] /\ pending \subseteq stored
      /\ op[i].parents \subseteq Id
      /\ \A o \in Observation : member[o] # Nowhere => o \in stored /\ event[member[o]].here
  BY DEF EditInv, Types
<1>1. Nowhere \notin op[i].parents
  BY <1>0, CurationAssumption DEF CurationAssumption
<1>2. \A e \in Id : event[e].here => event'[e].here
  BY DEF Executes
<1>3. ASSUME NEW o \in Observation, member'[o] # Nowhere PROVE o \in stored /\ event'[member'[o]].here
  <2>1. CASE member[o] \in op[i].parents
    BY <1>0, <1>1, <2>1 DEF Executes
  <2>2. CASE member[o] \notin op[i].parents
    BY <1>0, <1>2, <1>3, <2>2 DEF Executes
  <2> QED
    BY <2>1, <2>2
<1>4. pending' \subseteq stored
  BY <1>0, <1>1 DEF Executes, Moving
<1> QED
  BY <1>2, <1>3, <1>4, EditTyped DEF Executes, EditInv, Statuses

\* The undoing of an edit.
Reverts(i) ==
    /\ op[i].status = "completed" /\ ChildrenStand(i)
    /\ StatusBecomes(i, "reverted") /\ \A j \in Op : op'[j].moved = op[j].moved
    /\ event' \in [Id -> EventRows]
    /\ \A e \in op[i].parents : event'[e].here /\ event'[e].cv = event[e].cv + 1 /\ event'[e].by = {}
                                /\ event'[e].content = event[e].content
    /\ \A c \in Children(i) : event'[c].here = event[c].here /\ event'[c].cv = event[c].cv
                              /\ event'[c].by = op[i].parents /\ event'[c].content = event[c].content
    /\ \A e \in Id \ (Children(i) \cup op[i].parents) : event'[e] = event[e]
    /\ member' \in [Observation -> Id \cup {Nowhere}]
    /\ \A o \in Observation :
          IF o \in Returning(i) THEN member'[o] \in op[i].parents ELSE member'[o] = member[o]
    /\ pending' = pending \cup Returning(i)
    /\ disturbed' = disturbed \cup
          {j \in Op : op[j].status = "queued" /\ op[j].parents \cap (op[i].parents \cup Children(i)) # {}}
    /\ UNCHANGED <<stored, scorer, scoredIn>>

LEMMA RevertIs ==
  ASSUME EditInv, NEW i \in Op, revert_cluster_edit(i)
  PROVE  Reverts(i)
<1>0. /\ event \in [Id -> EventRows] /\ member \in [Observation -> Id \cup {Nowhere}]
      /\ op[i].parents \subseteq Id
  BY DEF EditInv, Types
<1>1. /\ op[i].status = "completed" /\ ChildrenStand(i) /\ \A e \in op[i].parents : event[e].here
      /\ op[i].parents \cap Children(i) = {}
      /\ DOMAIN op[i].moved \subseteq Observation /\ \A o \in DOMAIN op[i].moved : op[i].moved[o] \in op[i].parents
  BY DEF revert_cluster_edit, EditInv, ParentsExist, MovedBack
<1>2. StatusBecomes(i, "reverted") /\ \A j \in Op : op'[j].moved = op[j].moved
  BY StatusIs DEF revert_cluster_edit, EditInv
<1>3. event' = [e \in Id |-> IF e \in op[i].parents THEN Restored(i, e)
                             ELSE IF e \in Children(i) THEN [event[e] EXCEPT !.by = op[i].parents] ELSE event[e]]
  BY DEF revert_cluster_edit
<1>4. ASSUME NEW e \in op[i].parents
      PROVE  /\ event'[e] \in EventRows /\ event'[e].here /\ event'[e].cv = event[e].cv + 1
             /\ event'[e].by = {} /\ event'[e].content = event[e].content
  <2>1. e \in Id /\ event[e].here /\ event[e] \in EventRows /\ event[e].cv + 1 \in Nat
    BY <1>0, <1>1 DEF EventRows
  <2>2. PICK r : r = [event[e] EXCEPT !.by = {}, !.cv = @ + 1]
    OBVIOUS
  <2>3. r \in EventRows /\ r.here = event[e].here /\ r.cv = event[e].cv + 1 /\ r.by = {}
        /\ r.content = event[e].content
    BY <2>1, <2>2 DEF EventRows
  <2>4. event'[e] = r
    BY <1>3, <2>1, <2>2 DEF Restored
  <2> QED
    BY <2>1, <2>3, <2>4
<1>5. ASSUME NEW e \in Children(i)
      PROVE  /\ event'[e] \in EventRows /\ event'[e].here = event[e].here /\ event'[e].cv = event[e].cv
             /\ event'[e].by = op[i].parents /\ event'[e].content = event[e].content
  <2>1. e \in Id /\ event[e] \in EventRows /\ e \notin op[i].parents
    BY <1>0, <1>1, ChildrenAre
  <2>2. PICK r : r = [event[e] EXCEPT !.by = op[i].parents]
    OBVIOUS
  <2>3. r \in EventRows /\ r.here = event[e].here /\ r.cv = event[e].cv /\ r.by = op[i].parents
        /\ r.content = event[e].content
    BY <1>0, <2>1, <2>2 DEF EventRows
  <2>4. event'[e] = r
    BY <1>3, <2>1, <2>2
  <2> QED
    BY <2>3, <2>4
<1>6. \A e \in Id \ (Children(i) \cup op[i].parents) : event'[e] = event[e]
  BY <1>3
<1>7. ASSUME NEW e \in Id PROVE event'[e] \in EventRows
  <2>1. CASE e \notin Children(i) \cup op[i].parents
    BY <1>0, <1>6, <2>1
  <2> QED
    BY <1>4, <1>5, <2>1
<1>8. event' \in [Id -> EventRows]
  BY <1>3, <1>7
<1>9. ASSUME NEW o \in Observation
      PROVE  IF o \in Returning(i) THEN member'[o] \in op[i].parents ELSE member'[o] = member[o]
  BY <1>1 DEF revert_cluster_edit, Returning
<1>10. member' \in [Observation -> Id \cup {Nowhere}]
  <2>1. \A o \in Observation : member'[o] \in Id \cup {Nowhere}
    BY <1>0, <1>9
  <2> QED
    BY <2>1 DEF revert_cluster_edit
<1> QED
  BY <1>1, <1>2, <1>4, <1>5, <1>6, <1>8, <1>9, <1>10 DEF Reverts, revert_cluster_edit, Disturb

LEMMA RevertTyped ==
  ASSUME EditInv, NEW i \in Op, Reverts(i)
  PROVE  Types'
<1>0. /\ event \in [Id -> EventRows] /\ member \in [Observation -> Id \cup {Nowhere}] /\ pending \subseteq stored
      /\ \A o \in Observation : member[o] # Nowhere => o \in stored /\ event[member[o]].here
      /\ DOMAIN op[i].moved \subseteq Observation /\ op[i].parents \subseteq Id
  BY DEF EditInv, Types, MovedBack, Reverts
<1>1. Nowhere \notin Children(i)
  BY ChildrenAre, CurationAssumption DEF CurationAssumption
<1>2. \A e \in Id : event[e].here => event'[e].here
  BY DEF Reverts
<1>3. \A o \in Returning(i) : o \in Observation /\ o \in stored
  BY <1>0, <1>1 DEF Returning
<1>4. ASSUME NEW o \in Observation, member'[o] # Nowhere PROVE o \in stored /\ event'[member'[o]].here
  <2>1. CASE o \in Returning(i)
    BY <1>3, <2>1 DEF Reverts
  <2>2. CASE o \notin Returning(i)
    BY <1>0, <1>2, <1>4, <2>2 DEF Reverts
  <2> QED
    BY <2>1, <2>2
<1>5. pending' \subseteq stored
  BY <1>0, <1>3 DEF Reverts
<1> QED
  BY <1>2, <1>4, <1>5, EditTyped DEF Reverts, EditInv, Statuses

\* The erasures under way and the events they found.
PurgesTyped == purge \in [Source -> [on : BOOLEAN, found : SUBSET Id]]

\* The erasure of a source.
Purges(s) ==
    /\ event' \in [Id -> EventRows]
    /\ \A e \in Id : /\ event'[e].here = event[e].here /\ event'[e].cv = event[e].cv
                     /\ event'[e].by \in {event[e].by, {Erased}}
                     /\ event'[e].content \subseteq event[e].content
                     /\ e \in purge[s].found => event'[e].content \cap Of(s) = {}
                     /\ e \notin purge[s].found => event'[e] = event[e]
    /\ purge[s].found \subseteq Id /\ overtaken' = overtaken \cup (Affected(s) \ purge[s].found)
    /\ member' \in [Observation -> Id \cup {Nowhere}]
    /\ \A o \in Observation : member'[o] = IF o \in Of(s) THEN Nowhere ELSE member[o]
    /\ stored' = stored \ Of(s) /\ pending' = (pending \ Of(s)) \cup Rescored(s)
    /\ UNCHANGED <<op, disturbed, scorer, scoredIn>>

LEMMA PurgeIs ==
  ASSUME Types, PurgesTyped, NEW s \in Erasable, purge_source(s)
  PROVE  Purges(s)
<1>0. event \in [Id -> EventRows] /\ member \in [Observation -> Id \cup {Nowhere}]
  BY DEF Types
<1>1. event' = [e \in Id |-> IF e \in purge[s].found THEN WithoutSource(e, s) ELSE event[e]]
  BY DEF purge_source
<1>2. ASSUME NEW e \in Id
      PROVE  LET r == WithoutSource(e, s)
             IN  /\ r \in EventRows /\ r.here = event[e].here /\ r.cv = event[e].cv
                 /\ r.by \in {event[e].by, {Erased}} /\ r.content \subseteq event[e].content \ Of(s)
  <2>1. event[e] \in EventRows
    BY <1>0
  <2>2. CASE Members(e) \subseteq Of(s)
    <3>1. PICK r : r = [event[e] EXCEPT !.by = {Erased}, !.content = {}]
      OBVIOUS
    <3>2. /\ r \in EventRows /\ r.here = event[e].here /\ r.cv = event[e].cv
          /\ r.by = {Erased} /\ r.content = {}
      BY <2>1, <3>1 DEF EventRows
    <3>3. WithoutSource(e, s) = r
      BY <2>2, <3>1 DEF WithoutSource
    <3> QED
      BY <3>2, <3>3
  <2>3. CASE ~(Members(e) \subseteq Of(s))
    <3>1. PICK r : r = [event[e] EXCEPT !.content = @ \ Of(s)]
      OBVIOUS
    <3>2. /\ r \in EventRows /\ r.here = event[e].here /\ r.cv = event[e].cv
          /\ r.by = event[e].by /\ r.content = event[e].content \ Of(s)
      BY <2>1, <3>1 DEF EventRows
    <3>3. WithoutSource(e, s) = r
      BY <2>3, <3>1 DEF WithoutSource
    <3> QED
      BY <3>2, <3>3
  <2> QED
    BY <2>2, <2>3
<1>3. ASSUME NEW e \in Id
      PROVE  /\ event'[e] \in EventRows
             /\ event'[e].here = event[e].here /\ event'[e].cv = event[e].cv
             /\ event'[e].by \in {event[e].by, {Erased}}
             /\ event'[e].content \subseteq event[e].content
             /\ e \in purge[s].found => event'[e].content \cap Of(s) = {}
             /\ e \notin purge[s].found => event'[e] = event[e]
  <2>1. CASE e \in purge[s].found
    <3>1. event'[e] = WithoutSource(e, s)
      BY <1>1, <2>1
    <3> HIDE <1>1
    <3> QED
      BY <1>2, <2>1, <3>1
  <2>2. CASE e \notin purge[s].found
    BY <1>0, <1>1, <2>2
  <2> QED
    BY <2>1, <2>2
<1>4. event' \in [Id -> EventRows]
  BY <1>1, <1>3
<1>5. /\ member' \in [Observation -> Id \cup {Nowhere}]
      /\ \A o \in Observation : member'[o] = IF o \in Of(s) THEN Nowhere ELSE member[o]
  BY <1>0 DEF purge_source
<1>6. purge[s].found \subseteq Id
  BY CurationAssumption DEF PurgesTyped, CurationAssumption
<1> QED
  BY <1>3, <1>4, <1>5, <1>6 DEF Purges, purge_source, edits

LEMMA PurgeTyped ==
  ASSUME Types, NEW s \in Erasable, Purges(s)
  PROVE  Types'
<1>0. /\ event \in [Id -> EventRows] /\ member \in [Observation -> Id \cup {Nowhere}] /\ pending \subseteq stored
      /\ stored \subseteq Observation
      /\ \A o \in Observation : member[o] # Nowhere => o \in stored /\ event[member[o]].here
  BY DEF Types
<1>1. \A e \in Id : event'[e].here = event[e].here
  BY DEF Purges
<1>2. ASSUME NEW o \in Observation, member'[o] # Nowhere PROVE o \in stored' /\ event'[member'[o]].here
  BY <1>0, <1>1, <1>2 DEF Purges
<1>3. Nowhere \notin purge[s].found
  <2>1. Nowhere \notin Id
    BY CurationAssumption DEF CurationAssumption
  <2> QED
    BY <2>1 DEF Purges
<1>4. pending' \subseteq stored'
  BY <1>0, <1>3 DEF Purges, Rescored
<1>5. UNCHANGED <<op, scorer, scoredIn>> /\ stored' \subseteq Observation /\ event' \in [Id -> EventRows]
      /\ member' \in [Observation -> Id \cup {Nowhere}]
  BY <1>0 DEF Purges
<1> QED
  BY <1>1, <1>2, <1>4, <1>5 DEF Types

\* The marks and the items collected again.
LEMMA PendingTyped ==
  ASSUME Types, UNCHANGED <<event, member, op, scorer, scoredIn>>, stored \subseteq stored',
         stored' \subseteq Observation, pending' \subseteq stored'
  PROVE  Types'
BY DEF Types

LEMMA MarkIs ==
  ASSUME Types, NEW e \in Id, set_behavior_applicability(e)
  PROVE  /\ UNCHANGED <<event, member, stored, op, mark, disturbed, scorer, scoredIn>>
         /\ pending \subseteq pending' /\ pending' \subseteq stored'
<1>1. Members(e) \subseteq stored
  <2>1. Nowhere \notin Id
    BY CurationAssumption DEF CurationAssumption
  <2> QED
    BY <2>1 DEF Types, Members
<1> QED
  BY <1>1 DEF set_behavior_applicability, edits, Types

LEMMA CollectIs ==
  ASSUME Types, NEW o \in Observation, CollectAgain(o)
  PROVE  /\ UNCHANGED <<event, member, op, mark, disturbed, scorer, scoredIn>>
         /\ stored \subseteq stored' /\ stored' \subseteq Observation
         /\ pending' = pending \cup {o} /\ pending' \subseteq stored' /\ o \notin stored
         /\ stored' = stored \cup {o}
BY DEF CollectAgain, edits, Types

-----------------------------------------------------------------------------
(* Executors: who is not idle has an edit in hand.                          *)
ExecutorsTyped ==
    /\ executor \in [Executor -> [pc : {"idle", "taking", "marking", "refusing"}, todo : SUBSET Op]]
    /\ \A x \in Executor : executor[x].pc # "idle" => executor[x].todo # {}

\* The least number of a set, by the well-founded order of the finite sets 0..m.
LEMMA StrictPair ==
  ASSUME NEW A \in SUBSET Nat, NEW B \in SUBSET Nat, A \subseteq B, A # B
  PROVE  <<A, B>> \in StrictSubsetOrdering(Nat)
  BY DEF StrictSubsetOrdering

LEMMA LeastExists ==
  ASSUME NEW S \in SUBSET Nat, S # {}
  PROVE  \E m \in S : \A k \in S : m <= k
<1> DEFINE T == {0..m : m \in S}
<1>1. T \subseteq FiniteSubsetsOf(Nat) /\ T # {}
  <2>1. ASSUME NEW m \in S PROVE IsFiniteSet(0..m) /\ 0..m \in SUBSET Nat
    BY FS_Interval
  <2> QED
    BY <2>1 DEF FiniteSubsetsOf
<1>2. PICK U \in T : \A V \in T : <<V, U>> \notin StrictSubsetOrdering(Nat)
  <2> HIDE DEF T
  <2> QED
    BY <1>1, WFMin, FS_StrictSubsetOrderingWellFounded
<1>3. PICK m \in S : U = 0..m
  OBVIOUS
<1>4. ASSUME NEW k \in S, k < m PROVE FALSE
  <2>1. /\ 0..k \in SUBSET Nat /\ 0..m \in SUBSET Nat /\ 0..k \subseteq 0..m
        /\ m \in 0..m /\ m \notin 0..k
    BY <1>4
  <2>2. 0..k # 0..m
    BY <2>1
  <2>3. <<0..k, 0..m>> \in StrictSubsetOrdering(Nat)
    BY <2>1, <2>2, StrictPair
  <2>4. 0..k \in T
    BY <1>4
  <2> HIDE DEF T
  <2>5. <<0..k, U>> \notin StrictSubsetOrdering(Nat)
    BY <1>2, <2>4, Zenon
  <2> QED
    BY <1>3, <2>3, <2>5, Zenon
<1> QED
  BY <1>4

LEMMA CurrentIsEdit ==
  ASSUME ExecutorsTyped, NEW x \in Executor, executor[x].pc # "idle"
  PROVE  Current(x) \in Op /\ Current(x) \in executor[x].todo
<1>1. executor[x].todo \in SUBSET Nat /\ executor[x].todo # {} /\ executor[x].todo \subseteq Op
  BY CurationAssumption DEF CurationAssumption, ExecutorsTyped
<1> QED
  BY <1>1, LeastExists DEF Current, Min

LEMMA ExecutorsStep ==
  ASSUME ExecutorsTyped, [Next]_vars
  PROVE  ExecutorsTyped'
<1>1. CASE UNCHANGED executor
  BY <1>1 DEF ExecutorsTyped
<1>2. ASSUME NEW x \in Executor, NEW v \in [pc : {"idle", "taking", "marking", "refusing"}, todo : SUBSET Op],
             v.pc # "idle" => v.todo # {}, executor' = [executor EXCEPT ![x] = v]
      PROVE  ExecutorsTyped'
  BY <1>2 DEF ExecutorsTyped
<1>3. ASSUME NEW x \in Executor, NEW pc \in {"marking", "refusing"}, executor[x].pc = "taking", Step(x, pc)
      PROVE  ExecutorsTyped'
  <2>1. PICK v : v = [executor[x] EXCEPT !.pc = pc]
    OBVIOUS
  <2>2. executor[x] \in [pc : {"idle", "taking", "marking", "refusing"}, todo : SUBSET Op] /\ executor[x].todo # {}
    BY <1>3 DEF ExecutorsTyped
  <2>3. v \in [pc : {"idle", "taking", "marking", "refusing"}, todo : SUBSET Op] /\ v.todo # {}
    BY <2>1, <2>2
  <2>4. executor' = [executor EXCEPT ![x] = v]
    BY <1>3, <2>1 DEF Step
  <2> QED
    BY <1>2, <2>3, <2>4
<1>4. ASSUME NEW x \in Executor, executor[x].pc # "idle", Done(x)
      PROVE  ExecutorsTyped'
  <2>1. PICK v : v = IF executor[x].todo = {Current(x)} THEN Resting
                     ELSE [pc |-> "taking", todo |-> executor[x].todo \ {Current(x)}]
    OBVIOUS
  <2>2. executor' = [executor EXCEPT ![x] = v]
    BY <2>1, <1>4 DEF Done
  <2>3. executor[x].todo \subseteq Op /\ Current(x) \in executor[x].todo
    BY <1>4, CurrentIsEdit DEF ExecutorsTyped
  <2>4. v \in [pc : {"idle", "taking", "marking", "refusing"}, todo : SUBSET Op]
        /\ (v.pc # "idle" => v.todo # {})
    BY <2>1, <2>3 DEF Resting
  <2> QED
    BY <1>2, <2>2, <2>4
<1>5. ASSUME NEW x \in Executor, Executing(x) \/ ExecutorFails(x)
      PROVE  ExecutorsTyped'
  <2>1. CASE ExecutorStarts(x)
    BY <1>2, <2>1 DEF ExecutorStarts
  <2>2. CASE ExecutorTakes(x)
    BY <1>3, <2>2 DEF ExecutorTakes
  <2>3. CASE ExecutorMarks(x) \/ ExecutorRefuses(x)
    BY <1>4, <2>3 DEF ExecutorMarks, ExecutorRefuses
  <2>4. CASE ExecutorFails(x)
    BY <1>2, <2>4 DEF ExecutorFails, Resting
  <2> QED
    BY <1>5, <2>1, <2>2, <2>3, <2>4 DEF Executing
<1>6. ASSUME NEW w \in Scorer, Scoring(w) \/ ScorerCrashes(w) \/ \E o \in Observation : Claim(w, o)
      PROVE  UNCHANGED executor
  BY <1>6 DEF Scoring, ScorerCrashes, Claim, Create, assign_observation, Load, commit_scored_event, Complete
<1>7. ASSUME NEW e \in Id, ForeignWrite(e) \/ set_behavior_applicability(e)
      PROVE  UNCHANGED executor
  BY <1>7 DEF ForeignWrite, set_behavior_applicability
<1>8. ASSUME NEW i \in Op, ExecuteNow(i) \/ revert_cluster_edit(i)
                           \/ \E parents \in SUBSET Active, picks \in SUBSET Observation :
                                 queue_cluster_edit(i, parents, picks)
      PROVE  UNCHANGED executor
  BY <1>8 DEF ExecuteNow, revert_cluster_edit, queue_cluster_edit
<1>9. ASSUME NEW s \in Erasable, ReadAffected(s) \/ purge_source(s) \/ PurgeFails(s)
      PROVE  UNCHANGED executor
  BY <1>9 DEF ReadAffected, purge_source, PurgeFails
<1>10. ASSUME NEW o \in Observation, CollectAgain(o)
       PROVE  UNCHANGED executor
  BY <1>10 DEF CollectAgain
<1> QED
  BY <1>1, <1>5, <1>6, <1>7, <1>8, <1>9, <1>10 DEF Next, vars

\* The erasures: only their own steps change what they found.
LEMMA PurgesStep ==
  ASSUME Types, PurgesTyped, [Next]_vars
  PROVE  PurgesTyped'
<1>1. CASE UNCHANGED purge
  BY <1>1 DEF PurgesTyped
<1>2. ASSUME NEW w \in Scorer, Scoring(w) \/ ScorerCrashes(w) \/ \E o \in Observation : Claim(w, o)
      PROVE  UNCHANGED purge
  BY <1>2, ScoringForms DEF erasures
<1>3. ASSUME NEW e \in Id, ForeignWrite(e) \/ set_behavior_applicability(e)
      PROVE  UNCHANGED purge
  BY <1>3 DEF ForeignWrite, set_behavior_applicability, erasures
<1>4. ASSUME NEW i \in Op, ExecuteNow(i) \/ revert_cluster_edit(i)
                           \/ \E parents \in SUBSET Active, picks \in SUBSET Observation :
                                 queue_cluster_edit(i, parents, picks)
      PROVE  UNCHANGED purge
  BY <1>4 DEF ExecuteNow, revert_cluster_edit, queue_cluster_edit, erasures
<1>5. ASSUME NEW x \in Executor, Executing(x) \/ ExecutorFails(x)
      PROVE  UNCHANGED purge
  BY <1>5 DEF Executing, ExecutorStarts, ExecutorTakes, ExecutorMarks, ExecutorRefuses, ExecutorFails, erasures
<1>6. ASSUME NEW o \in Observation, CollectAgain(o)
      PROVE  UNCHANGED purge
  BY <1>6 DEF CollectAgain, erasures
<1>7. ASSUME NEW s \in Erasable, ReadAffected(s)
      PROVE  PurgesTyped'
  <2>1. Affected(s) \subseteq Id
    <3>1. ASSUME NEW o \in Of(s), member[o] # Nowhere PROVE member[o] \in Id
      BY <3>1 DEF Types, Of
    <3> QED
      BY <3>1 DEF Affected
  <2>2. [on |-> TRUE, found |-> Affected(s)] \in [on : BOOLEAN, found : SUBSET Id]
    BY <2>1
  <2>3. purge' = [purge EXCEPT ![s] = [on |-> TRUE, found |-> Affected(s)]]
    BY <1>7 DEF ReadAffected
  <2> HIDE DEF Affected
  <2> QED
    BY <2>2, <2>3 DEF PurgesTyped
<1>8. ASSUME NEW s \in Erasable, purge_source(s) \/ PurgeFails(s)
      PROVE  PurgesTyped'
  <2>1. NoPurge \in [on : BOOLEAN, found : SUBSET Id] /\ purge' = [purge EXCEPT ![s] = NoPurge]
    BY <1>8 DEF purge_source, PurgeFails, NoPurge
  <2> QED
    BY <2>1 DEF PurgesTyped
<1> QED
  BY <1>1, <1>2, <1>3, <1>4, <1>5, <1>6, <1>7, <1>8 DEF Next, vars, erasures

\* Whoever works beside the scorers: the executors and the erasures.
HelpersTyped == ExecutorsTyped /\ PurgesTyped

LEMMA HelpersStep ==
  ASSUME EditInv, HelpersTyped, [Next]_vars
  PROVE  HelpersTyped'
BY ExecutorsStep, PurgesStep DEF HelpersTyped, EditInv

-----------------------------------------------------------------------------
(* The forms of every step.                                                 *)

\* At most a queued edit has failed.
Unedited ==
    /\ DOMAIN op' = Op
    /\ \A j \in Op : /\ DOMAIN op'[j] = OpFields /\ op'[j].parents = op[j].parents
                     /\ op'[j].expected = op[j].expected /\ op'[j].moved = op[j].moved
                     /\ \/ op'[j].status = op[j].status
                        \/ op[j].status = "queued" /\ op'[j].status = "failed"

ScoringForm(w) ==
    \/ Claims(w) \/ Retries(w) \/ Fails(w) \/ Creates(w) \/ Assigns(w) \/ Loads(w)
    \/ Commits(w) \/ Complete(w)

\* Once a source came into an event behind the back of its erasure, that stays noted.
Forms ==
    /\ overtaken \subseteq overtaken'
    /\ \/ \E w \in Scorer : ScoringForm(w) /\ UNCHANGED <<op, disturbed, overtaken>>
       \/ \E e \in Id : ForeignWrite(e)
       \/ \E i \in Op, parents \in SUBSET Active : Queues(i, parents)
       \/ \E i \in Op : Executes(i)
       \/ \E i \in Op : Reverts(i)
       \/ \E s \in Erasable : Purges(s)
       \/ \E e \in Id : set_behavior_applicability(e)
       \/ \E o \in Observation : CollectAgain(o)
       \/ Unedited /\ UNCHANGED <<event, member, stored, pending, disturbed, scorer, scoredIn>>

LEMMA StepForms ==
  ASSUME EditInv, HelpersTyped, [Next]_vars
  PROVE  Forms
<1>0. Types /\ ExecutorsTyped /\ PurgesTyped
  BY DEF EditInv, HelpersTyped
<1>1. ASSUME NEW w \in Scorer, Scoring(w) \/ ScorerCrashes(w) \/ \E o \in Observation : Claim(w, o)
      PROVE  Forms
  <2>1. UNCHANGED <<op, disturbed, overtaken>> /\ ScoringForm(w)
    BY <1>0, <1>1, ScoringForms DEF ScoringForm, erasures
  <2> QED
    BY <2>1 DEF Forms
<1>2. ASSUME NEW i \in Op, NEW parents \in SUBSET Active, NEW picks \in SUBSET Observation,
             queue_cluster_edit(i, parents, picks)
      PROVE  Forms
  <2>1. Queues(i, parents) /\ UNCHANGED overtaken
    BY <1>0, <1>2, QueueIs DEF queue_cluster_edit, erasures
  <2> QED
    BY <2>1 DEF Forms
<1>3. ASSUME NEW i \in Op, ExecuteNow(i)
      PROVE  Forms
  <2>1. Executes(i) /\ UNCHANGED overtaken
    BY <1>3, ExecuteIs DEF ExecuteNow, erasures
  <2> QED
    BY <2>1 DEF Forms
<1>4. ASSUME NEW i \in Op, revert_cluster_edit(i)
      PROVE  Forms
  <2>1. Reverts(i) /\ UNCHANGED overtaken
    BY <1>4, RevertIs DEF revert_cluster_edit, erasures
  <2> QED
    BY <2>1 DEF Forms
<1>5. ASSUME NEW s \in Erasable, purge_source(s)
      PROVE  Forms
  <2>1. Purges(s)
    BY <1>0, <1>5, PurgeIs
  <2>2. overtaken \subseteq overtaken'
    BY <2>1 DEF Purges
  <2> QED
    BY <2>1, <2>2 DEF Forms
<1>6. CASE UNCHANGED <<rows, op, disturbed, scorer, scoredIn, overtaken>>
  BY <1>0, <1>6 DEF Forms, Unedited, Types, rows
<1>7. ASSUME NEW x \in Executor, ExecutorTakes(x)
      PROVE  Forms
  <2>1. CASE Executable(Current(x)) /\ execute_cluster_edit(Current(x))
    <3>1. Current(x) \in Op
      BY <1>0, <1>7, CurrentIsEdit DEF ExecutorTakes
    <3>2. Executes(Current(x))
      BY <1>7, <2>1, <3>1, ExecuteIs DEF ExecutorTakes
    <3>3. UNCHANGED overtaken
      BY <1>7 DEF ExecutorTakes, erasures
    <3> QED
      BY <3>1, <3>2, <3>3 DEF Forms
  <2>2. CASE UNCHANGED <<rows, op, disturbed>>
    BY <1>6, <1>7, <2>2 DEF ExecutorTakes, erasures
  <2> QED
    BY <1>7, <2>1, <2>2 DEF ExecutorTakes
<1>8. ASSUME NEW x \in Executor, ExecutorRefuses(x)
      PROVE  Forms
  <2>1. PICK i \in Op : i = Current(x)
    BY <1>0, <1>8, CurrentIsEdit DEF ExecutorRefuses
  <2>2. StatusBecomes(i, Refused(i)) /\ \A j \in Op : op'[j].moved = op[j].moved
    BY <1>0, <1>8, <2>1, StatusIs DEF ExecutorRefuses
  <2>3. Unedited
    BY <2>2 DEF StatusBecomes, Refused, Unedited
  <2> QED
    BY <1>8, <2>3 DEF ExecutorRefuses, rows, erasures, Forms
<1>9. ASSUME NEW x \in Executor, ExecutorStarts(x) \/ ExecutorMarks(x) \/ ExecutorFails(x)
      PROVE  Forms
  BY <1>6, <1>9 DEF ExecutorStarts, ExecutorMarks, ExecutorFails, edits, erasures
<1>10. CASE UNCHANGED vars
  BY <1>6, <1>10 DEF vars, edits, erasures
<1>11. ASSUME NEW e \in Id, ForeignWrite(e) \/ set_behavior_applicability(e)
       PROVE  Forms
  BY <1>11 DEF Forms, ForeignWrite, set_behavior_applicability, erasures
<1>12. ASSUME NEW o \in Observation, CollectAgain(o)
       PROVE  Forms
  BY <1>12 DEF Forms, CollectAgain, erasures
<1>13. ASSUME NEW s \in Erasable, ReadAffected(s) \/ PurgeFails(s)
       PROVE  Forms
  BY <1>6, <1>13 DEF ReadAffected, PurgeFails, edits
<1> QED
  BY <1>1, <1>2, <1>3, <1>4, <1>5, <1>7, <1>8, <1>9, <1>10, <1>11, <1>12, <1>13 DEF Next, Executing

-----------------------------------------------------------------------------
(* The edits.                                                               *)

\* Events go on, and at most a queued edit has failed.
LEMMA EditsGoOn ==
  ASSUME EditInv, Types', Unedited, UNCHANGED disturbed,
         \A e \in Id : event[e].here => /\ event'[e].here /\ event'[e].cv = event[e].cv
                                        /\ (event[e].by # {} => event'[e].by # {}),
         \A e \in Child : ~event[e].here => ~event'[e].here
  PROVE  EditInv'
<1>1. \A i \in Op : Children(i)' = Children(i)
  BY DEF Unedited, Children, IsMerge
<1>2. ChildrenAreFresh'
  BY DEF EditInv, ChildrenAreFresh, Unedited, Child
<1>3. ParentsExist'
  BY <1>1 DEF EditInv, ParentsExist, Unedited, Types
<1>4. Expectations'
  <2> SUFFICES ASSUME NEW i \in Op, op'[i].status = "queued", NEW e \in op'[i].parents
               PROVE  op'[i].expected[e] \in Nat /\ op'[i].expected[e] <= event'[e].cv
    BY DEF Expectations
  <2>1. op[i].status = "queued" /\ e \in op[i].parents /\ op'[i].expected = op[i].expected /\ e \in Id
    BY DEF Unedited, EditInv, Types
  <2>2. event[e].here /\ op[i].expected[e] \in Nat /\ op[i].expected[e] <= event[e].cv
    BY <2>1 DEF EditInv, ParentsExist, Expectations
  <2>3. event'[e].cv = event[e].cv
    BY <2>1, <2>2
  <2> QED
    BY <2>1, <2>2, <2>3
<1>5. DisturbedShows'
  <2> SUFFICES ASSUME NEW i \in Op, i \in disturbed
               PROVE  op'[i].status # "none" /\ (op'[i].status = "queued" => Shows(i)')
    BY DEF DisturbedShows
  <2>1. op[i].status # "none" /\ (op[i].status = "queued" => Shows(i))
    BY DEF EditInv, DisturbedShows
  <2>2. op'[i].status # "none"
    BY <2>1 DEF Unedited
  <2>3. ASSUME op'[i].status = "queued" PROVE Shows(i)'
    <3>1. op[i].status = "queued" /\ op'[i].parents = op[i].parents /\ op'[i].expected = op[i].expected
      BY <2>3 DEF Unedited
    <3>2. PICK e \in op[i].parents : event[e].cv > op[i].expected[e] \/ event[e].by # {}
      BY <2>1, <3>1 DEF Shows
    <3>3. e \in Id /\ event[e].here
      BY <3>1 DEF EditInv, ParentsExist, Types
    <3>4. event'[e].cv > op[i].expected[e] \/ event'[e].by # {}
      BY <3>2, <3>3
    <3> QED
      BY <3>1, <3>4 DEF Shows
  <2> QED
    BY <2>2, <2>3
<1>6. MovedBack'
  BY DEF EditInv, MovedBack, Unedited
<1> QED
  BY <1>2, <1>3, <1>4, <1>5, <1>6 DEF EditInv

LEMMA SameEdits ==
  ASSUME Types, UNCHANGED op
  PROVE  Unedited
BY DEF Types, Unedited

LEMMA ScoringEdits ==
  ASSUME EditInv, NEW w \in Scorer, ScoringForm(w), UNCHANGED <<op, disturbed>>
  PROVE  EditInv'
<1>1. Types'
  BY ScoringTyped, CommitTyped DEF ScoringForm, EditInv
<1>2. Unedited
  BY SameEdits DEF EditInv
<1>3. CASE UNCHANGED event
  BY <1>1, <1>2, <1>3, EditsGoOn
<1>4. CASE Creates(w)
  <2>1. scorer[w].e \in Event /\ ~event[scorer[w].e].here
    BY <1>4 DEF EditInv, Types, Creates
  <2>2. scorer[w].e \notin Child
    BY <2>1, CurationAssumption DEF CurationAssumption
  <2>3. \A e \in Id : e # scorer[w].e => event'[e] = event[e]
    BY <1>4 DEF Creates, EditInv, Types
  <2>4. Child \subseteq Id
    BY DEF Id
  <2> QED
    BY <1>1, <1>2, <2>1, <2>2, <2>3, <2>4, EditsGoOn
<1>5. CASE Commits(w)
  <2>1. PICK r : r = [event[scorer[w].e] EXCEPT !.content = scorer[w].input]
    OBVIOUS
  <2>2. event \in [Id -> EventRows] /\ scorer[w].e \in Id
    BY <1>5 DEF EditInv, Types, Commits
  <2>3. r.here = event[scorer[w].e].here /\ r.cv = event[scorer[w].e].cv /\ r.by = event[scorer[w].e].by
    BY <2>1, <2>2 DEF EventRows
  <2>4. event' = [event EXCEPT ![scorer[w].e] = r]
    BY <1>5, <2>1 DEF Commits
  <2>5. \A e \in Id : event'[e].here = event[e].here /\ event'[e].cv = event[e].cv /\ event'[e].by = event[e].by
    BY <2>2, <2>3, <2>4
  <2>6. Child \subseteq Id
    BY DEF Id
  <2> QED
    BY <1>1, <1>2, <2>5, <2>6, EditsGoOn
<1>6. UNCHANGED event \/ Creates(w) \/ Commits(w)
  BY DEF ScoringForm, Claims, Retries, Fails, Assigns, Loads, Complete, rows
<1> QED
  BY <1>3, <1>4, <1>5, <1>6

LEMMA QueueEdits ==
  ASSUME EditInv, NEW i \in Op, NEW parents \in SUBSET Active, Queues(i, parents)
  PROVE  EditInv'
<1>1. Types'
  BY QueueTyped DEF EditInv
<1>2. PICK v : /\ op' = [op EXCEPT ![i] = v] /\ v.status = "queued"
               /\ v.parents = parents /\ v.expected = [e \in parents |-> event[e].cv]
  BY DEF Queues
<1>3. /\ op[i].status = "none" /\ parents # {} /\ UNCHANGED <<event, member, stored, disturbed>>
      /\ DOMAIN op = Op
  BY DEF Queues, EditInv, Types
<1>4. op'[i] = v /\ \A j \in Op : j # i => op'[j] = op[j]
  BY <1>2, <1>3
<1>5. \A e \in parents : e \in Id /\ event[e].here
  BY DEF Active
<1>6. ~event[<<i, 1>>].here /\ ~event[<<i, 2>>].here
  BY <1>3 DEF EditInv, ChildrenAreFresh
<1>7. ChildrenAreFresh'
  BY <1>3, <1>4, <1>6 DEF ChildrenAreFresh, EditInv
<1>8. ASSUME NEW j \in Op, op'[j].status \in {"queued", "completed", "reverted"}
      PROVE  /\ op'[j].parents # {} /\ \A e \in op'[j].parents : event[e].here
             /\ op'[j].parents \cap Children(j)' = {}
  <2>1. CASE j = i
    <3>1. Children(i)' \subseteq {<<i, 1>>, <<i, 2>>}
      BY DEF Children
    <3> QED
      BY <1>2, <1>3, <1>4, <1>5, <1>6, <2>1, <3>1
  <2>2. CASE j # i
    <3>1. Children(j)' = Children(j)
      BY <1>4, <2>2 DEF Children, IsMerge
    <3> QED
      BY <1>4, <1>8, <2>2, <3>1 DEF EditInv, ParentsExist
  <2> QED
    BY <2>1, <2>2
<1>9. ParentsExist'
  BY <1>3, <1>8 DEF ParentsExist
<1>10. \A e \in parents : event[e].cv \in Nat
  BY <1>5 DEF EditInv, Types, EventRows
<1>11. Expectations'
  <2> SUFFICES ASSUME NEW j \in Op, op'[j].status = "queued", NEW e \in op'[j].parents
               PROVE  op'[j].expected[e] \in Nat /\ op'[j].expected[e] <= event'[e].cv
    BY DEF Expectations
  <2>1. CASE j = i
    BY <1>2, <1>3, <1>4, <1>10, <2>1
  <2>2. CASE j # i
    BY <1>3, <1>4, <2>2 DEF EditInv, Expectations
  <2> QED
    BY <2>1, <2>2
<1>12. DisturbedShows'
  <2> SUFFICES ASSUME NEW j \in Op, j \in disturbed
               PROVE  op'[j].status # "none" /\ (op'[j].status = "queued" => Shows(j)')
    BY <1>3 DEF DisturbedShows
  <2>1. op[j].status # "none" /\ j # i
    BY <1>3 DEF EditInv, DisturbedShows
  <2>2. Shows(j)' <=> Shows(j)
    BY <1>3, <1>4, <2>1 DEF Shows
  <2> QED
    BY <1>4, <2>1, <2>2 DEF EditInv, DisturbedShows
<1>13. MovedBack'
  BY <1>2, <1>4 DEF EditInv, MovedBack
<1> QED
  BY <1>1, <1>7, <1>9, <1>11, <1>12, <1>13 DEF EditInv

LEMMA ExecuteEdits ==
  ASSUME EditInv, NEW i \in Op, Executes(i)
  PROVE  EditInv'
<1>1. Types'
  BY ExecuteTyped
<1>2. /\ op[i].status = "queued" /\ DOMAIN op = Op
      /\ \A j \in Op : op[j].parents \subseteq Id
      /\ op[i].parents \cap Children(i) = {}
      /\ member \in [Observation -> Id \cup {Nowhere}]
  BY DEF Executes, EditInv, Types, ParentsExist
<1>3. \A j \in Op : /\ op'[j].parents = op[j].parents /\ op'[j].expected = op[j].expected
                    /\ op'[j].status = IF j = i THEN "completed" ELSE op[j].status
  BY DEF Executes, StatusBecomes
<1>4. \A j \in Op : Children(j)' = Children(j)
  BY <1>3 DEF Children, IsMerge
<1>5. \A e \in Children(i) : ~event[e].here /\ e \in Id
  BY <1>2, ChildrenAre DEF EditInv, ChildrenAreFresh
<1>6. ASSUME NEW e \in Id, event[e].here
      PROVE  /\ event'[e].here /\ event'[e].cv = event[e].cv
             /\ (event[e].by # {} => event'[e].by # {})
             /\ (e \in op[i].parents => event'[e].by # {})
  <2>1. e \notin Children(i)
    BY <1>5, <1>6
  <2>2. CASE e \in op[i].parents
    BY <2>2, ChildrenAre DEF Executes
  <2>3. CASE e \notin op[i].parents
    BY <1>6, <2>1, <2>3 DEF Executes
  <2> QED
    BY <2>2, <2>3
<1>7. ChildrenAreFresh'
  <2> SUFFICES ASSUME NEW j \in Op, op'[j].status \in {"none", "queued"}
               PROVE  ~event'[<<j, 1>>].here /\ ~event'[<<j, 2>>].here
    BY DEF ChildrenAreFresh
  <2>1. j # i /\ ~event[<<j, 1>>].here /\ ~event[<<j, 2>>].here
    BY <1>3 DEF EditInv, ChildrenAreFresh
  <2>2. <<j, 1>> \in Id /\ <<j, 2>> \in Id
    BY DEF Id, Child
  <2>3. <<j, 1>> \notin Children(i) /\ <<j, 2>> \notin Children(i)
    BY <2>1 DEF Children
  <2>4. \A e \in op[i].parents : event[e].here
    BY <1>2 DEF EditInv, ParentsExist
  <2> QED
    BY <2>1, <2>2, <2>3, <2>4 DEF Executes
<1>8. ParentsExist'
  <2> SUFFICES ASSUME NEW j \in Op, op'[j].status \in {"queued", "completed", "reverted"}
               PROVE  /\ op'[j].parents # {} /\ \A e \in op'[j].parents : event'[e].here
                      /\ op'[j].parents \cap Children(j)' = {}
    BY DEF ParentsExist
  <2>1. op[j].status \in {"queued", "completed", "reverted"}
    BY <1>2, <1>3
  <2>2. /\ op[j].parents # {} /\ \A e \in op[j].parents : event[e].here
        /\ op[j].parents \cap Children(j) = {}
    BY <2>1 DEF EditInv, ParentsExist
  <2> QED
    BY <1>2, <1>3, <1>4, <1>6, <2>2
<1>9. Expectations'
  <2> SUFFICES ASSUME NEW j \in Op, op'[j].status = "queued", NEW e \in op'[j].parents
               PROVE  op'[j].expected[e] \in Nat /\ op'[j].expected[e] <= event'[e].cv
    BY DEF Expectations
  <2>1. op[j].status = "queued" /\ e \in op[j].parents /\ op'[j].expected = op[j].expected /\ e \in Id
    BY <1>2, <1>3
  <2>2. event[e].here /\ op[j].expected[e] \in Nat /\ op[j].expected[e] <= event[e].cv
    BY <2>1 DEF EditInv, ParentsExist, Expectations
  <2>3. event'[e].cv = event[e].cv
    BY <1>6, <2>1, <2>2
  <2> QED
    BY <2>1, <2>2, <2>3
<1>10. DisturbedShows'
  <2> SUFFICES ASSUME NEW j \in Op, j \in disturbed'
               PROVE  op'[j].status # "none" /\ (op'[j].status = "queued" => Shows(j)')
    BY DEF DisturbedShows
  <2>1. op[j].status # "none"
    BY DEF Executes, EditInv, DisturbedShows
  <2>2. ASSUME op'[j].status = "queued" PROVE Shows(j)'
    <3>1. op[j].status = "queued"
      BY <1>3, <2>2
    <3>2. \A e \in op[j].parents : e \in Id /\ event[e].here
      BY <1>2, <3>1 DEF EditInv, ParentsExist
    <3>3. \E e \in op[j].parents : event[e].cv > op[j].expected[e] \/ event[e].by # {} \/ e \in op[i].parents
      BY <3>1 DEF Executes, EditInv, DisturbedShows, Shows
    <3>4. PICK e \in op[j].parents : event'[e].cv > op[j].expected[e] \/ event'[e].by # {}
      BY <1>6, <3>2, <3>3
    <3> QED
      BY <1>3, <3>4 DEF Shows
  <2> QED
    BY <1>3, <2>1, <2>2
<1>11. MovedBack'
  <2>1. DOMAIN op'[i].moved \subseteq Observation /\ \A o \in DOMAIN op'[i].moved : op'[i].moved[o] \in op[i].parents
    BY DEF Executes, Moving
  <2> QED
    BY <1>3, <2>1 DEF Executes, EditInv, MovedBack
<1> QED
  BY <1>1, <1>7, <1>8, <1>9, <1>10, <1>11 DEF EditInv

LEMMA RevertEdits ==
  ASSUME EditInv, NEW i \in Op, Reverts(i)
  PROVE  EditInv'
<1>1. Types'
  BY RevertTyped
<1>2. /\ op[i].status = "completed" /\ DOMAIN op = Op
      /\ \A j \in Op : op[j].parents \subseteq Id
      /\ op[i].parents # {} /\ \A e \in op[i].parents : event[e].here
      /\ op[i].parents \cap Children(i) = {}
      /\ event \in [Id -> EventRows]
  BY DEF Reverts, EditInv, Types, ParentsExist
<1>3. \A j \in Op : /\ op'[j].parents = op[j].parents /\ op'[j].expected = op[j].expected
                    /\ op'[j].moved = op[j].moved
                    /\ op'[j].status = IF j = i THEN "reverted" ELSE op[j].status
  BY DEF Reverts, StatusBecomes
<1>4. \A j \in Op : Children(j)' = Children(j)
  BY <1>3 DEF Children, IsMerge
<1>5. ASSUME NEW e \in Id
      PROVE  /\ event'[e].here <=> event[e].here
             /\ event[e].cv \in Nat
             /\ e \in op[i].parents => event'[e].cv = event[e].cv + 1
             /\ e \notin op[i].parents => event'[e].cv = event[e].cv
             /\ e \notin op[i].parents /\ event[e].by # {} => event'[e].by # {}
             /\ e \in Children(i) => event'[e].by # {}
  <2>1. event[e].cv \in Nat /\ event[e].here \in BOOLEAN
    BY <1>2 DEF EventRows
  <2>2. CASE e \in op[i].parents
    BY <1>2, <2>1, <2>2 DEF Reverts
  <2>3. CASE e \in Children(i)
    BY <1>2, <2>1, <2>3 DEF Reverts
  <2>4. CASE e \notin op[i].parents \cup Children(i)
    BY <2>1, <2>4 DEF Reverts
  <2> QED
    BY <2>2, <2>3, <2>4
<1>6. ChildrenAreFresh'
  <2> SUFFICES ASSUME NEW j \in Op, op'[j].status \in {"none", "queued"}
               PROVE  ~event'[<<j, 1>>].here /\ ~event'[<<j, 2>>].here
    BY DEF ChildrenAreFresh
  <2>1. ~event[<<j, 1>>].here /\ ~event[<<j, 2>>].here
    BY <1>3 DEF EditInv, ChildrenAreFresh
  <2>2. <<j, 1>> \in Id /\ <<j, 2>> \in Id
    BY DEF Id, Child
  <2> QED
    BY <1>5, <2>1, <2>2
<1>7. ParentsExist'
  <2> SUFFICES ASSUME NEW j \in Op, op'[j].status \in {"queued", "completed", "reverted"}
               PROVE  /\ op'[j].parents # {} /\ \A e \in op'[j].parents : event'[e].here
                      /\ op'[j].parents \cap Children(j)' = {}
    BY DEF ParentsExist
  <2>1. op[j].status \in {"queued", "completed", "reverted"}
    BY <1>2, <1>3
  <2>2. /\ op[j].parents # {} /\ \A e \in op[j].parents : event[e].here
        /\ op[j].parents \cap Children(j) = {}
    BY <2>1 DEF EditInv, ParentsExist
  <2> QED
    BY <1>2, <1>3, <1>4, <1>5, <2>2
<1>8. Expectations'
  <2> SUFFICES ASSUME NEW j \in Op, op'[j].status = "queued", NEW e \in op'[j].parents
               PROVE  op'[j].expected[e] \in Nat /\ op'[j].expected[e] <= event'[e].cv
    BY DEF Expectations
  <2>1. op[j].status = "queued" /\ e \in op[j].parents /\ op'[j].expected = op[j].expected /\ e \in Id
    BY <1>2, <1>3
  <2>2. op[j].expected[e] \in Nat /\ op[j].expected[e] <= event[e].cv
    BY <2>1 DEF EditInv, Expectations
  <2>3. event[e].cv \in Nat /\ event'[e].cv \in {event[e].cv, event[e].cv + 1}
    BY <1>5, <2>1
  <2> QED
    BY <2>1, <2>2, <2>3
<1>9. DisturbedShows'
  <2> SUFFICES ASSUME NEW j \in Op, j \in disturbed'
               PROVE  op'[j].status # "none" /\ (op'[j].status = "queued" => Shows(j)')
    BY DEF DisturbedShows
  <2>1. op[j].status # "none"
    BY DEF Reverts, EditInv, DisturbedShows
  <2>2. ASSUME op'[j].status = "queued" PROVE Shows(j)'
    <3>1. op[j].status = "queued"
      BY <1>3, <2>2
    <3>2. \A e \in op[j].parents : e \in Id /\ op[j].expected[e] \in Nat /\ op[j].expected[e] <= event[e].cv
      BY <1>2, <3>1 DEF EditInv, Expectations
    <3>3. \E e \in op[j].parents : \/ event[e].cv > op[j].expected[e] \/ event[e].by # {}
                                   \/ e \in op[i].parents \cup Children(i)
      BY <3>1 DEF Reverts, EditInv, DisturbedShows, Shows
    <3>4. PICK e \in op[j].parents : \/ event[e].cv > op[j].expected[e] \/ event[e].by # {}
                                     \/ e \in op[i].parents \cup Children(i)
      BY <3>3
    <3>5. CASE e \in op[i].parents
      <4>1. event'[e].cv > op[j].expected[e]
        BY <1>5, <3>2, <3>5
      <4> QED
        BY <1>3, <4>1 DEF Shows
    <3>6. CASE e \notin op[i].parents
      <4>1. event'[e].cv > op[j].expected[e] \/ event'[e].by # {}
        BY <1>5, <3>2, <3>4, <3>6
      <4> QED
        BY <1>3, <4>1 DEF Shows
    <3> QED
      BY <3>5, <3>6
  <2> QED
    BY <1>3, <2>1, <2>2
<1>10. MovedBack'
  BY <1>3 DEF EditInv, MovedBack
<1> QED
  BY <1>1, <1>6, <1>7, <1>8, <1>9, <1>10 DEF EditInv

LEMMA EditStep ==
  ASSUME EditInv, HelpersTyped, [Next]_vars
  PROVE  EditInv'
<1>0. Types /\ Child \subseteq Id
  BY DEF EditInv, Id
<1>1. ASSUME NEW w \in Scorer, ScoringForm(w) /\ UNCHANGED <<op, disturbed>>
      PROVE  EditInv'
  BY <1>1, ScoringEdits
<1>2. ASSUME Types', Unedited, UNCHANGED <<event, disturbed>>
      PROVE  EditInv'
  BY <1>2, EditsGoOn
<1>3. ASSUME NEW e \in Id, ForeignWrite(e)
      PROVE  EditInv'
  <2>1. UNCHANGED <<event, op, disturbed>>
    BY <1>3 DEF ForeignWrite, rows, edits
  <2> QED
    BY <1>0, <1>2, <1>3, <2>1, ForeignTyped, SameEdits
<1>4. ASSUME NEW e \in Id, set_behavior_applicability(e)
      PROVE  EditInv'
  <2>1. /\ UNCHANGED <<event, member, stored, op, mark, disturbed, scorer, scoredIn>>
        /\ pending' \subseteq stored'
    BY <1>0, <1>4, MarkIs
  <2>2. Types'
    BY <1>0, <2>1, PendingTyped DEF Types
  <2> QED
    BY <1>0, <1>2, <2>1, <2>2, SameEdits
<1>5. ASSUME NEW o \in Observation, CollectAgain(o)
      PROVE  EditInv'
  <2>1. /\ UNCHANGED <<event, member, op, mark, disturbed, scorer, scoredIn>>
        /\ stored \subseteq stored' /\ stored' \subseteq Observation /\ pending' \subseteq stored'
    BY <1>0, <1>5, CollectIs
  <2>2. Types'
    BY <1>0, <2>1, PendingTyped
  <2> QED
    BY <1>0, <1>2, <2>1, <2>2, SameEdits
<1>6. ASSUME NEW s \in Erasable, Purges(s)
      PROVE  EditInv'
  <2>1. Types' /\ Unedited
    BY <1>0, <1>6, PurgeTyped, SameEdits DEF Purges
  <2>2. \A e \in Id : /\ event'[e].here = event[e].here /\ event'[e].cv = event[e].cv
                      /\ event'[e].by \in {event[e].by, {Erased}}
    BY <1>6 DEF Purges
  <2>3. UNCHANGED disturbed
    BY <1>6 DEF Purges
  <2> QED
    BY <1>0, <2>1, <2>2, <2>3, EditsGoOn
<1>7. CASE Unedited /\ UNCHANGED <<event, member, stored, pending, disturbed, scorer, scoredIn>>
  <2>1. Types'
    BY <1>0, <1>7 DEF Types, Unedited, Statuses
  <2> QED
    BY <1>2, <1>7, <2>1
<1>8. ASSUME NEW i \in Op, NEW parents \in SUBSET Active, Queues(i, parents)
      PROVE  EditInv'
  BY <1>8, QueueEdits
<1>9. ASSUME NEW i \in Op, Executes(i) \/ Reverts(i)
      PROVE  EditInv'
  BY <1>9, ExecuteEdits, RevertEdits
<1> QED
  BY <1>1, <1>3, <1>4, <1>5, <1>6, <1>7, <1>8, <1>9, StepForms DEF Forms

LEMMA EditInit == Init => EditInv
<1> SUFFICES ASSUME Init PROVE EditInv
  OBVIOUS
<1>1. member \in [Observation -> Event] /\ scoredIn = member
  BY DEF Init, Home
<1>2. ASSUME NEW e \in Id
      PROVE  /\ event[e] \in EventRows /\ (Members(e) # {} => event[e].here)
             /\ (e \in Child => ~event[e].here)
  <2>1. CASE Members(e) = {}
    <3>1. event[e] = NoEvent
      BY <2>1 DEF Init
    <3> QED
      BY <2>1, <3>1 DEF NoEvent, EventRows
  <2>2. CASE Members(e) # {}
    <3>1. event[e] = [here |-> TRUE, cv |-> 1, by |-> {}, content |-> Members(e)]
      BY <2>2 DEF Init
    <3>2. e \notin Child
      BY <1>1, <2>2, CurationAssumption DEF Members, CurationAssumption
    <3> QED
      BY <3>1, <3>2 DEF EventRows, Members
  <2> QED
    BY <2>1, <2>2
<1>3. event \in [Id -> EventRows]
  BY <1>2 DEF Init
<1>4. \A o \in Observation : member[o] \in Id /\ event[member[o]].here
  BY <1>1, <1>2 DEF Id, Members
<1>5. DOMAIN op = Op /\ \A i \in Op : DOMAIN op[i] = OpFields /\ op[i].status = "none" /\ op[i].parents = {}
  BY DEF Init, NoOp, OpFields
<1>6. scorer \in [Scorer -> ScorerStates] /\ \A w \in Scorer : scorer[w].pc = "idle"
  BY IdleIs DEF Init, IdleState
<1>7. Types
  <2>1. member \in [Observation -> Id \cup {Nowhere}] /\ DOMAIN scoredIn = Observation
    BY <1>1 DEF Id
  <2>2. stored = Observation /\ pending = {}
    BY DEF Init
  <2> QED
    BY <1>3, <1>4, <1>5, <1>6, <2>1, <2>2 DEF Types, Statuses
<1>8. ChildrenAreFresh
  BY <1>2 DEF ChildrenAreFresh, Id, Child
<1>9. ParentsExist /\ Expectations /\ MovedBack
  BY <1>5 DEF ParentsExist, Expectations, MovedBack
<1>10. DisturbedShows
  BY DEF Init, DisturbedShows
<1> QED
  BY <1>7, <1>8, <1>9, <1>10 DEF EditInv

LEMMA HelpersInit == Init => HelpersTyped
BY DEF Init, HelpersTyped, ExecutorsTyped, PurgesTyped, Resting, NoPurge

\* A queued edit becomes completed only when its events stand as it found them.
LEMMA OnlyUndisturbed ==
  ASSUME EditInv, HelpersTyped, [Next]_vars, NEW i \in Op,
         op[i].status = "queued", op'[i].status = "completed"
  PROVE  i \notin disturbed
<1>1. Executes(i)
  <2>1. CASE UNCHANGED op
    BY <2>1
  <2>2. CASE Unedited
    BY <2>2 DEF Unedited
  <2>3. ASSUME NEW j \in Op, NEW parents, Queues(j, parents) PROVE FALSE
    BY <2>3 DEF Queues, EditInv, Types
  <2>4. ASSUME NEW j \in Op, Reverts(j) PROVE FALSE
    BY <2>4 DEF Reverts, StatusBecomes
  <2>5. ASSUME NEW j \in Op, Executes(j) PROVE j = i
    BY <2>5 DEF Executes, StatusBecomes
  <2>6. ASSUME NEW e \in Id, ForeignWrite(e) \/ set_behavior_applicability(e) PROVE UNCHANGED op
    BY <2>6 DEF ForeignWrite, set_behavior_applicability, edits
  <2>7. ASSUME NEW o \in Observation, CollectAgain(o) PROVE UNCHANGED op
    BY <2>7 DEF CollectAgain, edits
  <2>8. ASSUME NEW s \in Erasable, Purges(s) PROVE UNCHANGED op
    BY <2>8 DEF Purges
  <2> QED
    BY <2>1, <2>2, <2>3, <2>4, <2>5, <2>6, <2>7, <2>8, StepForms DEF Forms
<1>2. ASSUME NEW e \in op[i].parents PROVE event[e].by = {} /\ ~(event[e].cv > op[i].expected[e])
  <2>1. event[e].by = {} /\ event[e].cv = op[i].expected[e] /\ op[i].expected[e] \in Nat
    BY <1>1 DEF Executes, ParentsStand, EditInv, Expectations
  <2> QED
    BY <2>1
<1>3. ~Shows(i)
  BY <1>2 DEF Shows
<1> QED
  BY <1>3 DEF EditInv, DisturbedShows

(***************************************************************************)
(* No edit is executed on an event that was edited since it was queued,    *)
(* not even when that other edit was undone, for any number of edits,      *)
(* executors and scorers beside them.                                      *)
(***************************************************************************)
THEOREM NoEditPassesAnother == Spec => NoEditOverAnother
<1> DEFINE Inv == EditInv /\ HelpersTyped
<1>1. Init => Inv
  BY EditInit, HelpersInit
<1>2. Inv /\ [Next]_vars => Inv'
  BY EditStep, HelpersStep
<1>3. Inv /\ [Next]_vars =>
        [\A i \in Op : op[i].status = "queued" /\ op'[i].status = "completed" => i \notin disturbed]_vars
  BY OnlyUndisturbed
<1> HIDE DEF Inv
<1> QED
  BY <1>1, <1>2, <1>3, PTL DEF Spec, NoEditOverAnother

-----------------------------------------------------------------------------
(* What became of an edit stays.                                            *)

EditsAreRecords == DOMAIN op = Op /\ \A i \in Op : op[i] = [f \in OpFields |-> op[i][f]]

\* What a step makes of an edit.
Outcome(i) ==
    /\ op[i].status \in {"failed", "reverted"} => op'[i] = op[i]
    /\ op[i].status = "completed" => op'[i] \in {op[i], [op[i] EXCEPT !.status = "reverted"]}

LEMMA OneEditChanges ==
  ASSUME EditsAreRecords, NEW i, NEW v, op' = [op EXCEPT ![i] = v], v = [f \in OpFields |-> v[f]],
         i \in Op => \/ op[i].status \in {"none", "queued"}
                     \/ op[i].status = "completed" /\ v = [op[i] EXCEPT !.status = "reverted"]
                     \/ v = op[i]
  PROVE  EditsAreRecords' /\ \A j \in Op : Outcome(j)
<1>1. DOMAIN op' = Op /\ \A j \in Op : op'[j] = IF j = i THEN v ELSE op[j]
  BY DEF EditsAreRecords
<1>2. EditsAreRecords'
  BY <1>1 DEF EditsAreRecords
<1>3. \A j \in Op : Outcome(j)
  BY <1>1 DEF Outcome
<1> QED
  BY <1>2, <1>3

Sets(i, s) == op' = [op EXCEPT ![i].status = s]
MaySet(i, s) ==
    \/ op[i].status = "queued"
    \/ op[i].status = s
    \/ op[i].status = "completed" /\ s = "reverted"

LEMMA OutcomeStep ==
  ASSUME EditsAreRecords, [Next]_vars
  PROVE  EditsAreRecords' /\ \A j \in Op : Outcome(j)
<1> USE DEF OpFields
<1>1. CASE UNCHANGED op
  BY <1>1 DEF EditsAreRecords, Outcome
<1>2. ASSUME NEW i \in Op, NEW parents, NEW picks, queue_cluster_edit(i, parents, picks)
      PROVE  EditsAreRecords' /\ \A j \in Op : Outcome(j)
  <2>1. PICK v : v = [NoOp EXCEPT !.status = "queued", !.parents = parents, !.picks = picks,
                                  !.expected = [e \in parents |-> event[e].cv]]
    OBVIOUS
  <2>2. v = [f \in OpFields |-> v[f]]
    BY <2>1 DEF NoOp
  <2>3. op' = [op EXCEPT ![i] = v] /\ op[i].status = "none"
    BY <1>2, <2>1 DEF queue_cluster_edit
  <2> QED
    BY <2>2, <2>3, OneEditChanges
<1>3. ASSUME NEW i, Executable(i), execute_cluster_edit(i)
      PROVE  EditsAreRecords' /\ \A j \in Op : Outcome(j)
  <2>1. PICK v : v = [op[i] EXCEPT !.status = "completed", !.moved = [o \in Moving(i) |-> member[o]]]
    OBVIOUS
  <2>2. op' = [op EXCEPT ![i] = v] /\ op[i].status = "queued"
    BY <1>3, <2>1 DEF execute_cluster_edit, Supersede, Executable
  <2>3. CASE i \in Op
    <3>1. v = [f \in OpFields |-> v[f]]
      BY <2>1, <2>3 DEF EditsAreRecords
    <3> QED
      BY <2>2, <3>1, OneEditChanges
  <2>4. CASE i \notin Op
    BY <2>2, <2>4 DEF EditsAreRecords, Outcome
  <2> QED
    BY <2>3, <2>4
<1>4. ASSUME NEW i \in Op, NEW s, Sets(i, s), MaySet(i, s)
      PROVE  EditsAreRecords' /\ \A j \in Op : Outcome(j)
  <2>1. PICK v : v = [op[i] EXCEPT !.status = s]
    OBVIOUS
  <2>2. v = [f \in OpFields |-> v[f]] /\ (op[i].status = s => v = op[i])
    BY <2>1 DEF EditsAreRecords
  <2>3. op' = [op EXCEPT ![i] = v]
    BY <1>4, <2>1 DEF Sets
  <2> QED
    <3>1. s = "reverted" => v = [op[i] EXCEPT !.status = "reverted"]
      BY <2>1
    <3>2. \/ op[i].status \in {"none", "queued"}
          \/ op[i].status = "completed" /\ v = [op[i] EXCEPT !.status = "reverted"]
          \/ v = op[i]
      BY <1>4, <2>2, <3>1 DEF MaySet
    <3> QED
      BY <2>2, <2>3, <3>2, OneEditChanges
<1>5. ASSUME NEW x \in Executor, ExecutorRefuses(x)
      PROVE  EditsAreRecords' /\ \A j \in Op : Outcome(j)
  <2>1. op' = [op EXCEPT ![Current(x)].status = Refused(Current(x))]
    BY <1>5 DEF ExecutorRefuses
  <2>2. CASE Current(x) \in Op
    <3>1. PICK i \in Op, s \in {Refused(Current(x))} : i = Current(x)
      BY <2>2
    <3>2. Sets(i, s)
      BY <2>1, <3>1 DEF Sets
    <3>3. MaySet(i, s)
      BY <3>1 DEF Refused, MaySet
    <3> QED
      BY <1>4, <3>2, <3>3
  <2>3. CASE Current(x) \notin Op
    BY <2>1, <2>3 DEF EditsAreRecords, Outcome
  <2> QED
    BY <2>2, <2>3
<1>6. ASSUME NEW x \in Executor, ExecutorTakes(x) \/ ExecutorStarts(x) \/ ExecutorMarks(x) \/ ExecutorFails(x)
      PROVE  EditsAreRecords' /\ \A j \in Op : Outcome(j)
  BY <1>1, <1>3, <1>6 DEF ExecutorTakes, ExecutorStarts, ExecutorMarks, ExecutorFails, edits
<1>7. ASSUME NEW i \in Op, ExecuteNow(i) \/ revert_cluster_edit(i)
      PROVE  EditsAreRecords' /\ \A j \in Op : Outcome(j)
  BY <1>3, <1>4, <1>7 DEF ExecuteNow, revert_cluster_edit, Sets, MaySet
<1>8. ASSUME NEW w \in Scorer, Scoring(w) \/ ScorerCrashes(w) \/ \E o \in Observation : Claim(w, o)
      PROVE  UNCHANGED op
  BY <1>8 DEF Scoring, ScorerCrashes, Claim, Create, assign_observation, Load, commit_scored_event,
              Complete, edits
<1>9. ASSUME NEW e \in Id, ForeignWrite(e) \/ set_behavior_applicability(e)
      PROVE  UNCHANGED op
  BY <1>9 DEF ForeignWrite, set_behavior_applicability, edits
<1>10. CASE \/ \E s \in Erasable : ReadAffected(s) \/ purge_source(s) \/ PurgeFails(s)
            \/ \E o \in Observation : CollectAgain(o)
  BY <1>1, <1>10 DEF ReadAffected, purge_source, PurgeFails, CollectAgain, edits
<1>11. CASE UNCHANGED vars
  BY <1>1, <1>11 DEF vars, edits
<1> QED
  BY <1>1, <1>2, <1>5, <1>6, <1>7, <1>8, <1>9, <1>10, <1>11 DEF Next, Executing

(***************************************************************************)
(* An edit that failed or was undone stays so, and an executed one is at   *)
(* most undone, however often executors and the API come to it.            *)
(***************************************************************************)
THEOREM OutcomesStand == Spec => OutcomeStands
<1>1. Init => EditsAreRecords
  BY DEF Init, EditsAreRecords, NoOp, OpFields
<1>2. EditsAreRecords /\ [Next]_vars => EditsAreRecords'
  BY OutcomeStep
<1>3. EditsAreRecords /\ [Next]_vars =>
        [\A i \in Op : /\ op[i].status \in {"failed", "reverted"} => op'[i] = op[i]
                       /\ op[i].status = "completed" =>
                             op'[i] \in {op[i], [op[i] EXCEPT !.status = "reverted"]}]_vars
  BY OutcomeStep DEF Outcome
<1> QED
  BY <1>1, <1>2, <1>3, PTL DEF Spec, OutcomeStands

-----------------------------------------------------------------------------
(***************************************************************************)
(* Where an observation was scored, and what was erased under a score.     *)
(***************************************************************************)
\* Another's step leaves a scorer where it is; at most its reading becomes stale.
Stays(x) ==
    /\ scorer'[x].pc = scorer[x].pc /\ scorer'[x].o = scorer[x].o /\ scorer'[x].e = scorer[x].e
    /\ scorer'[x].input = scorer[x].input /\ (scorer[x].stale => scorer'[x].stale)

Keeps(w) == scorer'[w].o = scorer[w].o /\ scorer'[w].e = scorer[w].e

\* What becomes of the scorer that steps.
Turn(w) ==
    /\ Claims(w) => /\ scorer'[w].o \in pending \ Held /\ pending' = pending \ {scorer'[w].o}
                    /\ scorer'[w].pc \in {"creating", "assigning"}
    /\ Retries(w) => scorer'[w].o = scorer[w].o /\ scorer'[w].pc \in {"creating", "assigning"}
    /\ Fails(w) \/ Complete(w) => scorer'[w].pc = "idle"
    /\ Creates(w) => Keeps(w) /\ scorer'[w].pc = "assigning"
    /\ Assigns(w) => Keeps(w) /\ scorer'[w].pc = "loading"
    /\ Loads(w) => Keeps(w) /\ scorer'[w].pc = "committing" /\ scorer'[w].input = Members(scorer[w].e)
    /\ Commits(w) => /\ Keeps(w) /\ scorer'[w].pc = "completing"
                     /\ \A x \in Scorer \ {w} : scorer[x].e = scorer[w].e => scorer'[x].stale

LEMMA Turns ==
  ASSUME Types, NEW w \in Scorer, ScoringForm(w)
  PROVE  Turn(w) /\ \A x \in Scorer \ {w} : Stays(x)
<1>0. scorer \in [Scorer -> ScorerStates]
  BY DEF Types
<1>1. ASSUME NEW v, scorer' = [scorer EXCEPT ![w] = v]
      PROVE  scorer'[w] = v /\ \A x \in Scorer \ {w} : Stays(x)
  BY <1>0, <1>1 DEF Stays
<1>2. ASSUME NEW pc, Goto(w, pc)
      PROVE  Keeps(w) /\ scorer'[w].pc = pc /\ \A x \in Scorer \ {w} : Stays(x)
  <2>1. PICK v : v = [scorer[w] EXCEPT !.pc = pc]
    OBVIOUS
  <2>2. v.pc = pc /\ v.o = scorer[w].o /\ v.e = scorer[w].e
    BY <1>0, <2>1 DEF ScorerStates
  <2>3. scorer' = [scorer EXCEPT ![w] = v]
    BY <1>2, <2>1 DEF Goto
  <2> QED
    BY <1>1, <2>2, <2>3 DEF Keeps
<1>3. ASSUME NEW o, StartsOver(w, o)
      PROVE  /\ scorer'[w].o = o /\ scorer'[w].pc \in {"creating", "assigning"}
             /\ \A x \in Scorer \ {w} : Stays(x)
  <2>1. PICK v : Begins(v, o) /\ scorer' = [scorer EXCEPT ![w] = v]
    BY <1>3 DEF StartsOver
  <2> QED
    BY <1>1, <2>1 DEF Begins
<1>4. ASSUME Claims(w)
      PROVE  /\ scorer'[w].o \in pending \ Held /\ pending' = pending \ {scorer'[w].o}
             /\ scorer'[w].pc \in {"creating", "assigning"} /\ \A x \in Scorer \ {w} : Stays(x)
  <2>1. PICK o \in pending \ Held : pending' = pending \ {o} /\ StartsOver(w, o)
    BY <1>4 DEF Claims
  <2> QED
    BY <1>3, <2>1
<1>5. ASSUME Retries(w)
      PROVE  /\ scorer'[w].o = scorer[w].o /\ scorer'[w].pc \in {"creating", "assigning"}
             /\ \A x \in Scorer \ {w} : Stays(x)
  BY <1>3, <1>5 DEF Retries
<1>6. ASSUME Fails(w) \/ Complete(w)
      PROVE  scorer'[w].pc = "idle" /\ \A x \in Scorer \ {w} : Stays(x)
  BY <1>1, <1>6, IdleIs DEF Fails, Fail, Complete, IdleState
<1>7. ASSUME Creates(w)
      PROVE  Keeps(w) /\ scorer'[w].pc = "assigning" /\ \A x \in Scorer \ {w} : Stays(x)
  BY <1>2, <1>7 DEF Creates
<1>8. ASSUME Assigns(w)
      PROVE  Keeps(w) /\ scorer'[w].pc = "loading" /\ \A x \in Scorer \ {w} : Stays(x)
  BY <1>2, <1>8 DEF Assigns
<1>9. ASSUME Loads(w)
      PROVE  /\ Keeps(w) /\ scorer'[w].pc = "committing" /\ scorer'[w].input = Members(scorer[w].e)
             /\ \A x \in Scorer \ {w} : Stays(x)
  <2>1. PICK v : v = [scorer[w] EXCEPT !.pc = "committing", !.input = Members(scorer[w].e)]
    OBVIOUS
  <2>2. v.pc = "committing" /\ v.o = scorer[w].o /\ v.e = scorer[w].e /\ v.input = Members(scorer[w].e)
    BY <1>0, <2>1 DEF ScorerStates
  <2>3. scorer' = [scorer EXCEPT ![w] = v]
    BY <1>9, <2>1 DEF Loads
  <2> QED
    BY <1>1, <2>2, <2>3 DEF Keeps
<1>10. ASSUME Commits(w)
       PROVE  /\ Keeps(w) /\ scorer'[w].pc = "completing"
              /\ \A x \in Scorer \ {w} : scorer[x].e = scorer[w].e => scorer'[x].stale
              /\ \A x \in Scorer \ {w} : Stays(x)
  <2>1. PICK v : v = [scorer[w] EXCEPT !.pc = "completing"]
    OBVIOUS
  <2>2. v.pc = "completing" /\ v.o = scorer[w].o /\ v.e = scorer[w].e
    BY <1>0, <2>1 DEF ScorerStates
  <2>3. scorer' = [x \in Scorer |-> IF x = w THEN v ELSE Raised(scorer[w].e, scorer[x])]
    BY <1>10, <2>1 DEF Commits
  <2>4. ASSUME NEW x \in Scorer \ {w}
        PROVE  Stays(x) /\ (scorer[x].e = scorer[w].e => scorer'[x].stale)
    <3>1. scorer'[x] = Raised(scorer[w].e, scorer[x]) /\ scorer[x] \in ScorerStates
      BY <1>0, <2>3
    <3> QED
      BY <3>1, RaisedIs DEF Stays
  <2> QED
    BY <2>2, <2>3, <2>4 DEF Keeps
<1>11. Turn(w)
  BY <1>4, <1>5, <1>6, <1>7, <1>8, <1>9, <1>10 DEF Turn
<1> QED
  BY <1>4, <1>5, <1>6, <1>7, <1>8, <1>9, <1>10, <1>11 DEF ScoringForm

-----------------------------------------------------------------------------
\* No two scorers have the same observation.
HoldersDiffer ==
    \A v, w \in Scorer : v # w /\ scorer[v].pc # "idle" /\ scorer[w].pc # "idle" => scorer[v].o # scorer[w].o

\* Unless something has moved it, which makes it pending, an observation is in the
\* event its scorer assigned it to.
Assigned ==
    \A w \in Scorer :
        scorer[w].pc \in {"loading", "committing", "completing"} /\ scorer[w].o \in stored \ pending
            => member[scorer[w].o] = scorer[w].e

Belongs == HoldersDiffer /\ Assigned /\ ScoredWhereItBelongs

\* A step of no scorer: what it moves it makes pending.
LEMMA RowsBelong ==
  ASSUME Belongs, \A x \in Scorer : Stays(x), UNCHANGED scoredIn,
         \A o \in stored' \ pending' : o \in stored \ pending /\ member'[o] = member[o]
  PROVE  Belongs'
<1>1. Held' = Held
  BY DEF Held, Stays
<1>2. HoldersDiffer' /\ Assigned'
  BY DEF Belongs, HoldersDiffer, Assigned, Stays
<1>3. ScoredWhereItBelongs'
  BY <1>1 DEF Belongs, ScoredWhereItBelongs
<1> QED
  BY <1>2, <1>3 DEF Belongs

\* A step of a scorer that has not assigned yet, or had assigned before.
AsAssigned(w) ==
    \/ scorer'[w].pc \in {"creating", "assigning"}
    \/ scorer[w].pc \in {"loading", "committing"} /\ scorer'[w].e = scorer[w].e

LEMMA ScoringBelongs ==
  ASSUME Types, Belongs, NEW w \in Scorer, ScoringForm(w)
  PROVE  Belongs'
<1>0. /\ Turn(w) /\ \A x \in Scorer \ {w} : Stays(x)
      /\ stored \subseteq Observation /\ pending \subseteq stored /\ DOMAIN scoredIn = Observation
      /\ member \in [Observation -> Id \cup {Nowhere}]
      /\ scorer[w].pc # "idle" => scorer[w].o \in Observation
  BY Turns DEF Types
<1>1. HoldersDiffer /\ Assigned /\ ScoredWhereItBelongs
  BY DEF Belongs
<1>2. CASE Claims(w)
  <2>1. PICK o \in pending \ Held : o = scorer'[w].o /\ pending' = pending \ {o}
    BY <1>0, <1>2 DEF Turn
  <2>2. \A x \in Scorer : scorer[x].pc # "idle" => scorer[x].o # o
    BY <1>0, <2>1 DEF Held
  <2>3. scorer'[w].pc \in {"creating", "assigning"} /\ UNCHANGED <<event, member, stored, scoredIn>>
        /\ scorer[w].pc = "idle"
    BY <1>0, <1>2 DEF Turn, Claims
  <2>4. HoldersDiffer'
    BY <1>0, <1>1, <2>1, <2>2, <2>3 DEF HoldersDiffer, Stays
  <2>5. Assigned'
    BY <1>0, <1>1, <2>1, <2>2, <2>3 DEF Assigned, Stays
  <2>6. Held' = Held \cup {o}
    BY <1>0, <2>1, <2>3 DEF Held, Stays
  <2>7. ScoredWhereItBelongs'
    BY <1>0, <1>1, <2>1, <2>3, <2>6 DEF ScoredWhereItBelongs
  <2> QED
    BY <2>4, <2>5, <2>7 DEF Belongs
<1>3. CASE Fails(w) \/ Complete(w)
  <2>1. /\ scorer'[w].pc = "idle" /\ UNCHANGED <<event, member, stored>> /\ scorer[w].pc # "idle"
    BY <1>0, <1>3 DEF Turn, Fails, Complete, rows, At
  <2>2. pending \subseteq pending'
    BY <1>3 DEF Fails, Fail, Complete, rows
  <2>3. HoldersDiffer' /\ Assigned'
    BY <1>0, <1>1, <2>1, <2>2 DEF HoldersDiffer, Assigned, Stays
  <2>4. Held \subseteq Held' \cup {scorer[w].o}
    BY <1>0 DEF Held, Stays
  <2>5. \A o \in Observation : o # scorer[w].o => scoredIn'[o] = scoredIn[o]
    BY <1>0, <1>3 DEF Fails, Complete
  <2>6. ASSUME scorer[w].o \in stored \ pending' PROVE scoredIn'[scorer[w].o] = member[scorer[w].o]
    <3>1. ~Fails(w)
      BY <1>0, <2>6 DEF Fails, Fail
    <3>2. /\ scorer[w].pc = "completing"
          /\ scoredIn' = [scoredIn EXCEPT ![scorer[w].o] = scorer[w].e] /\ scorer[w].o \in Observation
      BY <1>0, <1>3, <2>1, <3>1 DEF Complete, At
    <3>3. member[scorer[w].o] = scorer[w].e
      BY <1>1, <2>2, <2>6, <3>2 DEF Assigned
    <3> QED
      BY <1>0, <3>2, <3>3
  <2>7. ScoredWhereItBelongs'
    BY <1>0, <1>1, <2>1, <2>2, <2>4, <2>5, <2>6 DEF ScoredWhereItBelongs
  <2> QED
    BY <2>3, <2>7 DEF Belongs
<1>4. CASE Assigns(w)
  <2>1. /\ Keeps(w) /\ scorer'[w].pc = "loading" /\ scorer[w].pc = "assigning"
        /\ UNCHANGED <<event, stored, pending, scoredIn>>
        /\ member' = [member EXCEPT ![scorer[w].o] = scorer[w].e]
    BY <1>0, <1>4 DEF Turn, Assigns
  <2>2. \A x \in Scorer \ {w} : scorer[x].pc # "idle" => scorer[x].o # scorer[w].o
    BY <1>1, <2>1 DEF HoldersDiffer
  <2>3. HoldersDiffer'
    BY <1>0, <1>1, <2>1 DEF HoldersDiffer, Stays, Keeps
  <2>4. /\ member'[scorer[w].o] = scorer[w].e
        /\ \A o \in Observation : o # scorer[w].o => member'[o] = member[o]
    BY <1>0, <2>1
  <2>5. Assigned'
    BY <1>0, <1>1, <2>1, <2>2, <2>4 DEF Assigned, Stays, Keeps
  <2>6. Held' = Held /\ scorer[w].o \in Held
    BY <1>0, <2>1 DEF Held, Stays, Keeps
  <2>7. ScoredWhereItBelongs'
    BY <1>0, <1>1, <2>1, <2>4, <2>6 DEF ScoredWhereItBelongs
  <2> QED
    BY <2>3, <2>5, <2>7 DEF Belongs
<1>5. ASSUME UNCHANGED <<member, stored, pending, scoredIn>>,
             scorer[w].pc # "idle", scorer'[w].pc # "idle", scorer'[w].o = scorer[w].o,
             AsAssigned(w)
      PROVE  Belongs'
  <2>1. HoldersDiffer'
    BY <1>0, <1>1, <1>5 DEF HoldersDiffer, Stays
  <2>2. Assigned'
    BY <1>0, <1>1, <1>5 DEF Assigned, Stays, AsAssigned
  <2>3. Held' = Held
    BY <1>0, <1>5 DEF Held, Stays
  <2>4. ScoredWhereItBelongs'
    BY <1>1, <1>5, <2>3 DEF ScoredWhereItBelongs
  <2> QED
    BY <2>1, <2>2, <2>4 DEF Belongs
<1>6. CASE Retries(w)
  <2>1. scorer'[w].o = scorer[w].o /\ scorer'[w].pc \in {"creating", "assigning"}
    BY <1>0, <1>6 DEF Turn
  <2>2. UNCHANGED <<member, stored, pending, scoredIn>> /\ scorer[w].pc # "idle"
    BY <1>6 DEF Retries
  <2>3. scorer'[w].pc # "idle"
    BY <2>1
  <2>4. AsAssigned(w)
    BY <2>1 DEF AsAssigned
  <2> QED
    BY <1>5, <2>1, <2>2, <2>3, <2>4
<1>7. CASE Creates(w)
  BY <1>0, <1>5, <1>7 DEF Turn, Creates, Keeps, AsAssigned
<1>8. CASE Loads(w)
  BY <1>0, <1>5, <1>8 DEF Turn, Loads, Keeps, AsAssigned
<1>9. CASE Commits(w)
  BY <1>0, <1>5, <1>9 DEF Turn, Commits, Keeps, AsAssigned
<1> QED
  BY <1>2, <1>3, <1>4, <1>6, <1>7, <1>8, <1>9 DEF ScoringForm

\* The steps of the rest, by what they do to rows and scorers.
LEMMA OthersMove ==
  ASSUME Types, Forms
  PROVE  \/ \E w \in Scorer : ScoringForm(w) /\ UNCHANGED <<op, overtaken>>
         \/ /\ \A x \in Scorer : Stays(x)
            /\ UNCHANGED scoredIn
            /\ \A o \in stored' \ pending' : o \in stored \ pending /\ member'[o] = member[o]
<1>0. /\ scorer \in [Scorer -> ScorerStates] /\ stored \subseteq Observation
      /\ member \in [Observation -> Id \cup {Nowhere}]
  BY DEF Types
<1>1. UNCHANGED scorer => \A x \in Scorer : Stays(x)
  BY DEF Stays
<1>2. ASSUME NEW e \in Id, ForeignWrite(e)
      PROVE  UNCHANGED <<member, stored, pending, scoredIn>> /\ \A x \in Scorer : Stays(x)
  <2>1. ASSUME NEW x \in Scorer PROVE Stays(x)
    <3>1. scorer'[x] = Raised(e, scorer[x]) /\ scorer[x] \in ScorerStates
      BY <1>0, <1>2 DEF ForeignWrite
    <3> QED
      BY <3>1, RaisedIs DEF Stays
  <2> QED
    BY <1>2, <2>1 DEF ForeignWrite, rows
<1>3. ASSUME NEW i \in Op, Executes(i)
      PROVE  /\ UNCHANGED <<scorer, scoredIn>>
             /\ \A o \in stored' \ pending' : o \in stored \ pending /\ member'[o] = member[o]
  BY <1>0, <1>3 DEF Executes, Moving
<1>4. ASSUME NEW i \in Op, Reverts(i)
      PROVE  /\ UNCHANGED <<scorer, scoredIn>>
             /\ \A o \in stored' \ pending' : o \in stored \ pending /\ member'[o] = member[o]
  BY <1>0, <1>4 DEF Reverts
<1>5. ASSUME NEW s \in Erasable, Purges(s)
      PROVE  /\ UNCHANGED <<scorer, scoredIn>>
             /\ \A o \in stored' \ pending' : o \in stored \ pending /\ member'[o] = member[o]
  BY <1>0, <1>5 DEF Purges
<1>6. ASSUME NEW i \in Op, NEW parents \in SUBSET Active, Queues(i, parents)
      PROVE  UNCHANGED <<member, stored, pending, scorer, scoredIn>>
  BY <1>6 DEF Queues
<1>7. ASSUME NEW e \in Id, set_behavior_applicability(e)
      PROVE  UNCHANGED <<member, stored, scorer, scoredIn>> /\ pending \subseteq pending'
  BY <1>7, MarkIs
<1>8. ASSUME NEW o \in Observation, CollectAgain(o)
      PROVE  UNCHANGED <<member, scorer, scoredIn>> /\ pending' = pending \cup {o} /\ stored' = stored \cup {o}
  BY <1>8, CollectIs
<1> QED
  BY <1>1, <1>2, <1>3, <1>4, <1>5, <1>6, <1>7, <1>8 DEF Forms

LEMMA BelongsStep ==
  ASSUME Types, Belongs, Forms
  PROVE  Belongs'
<1>1. ASSUME NEW w \in Scorer, ScoringForm(w) PROVE Belongs'
  BY <1>1, ScoringBelongs
<1> QED
  BY <1>1, OthersMove, RowsBelong

(***************************************************************************)
(* What awaits no scoring was last scored in the event it belongs to, for  *)
(* any number of observations, scorers, edits and erasures.                *)
(***************************************************************************)
THEOREM ScoresFollowTheEdits == Spec => []ScoredWhereItBelongs
<1> DEFINE Inv == EditInv /\ HelpersTyped /\ Belongs
<1>1. Init => Inv
  <2>1. Init => Belongs
    BY DEF Init, Idle, Belongs, HoldersDiffer, Assigned, ScoredWhereItBelongs
  <2> QED
    BY <2>1, EditInit, HelpersInit
<1>2. Inv /\ [Next]_vars => Inv'
  <2>1. EditInv => Types
    BY DEF EditInv
  <2> QED
    BY <2>1, EditStep, HelpersStep, BelongsStep, StepForms
<1>3. Inv => ScoredWhereItBelongs
  BY DEF Belongs
<1> HIDE DEF Inv
<1> QED
  BY <1>1, <1>2, <1>3, PTL DEF Spec

-----------------------------------------------------------------------------
(* What an erasure finds, and what is written over it.                      *)

\* The children of an undone edit; nothing makes them active again.
Dead == {e \in Id : \E i \in Op : op[i].status = "reverted" /\ e \in Children(i)}

\* An executed edit keeps its events superseded, and it is the only one that did.
SupersededByOne ==
    /\ \A i \in Op : op[i].status = "completed" => \A e \in op[i].parents : event[e].by # {} /\ e \notin Dead
    /\ \A i, j \in Op : i # j /\ op[i].status = "completed" /\ op[j].status = "completed" =>
          op[i].parents \cap op[j].parents = {}
    /\ \A e \in Dead : event[e].by # {}

\* Neither due nor in work until its score is stored, or in the work of w at most.
AtWork(w, o) == scorer[w].pc \in {"creating", "assigning", "loading", "committing"} /\ scorer[w].o = o
SettledBut(w, o) == o \notin pending /\ \A v \in Scorer \ {w} : ~AtWork(v, o)
Settled(o) == o \notin pending /\ \A v \in Scorer : ~AtWork(v, o)

\* The events of which no member need be due: what came into them while an erasure was
\* under way may stay quoted.
Exempt == Dead \cup overtaken

\* Who is about to write what is out of date leaves work for somebody else.
InputIsCurrent(w) ==
    scorer[w].pc = "committing" /\ ~scorer[w].stale /\ scorer[w].e \notin Exempt =>
        \A o \in Members(scorer[w].e) : SettledBut(w, o) => scorer[w].input \subseteq Members(scorer[w].e)

ContentIsCurrent(e) == \A o \in Members(e) : Settled(o) => event[e].content \subseteq stored

Redone ==
    /\ \A w \in Scorer : InputIsCurrent(w)
    /\ \A e \in Id \ Exempt : ContentIsCurrent(e)

LEMMA UneditedDead ==
  ASSUME Unedited
  PROVE  Dead' = Dead /\ \A i \in Op : /\ op'[i].status = "completed" <=> op[i].status = "completed"
                                       /\ op'[i].parents = op[i].parents
<1>1. \A i \in Op : Children(i)' = Children(i)
  BY DEF Unedited, Children, IsMerge
<1>2. \A i \in Op : op'[i].status = "reverted" <=> op[i].status = "reverted"
  BY DEF Unedited
<1>3. Dead' = Dead
  BY <1>1, <1>2 DEF Dead
<1> QED
  BY <1>3 DEF Unedited

LEMMA StillSuperseded ==
  ASSUME EditInv, SupersededByOne, Unedited,
         \A e \in Id : (event[e].here \/ e \in Child) /\ event[e].by # {} => event'[e].by # {}
  PROVE  SupersededByOne'
<1>1. Dead' = Dead /\ \A i \in Op : /\ op'[i].status = "completed" <=> op[i].status = "completed"
                                    /\ op'[i].parents = op[i].parents
  BY UneditedDead
<1>2. Dead \subseteq Child /\ Dead \subseteq Id
  BY DEF Dead, Children, Child
<1>3. \A i \in Op : op[i].status = "completed" => \A e \in op[i].parents : e \in Id /\ event[e].here
  BY DEF EditInv, ParentsExist, Types
<1> QED
  BY <1>1, <1>2, <1>3 DEF SupersededByOne

LEMMA QueueDead ==
  ASSUME EditInv, SupersededByOne, NEW i \in Op, NEW parents \in SUBSET Active, Queues(i, parents)
  PROVE  Dead' = Dead /\ SupersededByOne'
<1>1. PICK v : op' = [op EXCEPT ![i] = v] /\ v.status = "queued"
  BY DEF Queues
<1>2. op[i].status = "none" /\ DOMAIN op = Op /\ UNCHANGED event
  BY DEF Queues, EditInv, Types
<1>3. op'[i] = v /\ \A j \in Op : j # i => op'[j] = op[j]
  BY <1>1, <1>2
<1>4. \A j \in Op : j # i => Children(j)' = Children(j)
  BY <1>3 DEF Children, IsMerge
<1>5. Dead' = Dead
  BY <1>1, <1>2, <1>3, <1>4 DEF Dead
<1> QED
  BY <1>1, <1>2, <1>3, <1>5 DEF SupersededByOne

LEMMA ExecuteDead ==
  ASSUME EditInv, SupersededByOne, NEW i \in Op, Executes(i)
  PROVE  Dead' = Dead /\ SupersededByOne'
<1>1. /\ op[i].status = "queued" /\ op[i].parents \subseteq Id
      /\ \A e \in op[i].parents : event[e].by = {} /\ event[e].here
  BY DEF Executes, ParentsStand, EditInv, Types, ParentsExist
<1>2. \A j \in Op : /\ op'[j].parents = op[j].parents
                    /\ op'[j].status = IF j = i THEN "completed" ELSE op[j].status
  BY DEF Executes, StatusBecomes
<1>3. \A j \in Op : Children(j)' = Children(j)
  BY <1>2 DEF Children, IsMerge
<1>4. Dead' = Dead
  BY <1>1, <1>2, <1>3 DEF Dead
<1>5. \A e \in Children(i) : ~event[e].here /\ e \notin Dead
  <2>1. \A e \in Children(i) : ~event[e].here
    BY <1>1, ChildrenAre DEF EditInv, ChildrenAreFresh
  <2> QED
    BY <1>1, <2>1, ChildrenAre DEF Dead
<1>6. op[i].parents \cap Dead = {}
  BY <1>1 DEF SupersededByOne
<1>7. ASSUME NEW e \in Id, event[e].by # {}, e \notin Children(i) PROVE event'[e].by # {}
  BY <1>1, <1>7 DEF Executes
<1>8. \A e \in op[i].parents : event'[e].by # {}
  BY ChildrenAre DEF Executes
<1>9. ASSUME NEW j \in Op, op[j].status = "completed"
      PROVE  /\ \A e \in op[j].parents : event'[e].by # {} /\ e \notin Dead
             /\ op[j].parents \cap op[i].parents = {}
  <2>1. \A e \in op[j].parents : e \in Id /\ event[e].here /\ event[e].by # {} /\ e \notin Dead
    BY <1>9 DEF EditInv, Types, ParentsExist, SupersededByOne
  <2> QED
    BY <1>1, <1>5, <1>7, <2>1
<1>10. \A e \in Dead : event'[e].by # {}
  BY <1>5, <1>7 DEF SupersededByOne, Dead
<1> QED
  BY <1>2, <1>4, <1>6, <1>8, <1>9, <1>10 DEF SupersededByOne

LEMMA RevertDead ==
  ASSUME EditInv, SupersededByOne, NEW i \in Op, Reverts(i)
  PROVE  Dead' = Dead \cup Children(i) /\ SupersededByOne'
<1>1. /\ op[i].status = "completed" /\ op[i].parents \subseteq Id
      /\ op[i].parents # {} /\ op[i].parents \cap Children(i) = {}
      /\ \A c \in Children(i) : event[c].by = {}
  BY DEF Reverts, ChildrenStand, EditInv, Types, ParentsExist
<1>2. \A j \in Op : /\ op'[j].parents = op[j].parents
                    /\ op'[j].status = IF j = i THEN "reverted" ELSE op[j].status
  BY DEF Reverts, StatusBecomes
<1>3. \A j \in Op : Children(j)' = Children(j)
  BY <1>2 DEF Children, IsMerge
<1>4. Dead' = Dead \cup Children(i)
  BY <1>1, <1>2, <1>3, ChildrenAre DEF Dead
<1>5. ASSUME NEW e \in Id, event[e].by # {}, e \notin op[i].parents PROVE event'[e].by # {}
  BY <1>1, <1>5 DEF Reverts
<1>6. \A c \in Children(i) : event'[c].by # {}
  BY <1>1 DEF Reverts
<1>7. ASSUME NEW j \in Op, op[j].status = "completed", j # i
      PROVE  \A e \in op[j].parents : event'[e].by # {} /\ e \notin Dead \cup Children(i)
  <2>1. \A e \in op[j].parents : e \in Id /\ event[e].by # {} /\ e \notin Dead
    BY <1>7 DEF EditInv, Types, SupersededByOne
  <2>2. op[j].parents \cap op[i].parents = {}
    BY <1>1, <1>7 DEF SupersededByOne
  <2> QED
    BY <1>1, <1>5, <2>1, <2>2
<1>8. op[i].parents \cap Dead = {}
  BY <1>1 DEF SupersededByOne
<1>9. \A e \in Dead : event'[e].by # {}
  BY <1>5, <1>8 DEF SupersededByOne, Dead
<1> QED
  BY <1>2, <1>4, <1>6, <1>7, <1>9 DEF SupersededByOne

LEMMA SupersededStep ==
  ASSUME EditInv, SupersededByOne, Forms
  PROVE  SupersededByOne' /\ Dead \subseteq Dead'
<1>0. Types /\ event \in [Id -> EventRows] /\ Child \subseteq Id
  BY DEF EditInv, Types, Id
<1>1. ASSUME Unedited, \A e \in Id : (event[e].here \/ e \in Child) /\ event[e].by # {} => event'[e].by # {}
      PROVE  SupersededByOne' /\ Dead \subseteq Dead'
  BY <1>1, UneditedDead, StillSuperseded
<1>2. ASSUME NEW w \in Scorer, ScoringForm(w), UNCHANGED op
      PROVE  SupersededByOne' /\ Dead \subseteq Dead'
  <2>1. Unedited
    BY <1>0, <1>2, SameEdits
  <2>2. CASE UNCHANGED event
    BY <1>1, <2>1, <2>2
  <2>3. CASE Creates(w)
    <3>1. scorer[w].e \in Event /\ ~event[scorer[w].e].here /\ scorer[w].e \notin Child
      BY <1>0, <2>3, CurationAssumption DEF Types, Creates, CurationAssumption
    <3>2. \A e \in Id : e # scorer[w].e => event'[e] = event[e]
      BY <1>0, <2>3 DEF Creates
    <3> QED
      BY <1>1, <2>1, <3>1, <3>2
  <2>4. CASE Commits(w)
    <3>1. PICK r : r = [event[scorer[w].e] EXCEPT !.content = scorer[w].input]
      OBVIOUS
    <3>2. scorer[w].e \in Id
      BY <1>0, <2>4 DEF Types, Commits
    <3>3. r.by = event[scorer[w].e].by
      BY <1>0, <3>1, <3>2 DEF EventRows
    <3>4. event' = [event EXCEPT ![scorer[w].e] = r]
      BY <2>4, <3>1 DEF Commits
    <3>5. \A e \in Id : event'[e].by = event[e].by
      BY <1>0, <3>2, <3>3, <3>4
    <3> QED
      BY <1>1, <2>1, <3>5
  <2>5. UNCHANGED event \/ Creates(w) \/ Commits(w)
    BY <1>2 DEF ScoringForm, Claims, Retries, Fails, Assigns, Loads, Complete, rows
  <2> QED
    BY <2>2, <2>3, <2>4, <2>5
<1>3. ASSUME NEW e \in Id, ForeignWrite(e) \/ set_behavior_applicability(e)
      PROVE  SupersededByOne' /\ Dead \subseteq Dead'
  <2>1. UNCHANGED <<event, op>>
    BY <1>3 DEF ForeignWrite, set_behavior_applicability, rows, edits
  <2> QED
    BY <1>0, <1>1, <2>1, SameEdits
<1>4. ASSUME NEW o \in Observation, CollectAgain(o)
      PROVE  SupersededByOne' /\ Dead \subseteq Dead'
  <2>1. UNCHANGED <<event, op>>
    BY <1>4 DEF CollectAgain, edits
  <2> QED
    BY <1>0, <1>1, <2>1, SameEdits
<1>5. ASSUME NEW s \in Erasable, Purges(s)
      PROVE  SupersededByOne' /\ Dead \subseteq Dead'
  <2>1. Unedited /\ \A e \in Id : event'[e].by \in {event[e].by, {Erased}}
    BY <1>0, <1>5, SameEdits DEF Purges
  <2> QED
    BY <1>1, <2>1
<1>6. CASE Unedited /\ UNCHANGED event
  BY <1>1, <1>6
<1>7. ASSUME NEW i \in Op, Executes(i) \/ Reverts(i)
      PROVE  SupersededByOne' /\ Dead \subseteq Dead'
  BY <1>7, ExecuteDead, RevertDead
<1>8. ASSUME NEW i \in Op, NEW parents \in SUBSET Active, Queues(i, parents)
      PROVE  SupersededByOne' /\ Dead \subseteq Dead'
  BY <1>8, QueueDead
<1> QED
  BY <1>2, <1>3, <1>4, <1>5, <1>6, <1>7, <1>8 DEF Forms

\* A step of no scorer: what it leaves settled of an event was settled there before,
\* and it takes nothing out of such an event and quotes nothing new in it.
Untouched(e) ==
    \A o \in Members(e)' \ pending' :
        /\ o \in Members(e) \ pending /\ Members(e) \subseteq Members(e)'
        /\ event[e].content \subseteq stored => event'[e].content \subseteq stored'

LEMMA RowsRedone ==
  ASSUME Types, Redone, Exempt \subseteq Exempt', \A x \in Scorer : Stays(x),
         \A e \in Id \ Exempt' : Untouched(e)
  PROVE  Redone'
<1>1. \A v \in Scorer : \A o : AtWork(v, o)' <=> AtWork(v, o)
  BY DEF AtWork, Stays
<1>2. ASSUME NEW w \in Scorer PROVE InputIsCurrent(w)'
  <2> SUFFICES ASSUME scorer'[w].pc = "committing", ~scorer'[w].stale, scorer'[w].e \notin Exempt',
                      NEW o \in Members(scorer[w].e)', SettledBut(w, o)'
               PROVE  scorer'[w].input \subseteq Members(scorer[w].e)'
    BY DEF InputIsCurrent
  <2>1. PICK e \in Id : e = scorer[w].e
    BY DEF Stays, Types
  <2>2. /\ scorer[w].pc = "committing" /\ ~scorer[w].stale /\ e \notin Exempt' /\ e \notin Exempt
        /\ scorer'[w].e = e /\ scorer'[w].input = scorer[w].input
    BY <2>1 DEF Stays
  <2>3. Members(scorer[w].e)' = Members(e)'
    BY <2>2 DEF Members
  <2>4. o \in Members(e)' /\ o \notin pending' /\ \A v \in Scorer \ {w} : ~AtWork(v, o)
    BY <1>1, <2>3 DEF SettledBut
  <2>5. o \in Members(e) \ pending /\ Members(e) \subseteq Members(e)'
    BY <2>2, <2>4 DEF Untouched
  <2>6. scorer[w].input \subseteq Members(e)
    BY <2>1, <2>2, <2>4, <2>5 DEF Redone, InputIsCurrent, SettledBut
  <2> QED
    BY <2>2, <2>5, <2>6, <2>3
<1>3. ASSUME NEW e \in Id \ Exempt' PROVE ContentIsCurrent(e)'
  <2> SUFFICES ASSUME NEW o \in Members(e)', Settled(o)'
               PROVE  event'[e].content \subseteq stored'
    BY DEF ContentIsCurrent
  <2>1. o \notin pending' /\ \A v \in Scorer : ~AtWork(v, o)
    BY <1>1 DEF Settled
  <2>2. /\ o \in Members(e) \ pending
        /\ event[e].content \subseteq stored => event'[e].content \subseteq stored'
    BY <1>3, <2>1 DEF Untouched
  <2>3. event[e].content \subseteq stored
    BY <1>3, <2>1, <2>2 DEF Redone, ContentIsCurrent, Settled
  <2> QED
    BY <2>2, <2>3
<1> QED
  BY <1>2, <1>3 DEF Redone

LEMMA OthersRedone ==
  ASSUME EditInv, SupersededByOne, Redone, Forms,
         ~\E w \in Scorer : ScoringForm(w) /\ UNCHANGED <<op, overtaken>>
  PROVE  Redone'
<1>0. /\ Types /\ stored \subseteq Observation /\ member \in [Observation -> Id \cup {Nowhere}]
      /\ event \in [Id -> EventRows] /\ Nowhere \notin Id
      /\ \A o \in Observation : member[o] # Nowhere => o \in stored /\ event[member[o]].here
  BY CurationAssumption DEF EditInv, Types, CurationAssumption
<1>1. Exempt \subseteq Exempt'
  BY SupersededStep DEF Forms, Exempt
<1>2. \A x \in Scorer : Stays(x)
  BY <1>0, OthersMove
<1>3. ASSUME UNCHANGED <<event, member>>, stored \subseteq stored', stored' \ pending' \subseteq stored \ pending
      PROVE  Redone'
  <2>1. ASSUME NEW e \in Id PROVE Untouched(e)
    <3>1. Members(e)' = Members(e) /\ Members(e) \subseteq stored
      BY <1>0, <1>3 DEF Members
    <3> QED
      BY <1>3, <3>1 DEF Untouched
  <2> QED
    BY <1>0, <1>1, <1>2, <2>1, RowsRedone
<1>4. ASSUME NEW i \in Op, Executes(i) PROVE Redone'
  <2>1. /\ \A c \in Children(i) : ~event[c].here /\ c \in Id
        /\ op[i].parents \cap Children(i) = {} /\ op[i].parents \subseteq Id
    <3>1. op[i].status = "queued"
      BY <1>4 DEF Executes
    <3>2. op[i].parents \cap Children(i) = {}
      BY <3>1 DEF EditInv, ParentsExist
    <3>3. ~event[<<i, 1>>].here /\ ~event[<<i, 2>>].here
      BY <3>1 DEF EditInv, ChildrenAreFresh
    <3>4. op[i].parents \subseteq Id
      BY DEF EditInv, Types
    <3> QED
      BY <3>2, <3>3, <3>4, ChildrenAre
  <2>2. ASSUME NEW e \in Id PROVE Untouched(e)
    <3>1. CASE e \in Children(i)
      <4>1. \A o \in Members(e)' : o \in Observation /\ member[o] \in op[i].parents
        BY <1>0, <1>4, <2>1, <3>1 DEF Executes, Members
      <4>2. Members(e)' \subseteq pending'
        BY <1>4, <4>1 DEF Executes, Moving
      <4> QED
        BY <4>2 DEF Untouched
    <3>2. CASE e \in op[i].parents
      <4>1. Members(e)' = {}
        BY <1>4, <2>1, <3>2 DEF Executes, Members
      <4> QED
        BY <4>1 DEF Untouched
    <3>3. CASE e \notin Children(i) \cup op[i].parents
      <4>1. Members(e)' = Members(e)
        BY <1>4, <3>3 DEF Executes, Members
      <4>2. event'[e] = event[e] /\ stored' = stored /\ pending \subseteq pending'
        BY <1>4, <3>3 DEF Executes
      <4> QED
        BY <4>1, <4>2 DEF Untouched
    <3> QED
      BY <3>1, <3>2, <3>3
  <2> QED
    BY <1>0, <1>1, <1>2, <2>2, RowsRedone
<1>5. ASSUME NEW i \in Op, Reverts(i) PROVE Redone'
  <2>1. Children(i) \subseteq Exempt' /\ op[i].parents \cap Children(i) = {}
    BY <1>5, RevertDead DEF Reverts, EditInv, ParentsExist, Exempt
  <2>2. ASSUME NEW e \in Id \ Exempt' PROVE Untouched(e)
    <3>1. \A o \in Returning(i) : member[o] # e
      BY <2>1 DEF Returning
    <3>2. Members(e) \subseteq Members(e)' /\ Members(e)' \subseteq Members(e) \cup Returning(i)
      BY <1>5, <3>1 DEF Reverts, Members
    <3>3. event'[e].content = event[e].content /\ stored' = stored /\ pending' = pending \cup Returning(i)
      BY <1>5, <2>1 DEF Reverts
    <3> QED
      BY <3>2, <3>3 DEF Untouched
  <2> QED
    BY <1>0, <1>1, <1>2, <2>2, RowsRedone
<1>6. ASSUME NEW s \in Erasable, Purges(s) PROVE Redone'
  <2>1. ASSUME NEW e \in Id \ Exempt' PROVE Untouched(e)
    <3>1. Members(e)' = Members(e) \ Of(s)
      BY <1>0, <1>6 DEF Purges, Members, Of
    <3>2. CASE e \in purge[s].found
      <4>1. Members(e) \ Of(s) \subseteq pending'
        BY <1>6, <3>2 DEF Purges, Rescored, Members
      <4> QED
        BY <3>1, <4>1 DEF Untouched
    <3>3. CASE e \notin purge[s].found
      <4>0. e \notin Affected(s)
        BY <1>6, <2>1, <3>3 DEF Purges, Exempt
      <4>1. Members(e) \cap Of(s) = {}
        BY <1>0, <4>0 DEF Affected, Members, Of
      <4>2. event'[e] = event[e] /\ stored' = stored \ Of(s) /\ pending \ Of(s) \subseteq pending'
        BY <1>6, <3>3 DEF Purges
      <4>3. Members(e) # {} => event[e].content \cap Of(s) = {}
        BY <1>0, <4>0 DEF Affected, Members
      <4> QED
        BY <3>1, <4>1, <4>2, <4>3 DEF Untouched
    <3> QED
      BY <3>2, <3>3
  <2> QED
    BY <1>0, <1>1, <1>2, <2>1, RowsRedone
<1>7. ASSUME NEW e \in Id, ForeignWrite(e) PROVE Redone'
  BY <1>3, <1>7 DEF ForeignWrite, rows
<1>8. ASSUME NEW e \in Id, set_behavior_applicability(e) PROVE Redone'
  <2>1. UNCHANGED <<event, member, stored>> /\ pending \subseteq pending'
    BY <1>0, <1>8, MarkIs
  <2> QED
    BY <1>3, <2>1
<1>9. ASSUME NEW o \in Observation, CollectAgain(o) PROVE Redone'
  <2>1. UNCHANGED <<event, member>> /\ stored' = stored \cup {o} /\ pending' = pending \cup {o}
    BY <1>0, <1>9, CollectIs
  <2> QED
    BY <1>3, <2>1
<1>10. ASSUME NEW i \in Op, NEW parents \in SUBSET Active, Queues(i, parents) PROVE Redone'
  BY <1>3, <1>10 DEF Queues
<1>11. CASE Unedited /\ UNCHANGED <<event, member, stored, pending, disturbed, scorer, scoredIn>>
  BY <1>3, <1>11
<1> QED
  BY <1>4, <1>5, <1>6, <1>7, <1>8, <1>9, <1>10, <1>11 DEF Forms

\* A step of w: elsewhere than in X nothing becomes settled by it.
LEMMA TurnRedone ==
  ASSUME Types, Redone, Exempt' = Exempt, UNCHANGED stored, NEW w \in Scorer, NEW X \in SUBSET Id,
         \A x \in Scorer \ {w} : Stays(x) /\ (scorer[x].e \in X => scorer'[x].stale),
         \A e \in Id : Members(e) \subseteq Members(e)',
         \A e \in Id \ X : \A o \in Members(e)' :
            o \notin pending' /\ ~AtWork(w, o)' =>
               o \in Members(e) \ pending /\ ~AtWork(w, o) /\ event'[e].content = event[e].content,
         InputIsCurrent(w)', \A e \in X \ Exempt : ContentIsCurrent(e)'
  PROVE  Redone'
<1>1. \A v \in Scorer \ {w} : \A o : AtWork(v, o)' <=> AtWork(v, o)
  BY DEF AtWork, Stays
<1>2. ASSUME NEW x \in Scorer, x # w PROVE InputIsCurrent(x)'
  <2> SUFFICES ASSUME scorer'[x].pc = "committing", ~scorer'[x].stale, scorer'[x].e \notin Exempt',
                      NEW o \in Members(scorer[x].e)', SettledBut(x, o)'
               PROVE  scorer'[x].input \subseteq Members(scorer[x].e)'
    BY DEF InputIsCurrent
  <2>1. Stays(x) /\ (scorer[x].e \in X => scorer'[x].stale)
    BY <1>2
  <2>2. PICK e \in Id : e = scorer[x].e
    BY <2>1 DEF Stays, Types
  <2>3. /\ scorer[x].pc = "committing" /\ ~scorer[x].stale /\ e \notin Exempt /\ e \notin X
        /\ scorer'[x].e = e /\ scorer'[x].input = scorer[x].input
    BY <2>1, <2>2 DEF Stays
  <2>4. Members(scorer[x].e)' = Members(e)'
    BY <2>2, <2>3 DEF Members
  <2>5. o \in Members(e)' /\ o \notin pending' /\ ~AtWork(w, o)'
        /\ \A v \in Scorer \ {x, w} : ~AtWork(v, o)
    BY <1>1, <1>2, <2>4 DEF SettledBut
  <2>6. o \in Members(e) \ pending /\ ~AtWork(w, o)
    BY <2>3, <2>5
  <2>7. SettledBut(x, o)
    BY <2>5, <2>6 DEF SettledBut
  <2>8. scorer[x].input \subseteq Members(e)
    BY <2>2, <2>3, <2>6, <2>7 DEF Redone, InputIsCurrent
  <2> QED
    BY <2>3, <2>4, <2>8
<1>3. ASSUME NEW e \in Id \ Exempt, e \notin X PROVE ContentIsCurrent(e)'
  <2> SUFFICES ASSUME NEW o \in Members(e)', Settled(o)'
               PROVE  event'[e].content \subseteq stored'
    BY DEF ContentIsCurrent
  <2>1. o \notin pending' /\ ~AtWork(w, o)' /\ \A v \in Scorer \ {w} : ~AtWork(v, o)
    BY <1>1 DEF Settled
  <2>2. o \in Members(e) \ pending /\ ~AtWork(w, o) /\ event'[e].content = event[e].content
    BY <1>3, <2>1
  <2>3. Settled(o)
    BY <2>1, <2>2 DEF Settled
  <2> QED
    BY <1>3, <2>2, <2>3 DEF Redone, ContentIsCurrent
<1> QED
  BY <1>2, <1>3 DEF Redone

LEMMA QuietTurn ==
  ASSUME Types, Redone, Exempt' = Exempt, UNCHANGED stored, NEW w \in Scorer,
         \A x \in Scorer \ {w} : Stays(x),
         \A e \in Id : Members(e) \subseteq Members(e)',
         \A e \in Id : \A o \in Members(e)' :
            o \notin pending' /\ ~AtWork(w, o)' =>
               o \in Members(e) \ pending /\ ~AtWork(w, o) /\ event'[e].content = event[e].content,
         InputIsCurrent(w)'
  PROVE  Redone'
<1>1. PICK X \in SUBSET Id : X = {}
  OBVIOUS
<1>2. \A x \in Scorer \ {w} : Stays(x) /\ (scorer[x].e \in X => scorer'[x].stale)
  BY <1>1
<1>3. \A e \in Id \ X : \A o \in Members(e)' :
        o \notin pending' /\ ~AtWork(w, o)' =>
           o \in Members(e) \ pending /\ ~AtWork(w, o) /\ event'[e].content = event[e].content
  OBVIOUS
<1>4. \A e \in X \ Exempt : ContentIsCurrent(e)'
  BY <1>1
<1> QED
  BY <1>2, <1>3, <1>4, TurnRedone

LEMMA ScoringRedone ==
  ASSUME Types, Belongs, Redone, NEW w \in Scorer, ScoringForm(w), UNCHANGED <<op, overtaken>>
  PROVE  Redone'
<1>0. /\ stored \subseteq Observation /\ pending \subseteq stored
      /\ member \in [Observation -> Id \cup {Nowhere}] /\ event \in [Id -> EventRows] /\ Nowhere \notin Id
      /\ \A o \in Observation : member[o] # Nowhere => o \in stored /\ event[member[o]].here
      /\ scorer[w].pc # "idle" => scorer[w].o \in Observation /\ scorer[w].e \in Id
  BY CurationAssumption DEF Types, CurationAssumption
<1>1. Exempt' = Exempt
  BY DEF Exempt, Dead, Children, IsMerge
<1>2. Turn(w) /\ \A x \in Scorer \ {w} : Stays(x)
  BY Turns
<1>3. \A e \in Id : Members(e) \subseteq stored
  BY <1>0 DEF Members
<1>4. ASSUME UNCHANGED <<event, member, stored>>, InputIsCurrent(w)',
             \A o \in stored : o \notin pending' /\ ~AtWork(w, o)' => o \notin pending /\ ~AtWork(w, o)
      PROVE  Redone'
  <2>1. \A e \in Id : Members(e)' = Members(e)
    BY <1>4 DEF Members
  <2> QED
    <3>1. \A e \in Id : \A o \in Members(e)' :
            o \notin pending' /\ ~AtWork(w, o)' =>
               o \in Members(e) \ pending /\ ~AtWork(w, o) /\ event'[e].content = event[e].content
      BY <1>3, <1>4, <2>1
    <3>2. \A e \in Id : Members(e) \subseteq Members(e)'
      BY <2>1
    <3> QED
      BY <1>1, <1>2, <1>4, <3>1, <3>2, QuietTurn
<1>5. CASE Claims(w)
  <2>1. /\ scorer'[w].pc # "committing" /\ pending' = pending \ {scorer'[w].o}
        /\ \A o : o = scorer'[w].o => AtWork(w, o)'
        /\ scorer[w].pc = "idle" /\ UNCHANGED <<event, member, stored>>
    BY <1>2, <1>5 DEF Turn, Claims, AtWork
  <2>2. InputIsCurrent(w)' /\ \A o : ~AtWork(w, o)
    BY <2>1 DEF InputIsCurrent, AtWork
  <2> QED
    BY <1>4, <2>1, <2>2
<1>6. CASE Retries(w)
  <2>1. /\ scorer'[w].pc \in {"creating", "assigning"} /\ scorer'[w].o = scorer[w].o
        /\ scorer[w].pc \in {"creating", "committing"} /\ UNCHANGED <<event, member, stored, pending>>
    BY <1>2, <1>6 DEF Turn, Retries
  <2>2. InputIsCurrent(w)' /\ \A o : AtWork(w, o)' <=> AtWork(w, o)
    BY <2>1 DEF InputIsCurrent, AtWork
  <2> QED
    BY <1>4, <2>1, <2>2
<1>7. CASE Fails(w)
  <2>1. /\ scorer'[w].pc = "idle" /\ UNCHANGED <<event, member, stored>>
        /\ pending' = pending \cup ({scorer[w].o} \cap stored)
    BY <1>2, <1>7 DEF Turn, Fails, Fail
  <2>2. InputIsCurrent(w)' /\ \A o : AtWork(w, o) => o = scorer[w].o
    BY <2>1 DEF InputIsCurrent, AtWork
  <2> QED
    BY <1>4, <2>1, <2>2
<1>8. CASE Complete(w)
  <2>1. /\ scorer'[w].pc = "idle" /\ scorer[w].pc = "completing" /\ UNCHANGED <<event, member, stored, pending>>
    BY <1>2, <1>8 DEF Turn, Complete, At, rows
  <2>2. InputIsCurrent(w)' /\ \A o : ~AtWork(w, o)
    BY <2>1 DEF InputIsCurrent, AtWork
  <2> QED
    BY <1>4, <2>1, <2>2
<1>9. CASE Creates(w)
  <2>1. /\ scorer'[w].pc = "assigning" /\ scorer[w].pc = "creating" /\ scorer'[w].o = scorer[w].o
        /\ UNCHANGED <<member, stored, pending>> /\ ~event[scorer[w].e].here
        /\ \A e \in Id : e # scorer[w].e => event'[e] = event[e]
    BY <1>0, <1>2, <1>9 DEF Turn, Creates, Keeps
  <2>2. InputIsCurrent(w)' /\ \A o : AtWork(w, o)' <=> AtWork(w, o)
    BY <2>1 DEF InputIsCurrent, AtWork
  <2>3. \A e \in Id : Members(e)' = Members(e) /\ (Members(e) # {} => event[e].here)
    BY <1>0, <2>1 DEF Members
  <2> QED
    <3>1. \A e \in Id : \A o \in Members(e)' :
            o \notin pending' /\ ~AtWork(w, o)' =>
               o \in Members(e) \ pending /\ ~AtWork(w, o) /\ event'[e].content = event[e].content
      BY <2>1, <2>2, <2>3
    <3>2. \A e \in Id : Members(e) \subseteq Members(e)'
      BY <2>3
    <3> QED
      BY <1>1, <1>2, <2>1, <2>2, <3>1, <3>2, QuietTurn
<1>10. CASE Assigns(w)
  <2>1. /\ scorer'[w].pc = "loading" /\ scorer[w].pc = "assigning" /\ scorer'[w].o = scorer[w].o
        /\ UNCHANGED <<event, stored, pending>> /\ member[scorer[w].o] \in {Nowhere, scorer[w].e}
        /\ member' = [member EXCEPT ![scorer[w].o] = scorer[w].e]
    BY <1>2, <1>10 DEF Turn, Assigns, Keeps
  <2>2. InputIsCurrent(w)' /\ \A o : AtWork(w, o)' <=> AtWork(w, o)
    BY <2>1 DEF InputIsCurrent, AtWork
  <2>3. \A e \in Id : /\ Members(e) \subseteq Members(e)'
                      /\ Members(e)' \subseteq Members(e) \cup {scorer[w].o}
    BY <1>0, <2>1 DEF Members
  <2>4. AtWork(w, scorer[w].o)
    BY <2>1 DEF AtWork
  <2> QED
    <3>1. \A e \in Id : \A o \in Members(e)' :
            o \notin pending' /\ ~AtWork(w, o)' =>
               o \in Members(e) \ pending /\ ~AtWork(w, o) /\ event'[e].content = event[e].content
      BY <2>1, <2>2, <2>3, <2>4
    <3> QED
      BY <1>1, <1>2, <2>1, <2>2, <2>3, <3>1, QuietTurn
<1>11. CASE Loads(w)
  <2>1. /\ scorer'[w].pc = "committing" /\ scorer[w].pc = "loading" /\ scorer'[w].o = scorer[w].o
        /\ scorer'[w].e = scorer[w].e /\ scorer'[w].input = Members(scorer[w].e)
        /\ UNCHANGED <<event, member, stored, pending>>
    BY <1>2, <1>11 DEF Turn, Loads, Keeps
  <2>2. InputIsCurrent(w)' /\ \A o : AtWork(w, o)' <=> AtWork(w, o)
    BY <2>1 DEF InputIsCurrent, AtWork, Members
  <2> QED
    BY <1>4, <2>1, <2>2
<1>12. CASE Commits(w)
  <2>1. /\ scorer'[w].pc = "completing" /\ scorer[w].pc = "committing" /\ ~scorer[w].stale
        /\ UNCHANGED <<member, stored, pending>>
        /\ \A x \in Scorer \ {w} : scorer[x].e = scorer[w].e => scorer'[x].stale
    BY <1>2, <1>12 DEF Turn, Commits
  <2>2. PICK f \in Id : f = scorer[w].e
    BY <1>0, <2>1
  <2>3. /\ \A e \in Id : e # f => event'[e] = event[e]
        /\ event'[f].content = scorer[w].input
    <3>1. PICK r : r = [event[f] EXCEPT !.content = scorer[w].input]
      OBVIOUS
    <3>2. r.content = scorer[w].input
      BY <1>0, <3>1 DEF EventRows
    <3>3. event' = [event EXCEPT ![f] = r]
      BY <1>12, <2>2, <3>1 DEF Commits
    <3> QED
      BY <1>0, <3>2, <3>3
  <2>4. InputIsCurrent(w)' /\ \A o : ~AtWork(w, o)' /\ (AtWork(w, o) => o = scorer[w].o)
    BY <2>1 DEF InputIsCurrent, AtWork
  <2>5. \A e \in Id : Members(e)' = Members(e)
    BY <2>1 DEF Members
  <2>6. ASSUME NEW e \in Id, e # f, NEW o \in Members(e), o \notin pending PROVE ~AtWork(w, o)
    <3>1. o \in stored /\ member[o] = e
      BY <1>3, <2>6 DEF Members
    <3>2. o # scorer[w].o
      BY <2>1, <2>2, <2>6, <3>1 DEF Belongs, Assigned
    <3> QED
      BY <2>4, <3>2
  <2>7. ASSUME f \notin Exempt PROVE ContentIsCurrent(f)'
    <3> SUFFICES ASSUME NEW o \in Members(f)', Settled(o)' PROVE scorer[w].input \subseteq stored'
      BY <2>3 DEF ContentIsCurrent
    <3>1. o \notin pending /\ \A v \in Scorer \ {w} : ~AtWork(v, o)
      BY <1>2, <2>1 DEF Settled, AtWork, Stays
    <3>2. scorer[w].input \subseteq Members(f)
      BY <2>1, <2>2, <2>5, <2>7, <3>1 DEF Redone, InputIsCurrent, SettledBut
    <3> QED
      BY <1>3, <2>1, <3>2
  <2> QED
    <3>1. \A x \in Scorer \ {w} : Stays(x) /\ (scorer[x].e \in {f} => scorer'[x].stale)
      BY <1>2, <2>1, <2>2
    <3>2. \A e \in Id \ {f} : \A o \in Members(e)' :
            o \notin pending' /\ ~AtWork(w, o)' =>
               o \in Members(e) \ pending /\ ~AtWork(w, o) /\ event'[e].content = event[e].content
      BY <2>1, <2>3, <2>5, <2>6
    <3>3. \A e \in {f} \ Exempt : ContentIsCurrent(e)'
      BY <2>7
    <3>4. {f} \in SUBSET Id /\ \A e \in Id : Members(e) \subseteq Members(e)'
      BY <2>5
    <3> QED
      BY <1>1, <2>1, <2>4, <3>1, <3>2, <3>3, <3>4, TurnRedone
<1> QED
  BY <1>5, <1>6, <1>7, <1>8, <1>9, <1>10, <1>11, <1>12 DEF ScoringForm

LEMMA RedoneStep ==
  ASSUME EditInv, Belongs, SupersededByOne, Redone, Forms
  PROVE  SupersededByOne' /\ Redone'
<1>1. Types
  BY DEF EditInv
<1>2. ASSUME NEW w \in Scorer, ScoringForm(w), UNCHANGED <<op, overtaken>> PROVE Redone'
  BY <1>1, <1>2, ScoringRedone
<1>3. Redone'
  BY <1>2, OthersRedone
<1> QED
  BY <1>3, SupersededStep

(***************************************************************************)
(* As long as an active event quotes what was erased, one of its members   *)
(* is due or in work, save an event the source came into after its erasure *)
(* had read which events it affects: for any number of observations,       *)
(* sources, erasures under way and scorers with older readings, and        *)
(* whatever is merged, split and undone meanwhile.                         *)
(***************************************************************************)
THEOREM ErasedIsScoredAgain == Spec => []ErasureIsRedone
<1> DEFINE Inv == EditInv /\ HelpersTyped /\ Belongs /\ SupersededByOne /\ Redone
<1>1. Init => Inv
  <2> SUFFICES ASSUME Init PROVE Inv
    OBVIOUS
  <2>1. EditInv /\ HelpersTyped
    BY EditInit, HelpersInit
  <2>2. Belongs
    BY DEF Init, Idle, Belongs, HoldersDiffer, Assigned, ScoredWhereItBelongs
  <2>3. Dead = {} /\ \A i \in Op : op[i].status = "none"
    BY DEF Init, NoOp, Dead
  <2>4. SupersededByOne
    BY <2>3 DEF SupersededByOne
  <2>5. ASSUME NEW w \in Scorer PROVE InputIsCurrent(w)
    BY DEF Init, Idle, InputIsCurrent
  <2>6. ASSUME NEW e \in Id PROVE ContentIsCurrent(e)
    <3>1. event[e].content \subseteq Observation /\ stored = Observation
      BY <2>1 DEF Init, EditInv, Types, EventRows
    <3> QED
      BY <3>1 DEF ContentIsCurrent
  <2> QED
    BY <2>1, <2>2, <2>4, <2>5, <2>6 DEF Redone
<1>2. Inv /\ [Next]_vars => Inv'
  <2>1. EditInv => Types
    BY DEF EditInv
  <2> QED
    BY <2>1, EditStep, HelpersStep, BelongsStep, RedoneStep, StepForms
<1>3. Inv => ErasureIsRedone
  <2> SUFFICES ASSUME Inv, NEW e \in Active \ overtaken, Members(e) # {}, Members(e) \cap (pending \cup Held) = {}
               PROVE  event[e].content \subseteq stored
    BY DEF ErasureIsRedone
  <2>1. e \in Id \ Exempt
    BY DEF Active, SupersededByOne, Exempt
  <2>2. PICK o \in Members(e) : o \notin pending /\ o \notin Held /\ o \in Observation
    BY DEF Members
  <2>3. Settled(o)
    BY <2>2 DEF Settled, AtWork, Held
  <2> QED
    BY <2>1, <2>2, <2>3 DEF Redone, ContentIsCurrent
<1> HIDE DEF Inv
<1> QED
  BY <1>1, <1>2, <1>3, PTL DEF Spec

-----------------------------------------------------------------------------
(* Where the links between events lead.                                     *)

\* Where a watch stops, and a measure that sinks along some link of every other event.
Ends(ev, e) == ev[e].by = {} \/ Erased \in ev[e].by
Descends(ev, r) == \A e \in Id : ~Ends(ev, e) => \E f \in ev[e].by \cap Id : r[f] < r[e]
Descent(ev) == \E r \in [Id -> Nat] : Descends(ev, r)

\* Links to events that end are put above whatever was there.
LEMMA DescentGoesOn ==
  ASSUME NEW ev, NEW next, NEW T \in SUBSET Id, Descent(ev),
         \A e \in T : Ends(next, e),
         \A e \in Id : \/ Ends(next, e)
                       \/ ~Ends(ev, e) /\ next[e].by = ev[e].by
                       \/ next[e].by \cap T # {}
  PROVE  Descent(next)
<1>1. PICK r \in [Id -> Nat] : Descends(ev, r)
  BY DEF Descent
<1> DEFINE s == [e \in Id |-> IF e \in T THEN 0 ELSE r[e] + 1]
<1>2. s \in [Id -> Nat]
  OBVIOUS
<1>3. \A e \in Id : s[e] = IF e \in T THEN 0 ELSE r[e] + 1
  OBVIOUS
<1> HIDE DEF s
<1>4. ASSUME NEW e \in Id, ~Ends(next, e) PROVE \E f \in next[e].by \cap Id : s[f] < s[e]
  <2>1. e \notin T /\ s[e] = r[e] + 1 /\ r[e] \in Nat
    BY <1>3, <1>4
  <2>2. ASSUME NEW f \in next[e].by \cap T PROVE f \in next[e].by \cap Id /\ s[f] < s[e]
    BY <1>3, <2>1, <2>2
  <2>3. CASE ~Ends(ev, e) /\ next[e].by = ev[e].by
    <3>1. PICK f \in ev[e].by \cap Id : r[f] < r[e]
      BY <1>1, <2>3 DEF Descends
    <3>2. f \in next[e].by \cap Id /\ r[f] \in Nat /\ (s[f] = 0 \/ s[f] = r[f] + 1)
      BY <1>3, <2>3, <3>1
    <3>3. s[f] < s[e]
      BY <2>1, <3>1, <3>2
    <3> QED
      BY <3>2, <3>3
  <2> QED
    BY <1>4, <2>2, <2>3
<1>5. Descends(next, s)
  BY <1>4 DEF Descends
<1> QED
  BY <1>2, <1>5 DEF Descent

LEMMA DescentInit == Init => Descent(event)
<1> SUFFICES ASSUME Init PROVE Descent(event)
  OBVIOUS
<1>1. \A e \in Id : event[e].by = {}
  BY DEF Init, NoEvent
<1>2. [e \in Id |-> 0] \in [Id -> Nat]
  OBVIOUS
<1>3. Descends(event, [e \in Id |-> 0])
  BY <1>1 DEF Descends, Ends
<1> QED
  BY <1>2, <1>3 DEF Descent

\* What keeps the links, or puts a tombstone's in their place.
LEMMA DescentStays ==
  ASSUME Descent(event), \A e \in Id : event'[e].by \in {event[e].by, {}, {Erased}}
  PROVE  Descent(event')
<1>1. \A e \in Id : Ends(event', e) \/ (~Ends(event, e) /\ event'[e].by = event[e].by)
  BY DEF Ends
<1>2. \A e \in {} : Ends(event', e)
  OBVIOUS
<1> QED
  BY <1>1, <1>2, DescentGoesOn

LEMMA DescentStep ==
  ASSUME EditInv, Descent(event), Forms
  PROVE  Descent(event)'
<1>0. Types /\ event \in [Id -> EventRows]
  BY DEF EditInv, Types
<1>1. CASE UNCHANGED event
  BY <1>1, DescentStays
<1>2. ASSUME NEW w \in Scorer, ScoringForm(w)
      PROVE  Descent(event)'
  <2>1. CASE Creates(w)
    <3>1. scorer[w].e \in Id
      BY <1>0, <2>1 DEF Types, Creates, Id
    <3>2. \A e \in Id : event'[e].by \in {event[e].by, {}}
      BY <1>0, <2>1, <3>1 DEF Creates
    <3> QED
      BY <3>2, DescentStays
  <2>2. CASE Commits(w)
    <3>1. PICK r : r = [event[scorer[w].e] EXCEPT !.content = scorer[w].input]
      OBVIOUS
    <3>2. scorer[w].e \in Id
      BY <1>0, <2>2 DEF Types, Commits
    <3>3. r.by = event[scorer[w].e].by
      BY <1>0, <3>1, <3>2 DEF EventRows
    <3>4. event' = [event EXCEPT ![scorer[w].e] = r]
      BY <2>2, <3>1 DEF Commits
    <3>5. \A e \in Id : event'[e].by = event[e].by
      BY <1>0, <3>2, <3>3, <3>4
    <3> QED
      BY <3>5, DescentStays
  <2>3. UNCHANGED event \/ Creates(w) \/ Commits(w)
    BY <1>2 DEF ScoringForm, Claims, Retries, Fails, Assigns, Loads, Complete, rows
  <2> QED
    BY <1>1, <2>1, <2>2, <2>3
<1>3. ASSUME NEW e \in Id, ForeignWrite(e) \/ set_behavior_applicability(e)
      PROVE  UNCHANGED event
  BY <1>3 DEF ForeignWrite, set_behavior_applicability, rows
<1>4. ASSUME NEW o \in Observation, CollectAgain(o)
      PROVE  UNCHANGED event
  BY <1>4 DEF CollectAgain
<1>5. ASSUME NEW s \in Erasable, Purges(s)
      PROVE  Descent(event)'
  <2>1. \A e \in Id : event'[e].by \in {event[e].by, {Erased}}
    BY <1>5 DEF Purges
  <2> QED
    BY <2>1, DescentStays
<1>6. ASSUME NEW i \in Op, Executes(i)
      PROVE  Descent(event)'
  <2>1. Children(i) \subseteq Id /\ Children(i) # {}
    BY ChildrenAre
  <2>2. \A c \in Children(i) : Ends(event', c)
    BY <1>6 DEF Executes, Ends
  <2>3. \A e \in op[i].parents : event'[e].by \cap Children(i) # {}
    BY <1>6, <2>1 DEF Executes
  <2>4. \A e \in Id \ (Children(i) \cup op[i].parents) : event'[e] = event[e]
    BY <1>6 DEF Executes
  <2>5. \A e \in Id : \/ Ends(event', e)
                      \/ ~Ends(event, e) /\ event'[e].by = event[e].by
                      \/ event'[e].by \cap Children(i) # {}
    BY <2>2, <2>3, <2>4 DEF Ends
  <2> QED
    BY <2>1, <2>2, <2>5, DescentGoesOn
<1>7. ASSUME NEW i \in Op, Reverts(i)
      PROVE  Descent(event)'
  <2>1. op[i].parents \subseteq Id /\ op[i].parents # {}
    BY <1>7 DEF EditInv, Types, ParentsExist, Reverts
  <2>2. \A e \in op[i].parents : Ends(event', e)
    BY <1>7 DEF Reverts, Ends
  <2>3. \A c \in Children(i) : event'[c].by \cap op[i].parents # {}
    BY <1>7, <2>1 DEF Reverts
  <2>4. \A e \in Id \ (Children(i) \cup op[i].parents) : event'[e] = event[e]
    BY <1>7 DEF Reverts
  <2>5. \A e \in Id : \/ Ends(event', e)
                      \/ ~Ends(event, e) /\ event'[e].by = event[e].by
                      \/ event'[e].by \cap op[i].parents # {}
    BY <2>2, <2>3, <2>4 DEF Ends
  <2> QED
    BY <2>1, <2>2, <2>5, DescentGoesOn
<1>8. ASSUME NEW i \in Op, NEW parents \in SUBSET Active, Queues(i, parents)
      PROVE  UNCHANGED event
  BY <1>8 DEF Queues
<1> QED
  BY <1>1, <1>2, <1>3, <1>4, <1>5, <1>6, <1>7, <1>8 DEF Forms

\* What is reached in one more step along the links.
Further(S) == S \cup UNION {event[f].by \cap Id : f \in S}
Stages(e, g, m) == g = [n \in 0..m |-> IF n = 0 THEN {e} ELSE Further(g[n - 1])]

LEMMA StagesExist ==
  ASSUME NEW e, NEW m \in Nat
  PROVE  \E g : Stages(e, g, m)
<1> DEFINE Bad == {k \in Nat : ~\E g : Stages(e, g, k)}
<1>1. SUFFICES ASSUME Bad # {} PROVE FALSE
  OBVIOUS
<1>2. PICK k \in Bad : \A j \in Bad : k <= j
  <2>1. Bad \in SUBSET Nat
    OBVIOUS
  <2> HIDE DEF Bad
  <2> QED
    BY <1>1, <2>1, LeastExists
<1>3. k # 0
  <2>1. Stages(e, [n \in 0..0 |-> {e}], 0)
    BY DEF Stages
  <2> QED
    BY <1>2, <2>1
<1>4. k - 1 \in Nat /\ k \in Nat /\ k - 1 \notin Bad
  BY <1>2, <1>3
<1>5. PICK g : Stages(e, g, k - 1)
  BY <1>4
<1> DEFINE h == [n \in 0..k |-> IF n = k THEN Further(g[k - 1]) ELSE g[n]]
<1>6. \A n \in 0..k : h[n] = IF n = k THEN Further(g[k - 1]) ELSE g[n]
  OBVIOUS
<1>7. \A n \in 0..(k - 1) : g[n] = IF n = 0 THEN {e} ELSE Further(g[n - 1])
  BY <1>5 DEF Stages
<1>8. ASSUME NEW n \in 0..k PROVE h[n] = IF n = 0 THEN {e} ELSE Further(h[n - 1])
  <2>1. CASE n = 0
    BY <1>3, <1>4, <1>6, <1>7, <2>1
  <2>2. CASE n # 0
    <3>1. n - 1 \in 0..k /\ n - 1 # k
      BY <1>4, <2>2
    <3>2. h[n - 1] = g[n - 1]
      BY <1>6, <3>1
    <3>3. CASE n = k
      BY <1>6, <2>2, <3>2, <3>3
    <3>4. CASE n # k
      <4>1. n \in 0..(k - 1)
        BY <1>4, <3>4
      <4>2. h[n] = g[n]
        BY <1>6, <3>4
      <4> QED
        BY <1>7, <2>2, <3>2, <4>1, <4>2
    <3> QED
      BY <3>3, <3>4
  <2> QED
    BY <2>1, <2>2
<1>9. Stages(e, h, k)
  BY <1>8 DEF Stages
<1> QED
  BY <1>2, <1>9

\* A stage that adds nothing is closed under the links, and there is one, since
\* every other adds an event.
LEMMA LastStageIsClosed ==
  ASSUME NEW e \in Id, NEW g, Stages(e, g, Cardinality(Id))
  PROVE  LET S == g[Cardinality(Id)] IN S \subseteq Id /\ e \in S /\ Further(S) = S
<1> DEFINE N == Cardinality(Id)
<1>1. N \in Nat /\ IsFiniteSet(Id)
  BY IdsAreFinite, FS_CardinalityType
<1>2. \A n \in 0..N : g[n] = IF n = 0 THEN {e} ELSE Further(g[n - 1])
  BY DEF Stages
<1> DEFINE Fine(n) == /\ g[n] \subseteq Id /\ e \in g[n]
                      /\ Further(g[n]) = g[n] \/ Cardinality(g[n]) >= n + 1
           Bad == {n \in 0..N : ~Fine(n)}
<1>3. Fine(0)
  <2>1. g[0] = {e}
    BY <1>1, <1>2
  <2> QED
    BY <2>1, FS_Singleton
<1>4. ASSUME NEW n \in 0..N, n # 0, Fine(n - 1) PROVE Fine(n)
  <2> DEFINE P == g[n - 1]
  <2>1. n \in Nat /\ n - 1 \in Nat /\ g[n] = Further(P)
    BY <1>1, <1>2, <1>4
  <2>2. P \subseteq Id /\ e \in P /\ (Further(P) = P \/ Cardinality(P) >= n)
    BY <1>4, <2>1
  <2>3. Further(P) \subseteq Id /\ P \subseteq Further(P)
    BY <2>2 DEF Further
  <2>4. CASE Further(P) = P
    BY <2>1, <2>2, <2>4
  <2>5. CASE Further(P) # P
    <3>1. IsFiniteSet(Further(P)) /\ IsFiniteSet(P)
      BY <1>1, <2>2, <2>3, FS_Subset
    <3>2. Cardinality(P) <= Cardinality(Further(P)) /\ Cardinality(P) # Cardinality(Further(P))
      BY <2>3, <2>5, <3>1, FS_Subset
    <3>3. Cardinality(P) \in Nat /\ Cardinality(Further(P)) \in Nat
      BY <3>1, FS_CardinalityType
    <3>4. Cardinality(Further(P)) >= n + 1
      BY <2>1, <2>2, <2>5, <3>2, <3>3
    <3> QED
      BY <2>1, <2>2, <2>3, <3>4
  <2> QED
    BY <2>4, <2>5
<1>5. Bad = {}
  <2>1. SUFFICES ASSUME Bad # {} PROVE FALSE
    OBVIOUS
  <2>2. Bad \in SUBSET Nat
    BY <1>1
  <2>3. PICK n \in Bad : \A j \in Bad : n <= j
    <3> HIDE DEF Bad
    <3> QED
      BY <2>1, <2>2, LeastExists
  <2>4. n \in 0..N /\ ~Fine(n)
    BY <2>3
  <2>5. n # 0
    BY <1>3, <2>4
  <2>6. n - 1 \in 0..N /\ ~(n <= n - 1)
    BY <1>1, <2>4, <2>5
  <2>7. n - 1 \notin Bad
    BY <2>3, <2>6
  <2>8. Fine(n - 1)
    BY <2>6, <2>7
  <2> HIDE DEF Fine
  <2> QED
    BY <1>4, <2>4, <2>5, <2>8
<1>6. Fine(N)
  <2>1. N \in 0..N
    BY <1>1
  <2> QED
    BY <1>5, <2>1
<1>7. CASE Cardinality(g[N]) >= N + 1
  <2>1. Cardinality(g[N]) <= N /\ Cardinality(g[N]) \in Nat
    BY <1>1, <1>6, FS_Subset, FS_CardinalityType
  <2> QED
    BY <1>1, <1>7, <2>1
<1> QED
  BY <1>6, <1>7

\* The links of the last stage stay in it, and the event of it that is lowest ends.
LEMMA DescentEnds ==
  ASSUME Descent(event), NEW e \in Id
  PROVE  \E f \in Successors(e) : event[f].by = {} \/ Erased \in event[f].by
<1>1. Cardinality(Id) \in Nat
  BY IdsAreFinite, FS_CardinalityType
<1>2. PICK g : g = CHOOSE s : Stages(e, s, Cardinality(Id))
  OBVIOUS
<1>3. Stages(e, g, Cardinality(Id))
  BY <1>1, <1>2, StagesExist
<1>4. Successors(e) = g[Cardinality(Id)]
  BY <1>2 DEF Successors, Stages, Further
<1>5. PICK S : S = g[Cardinality(Id)]
  OBVIOUS
<1>6. S \subseteq Id /\ e \in S /\ Further(S) = S
  BY <1>3, <1>5, LastStageIsClosed
<1>7. PICK r \in [Id -> Nat] : Descends(event, r)
  BY DEF Descent
<1>8. PICK f \in S : \A h \in S : r[f] <= r[h]
  <2> DEFINE R == {r[h] : h \in S}
  <2>1. R \in SUBSET Nat /\ R # {}
    BY <1>6
  <2>2. PICK m \in R : \A k \in R : m <= k
    <3> HIDE DEF R
    <3> QED
      BY <2>1, LeastExists
  <2> QED
    BY <2>2
<1>9. Ends(event, f)
  <2>1. SUFFICES ASSUME ~Ends(event, f) PROVE FALSE
    OBVIOUS
  <2>2. PICK h \in event[f].by \cap Id : r[h] < r[f]
    BY <1>6, <1>7, <1>8, <2>1 DEF Descends
  <2>3. h \in S
    BY <1>6, <1>8, <2>2 DEF Further
  <2>4. r[f] <= r[h] /\ r[f] \in Nat /\ r[h] \in Nat
    BY <1>6, <1>8, <2>2, <2>3
  <2> QED
    BY <2>2, <2>4
<1> QED
  BY <1>4, <1>5, <1>8, <1>9 DEF Ends

(***************************************************************************)
(* From whatever was merged, split, restored or erased the links lead to   *)
(* an event in the active list or to a tombstone, for any number of edits  *)
(* and erasures in any order: no watch runs in a circle.                   *)
(***************************************************************************)
THEOREM WatchesArrive == Spec => []EveryRedirectEnds
<1> DEFINE Inv == EditInv /\ HelpersTyped /\ Descent(event)
<1>1. Init => Inv
  BY EditInit, HelpersInit, DescentInit
<1>2. Inv /\ [Next]_vars => Inv'
  <2>1. EditInv => Types
    BY DEF EditInv
  <2> QED
    BY <2>1, EditStep, HelpersStep, StepForms, DescentStep
<1>3. Inv => EveryRedirectEnds
  BY DescentEnds DEF EveryRedirectEnds
<1> HIDE DEF Inv
<1> QED
  BY <1>1, <1>2, <1>3, PTL DEF Spec

=============================================================================
