---------------------- MODULE EvidenceLifecycleProofs ----------------------
(* Proofs about raw evidence, for any number of connectors, items and       *)
(* retention workers, any feed, any erasures and any number of faults.      *)
EXTENDS EvidenceLifecycle, FiniteSetTheorems, WellFoundedInduction, TLAPS

ConnectorPc == {"idle", "archiving", "saving", "finishing"}
WorkerPc == {"idle", "checking", "deleting", "confirming", "failing"}

Erasures == [pc : {"none", "purging", "pending", "acknowledged"}, items : SUBSET Item,
             refs : SUBSET Ref, tries : Nat, dead : BOOLEAN]

Types ==
    /\ objects \subseteq Ref /\ row \in [Item -> Ref \cup {Blank, Absent}]
    /\ snapshot \subseteq Item \X Ref
    /\ deletion \in [Ref -> {"none", "due", "leased", "waiting", "completed"}]
    /\ erasure \in [Source -> Erasures]
    /\ connector \in [Connector -> [pc : ConnectorPc, poll : 0..MaxPolls, todo : SUBSET Item,
                                    save : SUBSET Item, highest : Posts \cup {0}, full : BOOLEAN]]
    /\ \A c \in Connector : connector[c].todo \cup connector[c].save \subseteq ItemsOf[c]
    /\ cursor \in Posts /\ polls \in 0..MaxPolls /\ cutoff \in 0..polls
    /\ worker \in [Worker -> [pc : WorkerPc, todo : SUBSET Ref, cur : Ref \cup {Absent}]]
    /\ faults \in 0..MaxFaults
    /\ lost \in [refs : SUBSET Ref, items : SUBSET Item]

-----------------------------------------------------------------------------
(***************************************************************************)
(* What a connector has in hand belongs to its phase; the polls under way  *)
(* are distinct and none is older than the retention period.               *)
(***************************************************************************)
Live(c) == connector[c].pc # "idle"
InHand(c) ==
    /\ connector[c].pc # "archiving" => connector[c].todo = {}
    /\ connector[c].pc \notin {"archiving", "saving"} => connector[c].save = {}
PollUnderWay(c) ==
    Live(c) => /\ cutoff < connector[c].poll /\ connector[c].poll <= polls
               /\ \A d \in Connector \ {c} : Live(d) => connector[d].poll # connector[c].poll

\* What rows name, or an erasure listed, no connector archives any more.
Archiving(r) == \E c \in Connector : connector[c].pc = "archiving" /\ connector[c].poll = r[1]
Past(r) == r[1] <= polls /\ ~Archiving(r)
NamedIsPast == \A r \in Ref : raw_evidence_is_referenced(r) \/ r \in lost.refs => Past(r)

\* A reference that a cycle under way may yet archive or save.
Coming(r) == \E c \in Connector : \E i \in connector[c].todo \cup connector[c].save :
                r = Key(connector[c].poll, i)

\* What is queued for deletion is named by nothing, and never will be again.
Retired(r) == ~raw_evidence_is_referenced(r) /\ ~Coming(r) /\ r[1] <= polls
QueuedIsRetired == \A r \in Ref : deletion[r] # "none" => Retired(r)

\* What is to be saved is in the store already.
ArchivedBeforeSaved ==
    \A c \in Connector : \A i \in connector[c].save :
        Key(connector[c].poll, i) \in objects \cup lost.refs

ClaimInv(w) ==
    /\ \A r \in worker[w].todo : deletion[r] # "none"
    /\ worker[w].pc \in {"deleting", "confirming", "failing"} => worker[w].cur \in worker[w].todo
    /\ worker[w].pc = "confirming" => worker[w].cur \notin objects

\* So is what the purge of a source read; from its commit on it counts as lost.
ListedIsPast ==
    \A s \in Source : /\ \A r \in erasure[s].refs : Past(r)
                      /\ erasure[s].pc \in {"pending", "acknowledged"} => erasure[s].refs \subseteq lost.refs

EvidenceInv ==
    /\ Types
    /\ \A c \in Connector : InHand(c) /\ PollUnderWay(c)
    /\ NamedIsPast /\ QueuedIsRetired /\ ArchivedBeforeSaved
    /\ \A w \in Worker : ClaimInv(w)
    /\ ListedIsPast
    /\ EvidenceBehindEveryFact /\ CompletedMeansDeleted /\ ErasureIsDoneOrGivenUp

\* The posts a cycle of the feed has read are in hand or saved.
ReadInv ==
    Live(Feed) => \A t \in Matching : cursor < t /\ t <= connector[Feed].highest =>
                     \/ t \in connector[Feed].todo \cup connector[Feed].save
                     \/ row[t] # Absent \/ t \in lost.items


-----------------------------------------------------------------------------
(***************************************************************************)
(* The least and the greatest of some natural numbers.  The library's      *)
(* induction takes an operator; the well-founded order of finite sets does *)
(* not, and 0..m orders sets as m orders numbers.                          *)
(***************************************************************************)
LEMMA StrictPair ==
  ASSUME NEW A \in SUBSET Nat, NEW B \in SUBSET Nat, A \subseteq B, A # B
  PROVE  <<A, B>> \in StrictSubsetOrdering(Nat)
  BY DEF StrictSubsetOrdering

LEMMA LeastExists ==
  ASSUME NEW S \in SUBSET Nat, S # {}
  PROVE  \E m \in S : \A k \in S : m <= k
<1> DEFINE T == {0..m : m \in S}
<1>1. T \subseteq FiniteSubsetsOf(Nat) /\ T # {}
  <2>1. ASSUME NEW m \in S PROVE IsFiniteSet(0..m) /\ 0..m \in SUBSET Nat
    BY FS_Interval
  <2> QED
    BY <2>1 DEF FiniteSubsetsOf
<1>2. PICK U \in T : \A V \in T : <<V, U>> \notin StrictSubsetOrdering(Nat)
  <2> HIDE DEF T
  <2> QED
    BY <1>1, WFMin, FS_StrictSubsetOrderingWellFounded
<1>3. PICK m \in S : U = 0..m
  OBVIOUS
<1>4. ASSUME NEW k \in S, k < m PROVE FALSE
  <2>1. /\ 0..k \in SUBSET Nat /\ 0..m \in SUBSET Nat /\ 0..k \subseteq 0..m
        /\ m \in 0..m /\ m \notin 0..k
    BY <1>4
  <2>2. 0..k # 0..m
    BY <2>1
  <2>3. <<0..k, 0..m>> \in StrictSubsetOrdering(Nat)
    BY <2>1, <2>2, StrictPair
  <2>4. 0..k \in T
    BY <1>4
  <2> HIDE DEF T
  <2>5. <<0..k, U>> \notin StrictSubsetOrdering(Nat)
    BY <1>2, <2>4, Zenon
  <2> QED
    BY <1>3, <2>3, <2>5, Zenon
<1> QED
  BY <1>4

LEMMA MinIsLeast ==
  ASSUME NEW S \in SUBSET Nat, S # {}
  PROVE  Min(S) \in S /\ \A k \in S : Min(S) <= k
  BY LeastExists DEF Min


-----------------------------------------------------------------------------
LEMMA KeyIsRef ==
  ASSUME NEW p \in Poll, NEW i \in Item
  PROVE  Key(p, i) \in Ref /\ Key(p, i)[1] = p
BY DEF Key, Ref

LEMMA LeastOf ==
  ASSUME NEW S \in SUBSET Item, S # {}
  PROVE  Min(S) \in S
<1>1. S \in SUBSET Nat
  BY EvidenceAssumption
<1> QED
  BY <1>1, MinIsLeast

LEMMA LargerOf ==
  ASSUME NEW a \in Nat, NEW b \in Nat
  PROVE  /\ Max({a, b}) \in {a, b}
         /\ Max({a, b}) >= a /\ Max({a, b}) >= b
<1>1. \E x \in {a, b} : \A y \in {a, b} : x >= y
  <2>1. CASE a >= b
    BY <2>1
  <2>2. CASE b >= a
    BY <2>2
  <2> QED
    BY <2>1, <2>2
<1> QED
  BY <1>1 DEF Max

LEMMA EvidenceInit == Init => EvidenceInv
<1> SUFFICES ASSUME Init PROVE EvidenceInv
  OBVIOUS
<1> USE DEF Init, Resting, Idle, NoErasure
<1>1. Types
  BY EvidenceAssumption DEF Types, ConnectorPc, WorkerPc, Erasures
<1>2. \A c \in Connector : InHand(c) /\ PollUnderWay(c)
  BY DEF InHand, PollUnderWay, Live
<1>3. NamedIsPast
  BY EvidenceAssumption DEF NamedIsPast, raw_evidence_is_referenced
<1>4. QueuedIsRetired /\ ArchivedBeforeSaved /\ CompletedMeansDeleted /\ ErasureIsDoneOrGivenUp
  BY DEF QueuedIsRetired, ArchivedBeforeSaved, CompletedMeansDeleted, ErasureIsDoneOrGivenUp
<1>5. \A w \in Worker : ClaimInv(w)
  BY DEF ClaimInv
<1>6. EvidenceBehindEveryFact
  BY EvidenceAssumption DEF EvidenceBehindEveryFact, raw_evidence_is_referenced
<1>7. ListedIsPast
  BY DEF ListedIsPast
<1> QED
  BY <1>1, <1>2, <1>3, <1>4, <1>5, <1>6, <1>7 DEF EvidenceInv

LEMMA ListedStays ==
  ASSUME EvidenceInv, UNCHANGED <<erasure, lost>>, \A r \in Ref : Past(r) => Past(r)'
  PROVE  ListedIsPast'
<1>1. \A s \in Source : erasure[s].refs \subseteq Ref
  BY DEF EvidenceInv, Types, Erasures
<1> QED
  BY <1>1 DEF EvidenceInv, ListedIsPast

-----------------------------------------------------------------------------
(***************************************************************************)
(* Steps of the retention workers.  A worker deletes only what is retired, *)
(* and so takes nothing away that a row names or a cycle is about to save. *)
(***************************************************************************)
LEMMA RetiredStays ==
  ASSUME UNCHANGED <<rows, connector, polls>>, NEW r \in Ref, Retired(r)
  PROVE  Retired(r)'
<1>1. raw_evidence_is_referenced(r)' = raw_evidence_is_referenced(r)
  BY DEF raw_evidence_is_referenced, rows
<1>2. Coming(r)' = Coming(r)
  BY DEF Coming
<1> QED
  BY <1>1, <1>2 DEF Retired

LEMMA WorkersStep ==
  ASSUME EvidenceInv, UNCHANGED <<rows, erasure, connector, polls, cutoff, lost>>, Types',
         objects' \subseteq objects, \A r \in objects \ objects' : deletion[r] # "none",
         \A r \in Ref : deletion'[r] = "none" <=> deletion[r] = "none",
         \A r \in Ref : deletion'[r] = "completed" => r \notin objects',
         \A w \in Worker : ClaimInv(w)'
  PROVE  EvidenceInv'
<1> USE DEF EvidenceInv, rows
<1>1. \A c \in Connector : (InHand(c) /\ PollUnderWay(c))'
  BY DEF InHand, PollUnderWay, Live
<1>2. NamedIsPast'
  BY DEF NamedIsPast, Past, Archiving, raw_evidence_is_referenced
<1>3. QueuedIsRetired'
  BY RetiredStays DEF QueuedIsRetired
<1>4. ArchivedBeforeSaved'
  <2> SUFFICES ASSUME NEW c \in Connector, NEW i \in connector[c].save
               PROVE  Key(connector[c].poll, i) \in objects' \cup lost.refs
    BY DEF ArchivedBeforeSaved
  <2> DEFINE r == Key(connector[c].poll, i)
  <2>1. r \in objects \cup lost.refs /\ Coming(r)
    BY DEF ArchivedBeforeSaved, Coming
  <2>2. r \in objects => deletion[r] = "none"
    <3> HIDE DEF r
    <3> QED
      BY <2>1 DEF QueuedIsRetired, Retired, Types
  <2> QED
    BY <2>1, <2>2
<1>5. EvidenceBehindEveryFact'
  <2> SUFFICES ASSUME NEW r \in Ref, raw_evidence_is_referenced(r)
               PROVE  r \in objects' \cup lost.refs
    BY DEF EvidenceBehindEveryFact, raw_evidence_is_referenced
  <2> QED
    BY DEF EvidenceBehindEveryFact, QueuedIsRetired, Retired
<1>6. CompletedMeansDeleted' /\ ErasureIsDoneOrGivenUp'
  BY DEF CompletedMeansDeleted, ErasureIsDoneOrGivenUp
<1>7. ListedIsPast'
  BY ListedStays DEF Past, Archiving
<1> QED
  BY <1>1, <1>2, <1>3, <1>4, <1>5, <1>6, <1>7

\* What a worker goes on with.
LEMMA RestClaims ==
  ASSUME Types, NEW w \in Worker, NEW r, ClaimInv(w), worker' = [worker EXCEPT ![w] = Rest(w, r)],
         \A s \in Ref : deletion'[s] = "none" <=> deletion[s] = "none"
  PROVE  /\ worker' \in [Worker -> [pc : WorkerPc, todo : SUBSET Ref, cur : Ref \cup {Absent}]]
         /\ ClaimInv(w)'
<1>1. Rest(w, r) \in [pc : WorkerPc, todo : SUBSET Ref, cur : Ref \cup {Absent}]
      /\ Rest(w, r).todo \subseteq worker[w].todo /\ Rest(w, r).pc \in {"idle", "checking"}
  BY DEF Rest, Idle, WorkerPc, Types
<1>2. worker'[w] = Rest(w, r)
  BY DEF Types
<1>3. worker[w].todo \subseteq Ref
  BY DEF Types
<1> QED
  BY <1>1, <1>2, <1>3 DEF ClaimInv, Types

LEMMA OthersClaim ==
  ASSUME Types, NEW w \in Worker, NEW v, worker' = [worker EXCEPT ![w] = v], objects' \subseteq objects,
         \A s \in Ref : deletion'[s] = "none" <=> deletion[s] = "none",
         NEW x \in Worker \ {w}, ClaimInv(x)
  PROVE  ClaimInv(x)'
<1>1. worker'[x] = worker[x] /\ worker[x].todo \subseteq Ref
  BY DEF Types
<1> QED
  BY <1>1 DEF ClaimInv

LEMMA CheckStep ==
  ASSUME EvidenceInv, NEW w \in Worker, Check(w)
  PROVE  EvidenceInv'
<1> USE DEF EvidenceInv
<1>1. PICK r \in worker[w].todo :
        \/ /\ worker' = [worker EXCEPT ![w] = Rest(w, r)]
           /\ deletion' = [deletion EXCEPT ![r] = IF @ = "leased" THEN "due" ELSE @]
        \/ worker' = [worker EXCEPT ![w].pc = "deleting", ![w].cur = r] /\ UNCHANGED deletion
  BY DEF Check
<1>2. r \in Ref
  BY DEF Types
<1>3. /\ deletion' \in [Ref -> {"none", "due", "leased", "waiting", "completed"}]
      /\ \A s \in Ref : deletion'[s] = "none" <=> deletion[s] = "none"
      /\ \A s \in Ref : deletion'[s] = "completed" => deletion[s] = "completed"
  BY <1>1, <1>2 DEF Types
<1>4. /\ worker' \in [Worker -> [pc : WorkerPc, todo : SUBSET Ref, cur : Ref \cup {Absent}]]
      /\ ClaimInv(w)'
  <2>1. CASE worker' = [worker EXCEPT ![w] = Rest(w, r)]
    BY <1>3, <2>1, RestClaims
  <2>2. CASE worker' = [worker EXCEPT ![w] = [worker[w] EXCEPT !.pc = "deleting", !.cur = r]]
    <3>1. worker'[w] = [worker[w] EXCEPT !.pc = "deleting", !.cur = r]
      BY <2>2 DEF Types
    <3>2. worker'[w].pc = "deleting" /\ worker'[w].cur = r /\ worker'[w].todo = worker[w].todo
      BY <3>1 DEF Types
    <3>3. ClaimInv(w)'
      BY <1>3, <3>2 DEF ClaimInv, Types
    <3>4. [worker[w] EXCEPT !.pc = "deleting", !.cur = r]
             \in [pc : WorkerPc, todo : SUBSET Ref, cur : Ref \cup {Absent}]
      <4>1. worker[w] \in [pc : WorkerPc, todo : SUBSET Ref, cur : Ref \cup {Absent}]
        BY DEF Types
      <4> QED
        BY <1>2, <4>1 DEF WorkerPc
    <3> QED
      BY <2>2, <3>3, <3>4 DEF Types
  <2> QED
    BY <1>1, <2>1, <2>2
<1>5. ASSUME NEW x \in Worker \ {w} PROVE ClaimInv(x)'
  <2>1. PICK v : worker' = [worker EXCEPT ![w] = v]
    BY <1>1
  <2> QED
    BY <1>3, <2>1, OthersClaim DEF Check
<1>6. Types'
  BY <1>3, <1>4 DEF Types, Check, rows
<1> QED
  BY <1>3, <1>4, <1>5, <1>6, WorkersStep DEF Check, CompletedMeansDeleted

LEMMA DeleteStep ==
  ASSUME EvidenceInv, NEW w \in Worker, Delete(w)
  PROVE  EvidenceInv'
<1> USE DEF EvidenceInv
<1>1. worker[w].cur \in worker[w].todo /\ worker[w].cur \in Ref
  BY DEF Delete, ClaimInv, Types
<1>2. deletion[worker[w].cur] # "none"
  BY <1>1 DEF ClaimInv
<1>3. /\ objects' \subseteq objects /\ objects \ objects' \subseteq {worker[w].cur}
      /\ faults' \in 0..MaxFaults
  BY EvidenceAssumption DEF Delete, Fault, Types
<1>4. PICK pc \in {"confirming", "failing"} :
        /\ worker' = [worker EXCEPT ![w] = [worker[w] EXCEPT !.pc = pc]]
        /\ pc = "confirming" => worker[w].cur \notin objects'
  BY DEF Delete
<1>5. worker'[w].pc = pc /\ worker'[w].cur = worker[w].cur /\ worker'[w].todo = worker[w].todo
  BY <1>4 DEF Types
<1>6. ClaimInv(w)'
  BY <1>1, <1>4, <1>5 DEF ClaimInv, Delete
<1>7. ASSUME NEW x \in Worker \ {w} PROVE ClaimInv(x)'
  BY <1>3, <1>4, OthersClaim DEF Delete
<1>8. Types'
  BY <1>3, <1>4 DEF Types, Delete, rows, WorkerPc
<1> QED
  BY <1>2, <1>3, <1>6, <1>7, <1>8, WorkersStep DEF Delete, CompletedMeansDeleted

LEMMA ConfirmStep ==
  ASSUME EvidenceInv, NEW w \in Worker,
         confirm_raw_evidence_deletions(w) \/ fail_raw_evidence_deletion(w)
  PROVE  EvidenceInv'
<1> USE DEF EvidenceInv, confirm_raw_evidence_deletions, fail_raw_evidence_deletion
<1> DEFINE r == worker[w].cur
<1>1. r \in worker[w].todo /\ r \in Ref /\ deletion[r] # "none"
  BY DEF ClaimInv, Types
<1>2. /\ deletion' \in [Ref -> {"none", "due", "leased", "waiting", "completed"}]
      /\ \A s \in Ref : deletion'[s] = "none" <=> deletion[s] = "none"
      /\ \A s \in Ref : deletion'[s] = "completed" => s \notin objects
  BY <1>1 DEF ClaimInv, Types, CompletedMeansDeleted
<1>3. /\ worker' \in [Worker -> [pc : WorkerPc, todo : SUBSET Ref, cur : Ref \cup {Absent}]]
      /\ ClaimInv(w)'
  BY <1>2, RestClaims
<1>4. ASSUME NEW x \in Worker \ {w} PROVE ClaimInv(x)'
  BY <1>2, OthersClaim
<1>5. Types'
  BY <1>2, <1>3 DEF Types, rows
<1> QED
  BY <1>2, <1>3, <1>4, <1>5, WorkersStep

LEMMA WorkerDiesStep ==
  ASSUME EvidenceInv, NEW w \in Worker, WorkerDies(w)
  PROVE  EvidenceInv'
<1> USE DEF EvidenceInv, WorkerDies
<1>1. worker'[w] = Idle
  BY DEF Types
<1>2. ClaimInv(w)'
  BY <1>1 DEF ClaimInv, Idle
<1>3. ASSUME NEW x \in Worker \ {w} PROVE ClaimInv(x)'
  BY OthersClaim
<1>4. Types'
  BY EvidenceAssumption DEF Types, Idle, WorkerPc, rows, Fault
<1> QED
  BY <1>2, <1>3, <1>4, WorkersStep DEF CompletedMeansDeleted

LEMMA ElapseStep ==
  ASSUME EvidenceInv, NEW r \in Ref, Elapse(r)
  PROVE  EvidenceInv'
<1> USE DEF EvidenceInv, Elapse, MayElapse
<1>1. /\ deletion' \in [Ref -> {"none", "due", "leased", "waiting", "completed"}]
      /\ \A s \in Ref : deletion'[s] = "none" <=> deletion[s] = "none"
      /\ \A s \in Ref : deletion'[s] = "completed" => s \notin objects
  BY DEF Types, CompletedMeansDeleted
<1>2. Types'
  BY <1>1 DEF Types, rows
<1>3. ASSUME NEW x \in Worker PROVE ClaimInv(x)'
  BY <1>1 DEF ClaimInv, Types
<1> QED
  BY <1>1, <1>2, <1>3, WorkersStep

-----------------------------------------------------------------------------
(***************************************************************************)
(* Steps of a connector's cycle.  A poll that begins is newer than all     *)
(* references; a cycle that goes on has no more in hand than before.       *)
(***************************************************************************)
ConnectorStates == [pc : ConnectorPc, poll : 0..MaxPolls, todo : SUBSET Item,
                    save : SUBSET Item, highest : Posts \cup {0}, full : BOOLEAN]

LEMMA BeginStep ==
  ASSUME EvidenceInv, NEW c \in Connector, NEW v \in ConnectorStates,
         connector' = [connector EXCEPT ![c] = v],
         v.pc = "archiving", v.poll = polls + 1, v.todo \subseteq ItemsOf[c], v.save = {},
         connector[c].pc = "idle", polls < MaxPolls, polls' = polls + 1,
         UNCHANGED <<objects, rows, deletion, erasure, cursor, cutoff, worker, faults, lost>>
  PROVE  EvidenceInv'
<1> USE DEF EvidenceInv, rows
<1>1. connector'[c] = v /\ \A d \in Connector \ {c} : connector'[d] = connector[d]
  BY DEF Types
<1>2. polls \in Nat /\ cutoff \in Nat /\ cutoff <= polls /\ MaxPolls \in Nat
  BY EvidenceAssumption DEF Types
<1>3. Types'
  <2>1. polls' \in 0..MaxPolls /\ cutoff' \in 0..polls'
    BY <1>2 DEF Types
  <2>2. connector' \in [Connector -> ConnectorStates]
    BY DEF Types, ConnectorStates
  <2>3. \A d \in Connector : connector'[d].todo \cup connector'[d].save \subseteq ItemsOf[d]
    BY <1>1 DEF Types
  <2> QED
    BY <2>1, <2>2, <2>3 DEF Types, ConnectorStates
<1>4. ASSUME NEW d \in Connector PROVE (InHand(d) /\ PollUnderWay(d))'
  <2>1. InHand(d)'
    BY <1>1 DEF InHand
  <2>2. \A e \in Connector \ {c} : Live(e) => connector[e].poll \in Nat /\ connector[e].poll <= polls
    BY DEF PollUnderWay, Types
  <2>3. CASE d = c
    <3>1. connector'[c].poll = polls + 1 /\ cutoff' = cutoff /\ polls' = polls + 1
      BY <1>1
    <3>2. \A e \in Connector \ {c} : Live(e)' => connector'[e].poll # polls + 1
      BY <1>1, <1>2, <2>2 DEF Live
    <3> QED
      BY <1>2, <2>1, <2>3, <3>1, <3>2 DEF PollUnderWay
  <2>4. CASE d # c
    BY <1>1, <1>2, <2>1, <2>2, <2>4 DEF PollUnderWay, Live
  <2> QED
    BY <2>3, <2>4
<1>5. \A r \in Ref : r[1] \in Nat
  BY EvidenceAssumption DEF Ref, Poll
<1>6. NamedIsPast'
  <2> SUFFICES ASSUME NEW r \in Ref, raw_evidence_is_referenced(r) \/ r \in lost.refs PROVE Past(r)'
    BY DEF NamedIsPast, raw_evidence_is_referenced
  <2>1. Past(r)
    BY DEF NamedIsPast
  <2> QED
    BY <1>1, <1>2, <1>5, <2>1 DEF Past, Archiving
<1>7. QueuedIsRetired'
  <2> SUFFICES ASSUME NEW r \in Ref, deletion[r] # "none" PROVE Retired(r)'
    BY DEF QueuedIsRetired
  <2>1. Retired(r)
    BY DEF QueuedIsRetired
  <2>2. raw_evidence_is_referenced(r)' = raw_evidence_is_referenced(r)
    BY DEF raw_evidence_is_referenced
  <2>3. ASSUME NEW i \in v.todo PROVE r # Key(v.poll, i)
    <3>1. polls + 1 \in Poll /\ i \in Item
      BY <1>2 DEF Poll, ConnectorStates
    <3>2. Key(polls + 1, i)[1] = polls + 1
      BY <3>1, KeyIsRef
    <3> QED
      BY <1>2, <1>5, <2>1, <3>2 DEF Retired
  <2>4. ~Coming(r)'
    BY <1>1, <2>1, <2>3 DEF Coming, Retired
  <2> QED
    BY <1>2, <1>5, <2>1, <2>2, <2>4 DEF Retired
<1>8. ArchivedBeforeSaved'
  BY <1>1 DEF ArchivedBeforeSaved
<1>9. (\A w \in Worker : ClaimInv(w))' /\ EvidenceBehindEveryFact' /\ CompletedMeansDeleted'
      /\ ErasureIsDoneOrGivenUp'
  BY DEF ClaimInv, EvidenceBehindEveryFact, raw_evidence_is_referenced, CompletedMeansDeleted,
         ErasureIsDoneOrGivenUp
<1>10. ListedIsPast'
  <2>1. \A r \in Ref : Past(r) => Past(r)'
    BY <1>1, <1>2, <1>5 DEF Past, Archiving
  <2> QED
    BY <2>1, ListedStays
<1> QED
  BY <1>3, <1>4, <1>6, <1>7, <1>8, <1>9, <1>10

LEMMA GoesOn ==
  ASSUME EvidenceInv, NEW c \in Connector, NEW v \in ConnectorStates,
         connector' = [connector EXCEPT ![c] = v],
         v.pc # "archiving" \/ connector[c].pc = "archiving",
         v.pc # "idle" => connector[c].pc # "idle",
         v.poll = connector[c].poll, v.todo \cup v.save \subseteq connector[c].todo \cup connector[c].save,
         v.pc # "archiving" => v.todo = {}, v.pc \notin {"archiving", "saving"} => v.save = {},
         UNCHANGED <<polls, cutoff>>
  PROVE  /\ connector' \in [Connector -> ConnectorStates]
         /\ \A d \in Connector : /\ connector'[d].todo \cup connector'[d].save \subseteq ItemsOf[d]
                                 /\ (InHand(d) /\ PollUnderWay(d))'
         /\ \A r \in Ref : Past(r) => Past(r)'
         /\ \A r \in Ref : ~Coming(r) => ~Coming(r)'
<1> USE DEF EvidenceInv
<1>1. connector'[c] = v /\ \A d \in Connector \ {c} : connector'[d] = connector[d]
  BY DEF Types
<1>2. connector' \in [Connector -> ConnectorStates]
  BY DEF Types, ConnectorStates
<1>3. ASSUME NEW d \in Connector
      PROVE  /\ connector'[d].todo \cup connector'[d].save \subseteq ItemsOf[d]
             /\ InHand(d)' /\ PollUnderWay(d)'
  <2>1. connector'[d].poll = connector[d].poll /\ (Live(d)' => Live(d))
    BY <1>1 DEF Live
  <2>2. \A e \in Connector : connector'[e].poll = connector[e].poll /\ (Live(e)' => Live(e))
    BY <1>1 DEF Live
  <2>3. PollUnderWay(d)'
    BY <2>1, <2>2 DEF PollUnderWay
  <2>4. connector'[d].todo \cup connector'[d].save \subseteq connector[d].todo \cup connector[d].save
    BY <1>1
  <2>5. connector[d].todo \cup connector[d].save \subseteq ItemsOf[d]
    BY DEF Types
  <2> QED
    BY <1>1, <2>3, <2>4, <2>5 DEF InHand
<1>4. \A r \in Ref : Past(r) => Past(r)'
  BY <1>1 DEF Past, Archiving
<1>5. \A r \in Ref : ~Coming(r) => ~Coming(r)'
  BY <1>1 DEF Coming
<1> QED
  BY <1>2, <1>3, <1>4, <1>5

\* A cycle goes from one phase to the next, or fails.
LEMMA PhaseStep ==
  ASSUME EvidenceInv, NEW c \in Connector, NEW v \in ConnectorStates,
         connector' = [connector EXCEPT ![c] = v],
         v.pc # "archiving", v.pc # "idle" => connector[c].pc # "idle",
         v.poll = connector[c].poll, v.todo = {}, v.save \subseteq connector[c].save,
         v.pc \notin {"archiving", "saving"} => v.save = {},
         cursor' \in Posts, faults' \in 0..MaxFaults,
         UNCHANGED <<objects, rows, deletion, erasure, polls, cutoff, worker, lost>>
  PROVE  EvidenceInv'
<1> USE DEF EvidenceInv, rows
<1>1. connector'[c] = v /\ \A d \in Connector \ {c} : connector'[d] = connector[d]
  BY DEF Types
<1>2. /\ connector' \in [Connector -> ConnectorStates]
      /\ \A d \in Connector : /\ connector'[d].todo \cup connector'[d].save \subseteq ItemsOf[d]
                              /\ (InHand(d) /\ PollUnderWay(d))'
      /\ \A r \in Ref : Past(r) => Past(r)'
      /\ \A r \in Ref : ~Coming(r) => ~Coming(r)'
  BY GoesOn
<1>3. Types'
  BY <1>2 DEF Types, ConnectorStates
<1>4. \A r : raw_evidence_is_referenced(r)' = raw_evidence_is_referenced(r)
  BY DEF raw_evidence_is_referenced
<1>5. NamedIsPast' /\ QueuedIsRetired'
  BY <1>2, <1>4 DEF NamedIsPast, QueuedIsRetired, Retired
<1>6. ArchivedBeforeSaved'
  BY <1>1 DEF ArchivedBeforeSaved
<1>7. (\A w \in Worker : ClaimInv(w))' /\ EvidenceBehindEveryFact' /\ CompletedMeansDeleted'
      /\ ErasureIsDoneOrGivenUp'
  BY <1>4 DEF ClaimInv, EvidenceBehindEveryFact, CompletedMeansDeleted, ErasureIsDoneOrGivenUp
<1>8. ListedIsPast'
  BY <1>2, ListedStays
<1> QED
  BY <1>2, <1>3, <1>5, <1>6, <1>7, <1>8

LEMMA CollectStep ==
  ASSUME EvidenceInv, NEW c \in Connector, Collect(c)
  PROVE  EvidenceInv'
<1> USE DEF EvidenceInv, Collect
<1>1. PICK items \in SUBSET ItemsOf[c] :
        connector' = [connector EXCEPT ![c] =
              [Resting EXCEPT !.pc = "archiving", !.poll = polls + 1, !.todo = items]]
  OBVIOUS
<1> DEFINE v == [Resting EXCEPT !.pc = "archiving", !.poll = polls + 1, !.todo = items]
<1>2. /\ v \in ConnectorStates /\ v.pc = "archiving" /\ v.poll = polls + 1
      /\ v.todo \subseteq ItemsOf[c] /\ v.save = {}
  <2>1. items \in SUBSET Item
    BY EvidenceAssumption
  <2>2. polls + 1 \in 0..MaxPolls
    BY EvidenceAssumption DEF Types
  <2>3. Resting \in ConnectorStates /\ Resting.save = {}
    BY EvidenceAssumption DEF Resting, ConnectorStates, ConnectorPc
  <2> QED
    BY <2>1, <2>2, <2>3 DEF ConnectorStates, ConnectorPc
<1> HIDE DEF v
<1> QED
  BY <1>1, <1>2, BeginStep DEF v

LEMMA FinishStep ==
  ASSUME EvidenceInv, NEW c \in Connector, Finish(c)
  PROVE  EvidenceInv'
<1> USE DEF EvidenceInv, Finish
<1> DEFINE v == [connector[c] EXCEPT !.pc = "idle"]
<1>1. /\ v \in ConnectorStates /\ v.pc = "idle" /\ v.poll = connector[c].poll
      /\ v.todo = connector[c].todo /\ v.save = connector[c].save
  <2>1. connector[c] \in ConnectorStates
    BY DEF Types, ConnectorStates
  <2> QED
    BY <2>1 DEF ConnectorStates, ConnectorPc
<1>2. connector[c].todo = {} /\ connector[c].save = {}
  BY DEF InHand
<1>3. cursor' \in Posts
  <2>1. cursor \in Nat \ {0} /\ cursor \in Posts /\ connector[c].highest \in Posts \cup {0}
    BY EvidenceAssumption DEF Types
  <2>2. {cursor, connector[c].highest} \in SUBSET Nat
    BY <2>1, EvidenceAssumption
  <2>3. Max({cursor, connector[c].highest}) \in {cursor, connector[c].highest}
        /\ Max({cursor, connector[c].highest}) >= cursor
    BY <2>2, LargerOf
  <2>4. CASE c = Feed
    BY <2>1, <2>3, <2>4
  <2> QED
    BY <2>1, <2>4
<1>4. faults' \in 0..MaxFaults
  BY DEF Types
<1> HIDE DEF v
<1> QED
  BY <1>1, <1>2, <1>3, <1>4, PhaseStep DEF v

LEMMA CycleFailsStep ==
  ASSUME EvidenceInv, NEW c \in Connector, CycleFails(c)
  PROVE  EvidenceInv'
<1> USE DEF EvidenceInv, CycleFails
<1> DEFINE v == [connector[c] EXCEPT !.pc = "idle", !.todo = {}, !.save = {}]
<1>1. /\ v \in ConnectorStates /\ v.pc = "idle" /\ v.poll = connector[c].poll
      /\ v.todo = {} /\ v.save = {}
  <2>1. connector[c] \in ConnectorStates
    BY DEF Types, ConnectorStates
  <2> QED
    BY <2>1 DEF ConnectorStates, ConnectorPc
<1>2. cursor' \in Posts /\ faults' \in 0..MaxFaults
  BY EvidenceAssumption DEF Types, Fault
<1>3. connector' = [connector EXCEPT ![c] = v]
  OBVIOUS
<1> HIDE DEF v
<1> QED
  BY <1>1, <1>2, <1>3, PhaseStep

LEMMA PeriodEndsStep ==
  ASSUME EvidenceInv, PeriodEnds
  PROVE  EvidenceInv'
<1> USE DEF EvidenceInv, PeriodEnds, rows
<1>1. cutoff \in Nat /\ polls \in Nat
  BY EvidenceAssumption DEF Types
<1>2. Types'
  BY <1>1 DEF Types
<1>3. ASSUME NEW c \in Connector PROVE (InHand(c) /\ PollUnderWay(c))'
  <2>1. connector[c].poll \in Nat
    BY DEF Types
  <2>2. Live(c) => connector[c].poll # cutoff + 1
    BY DEF Live
  <2> QED
    BY <1>1, <2>1, <2>2 DEF InHand, PollUnderWay, Live
<1>4. NamedIsPast'
  BY DEF NamedIsPast, Past, Archiving, raw_evidence_is_referenced
<1>5. QueuedIsRetired'
  BY RetiredStays DEF QueuedIsRetired
<1>6. ArchivedBeforeSaved' /\ (\A w \in Worker : ClaimInv(w))'
  BY DEF ArchivedBeforeSaved, ClaimInv
<1>7. EvidenceBehindEveryFact' /\ CompletedMeansDeleted' /\ ErasureIsDoneOrGivenUp'
  BY DEF EvidenceBehindEveryFact, raw_evidence_is_referenced, CompletedMeansDeleted,
         ErasureIsDoneOrGivenUp
<1>8. ListedIsPast'
  BY ListedStays DEF Past, Archiving
<1> QED
  BY <1>2, <1>3, <1>4, <1>5, <1>6, <1>7, <1>8

-----------------------------------------------------------------------------
(***************************************************************************)
(* The object a cycle puts is named by nothing yet and queued nowhere; the *)
(* reference a cycle saves is archived by no other.                        *)
(***************************************************************************)
LEMMA InHandKey ==
  ASSUME EvidenceInv, NEW c \in Connector, Live(c),
         NEW i \in connector[c].todo \cup connector[c].save
  PROVE  /\ i \in Item /\ Key(connector[c].poll, i) \in Ref
         /\ Key(connector[c].poll, i)[1] = connector[c].poll
         /\ Coming(Key(connector[c].poll, i)) /\ deletion[Key(connector[c].poll, i)] = "none"
<1> USE DEF EvidenceInv
<1>1. i \in Item
  BY DEF Types
<1>2. connector[c].poll \in Poll
  BY DEF Types, PollUnderWay, Poll
<1>3. Key(connector[c].poll, i) \in Ref /\ Key(connector[c].poll, i)[1] = connector[c].poll
  BY <1>1, <1>2, KeyIsRef
<1>4. Coming(Key(connector[c].poll, i))
  BY DEF Coming
<1> QED
  BY <1>1, <1>3, <1>4 DEF QueuedIsRetired, Retired

LEMMA ArchiveStep ==
  ASSUME EvidenceInv, NEW c \in Connector, Archive(c)
  PROVE  EvidenceInv'
<1> USE DEF EvidenceInv, rows
<1>1. CASE connector[c].todo = {}
  <2> DEFINE v == [connector[c] EXCEPT !.pc = "saving"]
  <2>1. connector[c] \in ConnectorStates
    BY DEF Types, ConnectorStates
  <2>2. /\ v \in ConnectorStates /\ v.pc = "saving" /\ v.poll = connector[c].poll
        /\ v.todo = {} /\ v.save = connector[c].save
    BY <1>1, <2>1 DEF ConnectorStates, ConnectorPc
  <2>3. connector' = [connector EXCEPT ![c] = v] /\ cursor' \in Posts /\ faults' \in 0..MaxFaults
        /\ UNCHANGED <<objects, rows, deletion, erasure, polls, cutoff, worker, lost>>
        /\ connector[c].pc = "archiving"
    BY <1>1 DEF Archive, Types
  <2> HIDE DEF v
  <2> QED
    BY <2>2, <2>3, PhaseStep
<1>2. CASE connector[c].todo # {}
  <2> DEFINE i == Min(connector[c].todo)
             k == Key(connector[c].poll, i)
             v == [connector[c] EXCEPT !.todo = @ \ {i}, !.save = @ \cup {i}]
  <2>1. connector[c] \in ConnectorStates
    BY DEF Types, ConnectorStates
  <2>2. i \in connector[c].todo
    BY <1>2, <2>1, LeastOf DEF ConnectorStates
  <2>3. /\ objects' = objects \cup {k} /\ connector' = [connector EXCEPT ![c] = v]
        /\ connector[c].pc = "archiving"
        /\ UNCHANGED <<rows, deletion, erasure, cursor, polls, cutoff, worker, faults, lost>>
    BY <1>2 DEF Archive
  <2>4. /\ i \in Item /\ k \in Ref /\ k[1] = connector[c].poll /\ deletion[k] = "none"
    BY <2>2, <2>3, InHandKey DEF Live
  <2> HIDE DEF i
  <2>5. /\ v \in ConnectorStates /\ v.pc = "archiving" /\ v.poll = connector[c].poll
        /\ v.todo = connector[c].todo \ {i} /\ v.save = connector[c].save \cup {i}
    BY <2>1, <2>3, <2>4 DEF ConnectorStates
  <2>6. v.todo \cup v.save \subseteq connector[c].todo \cup connector[c].save
    BY <2>2, <2>5
  <2> HIDE DEF k, v
  <2>7. /\ connector' \in [Connector -> ConnectorStates]
        /\ \A d \in Connector : /\ connector'[d].todo \cup connector'[d].save \subseteq ItemsOf[d]
                                /\ (InHand(d) /\ PollUnderWay(d))'
        /\ \A r \in Ref : Past(r) => Past(r)'
        /\ \A r \in Ref : ~Coming(r) => ~Coming(r)'
    BY <2>3, <2>5, <2>6, GoesOn
  <2>8. Types'
    BY <2>3, <2>4, <2>7 DEF Types, ConnectorStates
  <2>9. \A r : raw_evidence_is_referenced(r)' = raw_evidence_is_referenced(r)
    BY <2>3 DEF raw_evidence_is_referenced
  <2>10. NamedIsPast' /\ QueuedIsRetired'
    BY <2>3, <2>7, <2>9 DEF NamedIsPast, QueuedIsRetired, Retired
  <2>11. k \notin lost.refs
    BY <2>3, <2>4 DEF NamedIsPast, Past, Archiving
  <2>15. \A s \in Source : k \notin erasure[s].refs
    BY <2>3, <2>4 DEF ListedIsPast, Past, Archiving
  <2>16. ListedIsPast'
    BY <2>3, <2>7, ListedStays
  <2>12. ArchivedBeforeSaved'
    <3> SUFFICES ASSUME NEW d \in Connector, NEW j \in connector'[d].save
                 PROVE  Key(connector'[d].poll, j) \in objects' \cup lost.refs
      BY <2>3 DEF ArchivedBeforeSaved
    <3>1. connector'[d].poll = connector[d].poll
      BY <2>3, <2>5 DEF Types
    <3>2. j \in connector[d].save \/ (d = c /\ j = i)
      BY <2>3, <2>5 DEF Types
    <3> QED
      BY <2>3, <3>1, <3>2 DEF ArchivedBeforeSaved, k
  <2>13. \A w \in Worker : ClaimInv(w)'
    BY <2>3, <2>4 DEF ClaimInv
  <2>14. EvidenceBehindEveryFact' /\ CompletedMeansDeleted' /\ ErasureIsDoneOrGivenUp'
    BY <2>3, <2>4, <2>9, <2>11, <2>15 DEF EvidenceBehindEveryFact, CompletedMeansDeleted,
                                   ErasureIsDoneOrGivenUp
  <2> QED
    BY <2>3, <2>7, <2>8, <2>10, <2>12, <2>13, <2>14, <2>16
<1> QED
  BY <1>1, <1>2

\* An ignored discovery's object is named by no item but its own.
LEMMA KeyOfPost ==
  ASSUME NEW p, NEW q, NEW i \in Item \cap Posts, NEW j \in Item, Key(p, i) = Key(q, j)
  PROVE  p = q /\ i = j
BY EvidenceAssumption DEF Key, Whole

LEMMA SavedRows ==
  ASSUME Types, NEW i \in Item, NEW k \in Ref, save_observation_with_outbox(i, k)
  PROVE  /\ row' \in [Item -> Ref \cup {Blank, Absent}] /\ snapshot' \subseteq Item \X Ref
         /\ \A r \in Ref : raw_evidence_is_referenced(r)' => raw_evidence_is_referenced(r) \/ r = k
         /\ deletion' \in [Ref -> {"none", "due", "leased", "waiting", "completed"}]
         /\ \A r \in Ref \ {k} : deletion'[r] = deletion[r]
         /\ deletion'[k] # deletion[k] =>
              deletion'[k] = "due" /\ ~raw_evidence_is_referenced(k)' /\ i \in Posts
<1> USE DEF save_observation_with_outbox, Types
<1>1. row' \in [Item -> Ref \cup {Blank, Absent}] /\ snapshot' \subseteq Item \X Ref
  OBVIOUS
<1>2. \A r \in Ref : raw_evidence_is_referenced(r)' => raw_evidence_is_referenced(r) \/ r = k
  BY DEF raw_evidence_is_referenced
<1>3. CASE row[i] # Absent /\ i \in Posts /\ ~raw_evidence_is_referenced(k)
  <2>1. UNCHANGED <<row, snapshot>>
    BY <1>3, EvidenceAssumption
  <2>2. ~raw_evidence_is_referenced(k)'
    BY <1>3, <2>1 DEF raw_evidence_is_referenced
  <2> QED
    BY <1>1, <1>2, <1>3, <2>2
<1>4. CASE ~(row[i] # Absent /\ i \in Posts /\ ~raw_evidence_is_referenced(k))
  BY <1>1, <1>2, <1>4
<1> QED
  BY <1>3, <1>4

LEMMA SaveStep ==
  ASSUME EvidenceInv, NEW c \in Connector, Save(c)
  PROVE  EvidenceInv'
<1> USE DEF EvidenceInv
<1>0. connector[c] \in ConnectorStates /\ connector[c].pc = "saving"
  BY DEF Types, ConnectorStates, Save
<1>1. CASE connector[c].save = {}
  <2> DEFINE v == [connector[c] EXCEPT !.pc = "finishing"]
  <2>1. connector[c].todo = {}
    BY <1>0 DEF InHand
  <2>2. /\ v \in ConnectorStates /\ v.pc = "finishing" /\ v.poll = connector[c].poll
        /\ v.todo = {} /\ v.save = {}
    BY <1>0, <1>1, <2>1 DEF ConnectorStates, ConnectorPc
  <2>3. connector' = [connector EXCEPT ![c] = v] /\ cursor' \in Posts /\ faults' \in 0..MaxFaults
        /\ UNCHANGED <<objects, rows, deletion, erasure, polls, cutoff, worker, lost>>
    BY <1>1 DEF Save, Types, rows
  <2> HIDE DEF v
  <2> QED
    BY <1>0, <2>2, <2>3, PhaseStep
<1>2. CASE connector[c].save # {}
  <2>1. PICK i \in connector[c].save : i = Min(connector[c].save)
    BY <1>0, <1>2, LeastOf DEF ConnectorStates
  <2>2. PICK k : k = Key(connector[c].poll, i)
    OBVIOUS
  <2> DEFINE v == [connector[c] EXCEPT !.save = @ \ {i}]
  <2>3. /\ save_observation_with_outbox(i, k) /\ connector' = [connector EXCEPT ![c] = v]
        /\ UNCHANGED <<objects, erasure, cursor, polls, cutoff, worker, faults, lost>>
    BY <1>2, <2>1, <2>2 DEF Save
  <2>4. i \in Item /\ k \in Ref /\ k[1] = connector[c].poll /\ deletion[k] = "none" /\ Coming(k)
    BY <1>0, <2>2, InHandKey DEF Live
  <2>5. /\ v \in ConnectorStates /\ v.pc = "saving" /\ v.poll = connector[c].poll
        /\ v.todo = {} /\ v.save = connector[c].save \ {i}
    BY <1>0 DEF ConnectorStates, InHand
  <2> HIDE DEF v
  <2>6. /\ connector' \in [Connector -> ConnectorStates]
        /\ \A d \in Connector : /\ connector'[d].todo \cup connector'[d].save \subseteq ItemsOf[d]
                                /\ (InHand(d) /\ PollUnderWay(d))'
        /\ \A r \in Ref : Past(r) => Past(r)'
        /\ \A r \in Ref : ~Coming(r) => ~Coming(r)'
    BY <1>0, <2>3, <2>5, GoesOn
  <2>7. /\ row' \in [Item -> Ref \cup {Blank, Absent}] /\ snapshot' \subseteq Item \X Ref
        /\ \A r \in Ref : raw_evidence_is_referenced(r)' => raw_evidence_is_referenced(r) \/ r = k
        /\ deletion' \in [Ref -> {"none", "due", "leased", "waiting", "completed"}]
        /\ \A r \in Ref \ {k} : deletion'[r] = deletion[r]
        /\ deletion'[k] # deletion[k] =>
             deletion'[k] = "due" /\ ~raw_evidence_is_referenced(k)' /\ i \in Posts
    BY <2>3, <2>4, SavedRows
  <2>8. Types'
    BY <2>3, <2>6, <2>7 DEF Types, ConnectorStates
  <2>9. Past(k)'
    <3>1. Live(c) /\ k[1] <= polls
      BY <1>0, <2>4 DEF Live, PollUnderWay
    <3>2. \A d \in Connector \ {c} : Live(d) => connector[d].poll # k[1]
      BY <2>4, <3>1 DEF PollUnderWay
    <3>3. Past(k)
      BY <1>0, <3>1, <3>2 DEF Past, Archiving, Live
    <3> QED
      BY <2>4, <2>6, <3>3
  <2>10. NamedIsPast'
    BY <2>3, <2>6, <2>7, <2>9 DEF NamedIsPast
  <2>11. deletion'[k] # "none" => ~Coming(k)'
    <3> SUFFICES ASSUME i \in Posts, NEW d \in Connector,
                        NEW j \in connector'[d].todo \cup connector'[d].save,
                        k = Key(connector'[d].poll, j)
                 PROVE  FALSE
      BY <2>4, <2>7 DEF Coming
    <3>1. j \in Item /\ j \in connector[d].todo \cup connector[d].save
          /\ connector'[d].poll = connector[d].poll
      BY <2>3, <2>5 DEF Types
    <3>2. connector[d].poll = connector[c].poll /\ j = i
      BY <2>4, <3>1, <2>2, KeyOfPost
    <3>3. Live(d) /\ Live(c)
      BY <1>0, <3>1 DEF Live, InHand
    <3>4. d = c
      BY <3>2, <3>3 DEF PollUnderWay
    <3> QED
      BY <2>3, <2>5, <3>2, <3>4 DEF Types
  <2>12. QueuedIsRetired'
    <3> SUFFICES ASSUME NEW r \in Ref, deletion'[r] # "none" PROVE Retired(r)'
      BY DEF QueuedIsRetired
    <3>1. CASE r = k
      BY <2>3, <2>4, <2>7, <2>9, <2>11, <3>1 DEF Retired, Past
    <3>2. CASE r # k
      BY <2>3, <2>6, <2>7, <3>2 DEF Retired, QueuedIsRetired
    <3> QED
      BY <3>1, <3>2
  <2>13. ArchivedBeforeSaved'
    <3> SUFFICES ASSUME NEW d \in Connector, NEW j \in connector'[d].save
                 PROVE  Key(connector'[d].poll, j) \in objects \cup lost.refs
      BY <2>3 DEF ArchivedBeforeSaved
    <3>1. connector'[d].poll = connector[d].poll /\ j \in connector[d].save
      BY <2>3, <2>5 DEF Types
    <3> QED
      BY <3>1 DEF ArchivedBeforeSaved
  <2>14. \A w \in Worker : ClaimInv(w)'
    BY <2>3, <2>4, <2>7 DEF ClaimInv, Types
  <2>15. k \in objects \cup lost.refs
    BY <2>2 DEF ArchivedBeforeSaved
  <2>16. EvidenceBehindEveryFact' /\ CompletedMeansDeleted' /\ ErasureIsDoneOrGivenUp'
    BY <2>3, <2>4, <2>7, <2>15 DEF EvidenceBehindEveryFact, CompletedMeansDeleted,
                                   ErasureIsDoneOrGivenUp
  <2>17. ListedIsPast'
    BY <2>3, <2>6, ListedStays
  <2> QED
    BY <2>3, <2>6, <2>8, <2>10, <2>12, <2>13, <2>14, <2>16, <2>17
<1> QED
  BY <1>1, <1>2

-----------------------------------------------------------------------------
(***************************************************************************)
(* The retention worker's transaction, the erasure of a source and its     *)
(* consumer: references only go.                                           *)
(***************************************************************************)
LEMMA ReferencesGo ==
  ASSUME EvidenceInv, UNCHANGED <<connector, polls>>,
         \A r \in Ref : raw_evidence_is_referenced(r)' => raw_evidence_is_referenced(r),
         \A r \in Ref : deletion[r] = "none" /\ deletion'[r] # "none" =>
              ~raw_evidence_is_referenced(r)' /\ ~Coming(r) /\ r[1] <= polls,
         \A r \in Ref : r \in lost'.refs => r \in lost.refs \/ raw_evidence_is_referenced(r)
  PROVE  NamedIsPast' /\ QueuedIsRetired'
<1> USE DEF EvidenceInv
<1>1. \A r : (Past(r)' <=> Past(r)) /\ (Coming(r)' <=> Coming(r))
  BY DEF Past, Archiving, Coming
<1> QED
  BY <1>1 DEF NamedIsPast, QueuedIsRetired, Retired

LEMMA NotComing ==
  ASSUME EvidenceInv, NEW r \in Ref, r[1] <= cutoff
  PROVE  ~Coming(r)
<1> USE DEF EvidenceInv
<1> SUFFICES ASSUME NEW c \in Connector, NEW i \in connector[c].todo \cup connector[c].save,
                    r = Key(connector[c].poll, i)
             PROVE  FALSE
  BY DEF Coming
<1>1. Live(c)
  BY DEF Live, InHand
<1>2. r[1] = connector[c].poll
  BY <1>1, InHandKey
<1>3. cutoff \in Nat /\ connector[c].poll \in Nat /\ cutoff < connector[c].poll
  BY <1>1, EvidenceAssumption DEF PollUnderWay, Types
<1> QED
  BY <1>2, <1>3

LEMMA ExpireStep ==
  ASSUME EvidenceInv, NEW w \in Worker, expire_raw_evidence(w)
  PROVE  EvidenceInv'
<1> USE DEF EvidenceInv
<1> DEFINE kept == [i \in Item |-> IF i \in ExpiredRows THEN Blank ELSE row[i]]
           left == snapshot \ ExpiredSnapshots
           used == {kept[i] : i \in Item} \cup {x[2] : x \in left}
           queue == [r \in Ref |-> IF r \in Candidates \ used /\ deletion[r] = "none"
                                   THEN "due" ELSE deletion[r]]
           claimed == {r \in Ref \ used : queue[r] = "due"}
<1>1. /\ row' = kept /\ snapshot' = left
      /\ deletion' = [r \in Ref |-> IF r \in claimed THEN "leased" ELSE queue[r]]
      /\ worker' = [worker EXCEPT ![w] =
              IF claimed = {} THEN Idle ELSE [Idle EXCEPT !.pc = "checking", !.todo = claimed]]
      /\ UNCHANGED <<objects, erasure, connector, cursor, polls, cutoff, faults, lost>>
  BY DEF expire_raw_evidence
<1>2. \A r \in Ref : raw_evidence_is_referenced(r)' =>
        raw_evidence_is_referenced(r) /\ r \in used
  <2> SUFFICES ASSUME NEW r \in Ref, raw_evidence_is_referenced(r)'
               PROVE  raw_evidence_is_referenced(r) /\ r \in used
    OBVIOUS
  <2>1. CASE \E i \in Item : row'[i] = r
    <3>1. PICK i \in Item : kept[i] = r
      BY <1>1, <2>1
    <3>2. row[i] = r
      BY <3>1, EvidenceAssumption
    <3> QED
      BY <3>1, <3>2 DEF raw_evidence_is_referenced
  <2>2. CASE \E i \in Item : <<i, r>> \in snapshot'
    <3>1. PICK i \in Item : <<i, r>> \in left
      BY <1>1, <2>2
    <3>2. <<i, r>>[2] = r /\ <<i, r>> \in snapshot
      BY <3>1
    <3> QED
      BY <3>1, <3>2 DEF raw_evidence_is_referenced
  <2> QED
    BY <2>1, <2>2 DEF raw_evidence_is_referenced
<1>3. \A r \in Candidates \cap Ref : r[1] <= cutoff
  BY DEF Candidates, ExpiredRows, ExpiredSnapshots, Old
<1> HIDE DEF kept, left, used
<1>4. \A r \in Ref : /\ queue[r] \in {"none", "due", "leased", "waiting", "completed"}
                     /\ queue[r] # "none" => deletion[r] # "none" \/ r \in Candidates \ used
                     /\ deletion[r] # "none" => queue[r] = deletion[r]
                     /\ queue[r] = "completed" => deletion[r] = "completed"
  BY DEF Types
<1> HIDE DEF queue
<1>5. \A r \in Ref : /\ deletion'[r] \in {"none", "due", "leased", "waiting", "completed"}
                     /\ deletion'[r] # "none" => deletion[r] # "none" \/ r \in Candidates \ used
                     /\ deletion[r] # "none" => deletion'[r] # "none"
                     /\ deletion'[r] = "completed" => deletion[r] = "completed"
                     /\ r \in claimed => deletion'[r] # "none"
  BY <1>1, <1>4
<1>6. NamedIsPast' /\ QueuedIsRetired'
  <2>1. cutoff \in Nat /\ polls \in Nat /\ cutoff <= polls /\ \A r \in Ref : r[1] \in Nat
    BY EvidenceAssumption DEF Types, Ref, Poll
  <2>2. \A r \in Ref : deletion[r] = "none" /\ deletion'[r] # "none" =>
              ~raw_evidence_is_referenced(r)' /\ ~Coming(r) /\ r[1] <= polls
    BY <1>2, <1>3, <1>5, <2>1, NotComing
  <2> QED
    BY <1>1, <1>2, <2>2, ReferencesGo
<1>7. worker'[w] = Idle \/ worker'[w] = [Idle EXCEPT !.pc = "checking", !.todo = claimed]
  BY <1>1 DEF Types
<1>8. claimed \in SUBSET Ref
  OBVIOUS
<1>9. worker' \in [Worker -> [pc : WorkerPc, todo : SUBSET Ref, cur : Ref \cup {Absent}]]
  <2>1. Idle \in [pc : WorkerPc, todo : SUBSET Ref, cur : Ref \cup {Absent}]
    BY DEF Idle, WorkerPc
  <2>2. [Idle EXCEPT !.pc = "checking", !.todo = claimed]
           \in [pc : WorkerPc, todo : SUBSET Ref, cur : Ref \cup {Absent}]
    BY <1>8, <2>1 DEF WorkerPc
  <2> QED
    BY <1>1, <2>1, <2>2 DEF Types
<1>10. ClaimInv(w)'
  <2>1. worker'[w].pc \in {"idle", "checking"} /\ worker'[w].todo \subseteq claimed
    <3> HIDE DEF claimed
    <3>1. CASE worker'[w] = Idle
      BY <3>1 DEF Idle
    <3>2. CASE worker'[w] = [Idle EXCEPT !.pc = "checking", !.todo = claimed]
      BY <3>2 DEF Idle
    <3> QED
      BY <1>7, <3>1, <3>2
  <2> QED
    BY <1>5, <1>8, <2>1 DEF ClaimInv
<1>11. ASSUME NEW x \in Worker \ {w} PROVE ClaimInv(x)'
  <2>1. worker'[x] = worker[x] /\ worker[x].todo \subseteq Ref
    BY <1>1 DEF Types
  <2> QED
    BY <1>1, <1>5, <2>1 DEF ClaimInv
<1>12. Types'
  <2>1. row' \in [Item -> Ref \cup {Blank, Absent}] /\ snapshot' \subseteq Item \X Ref
    BY <1>1 DEF kept, left, Types
  <2>2. deletion' \in [Ref -> {"none", "due", "leased", "waiting", "completed"}]
    BY <1>1, <1>5
  <2> QED
    BY <1>1, <1>9, <2>1, <2>2 DEF Types
<1>13. (\A c \in Connector : InHand(c) /\ PollUnderWay(c))' /\ ArchivedBeforeSaved'
       /\ ErasureIsDoneOrGivenUp'
  BY <1>1 DEF InHand, PollUnderWay, Live, ArchivedBeforeSaved, ErasureIsDoneOrGivenUp
<1>14. EvidenceBehindEveryFact' /\ CompletedMeansDeleted'
  BY <1>1, <1>2, <1>5 DEF EvidenceBehindEveryFact, CompletedMeansDeleted
<1>15. ListedIsPast'
  BY <1>1, ListedStays DEF Past, Archiving
<1> QED
  BY <1>6, <1>10, <1>11, <1>12, <1>13, <1>14, <1>15

\* What the purge of a source reads is named by its observations.
LEMMA RefsAreNamed ==
  ASSUME Types, NEW items \in SUBSET Item, NEW r \in RefsOf(items) \cap Ref
  PROVE  raw_evidence_is_referenced(r)
<1>1. CASE \E i \in items : r = row[i]
  BY <1>1 DEF raw_evidence_is_referenced
<1>2. CASE \E x \in snapshot : x[1] \in items /\ r = x[2]
  <2>1. PICK x \in snapshot : r = x[2] /\ x \in Item \X Ref
    BY <1>2 DEF Types
  <2>2. x = <<x[1], r>> /\ x[1] \in Item
    BY <2>1
  <2> QED
    BY <2>1, <2>2 DEF raw_evidence_is_referenced
<1> QED
  BY <1>1, <1>2 DEF RefsOf

LEMMA PurgeStep ==
  ASSUME EvidenceInv, NEW s \in Source, purge_source(s)
  PROVE  EvidenceInv'
<1> USE DEF EvidenceInv
<1>1. /\ erasure[s].pc = "purging"
      /\ row' = [i \in Item |-> IF i \in ItemsFrom(s) THEN Absent ELSE row[i]]
      /\ snapshot' = {x \in snapshot : x[1] \notin erasure[s].items}
      /\ erasure' = [erasure EXCEPT ![s] = [erasure[s] EXCEPT !.pc = "pending", !.items = {}]]
      /\ lost' = [refs |-> lost.refs \cup erasure[s].refs, items |-> lost.items \cup Stored(s)]
      /\ UNCHANGED <<objects, deletion, connector, cursor, polls, cutoff, worker, faults>>
  BY DEF purge_source
<1>2. \A r \in Ref : raw_evidence_is_referenced(r)' => raw_evidence_is_referenced(r)
  BY <1>1, EvidenceAssumption DEF raw_evidence_is_referenced
<1>3. /\ erasure[s] \in Erasures /\ erasure[s].refs \subseteq Ref /\ Stored(s) \subseteq Item
      /\ \A r \in erasure[s].refs : Past(r)
  BY DEF Types, Erasures, ListedIsPast, Stored, ItemsFrom
<1>4. /\ erasure'[s].refs = erasure[s].refs /\ erasure'[s].pc = "pending" /\ erasure'[s] \in Erasures
      /\ \A x \in Source \ {s} : erasure'[x] = erasure[x]
  BY <1>1, <1>3 DEF Types, Erasures
<1>5. lost'.refs = lost.refs \cup erasure[s].refs
  BY <1>1
<1>6. \A r : (Past(r)' <=> Past(r)) /\ (Coming(r)' <=> Coming(r))
  BY <1>1 DEF Past, Archiving, Coming
<1>7. NamedIsPast' /\ QueuedIsRetired'
  BY <1>1, <1>2, <1>3, <1>5, <1>6 DEF NamedIsPast, QueuedIsRetired, Retired
<1>8. Types'
  <2>1. row' \in [Item -> Ref \cup {Blank, Absent}] /\ snapshot' \subseteq Item \X Ref
    BY <1>1 DEF Types
  <2>2. erasure' \in [Source -> Erasures] /\ lost' \in [refs : SUBSET Ref, items : SUBSET Item]
    BY <1>1, <1>3, <1>4 DEF Types
  <2> QED
    BY <1>1, <2>1, <2>2 DEF Types
<1>9. (\A c \in Connector : InHand(c) /\ PollUnderWay(c))' /\ (\A w \in Worker : ClaimInv(w))'
      /\ CompletedMeansDeleted'
  BY <1>1 DEF InHand, PollUnderWay, Live, ClaimInv, CompletedMeansDeleted
<1>10. ArchivedBeforeSaved' /\ EvidenceBehindEveryFact'
  BY <1>1, <1>2, <1>5 DEF ArchivedBeforeSaved, EvidenceBehindEveryFact
<1>11. ListedIsPast'
  BY <1>3, <1>4, <1>5, <1>6 DEF ListedIsPast
<1>12. ErasureIsDoneOrGivenUp'
  BY <1>1, <1>4 DEF ErasureIsDoneOrGivenUp
<1> QED
  BY <1>7, <1>8, <1>9, <1>10, <1>11, <1>12

\* A step of one erasure outside the database: what it deletes is lost already.
LEMMA MessageStep ==
  ASSUME EvidenceInv, NEW s \in Source, NEW v \in Erasures, erasure' = [erasure EXCEPT ![s] = v],
         objects' \subseteq objects, objects \ objects' \subseteq lost.refs, faults' \in 0..MaxFaults,
         \A r \in v.refs : Past(r), v.pc \in {"pending", "acknowledged"} => v.refs \subseteq lost.refs,
         v.pc = "acknowledged" => v.dead \/ v.refs \cap objects' = {},
         UNCHANGED <<rows, deletion, connector, cursor, polls, cutoff, worker, lost>>
  PROVE  EvidenceInv'
<1> USE DEF EvidenceInv, rows
<1>1. erasure'[s] = v /\ \A x \in Source \ {s} : erasure'[x] = erasure[x]
  BY DEF Types
<1>2. \A r : raw_evidence_is_referenced(r)' <=> raw_evidence_is_referenced(r)
  BY DEF raw_evidence_is_referenced
<1>3. Types'
  <2>1. erasure' \in [Source -> Erasures] /\ objects' \subseteq Ref
    BY DEF Types
  <2> QED
    BY <2>1 DEF Types
<1>4. NamedIsPast' /\ QueuedIsRetired'
  BY <1>2, ReferencesGo
<1>5. (\A c \in Connector : InHand(c) /\ PollUnderWay(c))' /\ (\A w \in Worker : ClaimInv(w))'
      /\ CompletedMeansDeleted'
  BY DEF InHand, PollUnderWay, Live, ClaimInv, CompletedMeansDeleted
<1>6. ArchivedBeforeSaved' /\ EvidenceBehindEveryFact'
  BY <1>2 DEF ArchivedBeforeSaved, EvidenceBehindEveryFact
<1>7. \A r : Past(r)' <=> Past(r)
  BY DEF Past, Archiving
<1>8. ListedIsPast'
  BY <1>1, <1>7 DEF ListedIsPast
<1>9. ErasureIsDoneOrGivenUp'
  BY <1>1 DEF ErasureIsDoneOrGivenUp
<1> QED
  BY <1>3, <1>4, <1>5, <1>6, <1>8, <1>9

LEMMA ErasureStep ==
  ASSUME EvidenceInv, NEW s \in Source,
         \/ ReadForPurge(s) \/ PurgeFails(s) \/ Handle(s) \/ HandleFails(s) \/ ConsumerDies(s)
  PROVE  EvidenceInv'
<1> USE DEF EvidenceInv
<1>1. /\ erasure[s] \in Erasures /\ erasure[s].refs \subseteq Ref
      /\ \A r \in erasure[s].refs : Past(r)
      /\ erasure[s].pc = "pending" => erasure[s].refs \subseteq lost.refs
  BY DEF Types, Erasures, ListedIsPast
<1>2. faults' \in 0..MaxFaults
  BY EvidenceAssumption DEF Types, ReadForPurge, PurgeFails, Handle, HandleFails, ConsumerDies, Fault
<1>3. CASE ReadForPurge(s)
  <2>1. PICK raw_refs : raw_refs = (RefsOf(ItemsFrom(s)) \ RefsOf(Item \ ItemsFrom(s))) \cap Ref
    OBVIOUS
  <2>2. \A r \in raw_refs : r \in Ref /\ Past(r)
    <3>1. ItemsFrom(s) \in SUBSET Item
      BY DEF ItemsFrom
    <3> QED
      BY <2>1, <3>1, RefsAreNamed DEF NamedIsPast
  <2>3. PICK v : v = [NoErasure EXCEPT !.pc = "purging", !.items = Stored(s), !.refs = raw_refs]
    OBVIOUS
  <2>4. v \in Erasures /\ v.pc = "purging" /\ v.refs = raw_refs
    BY <2>2, <2>3 DEF NoErasure, Erasures, Stored, ItemsFrom
  <2>5. /\ erasure' = [erasure EXCEPT ![s] = v]
        /\ UNCHANGED <<objects, rows, deletion, connector, cursor, polls, cutoff, worker, faults, lost>>
    BY <1>3, <2>1, <2>3 DEF ReadForPurge
  <2> QED
    BY <1>2, <2>2, <2>4, <2>5, MessageStep
<1>4. CASE PurgeFails(s)
  <2>1. NoErasure \in Erasures /\ NoErasure.pc = "none" /\ NoErasure.refs = {}
    BY DEF NoErasure, Erasures
  <2> QED
    BY <1>2, <1>4, <2>1, MessageStep DEF PurgeFails
<1>5. CASE Handle(s)
  <2>1. PICK v : v = [erasure[s] EXCEPT !.pc = "acknowledged", !.tries = 0]
    OBVIOUS
  <2>2. v \in Erasures /\ v.pc = "acknowledged" /\ v.refs = erasure[s].refs
    BY <1>1, <2>1 DEF Erasures
  <2> QED
    BY <1>1, <1>2, <1>5, <2>1, <2>2, MessageStep DEF Handle
<1>6. CASE HandleFails(s) \/ ConsumerDies(s)
  <2>1. PICK v \in Erasures : /\ erasure' = [erasure EXCEPT ![s] = v]
                              /\ v.refs = erasure[s].refs /\ v.pc \in {"pending", "acknowledged"}
                              /\ v.pc = "acknowledged" => v.dead
    <3>1. erasure[s].tries + 1 \in Nat /\ erasure[s].pc = "pending"
      BY <1>1, <1>6 DEF HandleFails, ConsumerDies, DeletePart, Erasures
    <3>2. CASE HandleFails(s)
      <4>1. CASE LastDelivery(s)
        <5>1. PICK v : v = [erasure[s] EXCEPT !.pc = "acknowledged", !.tries = 0, !.dead = TRUE]
          OBVIOUS
        <5>2. erasure' = [erasure EXCEPT ![s] = v]
          BY <3>2, <4>1, <5>1 DEF HandleFails
        <5>3. v \in Erasures /\ v.refs = erasure[s].refs /\ v.dead /\ v.pc = "acknowledged"
          BY <1>1, <5>1 DEF Erasures
        <5> QED
          BY <5>2, <5>3
      <4>2. CASE ~LastDelivery(s)
        <5>1. PICK v : v = [erasure[s] EXCEPT !.tries = @ + 1]
          OBVIOUS
        <5>2. erasure' = [erasure EXCEPT ![s] = v]
          BY <3>2, <4>2, <5>1 DEF HandleFails
        <5>3. v \in Erasures /\ v.refs = erasure[s].refs /\ v.pc = "pending"
          BY <1>1, <3>1, <5>1 DEF Erasures
        <5> QED
          BY <5>2, <5>3
      <4> QED
        BY <4>1, <4>2
    <3>3. CASE ConsumerDies(s)
      <4>1. PICK listed \in BOOLEAN :
              erasure' = [erasure EXCEPT ![s] =
                  [erasure[s] EXCEPT !.tries = @ + 1, !.dead = @ \/ listed]]
        BY <3>3 DEF ConsumerDies, LastDelivery
      <4>2. PICK v : v = [erasure[s] EXCEPT !.tries = @ + 1, !.dead = @ \/ listed]
        OBVIOUS
      <4>3. v \in Erasures /\ v.refs = erasure[s].refs /\ v.pc = "pending"
        <5>1. (erasure[s].dead \/ listed) \in BOOLEAN
          OBVIOUS
        <5> QED
          BY <1>1, <3>1, <4>2, <5>1 DEF Erasures
      <4> QED
        BY <4>1, <4>2, <4>3
    <3> QED
      BY <1>6, <3>2, <3>3
  <2>2. /\ erasure[s].pc = "pending"
        /\ objects' \subseteq objects /\ objects \ objects' \subseteq erasure[s].refs
        /\ UNCHANGED <<rows, deletion, connector, cursor, polls, cutoff, worker, lost>>
    BY <1>6 DEF HandleFails, ConsumerDies, DeletePart
  <2> QED
    BY <1>1, <1>2, <2>1, <2>2, MessageStep
<1> QED
  BY <1>3, <1>4, <1>5, <1>6

-----------------------------------------------------------------------------
(***************************************************************************)
(* What a cycle of the feed reads: the posts from the checkpoint on,       *)
(* without a gap, up to the newest it read.                                *)
(***************************************************************************)
LEMMA PostsAreNumbers == \A t \in Posts : t \in Nat /\ 0 < t
BY EvidenceAssumption

LEMMA PostsUpTo ==
  ASSUME NEW m \in Posts
  PROVE  IsFiniteSet({u \in Posts : u <= m})
<1>1. {u \in Posts : u <= m} \in SUBSET (0..m) /\ m \in Nat
  BY PostsAreNumbers
<1>2. IsFiniteSet(0..m)
  BY <1>1, FS_Interval
<1> QED
  BY <1>1, <1>2, FS_Subset

LEMMA FewerBefore ==
  ASSUME NEW m \in Posts, NEW S, NEW T, T \subseteq S, S \subseteq {u \in Posts : u <= m},
         NEW n \in Int
  PROVE  /\ Cardinality(S) <= n => Cardinality(T) <= n
         /\ Cardinality(S) < n => Cardinality(T) < n
<1>1. IsFiniteSet(S)
  BY PostsUpTo, FS_Subset
<1>2. IsFiniteSet(T) /\ Cardinality(T) <= Cardinality(S)
  BY <1>1, FS_Subset
<1>3. Cardinality(S) \in Nat /\ Cardinality(T) \in Nat
  BY <1>1, <1>2, FS_CardinalityType
<1> QED
  BY <1>2, <1>3

LEMMA WindowHasNoGap ==
  ASSUME NEW start \in Int, NEW n \in Nat, NEW m \in Messages(start, n), NEW t \in Posts,
         start <= t, t <= m
  PROVE  t \in Messages(start, n)
<1>1. m \in Posts /\ m \in Nat /\ t \in Nat
  BY EvidenceAssumption DEF Messages
<1> DEFINE S == {u \in Posts : start <= u /\ u <= m}
           T == {u \in Posts : start <= u /\ u <= t}
<1>2. T \subseteq S /\ S \subseteq {u \in Posts : u <= m}
  <2>1. \A u \in Posts : u <= t => u <= m
    BY <1>1, PostsAreNumbers
  <2> QED
    BY <2>1
<1>3. Cardinality(S) <= n
  BY DEF Messages
<1> HIDE DEF S, T
<1>4. Cardinality(T) <= n
  <2>1. n \in Int
    OBVIOUS
  <2> QED
    BY <1>1, <1>2, <1>3, <2>1, FewerBefore
<1> QED
  BY <1>4 DEF T, Messages

LEMMA ReadHasNoGap ==
  ASSUME cursor \in Posts, NEW n \in Nat, NEW m \in UpToLimit(_read_candidates(n)), NEW t \in Posts,
         cursor < t, t <= m
  PROVE  t \in UpToLimit(_read_candidates(n))
<1> DEFINE W == _read_candidates(n)
<1>1. m \in Novel(W) /\ m \in W
  BY DEF UpToLimit, Novel
<1>2. cursor \in Nat /\ Overlap \in Nat /\ t \in Nat
  BY EvidenceAssumption
<1>3. PICK start \in Int : start <= cursor /\ W = Messages(start, n)
  <2>1. cursor - Overlap \in Int /\ cursor - Overlap <= cursor /\ 0 <= cursor
    BY <1>2
  <2> QED
    BY <1>2, <2>1 DEF _read_candidates, BackUp
<1>4. t \in W
  BY <1>1, <1>2, <1>3, WindowHasNoGap
<1>5. m \in Posts /\ m \in Nat
  BY <1>1, <1>3, EvidenceAssumption DEF Messages
<1> HIDE DEF W
<1> DEFINE S == {u \in Novel(W) \cap Matching : u < m}
           T == {u \in Novel(W) \cap Matching : u < t}
<1>6. W \subseteq Posts
  BY <1>3 DEF Messages
<1>7. T \subseteq S /\ S \subseteq {u \in Posts : u <= m}
  <2>1. \A u \in Posts : u < t => u < m
    BY <1>2, <1>5, PostsAreNumbers
  <2>2. \A u \in Posts : u < m => u <= m
    BY <1>5, PostsAreNumbers
  <2> QED
    BY <1>6, <2>1, <2>2 DEF Novel
<1>8. Cardinality(S) < MaxUris
  BY DEF UpToLimit, W
<1>9. MaxUris \in Int
  BY EvidenceAssumption
<1> HIDE DEF S, T
<1>10. Cardinality(T) < MaxUris
  BY <1>5, <1>7, <1>8, <1>9, FewerBefore
<1> QED
  BY <1>4, <1>10 DEF UpToLimit, Novel, T, W

\* The newest of finitely many.
LEMMA GreatestExists ==
  ASSUME NEW S \in SUBSET Nat, IsFiniteSet(S), S # {}
  PROVE  Max(S) \in S /\ \A k \in S : k <= Max(S)
<1> DEFINE T == {{k \in S : k >= m} : m \in S}
<1>1. T \subseteq FiniteSubsetsOf(S) /\ T # {}
  <2>1. ASSUME NEW m \in S PROVE IsFiniteSet({k \in S : k >= m})
    BY FS_Subset
  <2> QED
    BY <2>1 DEF FiniteSubsetsOf
<1>2. PICK U \in T : \A V \in T : <<V, U>> \notin StrictSubsetOrdering(S)
  <2> HIDE DEF T
  <2> QED
    BY <1>1, WFMin, FS_StrictSubsetOrderingWellFounded
<1>3. PICK m \in S : U = {k \in S : k >= m}
  OBVIOUS
<1>4. ASSUME NEW x \in S, x > m PROVE FALSE
  <2> DEFINE V == {k \in S : k >= x}
  <2>1. V \subseteq U /\ U \in SUBSET S /\ m \in U /\ m \notin V
    <3>1. \A k \in S : k >= x => k >= m
      BY <1>4
    <3>2. m >= m /\ ~(m >= x)
      BY <1>4
    <3> QED
      BY <1>3, <3>1, <3>2
  <2>2. V \in T
    OBVIOUS
  <2> HIDE DEF V, T
  <2>3. <<V, U>> \in StrictSubsetOrdering(S)
    BY <2>1 DEF StrictSubsetOrdering
  <2> QED
    BY <1>2, <2>2, <2>3
<1>5. \E x \in S : \A y \in S : x >= y
  BY <1>4
<1> QED
  BY <1>5 DEF Max

LEMMA ReadingReaches ==
  ASSUME cursor \in Posts, NEW n \in Nat
  PROVE  LET read == UpToLimit(_read_candidates(n)) IN
         /\ read \subseteq Posts
         /\ Max(read \cup {restore_checkpoint(Feed)}) \in Posts
         /\ \A t \in Posts : cursor < t /\ t <= Max(read \cup {restore_checkpoint(Feed)}) => t \in read
<1> DEFINE read == UpToLimit(_read_candidates(n))
<1>1. read \subseteq Posts
  BY DEF UpToLimit, Novel, _read_candidates, BackUp, Messages
<1> DEFINE all == read \cup {cursor}
<1>2. all \in SUBSET Nat /\ IsFiniteSet(all) /\ all # {} /\ all \subseteq Posts
  <2>1. IsFiniteSet(all)
    BY <1>1, EvidenceAssumption, FS_Subset
  <2> QED
    BY <1>1, <2>1, EvidenceAssumption
<1> HIDE DEF all
<1>3. Max(all) \in all /\ \A k \in all : k <= Max(all)
  BY <1>2, GreatestExists
<1>4. ASSUME NEW t \in Posts, cursor < t, t <= Max(all) PROVE t \in read
  <2>1. cursor \in Nat /\ t \in Nat
    BY EvidenceAssumption
  <2>2. Max(all) \in read
    BY <1>3, <1>4, <2>1 DEF all
  <2> QED
    BY <1>4, <2>2, ReadHasNoGap
<1> QED
  BY <1>1, <1>2, <1>3, <1>4 DEF restore_checkpoint, all

LEMMA CollectFeedStep ==
  ASSUME EvidenceInv, NEW n \in 0..MaxMessages, CollectFeed(n)
  PROVE  /\ EvidenceInv'
         /\ \A t \in Matching : cursor' < t /\ t <= connector'[Feed].highest =>
               t \in connector'[Feed].todo
<1> USE DEF EvidenceInv
<1> DEFINE messages == _read_candidates(n)
           read == UpToLimit(messages)
           v == [pc |-> "archiving", poll |-> polls + 1, todo |-> read \cap Matching, save |-> {},
                 highest |-> Max(read \cup {restore_checkpoint(Feed)}),
                 full |-> Cardinality(messages) = MaxMessages]
<1>1. /\ connector' = [connector EXCEPT ![Feed] = v]
      /\ connector[Feed].pc = "idle" /\ polls < MaxPolls /\ polls' = polls + 1
      /\ UNCHANGED <<objects, rows, deletion, erasure, cursor, cutoff, worker, faults, lost>>
  BY DEF CollectFeed
<1>2. n \in Nat /\ cursor \in Posts
  BY EvidenceAssumption DEF Types
<1>3. /\ Max(read \cup {restore_checkpoint(Feed)}) \in Posts
      /\ \A t \in Posts : cursor < t /\ t <= Max(read \cup {restore_checkpoint(Feed)}) => t \in read
  BY <1>2, ReadingReaches
<1>4. Matching \subseteq Item /\ Matching \subseteq Posts /\ Feed \in Connector
      /\ Matching = ItemsOf[Feed]
  BY EvidenceAssumption DEF Matching
<1>5. polls + 1 \in 0..MaxPolls
  BY <1>1, EvidenceAssumption DEF Types
<1> HIDE DEF read, messages
<1>6. v \in ConnectorStates
  BY <1>3, <1>4, <1>5 DEF ConnectorStates, ConnectorPc
<1>7. /\ v.pc = "archiving" /\ v.poll = polls + 1 /\ v.todo = read \cap Matching /\ v.save = {}
      /\ v.highest = Max(read \cup {restore_checkpoint(Feed)})
  OBVIOUS
<1> HIDE DEF v
<1>8. EvidenceInv'
  <2>1. v.todo \subseteq ItemsOf[Feed]
    BY <1>4, <1>7
  <2> QED
    BY <1>1, <1>4, <1>6, <1>7, <2>1, BeginStep
<1>9. connector'[Feed] = v
  BY <1>1, <1>4 DEF Types
<1> QED
  BY <1>1, <1>3, <1>4, <1>7, <1>8, <1>9

-----------------------------------------------------------------------------
LEMMA EvidenceStep == EvidenceInv /\ [Next]_vars => EvidenceInv'
<1> SUFFICES ASSUME EvidenceInv, [Next]_vars PROVE EvidenceInv'
  OBVIOUS
<1>1. ASSUME NEW n \in 0..MaxMessages, CollectFeed(n) PROVE EvidenceInv'
  BY <1>1, CollectFeedStep
<1>2. ASSUME NEW c \in Connector, Collect(c) \/ Cycle(c) \/ CycleFails(c) PROVE EvidenceInv'
  BY <1>2, CollectStep, ArchiveStep, SaveStep, FinishStep, CycleFailsStep DEF Cycle
<1>3. CASE PeriodEnds
  BY <1>3, PeriodEndsStep
<1>4. ASSUME NEW w \in Worker, Retaining(w) \/ WorkerDies(w) PROVE EvidenceInv'
  BY <1>4, ExpireStep, CheckStep, DeleteStep, ConfirmStep, WorkerDiesStep DEF Retaining
<1>5. ASSUME NEW r \in Ref, Elapse(r) PROVE EvidenceInv'
  BY <1>5, ElapseStep
<1>6. ASSUME NEW s \in Source, purge_source(s) PROVE EvidenceInv'
  BY <1>6, PurgeStep
<1>7. ASSUME NEW s \in Source,
             \/ ReadForPurge(s) \/ PurgeFails(s) \/ Handle(s) \/ HandleFails(s) \/ ConsumerDies(s)
      PROVE  EvidenceInv'
  BY <1>7, ErasureStep
<1>8. CASE UNCHANGED vars
  <2> USE <1>8 DEF vars, EvidenceInv
  <2>1. Types'
    BY DEF Types, rows
  <2>2. (\A c \in Connector : InHand(c) /\ PollUnderWay(c))' /\ (\A w \in Worker : ClaimInv(w))'
    BY DEF InHand, PollUnderWay, Live, ClaimInv
  <2>3. NamedIsPast' /\ QueuedIsRetired'
    BY ReferencesGo DEF raw_evidence_is_referenced, rows
  <2>4. ArchivedBeforeSaved' /\ EvidenceBehindEveryFact'
    BY DEF ArchivedBeforeSaved, EvidenceBehindEveryFact, raw_evidence_is_referenced, rows
  <2>5. CompletedMeansDeleted' /\ ErasureIsDoneOrGivenUp'
    BY DEF CompletedMeansDeleted, ErasureIsDoneOrGivenUp
  <2>6. ListedIsPast'
    BY ListedStays DEF Past, Archiving
  <2> QED
    BY <2>1, <2>2, <2>3, <2>4, <2>5, <2>6
<1> QED
  BY <1>1, <1>2, <1>3, <1>4, <1>5, <1>6, <1>7, <1>8 DEF Next

LEMMA EvidenceAlways == Spec => []EvidenceInv
<1> QED
  BY EvidenceInit, EvidenceStep, PTL DEF Spec

\* Every variable keeps its type.
THEOREM TypeCorrect == Spec => []TypeOK
<1>1. EvidenceInv => TypeOK
  <2> SUFFICES ASSUME EvidenceInv PROVE TypeOK
    OBVIOUS
  <2>1. ASSUME NEW c \in Connector
        PROVE  connector[c].pc \in ConnectorPc /\ connector[c].highest \in Posts \cup {0}
    BY DEF EvidenceInv, Types
  <2>2. ASSUME NEW w \in Worker PROVE worker[w].pc \in WorkerPc /\ worker[w].todo \subseteq Ref
    BY DEF EvidenceInv, Types
  <2>3. ASSUME NEW s \in Source PROVE erasure[s] \in Erasures
    BY DEF EvidenceInv, Types
  <2> QED
    BY <2>1, <2>2, <2>3 DEF EvidenceInv, Types, TypeOK, ConnectorPc, WorkerPc, Erasures
<1> QED
  BY <1>1, EvidenceAlways, PTL

\* What a row or a snapshot names is in the object store unless an erasure asked for
\* it: a retention worker deletes only what no cycle under way will name either.
THEOREM FactsHaveEvidence == Spec => []EvidenceBehindEveryFact
<1> QED
  BY EvidenceAlways, PTL DEF EvidenceInv

\* A deletion is confirmed only of what is gone, although any worker may confirm, a
\* lease may run out under its holder, and objects are put while others are deleted.
THEOREM ConfirmedIsGone == Spec => []CompletedMeansDeleted
<1> QED
  BY EvidenceAlways, PTL DEF EvidenceInv

\* An erasure whose message was acknowledged left nothing in the store, and no cycle
\* puts any of it back, unless the consumer gave the message up: then the dead-letter
\* list has it.
THEOREM AcknowledgedIsGoneOrListed == Spec => []ErasureIsDoneOrGivenUp
<1> QED
  BY EvidenceAlways, PTL DEF EvidenceInv

-----------------------------------------------------------------------------
(***************************************************************************)
(* The checkpoint of the feed: all posts between it and the newest a cycle *)
(* read are in hand, and in hand is nothing when the cycle moves it.       *)
(***************************************************************************)
Kept(t) == row[t] # Absent \/ t \in lost.items

LEMMA KeptStays ==
  ASSUME EvidenceInv, [Next]_vars, NEW t \in Item, Kept(t)
  PROVE  Kept(t)'
<1> USE DEF EvidenceInv, Types, Kept
<1>1. ASSUME NEW c \in Connector, Save(c) PROVE Kept(t)'
  <2>1. UNCHANGED row \/ \E i, r : save_observation_with_outbox(i, r)
    BY <1>1 DEF Save, rows
  <2>2. lost' = lost
    BY <1>1 DEF Save
  <2> QED
    BY <2>1, <2>2 DEF save_observation_with_outbox
<1>2. ASSUME NEW w \in Worker, expire_raw_evidence(w) PROVE Kept(t)'
  BY <1>2, EvidenceAssumption DEF expire_raw_evidence
<1>3. ASSUME NEW s \in Source, purge_source(s) PROVE Kept(t)'
  <2>1. /\ row' = [i \in Item |-> IF i \in ItemsFrom(s) THEN Absent ELSE row[i]]
        /\ \A i \in lost.items \cup Stored(s) : i \in lost'.items
    BY <1>3 DEF purge_source
  <2> QED
    BY <2>1 DEF Stored
<1>4. CASE UNCHANGED <<row, lost>>
  BY <1>4
<1> QED
  BY <1>1, <1>2, <1>3, <1>4 DEF Next, vars, rows, CollectFeed, Collect, Cycle, Archive, Finish,
     CycleFails, PeriodEnds, Retaining, Check, Delete, confirm_raw_evidence_deletions,
     fail_raw_evidence_deletion, WorkerDies, Elapse, ReadForPurge, PurgeFails, Handle, HandleFails, ConsumerDies, DeletePart

FeedInv == EvidenceInv /\ ReadInv /\ NoPostSkipped

LEMMA FeedInit == Init => FeedInv
<1> SUFFICES ASSUME Init PROVE FeedInv
  OBVIOUS
<1>1. ReadInv
  BY EvidenceAssumption DEF Init, ReadInv, Live, Resting
<1>2. NoPostSkipped
  <2>1. \A t \in Matching : t \in Nat
    BY EvidenceAssumption DEF Matching
  <2>2. Start \in Nat
    BY PostsAreNumbers, EvidenceAssumption
  <2> QED
    BY <2>1, <2>2 DEF Init, NoPostSkipped
<1> QED
  BY <1>1, <1>2, EvidenceInit DEF FeedInv

\* Steps that leave the feed's cycle and its checkpoint alone.
LEMMA FeedUntouched ==
  ASSUME FeedInv, [Next]_vars, UNCHANGED cursor, connector'[Feed] = connector[Feed]
  PROVE  ReadInv' /\ NoPostSkipped'
<1>1. Matching \subseteq Item
  BY EvidenceAssumption DEF Matching
<1>2. \A t \in Matching : Kept(t) => Kept(t)'
  BY <1>1, KeptStays DEF FeedInv
<1> QED
  BY <1>2 DEF FeedInv, ReadInv, NoPostSkipped, Kept, Live

LEMMA FeedStep == FeedInv /\ [Next]_vars => FeedInv'
<1> SUFFICES ASSUME FeedInv, [Next]_vars PROVE ReadInv' /\ NoPostSkipped'
  BY EvidenceStep DEF FeedInv
<1> USE DEF FeedInv, ReadInv, NoPostSkipped, Kept, Live
<1>1. /\ Matching \subseteq Item /\ Matching \subseteq Posts /\ Feed \in Connector
      /\ \A t \in Matching : t \in Nat
  BY EvidenceAssumption, PostsAreNumbers DEF Matching
<1>2. \A t \in Matching : Kept(t) => Kept(t)'
  BY <1>1, KeptStays
<1>3. ASSUME NEW n \in 0..MaxMessages, CollectFeed(n) PROVE ReadInv' /\ NoPostSkipped'
  <2>1. \A t \in Matching : cursor' < t /\ t <= connector'[Feed].highest => t \in connector'[Feed].todo
    BY <1>3, CollectFeedStep
  <2>2. cursor' = cursor
    BY <1>3 DEF CollectFeed
  <2> QED
    BY <1>2, <2>1, <2>2
<1>4. ASSUME NEW c \in Connector \ {Feed}, Collect(c) \/ Cycle(c) \/ CycleFails(c)
      PROVE  ReadInv' /\ NoPostSkipped'
  <2>1. connector'[Feed] = connector[Feed]
    BY <1>1, <1>4 DEF EvidenceInv, Types, Collect, Cycle, Archive, Save, Finish, CycleFails
  <2>2. cursor' = cursor
    BY <1>4 DEF Collect, Cycle, Archive, Save, Finish, CycleFails
  <2> QED
    BY <2>1, <2>2, FeedUntouched
<1>5. ~Collect(Feed)
  BY DEF Collect
<1>6. CASE Archive(Feed)
  <2>1. /\ cursor' = cursor /\ connector[Feed].pc = "archiving"
        /\ connector'[Feed].highest = connector[Feed].highest
        /\ connector[Feed].todo \cup connector[Feed].save
             \subseteq connector'[Feed].todo \cup connector'[Feed].save
    <3>1. connector[Feed] \in ConnectorStates /\ connector \in [Connector -> ConnectorStates]
      BY <1>1 DEF EvidenceInv, Types, ConnectorStates
    <3> QED
      BY <1>1, <1>6, <3>1 DEF Archive, ConnectorStates
  <2> QED
    BY <1>2, <2>1
<1>7. CASE Save(Feed)
  <2>1. /\ cursor' = cursor /\ connector[Feed].pc = "saving"
        /\ connector'[Feed].highest = connector[Feed].highest
    BY <1>1, <1>7 DEF Save, EvidenceInv, Types
  <2>2. CASE connector[Feed].save = {}
    <3>1. /\ connector'[Feed].todo = connector[Feed].todo
          /\ connector'[Feed].save = connector[Feed].save
      BY <1>1, <1>7, <2>2 DEF Save, EvidenceInv, Types
    <3> QED
      BY <1>2, <2>1, <3>1
  <2>3. CASE connector[Feed].save # {}
    <3>1. PICK i \in connector[Feed].save : i = Min(connector[Feed].save)
      BY <2>3, LeastOf, <1>1 DEF EvidenceInv, Types
    <3>2. /\ save_observation_with_outbox(i, Key(connector[Feed].poll, i))
          /\ connector' = [connector EXCEPT ![Feed].save = @ \ {i}]
      BY <1>7, <2>3, <3>1 DEF Save
    <3>3. /\ connector'[Feed].todo = connector[Feed].todo
          /\ connector'[Feed].save = connector[Feed].save \ {i}
      BY <1>1, <3>2 DEF EvidenceInv, Types
    <3>4. i \in Item /\ Key(connector[Feed].poll, i) \in Ref
      BY <1>1, <2>1, <3>1, InHandKey
    <3>5. row'[i] # Absent
      BY <3>2, <3>4, EvidenceAssumption DEF save_observation_with_outbox, EvidenceInv, Types
    <3> QED
      BY <1>2, <2>1, <3>3, <3>5
  <2> QED
    BY <2>2, <2>3
<1>8. CASE Finish(Feed)
  <2>1. connector'[Feed].pc = "idle" /\ cursor' = Max({cursor, connector[Feed].highest})
    BY <1>1, <1>8 DEF Finish, EvidenceInv, Types
  <2>2. cursor \in Nat /\ connector[Feed].highest \in Nat
    BY <1>1, PostsAreNumbers DEF EvidenceInv, Types
  <2>3. cursor' \in {cursor, connector[Feed].highest}
    BY <2>1, <2>2, LargerOf
  <2>4. connector[Feed].pc # "idle" /\ connector[Feed].todo = {} /\ connector[Feed].save = {}
    BY <1>1, <1>8 DEF Finish, EvidenceInv, InHand
  <2>5. ASSUME NEW t \in Matching, Start < t, t <= cursor' PROVE Kept(t)'
    <3>1. CASE t <= cursor
      BY <1>2, <2>5, <3>1
    <3>2. CASE cursor < t
      BY <1>2, <2>2, <2>3, <2>4, <2>5, <3>2
    <3> QED
      BY <1>1, <2>2, <3>1, <3>2
  <2> QED
    BY <2>1, <2>5
<1>9. CASE CycleFails(Feed)
  <2>1. connector'[Feed].pc = "idle" /\ cursor' = cursor
    BY <1>1, <1>9 DEF CycleFails, EvidenceInv, Types
  <2> QED
    BY <1>2, <2>1
<1>10. CASE UNCHANGED <<connector, cursor>>
  BY <1>10, FeedUntouched
<1> QED
  BY <1>3, <1>4, <1>5, <1>6, <1>7, <1>8, <1>9, <1>10 DEF Next, vars, Cycle, PeriodEnds, Retaining,
     expire_raw_evidence, Check, Delete, confirm_raw_evidence_deletions,
     fail_raw_evidence_deletion, WorkerDies, Elapse, ReadForPurge, purge_source, PurgeFails, Handle, HandleFails,
     ConsumerDies, DeletePart

\* The checkpoint passes no post about a keyword that was not saved: whatever window
\* the feed reconnects to, and wherever the limit of one request cuts it.
THEOREM CheckpointSkipsNothing == Spec => []NoPostSkipped
<1>1. FeedInv => NoPostSkipped
  BY DEF FeedInv
<1> QED
  BY <1>1, FeedInit, FeedStep, PTL DEF Spec
=============================================================================
