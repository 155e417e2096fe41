------------------------- MODULE OutboxRelayProofs -------------------------
(* Proofs about the relay, for any number of publishers, consumers, replay   *)
(* runs and rows, and about the leases its fence is kept by.                 *)
EXTENDS OutboxRelay, FiniteSetTheorems, TLAPS

LEMMA PublisherMaps ==
  ASSUME NEW p \in Publisher, PublishStep(p) \/ PublishFault(p)
  PROVE  Fence!Join(p) \/ Fence!MemberWrite(p) \/ Fence!Lapse \/ UNCHANGED fenceVars
<1> USE DEF fenceVars
<1>1. CASE Start(p)
  BY <1>1 DEF Start
<1>2. CASE Select(p)
  BY <1>2 DEF Select
<1>3. CASE Finish(p)
  BY <1>3 DEF Finish
<1>4. CASE Xadd(p)
  BY <1>4 DEF Xadd
<1>5. CASE XaddRejected(p) \/ MarkPublished(p)
  BY <1>5 DEF XaddRejected, MarkPublished
<1>6. CASE PublishFault(p)
  BY <1>6 DEF PublishFault, MarkFails, HeartbeatFails, PublisherDies
<1> QED
  BY <1>1, <1>2, <1>3, <1>4, <1>5, <1>6 DEF PublishStep

LEMMA ConsumerMaps ==
  ASSUME NEW c \in Consumer, ConsumerStep(c)
  PROVE  Fence!Join(c) \/ Fence!Lapse \/ UNCHANGED fenceVars
  BY DEF ConsumerStep, ConsumerStarts, EnsureGroup, ConsumerStops, fenceVars

LEMMA ReplayerMaps ==
  ASSUME NEW e \in Replayer, ReplayStep(e), replay \in Fence!ReplayStatus
  PROVE  \/ Fence!Acquire(e) \/ Fence!OwnerWrite(e) \/ Fence!Lapse
         \/ \E s \in Fence!ReplayStatus : Fence!SetStatus(e, s)
         \/ UNCHANGED fenceVars
<1> USE DEF fenceVars
<1>a. ASSUME NEW s \in Fence!ReplayStatus, Fence!SetStatus(e, s)
      PROVE  \E t \in Fence!ReplayStatus : Fence!SetStatus(e, t)
  BY <1>a
<1>b. {"none", "running", "completed"} \subseteq Fence!ReplayStatus
  BY DEF Fence!ReplayStatus
<1>1. CASE \E u \in Windows : Begin(e, u)
  BY <1>1 DEF Begin
<1>2. CASE Open(e)
  BY <1>2, <1>a, <1>b DEF Open
<1>3. CASE FirstCheckpoint(e)
  BY <1>3, <1>a, <1>b DEF FirstCheckpoint, Save
<1>4. CASE Fetch(e)
  BY <1>4 DEF Fetch, Fetched
<1>5. CASE Copy(e)
  BY <1>5 DEF Copy
<1>6. CASE Checkpoint(e)
  BY <1>6, <1>a DEF Checkpoint, Save
<1>7. CASE Complete(e)
  BY <1>7, <1>a, <1>b DEF Complete, Save
<1>8. CASE Leave(e)
  BY <1>8 DEF Leave
<1>9. CASE ReplayerDies(e)
  BY <1>9 DEF ReplayerDies
<1> QED
  BY <1>1, <1>2, <1>3, <1>4, <1>5, <1>6, <1>7, <1>8, <1>9 DEF ReplayStep

LEMMA StepMaps ==
  ASSUME replay \in Fence!ReplayStatus, [Next]_vars
  PROVE  [Fence!Next]_fenceVars
<1>1. ASSUME NEW p \in Publisher, PublishStep(p) \/ PublishFault(p)
      PROVE  Fence!Next \/ UNCHANGED fenceVars
  BY <1>1, PublisherMaps DEF Fence!Next, Participant
<1>2. ASSUME NEW c \in Consumer, ConsumerStep(c)
      PROVE  Fence!Next \/ UNCHANGED fenceVars
  BY <1>2, ConsumerMaps DEF Fence!Next, Participant
<1>3. ASSUME NEW e \in Replayer, ReplayStep(e)
      PROVE  Fence!Next \/ UNCHANGED fenceVars
  BY <1>3, ReplayerMaps DEF Fence!Next, Fence!Exclusive
<1>4. CASE \E r \in Row : Insert(r)
  BY <1>4 DEF Insert, fenceVars
<1>5. CASE \E t \in Participant \cup Replayer : LeaseRunsOut(t)
  BY <1>5 DEF LeaseRunsOut, Fence!Next
<1>6. CASE StreamLost
  BY <1>6 DEF StreamLost, fenceVars
<1>7. CASE RedisFlushed
  BY <1>7 DEF RedisFlushed, Fence!Next
<1>8. CASE UNCHANGED vars
  BY <1>8 DEF vars, fenceVars
<1> QED
  BY <1>1, <1>2, <1>3, <1>4, <1>5, <1>6, <1>7, <1>8 DEF Next, fenceVars, Fence!fenceVars

-----------------------------------------------------------------------------
(***************************************************************************)
(* Types.                                                                  *)
(***************************************************************************)
PubType == [pc : {"idle", "next", "xadd", "commit"}, cur : 0..Rows, att : 0..Limit, lost : BOOLEAN]
RepType == [pc : {"idle", "locked", "opened", "fetch", "copy", "last", "done"},
            at : Cursor, todo : SUBSET Row, last : BOOLEAN]
PubTypes == pub \in [Publisher -> PubType]
RepTypes == rep \in [Replayer -> RepType]

LEMMA TypesSplit ==
  TypeOK <=> /\ Fence!TypeOK
             /\ row \in [Row -> {"absent", "pending", "published"}]
             /\ stream \in Seq(Row) /\ Len(stream) <= MaxLen
             /\ exists \in BOOLEAN /\ whole \in BOOLEAN
             /\ epoch \in 0..MaxFaults /\ faults \in 0..MaxFaults
             /\ ckpt \in Cursor
             /\ PubTypes /\ con \in [Consumer -> {"idle", "active"}] /\ RepTypes
  BY DEF TypeOK, PubTypes, RepTypes, PubType, RepType

LEMMA FenceTyped ==
  ASSUME Fence!TypeOK, [Next]_vars
  PROVE  Fence!TypeOK'
<1>1. replay \in Fence!ReplayStatus
  BY DEF Fence!TypeOK
<1>2. [Fence!Next]_fenceVars
  BY <1>1, StepMaps
<1> USE DEF Fence!TypeOK, Fence!Exclusive
<1>3. ASSUME NEW t \in Participant, Fence!Join(t) \/ Fence!MemberWrite(t)
      PROVE  Fence!TypeOK'
  BY <1>3 DEF Fence!Join, Fence!MemberWrite
<1>4. ASSUME NEW e \in Fence!Exclusive, Fence!Acquire(e) \/ Fence!OwnerWrite(e)
      PROVE  Fence!TypeOK'
  BY <1>4 DEF Fence!Acquire, Fence!OwnerWrite
<1>5. ASSUME NEW e \in Replayer, NEW s \in Fence!ReplayStatus, Fence!SetStatus(e, s)
      PROVE  Fence!TypeOK'
  BY <1>5 DEF Fence!SetStatus
<1>6. CASE Fence!Lapse
  BY <1>6 DEF Fence!Lapse
<1>7. CASE Fence!Flush
  BY <1>7 DEF Fence!Flush, Fence!ReplayStatus
<1>8. CASE UNCHANGED fenceVars
  BY <1>8 DEF fenceVars
<1> QED
  BY <1>2, <1>3, <1>4, <1>5, <1>6, <1>7, <1>8 DEF Fence!Next

LEMMA Appended ==
  ASSUME NEW s \in Seq(Row), NEW r \in Row
  PROVE  /\ Append(s, r) \in Seq(Row) /\ Len(Append(s, r)) = Len(s) + 1
         /\ Append(s, r)[Len(s) + 1] = r
         /\ \A i \in 1..Len(s) : Append(s, r)[i] = s[i]
         /\ ToSet(Append(s, r)) = ToSet(s) \cup {r}
         /\ ToSet(s) \subseteq Row
<1>1. /\ Append(s, r) \in Seq(Row) /\ Len(Append(s, r)) = Len(s) + 1
      /\ DOMAIN s = 1..Len(s) /\ DOMAIN Append(s, r) = 1..(Len(s) + 1) /\ Len(s) \in Nat
      /\ Append(s, r)[Len(s) + 1] = r
  OBVIOUS
<1>2. \A i \in 1..Len(s) : Append(s, r)[i] = s[i] /\ s[i] \in Row
  OBVIOUS
<1>3. Len(s) + 1 \in 1..(Len(s) + 1) /\ \A i \in 1..(Len(s) + 1) : i \in 1..Len(s) \/ i = Len(s) + 1
  BY <1>1
<1>4. 1..Len(s) \subseteq 1..(Len(s) + 1)
  BY <1>1
<1>5. ToSet(Append(s, r)) = ToSet(s) \cup {r}
  BY <1>1, <1>2, <1>3, <1>4, Zenon DEF ToSet
<1>6. ToSet(s) \subseteq Row
  BY <1>1, <1>2, Zenon DEF ToSet
<1> QED
  BY <1>1, <1>2, <1>5, <1>6

LEMMA NothingIn ==
  ASSUME NEW s, s = <<>>
  PROVE  Len(s) = 0 /\ s \in Seq(Row) /\ ToSet(s) = {}
<1>1. Len(s) = 0
  OBVIOUS
<1>2. s \in Seq(Row)
  OBVIOUS
<1>3. DOMAIN s = {}
  OBVIOUS
<1>4. ToSet(s) = {}
  BY <1>3, Zenon DEF ToSet
<1> QED
  BY <1>1, <1>2, <1>4, Zenon

(***************************************************************************)
(* The least of some numbers.  The library's induction takes an operator;  *)
(* the well-founded order of finite sets does not, and 0..m orders sets as *)
(* m orders numbers.                                                       *)
(***************************************************************************)
LEMMA LeastExists ==
  ASSUME NEW S \in SUBSET Nat, S # {}
  PROVE  \E m \in S : \A k \in S : m <= k
<1>0. ASSUME NEW A \in SUBSET Nat, NEW B \in SUBSET Nat, A \subseteq B, A # B
      PROVE  <<A, B>> \in StrictSubsetOrdering(Nat)
  BY <1>0 DEF StrictSubsetOrdering
<1> DEFINE T == {0..m : m \in S}
<1>1. T \subseteq FiniteSubsetsOf(Nat) /\ T # {}
  <2>1. ASSUME NEW m \in S PROVE IsFiniteSet(0..m) /\ 0..m \in SUBSET Nat
    BY FS_Interval
  <2> QED
    BY <2>1 DEF FiniteSubsetsOf
<1>2. PICK U \in T : \A V \in T : <<V, U>> \notin StrictSubsetOrdering(Nat)
  <2> HIDE DEF T
  <2> QED
    BY <1>1, WFMin, FS_StrictSubsetOrderingWellFounded
<1>3. PICK m \in S : U = 0..m
  OBVIOUS
<1>4. ASSUME NEW k \in S, k < m PROVE FALSE
  <2>1. /\ 0..k \in SUBSET Nat /\ 0..m \in SUBSET Nat /\ 0..k \subseteq 0..m
        /\ m \in 0..m /\ m \notin 0..k
    BY <1>4
  <2>2. 0..k # 0..m
    BY <2>1
  <2>3. <<0..k, 0..m>> \in StrictSubsetOrdering(Nat)
    BY <2>1, <2>2, <1>0
  <2>4. 0..k \in T
    BY <1>4
  <2> HIDE DEF T
  <2>5. <<0..k, U>> \notin StrictSubsetOrdering(Nat)
    BY <1>2, <2>4, Zenon
  <2> QED
    BY <1>3, <2>3, <2>5, Zenon
<1> QED
  BY <1>4

LEMMA MinIsLeast ==
  ASSUME NEW S \in SUBSET Nat, S # {}
  PROVE  Min(S) \in S /\ \A k \in S : Min(S) <= k
  BY LeastExists DEF Min

-----------------------------------------------------------------------------
(***************************************************************************)
(* What the cursors of a replay say of the Stream.                         *)
(***************************************************************************)
NextBatch(c) == FirstRows(Beyond(c))

AtWork(e) == owner = e /\ rep[e].pc \in {"opened", "fetch", "copy", "last"}

\* The operator's rule, kept up by the fence: after a drain nobody publishes beside a replay.
Shut == owner # NoOne \/ replay = "running"
Quiet == Drain /\ Shut => Drained

\* A cursor names the last row it counted, and its place if that Stream is still there.
Reached(c) ==
    /\ c.count <= c.after /\ (c.count = 0 => c.after = 0)
    /\ c.epoch <= epoch /\ c.since <= epoch
    /\ c.count > 0 => /\ c.after \in Published /\ c.after <= c.until
                      /\ c.epoch = epoch => c.pos \in 1..Len(stream)

\* A publisher has a row.
Holding(p) == pub[p].pc \in {"xadd", "commit"}

\* What is to copy lies beyond the cursor; with nobody publishing it is the beginning of it.
Due(e) == rep[e].pc = "copy" => rep[e].todo \subseteq Beyond(rep[e].at)
Batch(e) ==
    LET at == rep[e].at
        todo == rep[e].todo IN
    /\ rep[e].pc = "copy" =>
          /\ \A t \in todo, r \in Beyond(at) : r <= t => r \in todo
          /\ rep[e].last => Beyond(at) \subseteq todo
    /\ rep[e].pc = "last" => Beyond(at) = {}

Basics ==
    /\ TypeOK /\ epoch <= faults
    /\ Quiet
    /\ ~exists => stream = <<>>
    /\ \A p \in Publisher : Holding(p) => pub[p].cur \in Row

CursorInv ==
    /\ Basics
    /\ Reached(ckpt)
    /\ \A e \in Replayer :
          /\ Reached(rep[e].at) /\ Due(e)
          /\ Drain /\ AtWork(e) => Batch(e)
          /\ AtWork(e) /\ rep[e].pc # "opened" => replay = "running" /\ ckpt.until = rep[e].at.until

\* Nothing was published that the Stream lacks, except what it lacks since it was lost.
RelayInv ==
    /\ CursorInv
    /\ \A e \in Replayer : rep[e].pc = "locked" => rep[e].at.count = 0
    /\ \A e \in Replayer : AtWork(e) /\ rep[e].at.since = epoch => ReplayedBy(rep[e].at) \subseteq ToSet(stream)
    /\ \A p \in Publisher : whole /\ pub[p].pc = "commit" => pub[p].cur \in ToSet(stream)
    /\ PublishedIsInStream

\* The Stream holds what the cursor has passed and the beginning of the batch.
Follows(s, passed, batch) ==
    /\ InOrder(s)
    /\ passed \subseteq ToSet(s)
    /\ ToSet(s) \subseteq passed \cup batch
    /\ \A r \in ToSet(s), q \in batch : q < r => q \in ToSet(s)
Neat(c, batch) == Follows(stream, ReplayedBy(c), batch)

\* A loss took a row that the cursor has passed.
Missing(c) == ~(ReplayedBy(c) \subseteq ToSet(stream))

Sound(e) ==
    LET at == rep[e].at IN
    /\ Missing(at) \/ Neat(at, IF rep[e].pc = "copy" THEN rep[e].todo ELSE NextBatch(at))
    /\ at.since = epoch /\ at.count > 0 =>
          /\ exists /\ at.epoch = epoch /\ stream[at.pos] = at.after
          /\ at.count = Cardinality(ReplayedBy(at))
          /\ Resumable(at) \/ (rep[e].pc = "copy" /\ at.pos = Len(stream))

\* How far a run is from what it saved last.
Ahead(e) ==
    LET at == rep[e].at IN
    /\ rep[e].pc \in {"fetch", "last"} => ckpt = at
    /\ rep[e].pc = "copy" =>
          /\ ckpt.after <= at.after
          /\ rep[e].todo \subseteq NextBatch(ckpt)
          /\ Missing(at) => ckpt.count = 0 \/ Missing(ckpt) \/ ckpt.epoch # epoch

ReplayInv ==
    /\ RelayInv
    /\ \A e \in Replayer : AtWork(e) => Sound(e) /\ Ahead(e)
    /\ replay = "running" /\ Resumable(ckpt) => Neat(ckpt, NextBatch(ckpt))
    /\ SavedProgressVerifies

\* Without a fault nobody loses a lease, and a replay finds nothing to copy.
Entered(p) == pub[p].pc # "idle" => p \in members /\ ~pub[p].lost
Committing == {pub[p].cur : p \in {q \in Publisher : pub[q].pc = "commit"}}
Alone == owner # NoOne => members = {}
Idling(e) ==
    /\ rep[e].pc # "idle" => owner = e
    /\ rep[e].pc \in {"opened", "fetch", "copy", "last"} => stream = <<>> /\ Published = {}
    /\ rep[e].todo = {}

Clean ==
    /\ \A p \in Publisher : Entered(p) /\ (Holding(p) => row[pub[p].cur] = "pending")
    /\ \A p, q \in Publisher : Holding(p) /\ Holding(q) /\ pub[p].cur = pub[q].cur => p = q
    /\ \A e \in Replayer : Idling(e)
    /\ replay = "running" => \E e \in Replayer : owner = e /\ rep[e].pc \in {"fetch", "copy", "last"}
    /\ ToSet(stream) = Published \cup Committing
    /\ \A i, j \in 1..Len(stream) : stream[i] = stream[j] => i = j

OnceInv == CursorInv /\ Alone /\ (faults = 0 => Clean)

-----------------------------------------------------------------------------
(***************************************************************************)
(* The cursors, step by step.                                              *)
(***************************************************************************)
LEMMA FieldsTyped ==
  ASSUME RepTypes, NEW e \in Replayer
  PROVE  /\ DOMAIN rep = Replayer /\ rep[e] \in RepType
         /\ rep[e].at \in Cursor /\ rep[e].todo \subseteq Row /\ rep[e].last \in BOOLEAN
  BY DEF RepTypes, RepType

LEMMA CursorTyped ==
  ASSUME NEW c \in Cursor, RelayAssumption
  PROVE  /\ c.until \in 0..Rows /\ c.count \in 0..Rows /\ c.after \in 0..Rows
         /\ c.epoch \in 0..MaxFaults /\ c.pos \in 0..MaxLen /\ c.since \in 0..MaxFaults
         /\ DOMAIN c = {"until", "count", "after", "epoch", "pos", "since"}
         /\ \A i \in 0..MaxFaults : /\ [c EXCEPT !.since = i] \in Cursor
                                    /\ \A f \in {"until", "count", "after", "epoch", "pos"} :
                                          [c EXCEPT !.since = i][f] = c[f]
                                    /\ [c EXCEPT !.since = i].since = i
  BY DEF Cursor

LEMMA RepMoves ==
  ASSUME RepTypes, NEW e \in Replayer, NEW pc, rep' = [rep EXCEPT ![e].pc = pc]
  PROVE  /\ rep'[e].pc = pc /\ rep'[e].at = rep[e].at /\ rep'[e].todo = rep[e].todo
         /\ rep'[e].last = rep[e].last
         /\ \A f \in Replayer \ {e} : rep'[f] = rep[f]
         /\ pc \in {"idle", "locked", "opened", "fetch", "copy", "last", "done"} => RepTypes'
<1>1. rep[e] \in RepType /\ DOMAIN rep = Replayer
  BY DEF RepTypes
<1>2. /\ rep'[e] = [rep[e] EXCEPT !.pc = pc]
      /\ \A f \in Replayer \ {e} : rep'[f] = rep[f]
  BY <1>1
<1>3. /\ rep'[e].pc = pc /\ rep'[e].at = rep[e].at /\ rep'[e].todo = rep[e].todo
      /\ rep'[e].last = rep[e].last
  BY <1>1, <1>2 DEF RepType
<1>4. ASSUME pc \in {"idle", "locked", "opened", "fetch", "copy", "last", "done"}
      PROVE  RepTypes'
  <2>1. rep'[e] \in RepType
    BY <1>1, <1>2, <1>4 DEF RepType
  <2> QED
    BY <1>1, <1>2, <2>1 DEF RepTypes
<1> QED
  BY <1>2, <1>3, <1>4

\* A run that starts over, or is gone.
LEMMA RepReplaced ==
  ASSUME RepTypes, NEW e \in Replayer, NEW v, rep' = [rep EXCEPT ![e] = v]
  PROVE  /\ rep'[e] = v /\ \A f \in Replayer \ {e} : rep'[f] = rep[f]
         /\ v \in RepType => RepTypes'
  BY DEF RepTypes

LEMMA IdleTyped ==
  ASSUME RelayAssumption
  PROVE  /\ NoCursor \in Cursor /\ IdleRep \in RepType /\ IdlePub \in PubType
         /\ IdleRep.pc = "idle" /\ IdleRep.at = NoCursor
         /\ NoCursor.count = 0 /\ NoCursor.after = 0 /\ NoCursor.epoch = 0 /\ NoCursor.since = 0
  BY DEF RelayAssumption, NoCursor, Cursor, IdleRep, RepType, IdlePub, PubType

LEMMA Begun ==
  ASSUME RelayAssumption, TypeOK, NEW e \in Replayer, NEW u \in Windows, Begin(e, u)
  PROVE  /\ rep'[e].pc = "locked" /\ rep'[e].at.count = 0 /\ rep'[e].at.after = 0
         /\ rep'[e].at.epoch = 0 /\ rep'[e].at.since = epoch
         /\ \A f \in Replayer \ {e} : rep'[f] = rep[f]
         /\ RepTypes'
<1>1. RepTypes /\ epoch \in 0..MaxFaults /\ u \in 0..Rows
  BY TypesSplit DEF RelayAssumption, Row
<1>2. PICK n : n = [NoCursor EXCEPT !.until = u, !.since = epoch]
  OBVIOUS
<1>3. n \in Cursor /\ n.count = 0 /\ n.after = 0 /\ n.epoch = 0 /\ n.since = epoch
  BY <1>1, <1>2, IdleTyped DEF Cursor
<1>4. PICK v : v = [IdleRep EXCEPT !.pc = "locked", !.at = n]
  OBVIOUS
<1>5. v \in RepType /\ v.pc = "locked" /\ v.at = n
  BY <1>3, <1>4, IdleTyped DEF RepType
<1>6. rep' = [rep EXCEPT ![e] = v]
  BY <1>2, <1>4 DEF Begin
<1> QED
  BY <1>1, <1>3, <1>5, <1>6, RepReplaced

LEMMA TypesAgain ==
  ASSUME Fence!TypeOK', row' \in [Row -> {"absent", "pending", "published"}],
         stream' \in Seq(Row), Len(stream') <= MaxLen, exists' \in BOOLEAN, whole' \in BOOLEAN,
         epoch' \in 0..MaxFaults, faults' \in 0..MaxFaults, ckpt' \in Cursor,
         PubTypes', con' \in [Consumer -> {"idle", "active"}], RepTypes'
  PROVE  TypeOK'
  BY DEF TypeOK, PubTypes, RepTypes, PubType, RepType

LEMMA PublisherMoves ==
  ASSUME RelayAssumption, PubTypes, NEW p \in Publisher, PublishStep(p) \/ PublishFault(p)
  PROVE  /\ PubTypes'
         /\ \A q \in Publisher \ {p} : pub'[q] = pub[q]
         /\ pub[p].pc = "idle" => Start(p)
<1> USE DEF PubTypes
<1>0. DOMAIN pub = Publisher /\ pub[p] \in PubType /\ Limit \in Nat
  BY DEF RelayAssumption
<1>1. CASE Start(p)
  <2>1. PICK v : v = [IdlePub EXCEPT !.pc = "next"]
    OBVIOUS
  <2>2. v \in PubType
    BY <2>1, IdleTyped DEF PubType
  <2>3. pub' = [pub EXCEPT ![p] = v]
    BY <1>1, <2>1 DEF Start
  <2> QED
    BY <1>1, <2>2, <2>3
<1>2. CASE Select(p)
  <2>1. PICK r : r = Min(Candidates(p))
    OBVIOUS
  <2>2. Candidates(p) \subseteq Row /\ Candidates(p) # {} /\ Row \subseteq Nat
    <3>1. Candidates(p) # {}
      BY <1>2 DEF Select
    <3>2. Candidates(p) \subseteq Row /\ Row \subseteq Nat
      BY DEF Candidates, Row, RelayAssumption
    <3> QED
      BY <3>1, <3>2
  <2>3. r \in Row
    BY <2>1, <2>2, MinIsLeast
  <2>4. PICK v : v = [pub[p] EXCEPT !.cur = r, !.att = pub[p].att + 1,
                                    !.pc = IF r \in Unregistered THEN "next" ELSE "xadd"]
    OBVIOUS
  <2>5. v \in PubType
    BY <1>0, <1>2, <2>3, <2>4 DEF PubType, Row, Select
  <2>6. pub' = [pub EXCEPT ![p] = v]
    BY <1>0, <1>2, <2>1, <2>4 DEF Select
  <2> QED
    BY <1>0, <1>2, <2>5, <2>6 DEF Select
<1>3. CASE Finish(p) \/ PublisherDies(p)
  BY <1>0, <1>3, IdleTyped DEF Finish, PublisherDies
<1>4. ASSUME GiveUpRow(p), pub[p].pc # "idle"
      PROVE  /\ PubTypes' /\ \A q \in Publisher \ {p} : pub'[q] = pub[q]
  BY <1>0, <1>4 DEF GiveUpRow, PubType
<1>5. ASSUME pub' = [pub EXCEPT ![p].pc = "commit"]
      PROVE  /\ PubTypes' /\ \A q \in Publisher \ {p} : pub'[q] = pub[q]
  BY <1>0, <1>5 DEF PubType
<1>6. CASE Xadd(p)
  BY <1>4, <1>5, <1>6 DEF Xadd
<1>7. CASE XaddRejected(p) \/ MarkPublished(p) \/ MarkFails(p)
  BY <1>4, <1>7 DEF XaddRejected, MarkPublished, MarkFails
<1>8. CASE HeartbeatFails(p)
  BY <1>0, <1>8 DEF HeartbeatFails, PubType
<1> QED
  BY <1>1, <1>2, <1>3, <1>4, <1>6, <1>7, <1>8 DEF PublishStep, PublishFault, Select, Finish, PublisherDies

\* What a publisher does to the rows and to the Stream.
LEMMA PublisherWrites ==
  ASSUME RelayAssumption, TypeOK, NEW p \in Publisher, PublishStep(p) \/ PublishFault(p),
         Holding(p) => pub[p].cur \in Row
  PROVE  /\ row' = row \/ MarkPublished(p)
         /\ row' \in [Row -> {"absent", "pending", "published"}]
         /\ UNCHANGED <<stream, exists>> \/ Xadd(p)
         /\ UNCHANGED <<epoch, ckpt, con, rep, whole, replay>>
         /\ faults' \in faults..MaxFaults
         /\ owner' = owner
<1>0. row \in [Row -> {"absent", "pending", "published"}] /\ faults \in 0..MaxFaults
  BY TypesSplit
<1> USE DEF relayRest, streamVars, fenceVars, Fault
<1>1. CASE Start(p)
  BY <1>0, <1>1 DEF Start, Fence!Join
<1>2. CASE Select(p) \/ Finish(p)
  BY <1>0, <1>2 DEF Select, Finish, Fence!Lapse
<1>3. CASE Xadd(p)
  <2>1. /\ row' = row /\ epoch' = epoch /\ ckpt' = ckpt /\ con' = con /\ rep' = rep /\ whole' = whole
        /\ faults' = faults \/ (faults + 1 <= MaxFaults /\ faults' = faults + 1)
    BY <1>3 DEF Xadd
  <2>2. replay' = replay /\ owner' = owner
    BY <1>3 DEF Xadd, Fence!MemberWrite
  <2>3. faults' \in faults..MaxFaults
    BY <1>0, <2>1 DEF RelayAssumption
  <2> QED
    BY <1>0, <1>3, <2>1, <2>2, <2>3
<1>4. CASE XaddRejected(p)
  BY <1>0, <1>4 DEF XaddRejected
<1>5. CASE MarkPublished(p)
  BY <1>0, <1>5 DEF MarkPublished, Holding
<1>6. CASE MarkFails(p) \/ HeartbeatFails(p) \/ PublisherDies(p)
  BY <1>0, <1>6 DEF MarkFails, HeartbeatFails, PublisherDies, RelayAssumption
<1> QED
  BY <1>1, <1>2, <1>3, <1>4, <1>5, <1>6 DEF PublishStep, PublishFault

LEMMA CursorsOpened ==
  ASSUME RelayAssumption, TypeOK, NEW e \in Replayer, Open(e)
  PROVE  /\ RepTypes' /\ ckpt' \in Cursor
         /\ rep'[e].pc = "opened" /\ rep'[e].at.until = rep[e].at.until
         /\ \A f \in Replayer \ {e} : rep'[f] = rep[f]
         /\ owner' = owner
         /\ \/ ~exists /\ rep'[e].at = rep[e].at /\ (ckpt' = ckpt \/ ckpt' = NoCursor)
            \/ MayResume(e) /\ ckpt' = ckpt /\ rep'[e].at = [ckpt EXCEPT !.since = epoch]
         /\ replay' = replay \/ (replay = "completed" /\ replay' = "none")
<1>0. RepTypes /\ ckpt \in Cursor /\ epoch \in 0..MaxFaults
  BY TypesSplit
<1>1. rep[e] \in RepType /\ DOMAIN rep = Replayer
  BY <1>0 DEF RepTypes
<1>2. ASSUME Move(e, "opened"), ~exists, ckpt' = ckpt \/ ckpt' = NoCursor
      PROVE  /\ RepTypes' /\ ckpt' \in Cursor
             /\ rep'[e].pc = "opened" /\ rep'[e].at.until = rep[e].at.until
             /\ \A f \in Replayer \ {e} : rep'[f] = rep[f]
             /\ rep'[e].at = rep[e].at
  <2>1. rep' = [rep EXCEPT ![e].pc = "opened"]
    BY <1>2 DEF Move
  <2> QED
    BY <1>0, <1>2, <2>1, RepMoves, IdleTyped
<1>3. CASE MayStartFresh /\ Move(e, "opened") /\ UNCHANGED <<fenceVars, ckpt>>
  BY <1>2, <1>3 DEF MayStartFresh, fenceVars
<1>4. CASE MayReset(e) /\ Fence!SetStatus(e, "none") /\ ckpt' = NoCursor /\ Move(e, "opened")
  BY <1>2, <1>4 DEF MayReset, Fence!SetStatus
<1>5. CASE /\ MayResume(e) /\ UNCHANGED <<fenceVars, ckpt>>
           /\ rep' = [rep EXCEPT ![e].pc = "opened", ![e].at = [ckpt EXCEPT !.since = epoch]]
  <2>1. PICK c : c = [ckpt EXCEPT !.since = epoch]
    OBVIOUS
  <2>2. c \in Cursor /\ c.until = ckpt.until
    BY <1>0, <2>1, CursorTyped
  <2>3. PICK v : v = [rep[e] EXCEPT !.pc = "opened", !.at = c]
    OBVIOUS
  <2>4. v \in RepType /\ v.pc = "opened" /\ v.at = c
    BY <1>1, <2>2, <2>3 DEF RepType
  <2>5. rep' = [rep EXCEPT ![e] = v]
    BY <1>1, <1>5, <2>1, <2>3
  <2>6. rep'[e] = v /\ RepTypes' /\ \A f \in Replayer \ {e} : rep'[f] = rep[f]
    BY <1>0, <2>4, <2>5, RepReplaced
  <2>7. ckpt.until = rep[e].at.until
    BY <1>5 DEF MayResume
  <2> QED
    BY <1>0, <1>5, <2>1, <2>2, <2>4, <2>6, <2>7 DEF fenceVars
<1> QED
  BY <1>3, <1>4, <1>5 DEF Open

LEMMA BatchFetched ==
  ASSUME RelayAssumption, TypeOK, NEW e \in Replayer, Fetch(e)
  PROVE  /\ RepTypes'
         /\ rep[e].pc = "fetch" /\ rep'[e].pc = "copy" /\ rep'[e].at = rep[e].at
         /\ rep'[e].todo = NextBatch(rep[e].at)
         /\ rep'[e].last = (Cardinality(NextBatch(rep[e].at)) < BatchSize)
         /\ \A f \in Replayer \ {e} : rep'[f] = rep[f]
         /\ UNCHANGED <<fenceVars, replayRest, streamVars, ckpt, whole, faults>>
<1>0. rep[e] \in RepType /\ DOMAIN rep = Replayer /\ RepTypes
  BY TypesSplit DEF RepTypes
<1>1. PICK b : b = NextBatch(rep[e].at)
  OBVIOUS
<1>2. b \subseteq Row
  BY <1>1 DEF NextBatch, FirstRows, Beyond, Published
<1>3. PICK l \in BOOLEAN : l = (Cardinality(b) < BatchSize)
  <2>1. (Cardinality(b) < BatchSize) \in BOOLEAN
    OBVIOUS
  <2> QED
    BY <2>1, Zenon
<1>4. PICK v : v = [rep[e] EXCEPT !.pc = "copy", !.todo = b, !.last = l]
  OBVIOUS
<1>5. v \in RepType /\ v.pc = "copy" /\ v.at = rep[e].at /\ v.todo = b /\ v.last = l
  BY <1>0, <1>2, <1>4 DEF RepType
<1>6. rep' = [rep EXCEPT ![e] = v] /\ rep[e].pc = "fetch"
  BY <1>0, <1>1, <1>3, <1>4 DEF Fetch, Fetched, NextBatch
<1>7. rep'[e] = v /\ RepTypes' /\ \A f \in Replayer \ {e} : rep'[f] = rep[f]
  BY <1>0, <1>5, <1>6, RepReplaced
<1>8. UNCHANGED <<fenceVars, replayRest, streamVars, ckpt, whole, faults>>
  BY DEF Fetch, Fetched
<1> QED
  BY <1>1, <1>3, <1>5, <1>6, <1>7, <1>8

LEMMA RowCopied ==
  ASSUME RelayAssumption, TypeOK, NEW e \in Replayer, Copy(e),
         \A t \in rep[e].todo : rep[e].at.count < t
  PROVE  LET r == Min(rep[e].todo) IN
         /\ r \in rep[e].todo /\ r \in Row /\ \A t \in rep[e].todo : r <= t
         /\ stream' = Append(stream, r) /\ Len(stream) < MaxLen /\ exists' = TRUE
         /\ RepTypes'
         /\ rep[e].pc = "copy" /\ rep'[e].pc = "copy"
         /\ rep'[e].todo = rep[e].todo \ {r} /\ rep'[e].last = rep[e].last
         /\ rep'[e].at.until = rep[e].at.until /\ rep'[e].at.since = rep[e].at.since
         /\ rep'[e].at.count = rep[e].at.count + 1 /\ rep'[e].at.after = r
         /\ rep'[e].at.epoch = epoch /\ rep'[e].at.pos = Len(stream) + 1
         /\ \A f \in Replayer \ {e} : rep'[f] = rep[f]
         /\ owner = e /\ UNCHANGED <<members, owner, replay>>
         /\ UNCHANGED <<replayRest, epoch, ckpt, whole, faults>>
<1>0. /\ rep[e] \in RepType /\ DOMAIN rep = Replayer /\ RepTypes /\ Len(stream) \in Nat
      /\ epoch \in 0..MaxFaults /\ MaxLen \in Nat /\ Rows \in Nat
  BY TypesSplit DEF RepTypes, RelayAssumption
<1>1. rep[e].at \in Cursor /\ rep[e].todo \subseteq Row /\ rep[e].last \in BOOLEAN
  BY <1>0 DEF RepType
<1>2. PICK r : r = Min(rep[e].todo)
  OBVIOUS
<1>3. r \in rep[e].todo /\ r \in Row /\ \A t \in rep[e].todo : r <= t
  <2>1. rep[e].todo \in SUBSET Nat /\ rep[e].todo # {}
    BY <1>1 DEF Copy, Row
  <2> QED
    BY <1>1, <1>2, <2>1, MinIsLeast
<1>4. PICK c : c = [rep[e].at EXCEPT !.count = rep[e].at.count + 1, !.after = r,
                                     !.epoch = epoch, !.pos = Len(stream) + 1]
  OBVIOUS
<1>5. Len(stream) < MaxLen
  BY DEF Copy
<1>6. rep[e].at.count \in 0..Rows /\ rep[e].at.count < r /\ r \in 1..Rows
  BY <1>1, <1>3 DEF Cursor, Row
<1>7. rep[e].at.count + 1 \in 0..Rows /\ r \in 0..Rows /\ Len(stream) + 1 \in 0..MaxLen
  BY <1>0, <1>5, <1>6
<1>8. /\ c \in Cursor /\ c.until = rep[e].at.until /\ c.since = rep[e].at.since
      /\ c.count = rep[e].at.count + 1 /\ c.after = r /\ c.epoch = epoch /\ c.pos = Len(stream) + 1
  BY <1>0, <1>1, <1>4, <1>7 DEF Cursor
<1>9. PICK v : v = [rep[e] EXCEPT !.todo = rep[e].todo \ {r}, !.at = c]
  OBVIOUS
<1>10. /\ v \in RepType /\ v.pc = rep[e].pc /\ v.at = c /\ v.todo = rep[e].todo \ {r}
       /\ v.last = rep[e].last
  BY <1>0, <1>1, <1>8, <1>9 DEF RepType
<1>11. rep' = [rep EXCEPT ![e] = v] /\ stream' = Append(stream, r)
  <2>1. rep' = [rep EXCEPT ![e].todo = rep[e].todo \ {r}, ![e].at = c]
    BY <1>2, <1>4 DEF Copy
  <2>2. stream' = Append(stream, r)
    BY <1>2 DEF Copy
  <2> QED
    BY <1>0, <1>9, <2>1, <2>2
<1>12. rep'[e] = v /\ RepTypes' /\ \A f \in Replayer \ {e} : rep'[f] = rep[f]
  BY <1>0, <1>10, <1>11, RepReplaced
<1>13. /\ owner = e /\ UNCHANGED <<members, owner, replay>> /\ exists' = TRUE /\ rep[e].pc = "copy"
       /\ UNCHANGED <<replayRest, epoch, ckpt, whole, faults>>
  BY DEF Copy, Fence!OwnerWrite
<1> QED
  BY <1>2, <1>3, <1>5, <1>8, <1>10, <1>11, <1>12, <1>13

\* Every save writes the run's own cursors.
LEMMA CursorSaved ==
  ASSUME RelayAssumption, TypeOK, NEW e \in Replayer,
         FirstCheckpoint(e) \/ Checkpoint(e) \/ Complete(e)
  PROVE  /\ RepTypes' /\ ckpt' = rep[e].at /\ ckpt' \in Cursor
         /\ owner = e /\ UNCHANGED <<members, owner>> /\ UNCHANGED <<replayRest, streamVars, faults>>
         /\ rep'[e].at = rep[e].at /\ rep'[e].todo = rep[e].todo /\ rep'[e].last = rep[e].last
         /\ \A f \in Replayer \ {e} : rep'[f] = rep[f]
         /\ \/ /\ FirstCheckpoint(e) /\ rep[e].pc = "opened" /\ rep'[e].pc = "fetch"
               /\ replay' = "running" /\ whole' = whole
            \/ /\ Checkpoint(e) /\ rep[e].pc = "copy" /\ rep[e].todo = {}
               /\ rep'[e].pc = (IF rep[e].last THEN "last" ELSE "fetch")
               /\ replay' = replay /\ whole' = whole
            \/ /\ Complete(e) /\ rep[e].pc = "last" /\ rep'[e].pc = "done" /\ replay' = "completed"
<1>0. RepTypes /\ rep[e].at \in Cursor
  BY TypesSplit DEF RepTypes, RepType
<1>1. CASE FirstCheckpoint(e)
  <2>1. rep' = [rep EXCEPT ![e].pc = "fetch"]
    BY <1>1 DEF FirstCheckpoint, Move
  <2> QED
    BY <1>0, <1>1, <2>1, RepMoves DEF FirstCheckpoint, Save, Fence!SetStatus
<1>2. CASE Checkpoint(e)
  <2>1. PICK pc : pc = IF rep[e].last THEN "last" ELSE "fetch"
    OBVIOUS
  <2>2. rep' = [rep EXCEPT ![e].pc = pc] /\ pc \in {"last", "fetch"}
    BY <1>2, <2>1 DEF Checkpoint, Move
  <2>3. /\ RepTypes' /\ rep'[e].pc = pc /\ rep'[e].at = rep[e].at /\ rep'[e].todo = rep[e].todo
        /\ rep'[e].last = rep[e].last /\ \A f \in Replayer \ {e} : rep'[f] = rep[f]
    BY <1>0, <2>2, RepMoves
  <2>4. /\ ckpt' = rep[e].at /\ owner = e /\ UNCHANGED <<members, owner>> /\ replay' = replay
        /\ UNCHANGED <<replayRest, streamVars, faults>> /\ whole' = whole
        /\ rep[e].pc = "copy" /\ rep[e].todo = {}
    BY <1>2 DEF Checkpoint, Save, Fence!SetStatus
  <2> QED
    BY <1>0, <1>2, <2>1, <2>3, <2>4
<1>3. CASE Complete(e)
  <2>1. rep' = [rep EXCEPT ![e].pc = "done"]
    BY <1>3 DEF Complete, Move
  <2> QED
    BY <1>0, <1>3, <2>1, RepMoves DEF Complete, Save, Fence!SetStatus
<1> QED
  BY <1>1, <1>2, <1>3

\* A step that moves no cursor.
Aside ==
    /\ UNCHANGED <<ckpt, epoch, replay>> /\ whole' = whole
    /\ \A e \in Replayer : \/ rep'[e] = rep[e] /\ (owner' = e => owner = e)
                           \/ /\ rep'[e].pc \in {"idle", "locked"}
                              /\ rep'[e].at.count = 0 /\ rep'[e].at.after = 0
                              /\ rep'[e].at.epoch = 0 /\ rep'[e].at.since \in {0, epoch}
    /\ Published \subseteq Published'
    /\ stream' = stream \/ \E r \in Row : stream' = Append(stream, r)
    /\ Drain /\ Shut => UNCHANGED <<stream, exists>> /\ Published' = Published

LEMMA PublishedSame == row' = row => Published' = Published
  BY DEF Published

LEMMA StepOfPublisher ==
  ASSUME RelayAssumption, Basics, NEW p \in Publisher, PublishStep(p) \/ PublishFault(p), Fence!TypeOK'
  PROVE  Aside /\ Basics'
<1>0. TypeOK /\ PubTypes /\ stream \in Seq(Row) /\ Len(stream) <= MaxLen /\ faults \in 0..MaxFaults
  BY TypesSplit DEF Basics
<1>1. /\ PubTypes' /\ \A q \in Publisher \ {p} : pub'[q] = pub[q]
      /\ pub[p].pc = "idle" => Start(p)
  BY <1>0, PublisherMoves
<1>2. /\ row' = row \/ MarkPublished(p)
      /\ row' \in [Row -> {"absent", "pending", "published"}]
      /\ UNCHANGED <<stream, exists>> \/ Xadd(p)
      /\ UNCHANGED <<epoch, ckpt, con, rep, whole, replay>>
      /\ faults' \in faults..MaxFaults
      /\ owner' = owner
  BY <1>0, PublisherWrites DEF Basics
<1>3. Drain => ~Shut
  BY <1>1 DEF Basics, Quiet, Drained, Shut, Start, Fence!Join, Fence!Open
<1>4. Published \subseteq Published'
  BY <1>0, <1>2, TypesSplit DEF Published, MarkPublished
<1>5. stream' = stream \/ (pub[p].cur \in Row /\ stream' = Append(stream, pub[p].cur) /\ Len(stream) < MaxLen
                           /\ exists')
  BY <1>2 DEF Xadd, Basics, Holding
<1>6. stream' \in Seq(Row) /\ Len(stream') <= MaxLen
  BY <1>0, <1>5, Appended DEF RelayAssumption
<1>7. \A q \in Publisher : Holding(q)' => pub'[q].cur \in Row
  <2>1. ASSUME Holding(p)' PROVE pub'[p].cur \in Row
    <3>1. CASE Select(p)
      <4>1. Candidates(p) # {}
        BY <3>1 DEF Select
      <4>2. Candidates(p) \in SUBSET Row /\ Row \subseteq Nat
        BY DEF Candidates, Row, RelayAssumption
      <4>3. Min(Candidates(p)) \in Row
        BY <4>1, <4>2, MinIsLeast
      <4> QED
        BY <1>0, <3>1, <4>3 DEF Select, PubTypes, PubType
    <3>2. CASE pub'[p].cur = pub[p].cur /\ Holding(p)
      BY <3>2 DEF Basics
    <3>3. CASE ~Select(p)
      <4>1. pub[p] \in PubType /\ DOMAIN pub = Publisher
        BY <1>0 DEF PubTypes
      <4> QED
        BY <2>1, <3>2, <3>3, <4>1 DEF PublishStep, PublishFault, Start, Finish, Xadd, XaddRejected, MarkPublished, MarkFails,
         HeartbeatFails, PublisherDies, GiveUpRow, PubType, IdlePub, Holding
    <3> QED
      BY <3>1, <3>3
  <2> QED
    BY <1>1, <2>1 DEF Basics, Holding
<1>8. TypeOK'
  <2>1. exists' \in BOOLEAN /\ whole' \in BOOLEAN
    BY <1>0, <1>2, TypesSplit DEF Xadd
  <2>2. epoch' \in 0..MaxFaults /\ ckpt' \in Cursor /\ con' \in [Consumer -> {"idle", "active"}]
    BY <1>0, <1>2, TypesSplit
  <2>3. RepTypes'
    BY <1>0, <1>2, TypesSplit DEF RepTypes
  <2>4. faults' \in 0..MaxFaults
    BY <1>0, <1>2 DEF RelayAssumption
  <2> QED
    BY <1>1, <1>2, <1>6, <2>1, <2>2, <2>3, <2>4, TypesAgain
<1>9. epoch' <= faults'
  BY <1>0, <1>2, TypesSplit DEF Basics, RelayAssumption
<1>10. Aside
  BY <1>2, <1>3, <1>4, <1>5 DEF Aside
<1>11. (~exists)' => stream' = <<>>
  BY <1>2 DEF Basics, Xadd
<1> QED
  BY <1>2, <1>3, <1>7, <1>8, <1>9, <1>10, <1>11 DEF Basics, Quiet, Shut

LEMMA StepBeside ==
  ASSUME RelayAssumption, Basics, Fence!TypeOK',
         \/ \E r \in Row : Insert(r)
         \/ \E c \in Consumer : ConsumerStep(c)
         \/ \E t \in Participant \cup Replayer : LeaseRunsOut(t)
         \/ UNCHANGED vars
  PROVE  Aside /\ Basics' /\ UNCHANGED <<pub, stream, whole>> /\ Published' = Published
<1>0. TypeOK /\ PubTypes /\ RepTypes /\ stream \in Seq(Row) /\ Len(stream) <= MaxLen /\ faults \in 0..MaxFaults
      /\ epoch \in 0..MaxFaults /\ MaxFaults \in Nat
  BY TypesSplit DEF Basics, RelayAssumption
<1>1. /\ UNCHANGED <<stream, epoch, ckpt, pub, rep, whole, replay>>
      /\ owner' \in {owner, NoOne} /\ faults' \in faults..MaxFaults
  <2>1. CASE \E r \in Row : Insert(r)
    BY <1>0, <2>1 DEF Insert, streamVars, fenceVars
  <2>2. CASE \E c \in Consumer : ConsumerStep(c)
    BY <1>0, <2>2 DEF ConsumerStep, ConsumerStarts, EnsureGroup, ConsumerStops, streamVars, fenceVars,
       Fence!Join, Fence!Lapse
  <2>3. CASE \E t \in Participant \cup Replayer : LeaseRunsOut(t)
    BY <1>0, <2>3 DEF LeaseRunsOut, streamVars, Fence!Lapse, Fault
  <2>4. CASE UNCHANGED vars
    BY <1>0, <2>4 DEF vars, streamVars, fenceVars
  <2> QED
    BY <2>1, <2>2, <2>3, <2>4
<1>2. row' \in [Row -> {"absent", "pending", "published"}] /\ Published' = Published
  <2>1. row \in [Row -> {"absent", "pending", "published"}]
    BY <1>0, TypesSplit
  <2>2. CASE \E r \in Row : Insert(r)
    BY <2>1, <2>2 DEF Insert, Published
  <2>3. CASE row' = row
    BY <2>1, <2>3, PublishedSame
  <2> QED
    BY <2>2, <2>3 DEF ConsumerStep, ConsumerStarts, EnsureGroup, ConsumerStops, LeaseRunsOut, vars
<1>3. con' \in [Consumer -> {"idle", "active"}] /\ exists' \in BOOLEAN
      /\ (exists' = exists \/ exists' = TRUE) /\ (Drain /\ Shut => con' = con /\ exists' = exists)
  <2>1. con \in [Consumer -> {"idle", "active"}] /\ exists \in BOOLEAN
    BY <1>0, TypesSplit
  <2>2. CASE \E r \in Row : Insert(r)
    BY <2>1, <2>2 DEF Insert, streamVars
  <2>3. ASSUME NEW c \in Consumer, ConsumerStep(c)
        PROVE  <1>3
    BY <2>1, <2>3 DEF ConsumerStep, ConsumerStarts, EnsureGroup, ConsumerStops, streamVars, Fence!Join,
       Fence!Open, Shut, Basics, Quiet, Drained
  <2>4. CASE \E t \in Participant \cup Replayer : LeaseRunsOut(t)
    BY <2>1, <2>4 DEF LeaseRunsOut, streamVars
  <2>5. CASE UNCHANGED vars
    BY <2>1, <2>5 DEF vars, streamVars
  <2> QED
    BY <2>2, <2>3, <2>4, <2>5
<1>4. stream' = stream /\ epoch' = epoch
  BY <1>1 DEF streamVars
<1>5. TypeOK'
  <2>1. whole' \in BOOLEAN /\ epoch' \in 0..MaxFaults /\ ckpt' \in Cursor
    BY <1>0, <1>1, <1>4, TypesSplit
  <2>2. RepTypes' /\ PubTypes'
    BY <1>0, <1>1 DEF RepTypes, PubTypes
  <2>3. faults' \in 0..MaxFaults /\ stream' \in Seq(Row) /\ Len(stream') <= MaxLen
    BY <1>0, <1>1, <1>4
  <2> QED
    BY <1>2, <1>3, <2>1, <2>2, <2>3, TypesAgain
<1>6. epoch' <= faults'
  BY <1>0, <1>1, <1>4 DEF Basics
<1>7. Quiet'
  <2>1. Shut' => Shut
    BY <1>1 DEF Shut
  <2> QED
    BY <1>1, <1>3, <2>1 DEF Basics, Quiet, Drained
<1>8. Aside
  <2>1. NoOne \notin Replayer
    BY DEF RelayAssumption, Fence!DistinctTokens, Fence!Exclusive
  <2> QED
    BY <1>1, <1>2, <1>3, <1>4, <2>1 DEF Aside
<1> QED
  BY <1>1, <1>2, <1>3, <1>4, <1>5, <1>6, <1>7, <1>8 DEF Basics, Holding

LEMMA StepOfRun ==
  ASSUME RelayAssumption, Basics, Fence!TypeOK', NEW e \in Replayer,
         (\E u \in Windows : Begin(e, u)) \/ Leave(e) \/ ReplayerDies(e)
  PROVE  Aside /\ Basics' /\ UNCHANGED <<pub, stream, whole>> /\ Published' = Published
<1>0. TypeOK /\ RepTypes /\ faults \in 0..MaxFaults /\ epoch \in 0..MaxFaults /\ MaxFaults \in Nat
  BY TypesSplit DEF Basics, RelayAssumption
<1>1. NoOne \notin Replayer
  BY DEF RelayAssumption, Fence!DistinctTokens, Fence!Exclusive
<1>2. UNCHANGED <<replayRest, streamVars, ckpt, whole>> /\ replay' = replay /\ faults' \in faults..MaxFaults
  <2>1. ASSUME NEW n \in {0, 1}, Fault(n) PROVE faults' \in faults..MaxFaults
    BY <1>0, <2>1 DEF Fault
  <2>2. CASE \E u \in Windows : Begin(e, u)
    <3>1. faults' = faults /\ UNCHANGED <<replayRest, streamVars, ckpt, whole>>
      BY <2>2 DEF Begin
    <3>2. replay' = replay
      BY <2>2 DEF Begin, Fence!Acquire
    <3> QED
      BY <1>0, <3>1, <3>2
  <2>3. CASE Leave(e)
    BY <2>1, <2>3 DEF Leave, Fence!Lapse
  <2>4. CASE ReplayerDies(e)
    BY <2>1, <2>4 DEF ReplayerDies, fenceVars
  <2> QED
    BY <2>2, <2>3, <2>4
<1>3. /\ RepTypes'
      /\ \A f \in Replayer \ {e} : rep'[f] = rep[f] /\ (owner' = f => owner = f)
      /\ rep'[e].pc \in {"idle", "locked"} /\ rep'[e].at.count = 0 /\ rep'[e].at.after = 0
      /\ rep'[e].at.epoch = 0 /\ rep'[e].at.since \in {0, epoch}
      /\ Quiet'
  <2>1. ASSUME NEW u \in Windows, Begin(e, u)
        PROVE  <1>3
    <3>1. owner' = e /\ (Drain => Drained /\ Drained')
      BY <2>1, <1>2 DEF Begin, Fence!Acquire, Drained, replayRest
    <3> QED
      BY <1>0, <2>1, <3>1, Begun DEF Quiet
  <2>2. CASE Leave(e) \/ ReplayerDies(e)
    <3>1. rep' = [rep EXCEPT ![e] = IdleRep]
      BY <2>2 DEF Leave, ReplayerDies
    <3>2. rep'[e] = IdleRep /\ RepTypes' /\ \A f \in Replayer \ {e} : rep'[f] = rep[f]
      BY <1>0, <3>1, IdleTyped, RepReplaced
    <3>3. owner' \in {owner, NoOne}
      BY <2>2 DEF Leave, ReplayerDies, fenceVars
    <3>4. Quiet'
      BY <1>2, <3>3 DEF Basics, Quiet, Shut, Drained, replayRest
    <3> QED
      BY <1>1, <3>2, <3>3, <3>4, IdleTyped
  <2> QED
    BY <2>1, <2>2
<1>4. row' = row /\ pub' = pub /\ con' = con /\ stream' = stream /\ exists' = exists /\ epoch' = epoch
      /\ ckpt' = ckpt /\ whole' = whole
  BY <1>2 DEF replayRest, streamVars
<1>5. Published' = Published
  BY <1>4, PublishedSame
<1>6. TypeOK'
  <2>1. PubTypes' /\ faults' \in 0..MaxFaults
    BY <1>0, <1>2, <1>4, TypesSplit DEF PubTypes
  <2> QED
    BY <1>0, <1>3, <1>4, <2>1, TypesSplit, TypesAgain
<1>7. Aside
  BY <1>2, <1>3, <1>4, <1>5 DEF Aside
<1>8. epoch' <= faults'
  BY <1>0, <1>2, <1>4 DEF Basics
<1> QED
  BY <1>3, <1>4, <1>5, <1>6, <1>7, <1>8 DEF Basics, Holding

LEMMA StepOfLoss ==
  ASSUME RelayAssumption, Basics, Fence!TypeOK', StreamLost \/ RedisFlushed
  PROVE  /\ Basics'
         /\ stream' = <<>> /\ exists' = FALSE /\ epoch' = epoch + 1 /\ whole' = FALSE
         /\ rep' = rep /\ Published' = Published
         /\ \/ UNCHANGED <<ckpt, owner, replay>>
            \/ ckpt' = NoCursor /\ owner' = NoOne /\ replay' = "none"
<1>0. TypeOK /\ RepTypes /\ PubTypes /\ faults \in 0..MaxFaults /\ epoch \in 0..MaxFaults /\ MaxFaults \in Nat
      /\ epoch <= faults /\ MaxLen \in Nat
  BY TypesSplit DEF Basics, RelayAssumption
<1>1. /\ stream' = <<>> /\ exists' = FALSE /\ epoch' = epoch + 1 /\ whole' = FALSE
      /\ UNCHANGED <<row, pub, con, rep>> /\ faults + 1 <= MaxFaults /\ faults' = faults + 1
      /\ \/ UNCHANGED <<ckpt, owner, replay>>
         \/ ckpt' = NoCursor /\ owner' = NoOne /\ replay' = "none"
  BY DEF StreamLost, RedisFlushed, Lost, Fault, Fence!Flush, fenceVars
<1>2. Published' = Published
  BY <1>1, PublishedSame
<1>3. TypeOK'
  <2>1. stream' \in Seq(Row) /\ Len(stream') <= MaxLen
    BY <1>0, <1>1, NothingIn
  <2>2. epoch' \in 0..MaxFaults /\ faults' \in 0..MaxFaults
    BY <1>0, <1>1
  <2>3. ckpt' \in Cursor /\ row' \in [Row -> {"absent", "pending", "published"}]
        /\ con' \in [Consumer -> {"idle", "active"}] /\ exists' \in BOOLEAN /\ whole' \in BOOLEAN
    BY <1>0, <1>1, TypesSplit, IdleTyped
  <2>4. PubTypes' /\ RepTypes'
    BY <1>0, <1>1 DEF PubTypes, RepTypes
  <2> QED
    BY <2>1, <2>2, <2>3, <2>4, TypesAgain
<1>4. epoch' <= faults'
  BY <1>0, <1>1
<1>5. Quiet'
  BY <1>1 DEF Basics, Quiet, Shut, Drained
<1> QED
  BY <1>1, <1>2, <1>3, <1>4, <1>5 DEF Basics, Holding

Works(e) == Open(e) \/ FirstCheckpoint(e) \/ Fetch(e) \/ Copy(e) \/ Checkpoint(e) \/ Complete(e)

LEMMA StepOfWork ==
  ASSUME RelayAssumption, Basics, Fence!TypeOK', NEW e \in Replayer, Works(e),
         Copy(e) => \A t \in rep[e].todo : rep[e].at.count < t
  PROVE  /\ Basics'
         /\ Published' = Published /\ pub' = pub /\ epoch' = epoch /\ owner' = owner /\ faults' = faults
         /\ whole' = whole \/ Complete(e)
         /\ UNCHANGED <<stream, exists>> \/ Copy(e)
         /\ ckpt' = ckpt \/ Copy(e) \/ Fetch(e) \/ Open(e) \/ ckpt' = rep[e].at
         /\ \A f \in Replayer \ {e} : rep'[f] = rep[f]
<1>0. TypeOK /\ RepTypes /\ PubTypes /\ ckpt \in Cursor /\ stream \in Seq(Row) /\ Len(stream) <= MaxLen
      /\ MaxLen \in Nat /\ NoOne \notin Replayer
  BY TypesSplit DEF Basics, RelayAssumption, Fence!DistinctTokens, Fence!Exclusive
<1>1. CASE Copy(e)
  <2>1. PICK r : r = Min(rep[e].todo)
    OBVIOUS
  <2>2. /\ r \in Row /\ stream' = Append(stream, r) /\ Len(stream) < MaxLen /\ exists' = TRUE
        /\ RepTypes' /\ \A f \in Replayer \ {e} : rep'[f] = rep[f]
        /\ owner = e /\ owner' = owner /\ replay' = replay
        /\ UNCHANGED <<replayRest, epoch, ckpt, whole, faults>>
    BY <1>0, <1>1, <2>1, RowCopied DEF Basics
  <2>3. stream' \in Seq(Row) /\ Len(stream') <= MaxLen
    BY <1>0, <2>2, Appended
  <2>4. row' = row /\ pub' = pub /\ con' = con
    BY <2>2 DEF replayRest
  <2>5. PubTypes' /\ whole' \in BOOLEAN /\ epoch' \in 0..MaxFaults /\ faults' \in 0..MaxFaults
        /\ ckpt' \in Cursor /\ row' \in [Row -> {"absent", "pending", "published"}]
        /\ con' \in [Consumer -> {"idle", "active"}] /\ exists' \in BOOLEAN
    BY <1>0, <2>2, <2>4, TypesSplit DEF PubTypes
  <2>6. TypeOK'
    BY <2>2, <2>3, <2>5, TypesAgain
  <2>7. Published' = Published
    BY <2>4, PublishedSame
  <2> QED
    BY <1>1, <2>2, <2>4, <2>6, <2>7 DEF Basics, Holding, Quiet, Shut, Drained
<1>2. CASE ~Copy(e)
  <2>1. /\ UNCHANGED <<replayRest, streamVars, faults>> /\ owner' = owner
        /\ RepTypes' /\ ckpt' \in Cursor /\ \A f \in Replayer \ {e} : rep'[f] = rep[f]
        /\ Shut' => Shut
        /\ ckpt' = ckpt \/ Fetch(e) \/ Open(e) \/ ckpt' = rep[e].at
        /\ whole' = whole \/ Complete(e)
    <3>1. CASE Open(e)
      <4>1. UNCHANGED <<replayRest, streamVars, whole, faults>>
        BY <3>1 DEF Open
      <4> QED
        BY <1>0, <3>1, <4>1, CursorsOpened DEF Shut
    <3>2. CASE FirstCheckpoint(e) \/ Checkpoint(e) \/ Complete(e)
      BY <1>0, <3>2, CursorSaved DEF Shut
    <3>3. CASE Fetch(e)
      BY <1>0, <3>3, BatchFetched DEF Shut, fenceVars
    <3> QED
      BY <1>2, <3>1, <3>2, <3>3 DEF Works
  <2>2. whole' \in BOOLEAN
    BY <1>0, <2>1, TypesSplit DEF Complete
  <2>3. row' = row /\ pub' = pub /\ con' = con /\ stream' = stream /\ exists' = exists /\ epoch' = epoch
        /\ faults' = faults
    BY <2>1 DEF replayRest, streamVars
  <2>4. Published' = Published
    BY <2>3, PublishedSame
  <2>5. PubTypes' /\ TypeOK
    BY <1>0, <2>3 DEF PubTypes
  <2>6. TypeOK'
    BY <1>0, <2>1, <2>2, <2>3, <2>5, TypesSplit, TypesAgain
  <2> QED
    BY <2>1, <2>3, <2>4, <2>6 DEF Basics, Holding, Quiet, Drained
<1> QED
  BY <1>1, <1>2

LEMMA FirstRowsAre ==
  ASSUME RelayAssumption, NEW S \in SUBSET Row
  PROVE  /\ FirstRows(S) \subseteq S
         /\ \A t \in FirstRows(S), r \in S : r <= t => r \in FirstRows(S)
         /\ Cardinality(FirstRows(S)) < BatchSize => S \subseteq FirstRows(S)
<1> DEFINE upTo(r) == {q \in S : q <= r}
           first == FirstRows(S)
<1>0. Row \subseteq Nat /\ IsFiniteSet(S) /\ S \subseteq Nat /\ BatchSize \in Nat \ {0}
  <2>1. IsFiniteSet(Row) /\ Row \subseteq Nat
    BY FS_Interval DEF Row, RelayAssumption
  <2> QED
    BY <2>1, FS_Subset DEF RelayAssumption
<1>1. first \subseteq S /\ \A r \in S : r \in first <=> Cardinality(upTo(r)) <= BatchSize
  BY DEF FirstRows
<1>2. ASSUME NEW T \in SUBSET S PROVE IsFiniteSet(T) /\ Cardinality(T) \in Nat
  BY <1>0, FS_Subset, FS_CardinalityType
<1>3. ASSUME NEW t \in first, NEW r \in S, r <= t PROVE r \in first
  <2>a. t \in S
    BY <1>1
  <2>b. t \in Nat /\ r \in Nat /\ \A q \in S : q \in Nat
    BY <1>0, <2>a
  <2>0. t \in Nat /\ t \in S /\ \A q \in S : q <= r => q <= t
    BY <1>3, <2>a, <2>b
  <2>1. upTo(r) \in SUBSET upTo(t) /\ upTo(t) \in SUBSET S
    BY <2>0, Zenon
  <2> HIDE DEF upTo, first
  <2>2. Cardinality(upTo(r)) <= Cardinality(upTo(t))
    BY <1>2, <2>1, FS_Subset
  <2>3. Cardinality(upTo(r)) \in Nat /\ Cardinality(upTo(t)) \in Nat
    BY <1>2, <2>1
  <2> QED
    BY <1>0, <1>1, <1>3, <2>2, <2>3
<1>4. ASSUME ~(S \subseteq first) PROVE ~(Cardinality(first) < BatchSize)
  <2> DEFINE Rest == S \ first
  <2>1. PICK m \in Rest : \A k \in Rest : m <= k
    <3>1. Rest \in SUBSET Nat /\ Rest # {}
      BY <1>0, <1>4
    <3> HIDE DEF Rest
    <3> QED
      BY <3>1, LeastExists
  <2> DEFINE Below == {q \in S : q < m}
  <2>a. m \in S /\ m \notin first /\ \A q \in S : q < m => q \in first
    <3>1. m \in S /\ m \in Nat
      BY <1>0, <2>1
    <3>2. ASSUME NEW q \in S, q < m PROVE q \in first
      <4>1. q \in Nat
        BY <1>0
      <4>2. q \notin Rest
        BY <2>1, <3>1, <3>2, <4>1
      <4> QED
        BY <4>2
    <3> QED
      BY <2>1, <3>1, <3>2
  <2>b. m \in Nat /\ \A q \in S : q <= m <=> q < m \/ q = m
    BY <1>0, <2>a
  <2>c. ~(m < m) /\ m <= m
    BY <2>b
  <2>2. Below \in SUBSET first /\ first \in SUBSET S /\ Below \in SUBSET S
    BY <1>1, <2>a, Zenon
  <2>3. upTo(m) = Below \cup {m} /\ m \notin Below /\ m \in S
    BY <2>a, <2>b, <2>c, Zenon
  <2>4. ~(Cardinality(upTo(m)) <= BatchSize)
    BY <1>1, <2>1
  <2> HIDE DEF Below, upTo, first
  <2>5. Cardinality(upTo(m)) = Cardinality(Below) + 1
    BY <1>2, <2>2, <2>3, FS_AddElement
  <2>6. Cardinality(Below) <= Cardinality(first)
    BY <1>2, <2>2, FS_Subset
  <2>7. Cardinality(Below) \in Nat /\ Cardinality(first) \in Nat
    BY <1>2, <2>2
  <2> QED
    BY <1>0, <2>4, <2>5, <2>6, <2>7
<1> QED
  BY <1>1, <1>3, <1>4

LEMMA SetsOfRows ==
  ASSUME NEW c
  PROVE  Published \subseteq Row /\ ReplayedBy(c) \subseteq Row /\ Beyond(c) \subseteq Row
  BY DEF Published, ReplayedBy, Beyond

LEMMA CursorTypes ==
  ASSUME RelayAssumption, TypeOK
  PROVE  /\ ckpt \in Cursor /\ \A e \in Replayer : rep[e].at \in Cursor /\ rep[e].todo \subseteq Row
         /\ epoch \in Nat /\ Len(stream) \in Nat /\ stream \in Seq(Row) /\ Row \subseteq Nat
         /\ Published \subseteq Nat /\ RepTypes
         /\ \A c \in Cursor : /\ c.until \in Nat /\ c.count \in Nat /\ c.after \in Nat
                              /\ c.epoch \in Nat /\ c.pos \in Nat /\ c.since \in Nat
<1>1. ckpt \in Cursor /\ stream \in Seq(Row) /\ RepTypes /\ epoch \in 0..MaxFaults
  BY TypesSplit
<1>2. epoch \in Nat /\ Len(stream) \in Nat
  BY <1>1 DEF RelayAssumption
<1>3. \A e \in Replayer : rep[e].at \in Cursor /\ rep[e].todo \subseteq Row
  BY <1>1 DEF RepTypes, RepType
<1>4. Row \subseteq Nat /\ Published \subseteq Nat
  BY DEF Row, Published, RelayAssumption
<1>5. \A c \in Cursor : /\ c.until \in Nat /\ c.count \in Nat /\ c.after \in Nat
                          /\ c.epoch \in Nat /\ c.pos \in Nat /\ c.since \in Nat
  BY DEF Cursor, RelayAssumption
<1> QED
  BY <1>1, <1>2, <1>3, <1>4, <1>5

LEMMA AsideKeepsCursors ==
  ASSUME RelayAssumption, CursorInv, Aside, Basics'
  PROVE  CursorInv'
<1>0. /\ ckpt \in Cursor /\ \A e \in Replayer : rep[e].at \in Cursor
      /\ epoch \in Nat /\ Len(stream) \in Nat /\ stream \in Seq(Row)
      /\ \A c \in Cursor : c.pos \in Nat
  BY CursorTypes DEF CursorInv, Basics
<1>1. Len(stream') \in Nat /\ Len(stream) <= Len(stream')
  BY <1>0, Appended DEF Aside
<1>2. /\ UNCHANGED <<ckpt, epoch, replay>> /\ Published \subseteq Published'
      /\ Drain /\ Shut => Published' = Published
  BY DEF Aside
<1>3. Reached(ckpt)'
  <2>1. Reached(ckpt)
    BY DEF CursorInv
  <2> QED
    BY <1>0, <1>1, <1>2, <2>1 DEF Reached
<1>4. ASSUME NEW e \in Replayer
      PROVE  /\ Reached(rep[e].at)'
             /\ Due(e)'
             /\ AtWork(e)' => AtWork(e) /\ rep'[e] = rep[e] /\ (Drain => Published' = Published)
  <2>1. /\ Reached(rep[e].at) /\ Due(e)
        /\ \/ rep'[e] = rep[e] /\ (owner' = e => owner = e)
           \/ /\ rep'[e].pc \in {"idle", "locked"}
              /\ rep'[e].at.count = 0 /\ rep'[e].at.after = 0
              /\ rep'[e].at.epoch = 0 /\ rep'[e].at.since \in {0, epoch}
    BY DEF CursorInv, Aside
  <2>2. CASE rep'[e] = rep[e] /\ (owner' = e => owner = e)
    <3>1. AtWork(e)' => AtWork(e) /\ Shut
      <4>1. e # NoOne
        BY DEF RelayAssumption, Fence!DistinctTokens, Fence!Exclusive
      <4> QED
        BY <2>2, <4>1 DEF AtWork, Shut
    <3>2. PICK c : c = rep[e].at
      OBVIOUS
    <3>3. c \in Cursor /\ Reached(c) /\ rep'[e].at = c
      BY <1>0, <2>1, <2>2, <3>2
    <3>4. Reached(rep[e].at)'
      BY <1>0, <1>1, <1>2, <3>3 DEF Reached
    <3>5. Due(e)'
      BY <1>2, <2>1, <2>2 DEF Due, Beyond
    <3> QED
      BY <1>2, <2>2, <3>1, <3>4, <3>5
  <2>3. CASE rep'[e].pc \in {"idle", "locked"} /\ rep'[e].at.count = 0 /\ rep'[e].at.after = 0
              /\ rep'[e].at.epoch = 0 /\ rep'[e].at.since \in {0, epoch}
    BY <1>0, <1>2, <2>3 DEF Reached, AtWork, Due
  <2> QED
    BY <2>1, <2>2, <2>3
<1>5. ASSUME NEW e \in Replayer, AtWork(e)'
      PROVE  /\ Drain => Batch(e)'
             /\ rep'[e].pc # "opened" => replay' = "running" /\ ckpt'.until = rep'[e].at.until
  <2>1. AtWork(e) /\ rep'[e] = rep[e] /\ (Drain => Published' = Published)
    BY <1>4, <1>5
  <2>2. (Drain => Batch(e)) /\ (rep[e].pc # "opened" => replay = "running" /\ ckpt.until = rep[e].at.until)
    BY <2>1 DEF CursorInv
  <2> QED
    BY <1>2, <2>1, <2>2 DEF Batch, Beyond
<1> QED
  BY <1>3, <1>4, <1>5 DEF CursorInv

LEMMA LossKeepsCursors ==
  ASSUME RelayAssumption, CursorInv, Fence!TypeOK', StreamLost \/ RedisFlushed
  PROVE  CursorInv'
<1>0. /\ ckpt \in Cursor /\ \A e \in Replayer : rep[e].at \in Cursor
      /\ epoch \in Nat /\ \A c \in Cursor : c.epoch \in Nat /\ c.since \in Nat
  BY CursorTypes DEF CursorInv, Basics
<1>1. /\ Basics' /\ epoch' = epoch + 1 /\ rep' = rep /\ Published' = Published
      /\ \/ UNCHANGED <<ckpt, owner, replay>>
         \/ ckpt' = NoCursor /\ owner' = NoOne /\ replay' = "none"
  BY StepOfLoss DEF CursorInv
<1>2. Reached(ckpt)'
  <2>1. Reached(ckpt)
    BY DEF CursorInv
  <2> QED
    BY <1>0, <1>1, <2>1, IdleTyped DEF Reached
<1>3. ASSUME NEW e \in Replayer
      PROVE  /\ Reached(rep[e].at)'
             /\ AtWork(e)' => AtWork(e) /\ UNCHANGED <<ckpt, replay>>
  <2>1. Reached(rep[e].at) /\ rep'[e] = rep[e] /\ e # NoOne
    BY <1>1 DEF CursorInv, RelayAssumption, Fence!DistinctTokens, Fence!Exclusive
  <2> QED
    BY <1>0, <1>1, <2>1 DEF Reached, AtWork
<1> QED
  BY <1>1, <1>2, <1>3 DEF CursorInv, Batch, Due, Beyond

\* Opening and fetching need no lease; all they may change then is the run.
LEMMA OthersWork ==
  ASSUME NEW e \in Replayer, Works(e), owner # e
  PROVE  UNCHANGED <<ckpt, replay, stream, exists>> /\ whole' = whole
<1>1. ~Copy(e) /\ ~FirstCheckpoint(e) /\ ~Checkpoint(e) /\ ~Complete(e)
  BY DEF Copy, Fence!OwnerWrite, FirstCheckpoint, Checkpoint, Complete, Save, Fence!SetStatus
<1>2. CASE Open(e)
  BY <1>2 DEF Open, Fence!SetStatus, fenceVars, streamVars
<1>3. CASE Fetch(e)
  BY <1>3 DEF Fetch, Fetched, fenceVars, streamVars
<1> QED
  BY <1>1, <1>2, <1>3 DEF Works

LEMMA CopyIsAhead ==
  ASSUME RelayAssumption, CursorInv, NEW e \in Replayer, Copy(e)
  PROVE  AtWork(e) /\ \A t \in rep[e].todo : rep[e].at.count < t
<1>1. AtWork(e) /\ rep[e].pc = "copy"
  BY DEF Copy, Fence!OwnerWrite, AtWork
<1>2. rep[e].todo \subseteq Beyond(rep[e].at) /\ Reached(rep[e].at)
  BY <1>1 DEF CursorInv, Due
<1>3. rep[e].at \in Cursor /\ Published \subseteq Nat
      /\ \A c \in Cursor : c.count \in Nat /\ c.after \in Nat
  BY CursorTypes DEF CursorInv, Basics
<1>4. rep[e].at.count \in Nat /\ rep[e].at.after \in Nat /\ rep[e].at.count <= rep[e].at.after
  BY <1>2, <1>3 DEF Reached
<1>5. ASSUME NEW t \in rep[e].todo PROVE rep[e].at.count < t
  <2>1. t \in Nat /\ t > rep[e].at.after
    BY <1>2, <1>3, <1>5 DEF Beyond
  <2> QED
    BY <1>4, <2>1
<1> QED
  BY <1>1, <1>5

LEMMA WorkKeepsCursors ==
  ASSUME RelayAssumption, CursorInv, Fence!TypeOK', NEW e \in Replayer, Works(e)
  PROVE  CursorInv'
<1> DEFINE at == rep[e].at
<1>0. /\ ckpt \in Cursor /\ at \in Cursor /\ \A f \in Replayer : rep[f].at \in Cursor
      /\ epoch \in Nat /\ Len(stream) \in Nat /\ stream \in Seq(Row) /\ Published \subseteq Nat
      /\ \A c \in Cursor : /\ c.until \in Nat /\ c.count \in Nat /\ c.after \in Nat
                           /\ c.epoch \in Nat /\ c.pos \in Nat /\ c.since \in Nat
      /\ RepTypes
  BY CursorTypes DEF CursorInv, Basics
<1>1. /\ Basics'
      /\ Published' = Published /\ pub' = pub /\ epoch' = epoch /\ owner' = owner
      /\ UNCHANGED <<stream, exists>> \/ Copy(e)
      /\ \A f \in Replayer \ {e} : rep'[f] = rep[f]
  BY CopyIsAhead, StepOfWork DEF CursorInv
<1>2. Len(stream') \in Nat /\ Len(stream) <= Len(stream')
  <2>1. CASE Copy(e)
    <3>1. PICK r : r = Min(rep[e].todo)
      OBVIOUS
    <3>2. r \in Row /\ stream' = Append(stream, r)
      BY <2>1, <3>1, CopyIsAhead, RowCopied DEF CursorInv, Basics
    <3> QED
      BY <1>0, <3>2, Appended
  <2> QED
    BY <1>0, <1>1, <2>1
<1>3. /\ Reached(ckpt) /\ \A f \in Replayer : Reached(rep[f].at)
      /\ \A f \in Replayer : Due(f) /\ (Drain /\ AtWork(f) => Batch(f))
      /\ \A f \in Replayer : AtWork(f) /\ rep[f].pc # "opened" => replay = "running" /\ ckpt.until = rep[f].at.until
  BY DEF CursorInv
\* The cursors.
<1>4. ASSUME NEW c \in Cursor, Reached(c)
      PROVE  /\ c.count <= c.after /\ (c.count = 0 => c.after = 0)
             /\ c.epoch <= epoch' /\ c.since <= epoch'
             /\ c.count > 0 => /\ c.after \in Published' /\ c.after <= c.until
                               /\ c.epoch = epoch' => c.pos \in 1..Len(stream')
  BY <1>0, <1>1, <1>2, <1>4 DEF Reached
<1>5. ASSUME NEW c \in Cursor, Reached(c), ckpt' = c PROVE Reached(ckpt)'
  BY <1>4, <1>5 DEF Reached
<1>6. ASSUME NEW c \in Cursor, Reached(c), NEW f \in Replayer, rep'[f].at = c PROVE Reached(rep[f].at)'
  BY <1>4, <1>6 DEF Reached
<1>7. ASSUME NEW f \in Replayer \ {e}
      PROVE  /\ Reached(rep[f].at)' /\ Due(f)'
             /\ AtWork(f)' => /\ Drain => Batch(f)'
                              /\ rep'[f].pc # "opened" => replay' = "running" /\ ckpt'.until = rep'[f].at.until
  <2>1. rep'[f] = rep[f] /\ (AtWork(f)' => AtWork(f) /\ owner # e)
    BY <1>1 DEF AtWork
  <2>2. Reached(rep[f].at)'
    <3>1. PICK c : c = rep[f].at
      OBVIOUS
    <3> QED
      BY <1>0, <1>3, <1>6, <2>1, <3>1
  <2>3. ASSUME AtWork(f)'
        PROVE  /\ Drain => Batch(f)'
               /\ rep'[f].pc # "opened" => replay' = "running" /\ ckpt'.until = rep'[f].at.until
    <3>1. UNCHANGED <<ckpt, replay>> /\ AtWork(f)
      BY <2>1, <2>3, OthersWork
    <3>2. (Drain => Batch(f)) /\ (rep[f].pc # "opened" => replay = "running" /\ ckpt.until = rep[f].at.until)
      BY <1>3, <3>1
    <3> QED
      BY <1>1, <2>1, <3>1, <3>2 DEF Batch, Beyond
  <2>4. Due(f)'
    BY <1>1, <1>3, <2>1 DEF Due, Beyond
  <2> QED
    BY <2>2, <2>3, <2>4
<1>8. Reached(ckpt)' /\ Reached(rep[e].at)' /\ Due(e)'
      /\ (AtWork(e)' => /\ Drain => Batch(e)'
                        /\ rep'[e].pc # "opened" => replay' = "running" /\ ckpt'.until = rep'[e].at.until)
  <2>a. PICK c : c = rep[e].at
    OBVIOUS
  <2>b. PICK k : k = ckpt
    OBVIOUS
  <2>c. c \in Cursor /\ Reached(c) /\ k \in Cursor /\ Reached(k)
    BY <1>0, <1>3, <2>a, <2>b
  <2>1. CASE Open(e)
    <3>1. /\ rep'[e].pc = "opened"
          /\ \/ rep'[e].at = rep[e].at /\ (ckpt' = ckpt \/ ckpt' = NoCursor)
             \/ ckpt' = ckpt /\ rep'[e].at = [ckpt EXCEPT !.since = epoch]
      BY <2>1, CursorsOpened DEF CursorInv, Basics
    <3>2. Reached(NoCursor) /\ NoCursor \in Cursor
      BY <1>0, IdleTyped DEF Reached
    <3>3. PICK n : n = [k EXCEPT !.since = epoch]
      OBVIOUS
    <3>4. n \in Cursor /\ Reached(n)
      <4>1. epoch \in 0..MaxFaults
        BY TypesSplit DEF CursorInv, Basics
      <4>2. /\ n \in Cursor /\ n.since = epoch
            /\ n.count = k.count /\ n.after = k.after /\ n.epoch = k.epoch /\ n.pos = k.pos /\ n.until = k.until
        BY <2>c, <3>3, <4>1, CursorTyped
      <4> QED
        BY <1>0, <2>c, <4>2 DEF Reached
    <3>5. Reached(ckpt)'
      BY <1>5, <2>b, <2>c, <3>1, <3>2
    <3>6. Reached(rep[e].at)'
      BY <1>6, <2>a, <2>b, <2>c, <3>1, <3>3, <3>4
    <3> QED
      BY <3>1, <3>5, <3>6 DEF Batch, Due
  <2>2. CASE FirstCheckpoint(e) \/ Checkpoint(e) \/ Complete(e)
    <3>1. /\ ckpt' = rep[e].at /\ rep'[e].at = rep[e].at /\ rep'[e].todo = rep[e].todo
          /\ rep'[e].last = rep[e].last /\ owner = e
          /\ \/ rep[e].pc = "opened" /\ rep'[e].pc = "fetch" /\ replay' = "running"
             \/ /\ rep[e].pc = "copy" /\ rep[e].todo = {}
                /\ rep'[e].pc = (IF rep[e].last THEN "last" ELSE "fetch") /\ replay' = replay
             \/ rep'[e].pc = "done"
      BY <2>2, CursorSaved DEF CursorInv, Basics
    <3>2. Reached(ckpt)' /\ Reached(rep[e].at)' /\ ckpt'.until = rep'[e].at.until
      BY <1>5, <1>6, <2>a, <2>c, <3>1
    <3>3. CASE rep[e].pc = "copy" /\ rep[e].todo = {}
                /\ rep'[e].pc = (IF rep[e].last THEN "last" ELSE "fetch") /\ replay' = replay
      <4>1. AtWork(e)
        BY <3>1, <3>3 DEF AtWork
      <4>2. replay = "running" /\ (Drain /\ rep[e].last => Beyond(at) = {})
        BY <1>3, <3>3, <4>1 DEF Batch
      <4>3. Beyond(rep[e].at)' = Beyond(at)
        BY <1>1, <3>1 DEF Beyond
      <4>4. Drain => Batch(e)'
        BY <3>3, <4>2, <4>3 DEF Batch
      <4> QED
        BY <3>2, <3>3, <4>2, <4>4 DEF Due
    <3> QED
      BY <3>1, <3>2, <3>3 DEF Batch, AtWork, Due
  <2>3. CASE Fetch(e)
    <3>1. /\ rep[e].pc = "fetch" /\ rep'[e].pc = "copy" /\ rep'[e].at = rep[e].at
          /\ rep'[e].todo = NextBatch(at)
          /\ rep'[e].last = (Cardinality(NextBatch(at)) < BatchSize)
          /\ ckpt' = ckpt /\ replay' = replay
      BY <2>3, BatchFetched DEF CursorInv, Basics, fenceVars
    <3>2. Beyond(rep[e].at)' = Beyond(at)
      BY <1>1, <3>1 DEF Beyond
    <3>3. PICK S : S = Beyond(at)
      OBVIOUS
    <3>4. S \in SUBSET Row /\ rep'[e].todo = FirstRows(S)
      BY <3>1, <3>3, SetsOfRows DEF NextBatch
    <3>5. /\ FirstRows(S) \subseteq S
          /\ \A t \in FirstRows(S), r \in S : r <= t => r \in FirstRows(S)
          /\ Cardinality(FirstRows(S)) < BatchSize => S \subseteq FirstRows(S)
      BY <3>4, FirstRowsAre
    <3>6. rep'[e].last => S \subseteq FirstRows(S)
      BY <3>1, <3>3, <3>5 DEF NextBatch
    <3>7. Batch(e)' /\ Due(e)'
      BY <3>1, <3>2, <3>3, <3>4, <3>5, <3>6 DEF Batch, Due
    <3>8. Reached(ckpt)' /\ Reached(rep[e].at)'
      BY <1>5, <1>6, <2>a, <2>b, <2>c, <3>1
    <3>9. AtWork(e)' => AtWork(e)
      BY <1>1, <3>1 DEF AtWork
    <3> QED
      BY <1>3, <3>1, <3>7, <3>8, <3>9
  <2>4. CASE Copy(e)
    <3>0. AtWork(e) /\ \A t \in rep[e].todo : rep[e].at.count < t
      BY <2>4, CopyIsAhead
    <3>r. PICK r : r = Min(rep[e].todo)
      OBVIOUS
    <3>1. /\ r \in rep[e].todo /\ r \in Row /\ \A t \in rep[e].todo : r <= t
          /\ stream' = Append(stream, r)
          /\ rep[e].pc = "copy" /\ rep'[e].pc = "copy"
          /\ rep'[e].todo = rep[e].todo \ {r} /\ rep'[e].last = rep[e].last
          /\ rep'[e].at.until = rep[e].at.until /\ rep'[e].at.since = rep[e].at.since
          /\ rep'[e].at.count = rep[e].at.count + 1 /\ rep'[e].at.after = r
          /\ rep'[e].at.epoch = epoch /\ rep'[e].at.pos = Len(stream) + 1
          /\ replay' = replay /\ ckpt' = ckpt
      BY <2>4, <3>0, <3>r, RowCopied DEF CursorInv, Basics
    <3>2. Due(e) /\ (Drain => Batch(e)) /\ replay = "running" /\ ckpt.until = rep[e].at.until
      BY <1>3, <3>0, <3>1
    <3>3. /\ rep[e].todo \subseteq Beyond(at)
          /\ Drain => /\ \A t \in rep[e].todo, x \in Beyond(at) : x <= t => x \in rep[e].todo
                      /\ rep[e].last => Beyond(at) \subseteq rep[e].todo
      BY <3>1, <3>2 DEF Batch, Due
    <3>4. r \in Published /\ r <= c.until /\ r > c.after /\ r \in Nat
      BY <1>0, <2>a, <3>1, <3>3 DEF Beyond
    <3>5. Beyond(rep[e].at)' = Beyond(at) \ {x \in Beyond(at) : x <= r}
      <4>1. Beyond(rep[e].at)' = {x \in Published : x > r /\ x <= c.until}
        BY <1>1, <2>a, <3>1 DEF Beyond
      <4>2. Beyond(at) = {x \in Published : x > c.after /\ x <= c.until}
        BY <2>a DEF Beyond
      <4>3. ASSUME NEW x \in Published PROVE (x > r <=> ~(x <= r)) /\ (x > r => x > c.after)
        <5>1. x \in Nat /\ r \in Nat /\ c.after \in Nat /\ r > c.after
          BY <1>0, <2>c, <3>4
        <5> QED
          BY <5>1
      <4> QED
        BY <4>1, <4>2, <4>3, Zenon
    <3>6. ASSUME NEW t \in rep[e].todo PROVE t <= r <=> t = r
      <4>1. t \in Nat /\ r \in Nat /\ r <= t
        BY <1>0, <3>1, <3>3, <3>4 DEF Beyond
      <4> QED
        BY <4>1
    <3>7. Drain => \A x \in Beyond(at) : x <= r => x = r
      BY <3>1, <3>3, <3>6
    <3>8. Due(e)' /\ (Drain => Batch(e)')
      BY <3>1, <3>3, <3>5, <3>6, <3>7 DEF Batch, Due
    <3>9. Reached(rep[e].at)'
      <4>1. Len(stream') = Len(stream) + 1
        BY <1>0, <3>1, Appended
      <4>2. c.count \in Nat /\ c.count < r /\ c.since <= epoch
        BY <1>0, <2>a, <2>c, <3>0, <3>1 DEF Reached
      <4> QED
        BY <1>0, <1>1, <2>a, <3>1, <3>4, <4>1, <4>2 DEF Reached
    <3> QED
      BY <1>5, <2>b, <2>c, <3>1, <3>2, <3>8, <3>9
  <2> QED
    BY <2>1, <2>2, <2>3, <2>4 DEF Works
<1> QED
  BY <1>1, <1>7, <1>8 DEF CursorInv


-----------------------------------------------------------------------------
(***************************************************************************)
(* Every step is one of four kinds.                                        *)
(***************************************************************************)
LEMMA KindsOfSteps ==
  ASSUME RelayAssumption, Basics, [Next]_vars
  PROVE  /\ Fence!TypeOK'
         /\ \/ \E p \in Publisher : PublishStep(p) \/ PublishFault(p)
            \/ Aside /\ Basics' /\ UNCHANGED <<pub, stream, whole>> /\ Published' = Published
            \/ StreamLost \/ RedisFlushed
            \/ \E e \in Replayer : Works(e)
<1>1. Fence!TypeOK'
  BY FenceTyped, TypesSplit DEF Basics
<1>2. ASSUME NEW e \in Replayer, ReplayStep(e)
      PROVE  \/ Aside /\ Basics' /\ UNCHANGED <<pub, stream, whole>> /\ Published' = Published
             \/ Works(e)
  BY <1>1, <1>2, StepOfRun DEF ReplayStep, Works
<1> QED
  BY <1>1, <1>2, StepBeside DEF Next

LEMMA CursorInit == ASSUME RelayAssumption, Init PROVE CursorInv
<1>1. /\ Fence!TypeOK /\ owner = NoOne /\ replay = "none"
      /\ row = [r \in Row |-> "absent"] /\ stream = <<>> /\ exists = FALSE /\ epoch = 0 /\ ckpt = NoCursor
      /\ pub = [p \in Publisher |-> IdlePub] /\ con = [c \in Consumer |-> "idle"]
      /\ rep = [e \in Replayer |-> IdleRep] /\ whole = TRUE /\ faults = 0
  BY DEF Init, Fence!Init, Fence!TypeOK, Fence!ReplayStatus
<1>2. PubTypes /\ RepTypes /\ \A p \in Publisher : pub[p].pc = "idle"
  BY <1>1, IdleTyped DEF PubTypes, RepTypes, IdlePub
<1>3. stream \in Seq(Row) /\ Len(stream) <= MaxLen /\ 0 \in 0..MaxFaults
  BY <1>1, NothingIn DEF RelayAssumption
<1>4. con \in [Consumer -> {"idle", "active"}] /\ row \in [Row -> {"absent", "pending", "published"}]
  BY <1>1
<1>5. TypeOK
  BY <1>1, <1>2, <1>3, <1>4, IdleTyped, TypesSplit
<1>6. Basics
  BY <1>1, <1>2, <1>5 DEF Basics, Quiet, Shut, Holding
<1>7. Reached(NoCursor)
  BY <1>1, IdleTyped DEF Reached
<1>8. \A e \in Replayer : Reached(rep[e].at) /\ ~AtWork(e) /\ Due(e)
  BY <1>1, <1>7, IdleTyped DEF AtWork, Due
<1> QED
  BY <1>1, <1>6, <1>7, <1>8 DEF CursorInv

LEMMA CursorStep ==
  ASSUME RelayAssumption, CursorInv, [Next]_vars
  PROVE  CursorInv'
<1>0. Basics
  BY DEF CursorInv
<1>1. Fence!TypeOK'
  BY <1>0, KindsOfSteps
<1>2. ASSUME NEW p \in Publisher, PublishStep(p) \/ PublishFault(p) PROVE CursorInv'
  BY <1>0, <1>1, <1>2, StepOfPublisher, AsideKeepsCursors
<1>3. ASSUME Aside, Basics' PROVE CursorInv'
  BY <1>3, AsideKeepsCursors
<1>4. CASE StreamLost \/ RedisFlushed
  BY <1>1, <1>4, LossKeepsCursors
<1>5. ASSUME NEW e \in Replayer, Works(e) PROVE CursorInv'
  BY <1>1, <1>5, WorkKeepsCursors
<1> QED
  BY <1>0, <1>2, <1>3, <1>4, <1>5, KindsOfSteps

(***************************************************************************)
(* Whatever publishers, consumers and replays do, every variable keeps its *)
(* type: a run's count and cursors stay within the rows there are, drained *)
(* or not.                                                                 *)
(***************************************************************************)
THEOREM TypeCorrect == Spec => []TypeOK
<1>1. Init => CursorInv
  BY RelayAssumption, CursorInit
<1>2. CursorInv /\ [Next]_vars => CursorInv'
  BY RelayAssumption, CursorStep
<1>3. CursorInv => TypeOK
  BY DEF CursorInv, Basics
<1> QED
  BY <1>1, <1>2, <1>3, PTL DEF Spec

-----------------------------------------------------------------------------
(***************************************************************************)
(* What is published is in the Stream.                                     *)
(***************************************************************************)
LEMMA PrefixOf ==
  ASSUME NEW s \in Seq(Row), NEW n \in 0..Len(s)
  PROVE  /\ SubSeq(s, 1, n) \in Seq(Row) /\ Len(SubSeq(s, 1, n)) = n
         /\ \A i \in 1..n : SubSeq(s, 1, n)[i] = s[i]
         /\ ToSet(SubSeq(s, 1, n)) \subseteq ToSet(s)
<1>1. PICK t : t = SubSeq(s, 1, n)
  OBVIOUS
<1>2. /\ t \in Seq(Row) /\ Len(t) = n /\ \A i \in 1..n : t[i] = s[i]
      /\ DOMAIN t = 1..n /\ DOMAIN s = 1..Len(s) /\ 1..n \subseteq 1..Len(s)
  BY <1>1
<1>3. ToSet(t) \subseteq ToSet(s)
  BY <1>2, Zenon DEF ToSet
<1> QED
  BY <1>1, <1>2, <1>3

\* A run resumes only if the rows it has passed are there.
LEMMA ResumedIsThere ==
  ASSUME RelayAssumption, CursorInv, Resumable(ckpt)
  PROVE  ReplayedBy(ckpt) \subseteq ToSet(stream)
<1>0. ckpt \in Cursor /\ stream \in Seq(Row) /\ Len(stream) \in Nat /\ Published \subseteq Nat /\ Row \subseteq Nat
      /\ ckpt.count \in Nat /\ Reached(ckpt)
  BY CursorTypes DEF CursorInv, Basics
<1>1. CASE ckpt.count > 0
  <2>1. ckpt.epoch = epoch /\ ToSet(SubSeq(stream, 1, ckpt.pos)) = ReplayedBy(ckpt)
    BY <1>1 DEF Resumable, verify_replayed_prefix, compare_replayed_prefix
  <2>2. ckpt.pos \in 0..Len(stream)
    BY <1>0, <1>1, <2>1 DEF Reached
  <2> QED
    BY <1>0, <2>1, <2>2, PrefixOf
<1>2. CASE ckpt.count = 0
  <2>1. ckpt.after = 0
    BY <1>0, <1>2 DEF Reached
  <2>2. ReplayedBy(ckpt) = {}
    BY <1>0, <2>1 DEF ReplayedBy, Published, Row
  <2> QED
    BY <2>2
<1> QED
  BY <1>0, <1>1, <1>2

LEMMA NothingReplayed ==
  ASSUME NEW c, c.after = 0, RelayAssumption
  PROVE  ReplayedBy(c) = {}
  BY DEF ReplayedBy, Published, Row, RelayAssumption

\* Copying the least row of a batch: the cursor passes that row and no other.
LEMMA PassesOne ==
  ASSUME RelayAssumption, Drain, CursorInv, NEW e \in Replayer, Copy(e)
  PROVE  LET r == Min(rep[e].todo) IN
         /\ ReplayedBy(rep[e].at)' = ReplayedBy(rep[e].at) \cup {r}
         /\ r \notin ReplayedBy(rep[e].at)
         /\ \A x \in ReplayedBy(rep[e].at) : x < r
<1>0. AtWork(e) /\ \A t \in rep[e].todo : rep[e].at.count < t
  BY CopyIsAhead
<1>1. PICK r : r = Min(rep[e].todo)
  OBVIOUS
<1>2. /\ r \in rep[e].todo /\ r \in Row /\ \A t \in rep[e].todo : r <= t
      /\ rep[e].pc = "copy"
      /\ rep'[e].at.until = rep[e].at.until /\ rep'[e].at.after = r
      /\ UNCHANGED <<replayRest, epoch, ckpt, whole, faults>>
  BY <1>0, <1>1, RowCopied DEF CursorInv, Basics
<1>3. Published' = Published
  BY <1>2, PublishedSame DEF replayRest
<1>4. PICK c : c = rep[e].at
  OBVIOUS
<1>5. /\ c \in Cursor /\ c.after \in Nat /\ c.until \in Nat /\ Published \subseteq Nat
  BY <1>4, CursorTypes DEF CursorInv, Basics
<1>6. /\ rep[e].todo \subseteq Beyond(c)
      /\ \A x \in Beyond(c) : x <= r => x \in rep[e].todo
  BY <1>0, <1>2, <1>4 DEF CursorInv, Batch, Due
<1>7. r \in Published /\ r \in Nat /\ r > c.after /\ r <= c.until
  BY <1>2, <1>5, <1>6 DEF Beyond
<1>8. ASSUME NEW x \in Published PROVE x <= r /\ x <= c.until <=> (x <= c.after /\ x <= c.until) \/ x = r
  <2>1. x \in Nat
    BY <1>5
  <2>2. CASE x > c.after /\ x <= r /\ x <= c.until
    <3>1. x \in rep[e].todo
      BY <1>6, <2>2 DEF Beyond
    <3> QED
      BY <1>2, <1>7, <2>1, <2>2, <3>1
  <2>3. CASE ~(x > c.after /\ x <= r /\ x <= c.until)
    BY <1>5, <1>7, <2>1, <2>3
  <2> QED
    BY <2>2, <2>3
<1>9. ReplayedBy(rep[e].at)' = {x \in Published : x <= r /\ x <= c.until}
  BY <1>2, <1>3, <1>4 DEF ReplayedBy
<1>10. ReplayedBy(c) = {x \in Published : x <= c.after /\ x <= c.until}
  BY DEF ReplayedBy
<1>11. {x \in Published : x <= r /\ x <= c.until} = ReplayedBy(c) \cup {r}
  BY <1>7, <1>8, <1>10, Zenon
<1>12. ASSUME NEW x \in ReplayedBy(c) PROVE x < r /\ x # r
  <2>1. x \in Nat /\ x <= c.after
    BY <1>5, <1>12, <1>10
  <2> QED
    BY <1>5, <1>7, <2>1
<1> QED
  BY <1>1, <1>4, <1>9, <1>11, <1>12

LEMMA CommitsFollow ==
  ASSUME RelayAssumption, Basics, NEW p \in Publisher, PublishStep(p) \/ PublishFault(p),
         \A q \in Publisher : whole /\ pub[q].pc = "commit" => pub[q].cur \in ToSet(stream),
         PublishedIsInStream
  PROVE  /\ \A q \in Publisher : whole' /\ pub'[q].pc = "commit" => pub'[q].cur \in ToSet(stream')
         /\ PublishedIsInStream'
<1>0. TypeOK /\ PubTypes /\ stream \in Seq(Row) /\ row \in [Row -> {"absent", "pending", "published"}]
  BY TypesSplit DEF Basics
<1>1. \A q \in Publisher \ {p} : pub'[q] = pub[q]
  BY <1>0, PublisherMoves
<1>2. /\ row' = row \/ MarkPublished(p)
      /\ UNCHANGED <<stream, exists>> \/ Xadd(p)
      /\ whole' = whole
  BY <1>0, PublisherWrites DEF Basics
<1>3. pub[p] \in PubType /\ DOMAIN pub = Publisher
  BY <1>0 DEF PubTypes
<1>4. /\ ToSet(stream) \subseteq ToSet(stream')
      /\ Xadd(p) => pub[p].cur \in ToSet(stream')
  <2>1. CASE Xadd(p)
    <3>1. pub[p].cur \in Row /\ stream' = Append(stream, pub[p].cur)
      BY <2>1 DEF Xadd, Basics, Holding
    <3>2. ToSet(stream') = ToSet(stream) \cup {pub[p].cur}
      BY <1>0, <3>1, Appended
    <3> QED
      BY <3>2
  <2> QED
    BY <1>2, <2>1
<1>5. Published' \subseteq Published \cup {pub[p].cur} /\ (Published' = Published \/ pub[p].pc = "commit")
  <2>1. CASE MarkPublished(p)
    BY <1>0, <2>1 DEF MarkPublished, Published
  <2> QED
    BY <1>2, <2>1, PublishedSame
<1>6. pub'[p].pc = "commit" => pub'[p].cur = pub[p].cur /\ (pub[p].pc = "commit" \/ Xadd(p))
  <2>1. CASE Start(p) \/ Finish(p) \/ PublisherDies(p)
    <3>1. pub'[p].pc \in {"next", "idle"}
      BY <1>3, <2>1 DEF Start, Finish, PublisherDies, IdlePub
    <3> QED
      BY <3>1
  <2>2. CASE Select(p)
    <3>1. pub'[p].pc \in {"next", "xadd"}
      BY <1>3, <2>2 DEF Select, PubType
    <3> QED
      BY <3>1
  <2>3. CASE Xadd(p)
    BY <1>3, <2>3 DEF Xadd, GiveUpRow, PubType
  <2>4. CASE XaddRejected(p) \/ MarkPublished(p) \/ MarkFails(p)
    BY <1>3, <2>4 DEF XaddRejected, MarkPublished, MarkFails, GiveUpRow, PubType
  <2>5. CASE HeartbeatFails(p)
    BY <1>3, <2>5 DEF HeartbeatFails, PubType
  <2> QED
    BY <2>1, <2>2, <2>3, <2>4, <2>5 DEF PublishStep, PublishFault
<1>7. ASSUME NEW q \in Publisher, whole', pub'[q].pc = "commit" PROVE pub'[q].cur \in ToSet(stream')
  BY <1>1, <1>2, <1>4, <1>6, <1>7
<1>8. PublishedIsInStream'
  BY <1>2, <1>4, <1>5 DEF PublishedIsInStream
<1> QED
  BY <1>7, <1>8

LEMMA RelayStep ==
  ASSUME RelayAssumption, Drain, RelayInv, [Next]_vars
  PROVE  RelayInv'
<1>0. CursorInv /\ Basics /\ CursorInv' /\ Fence!TypeOK' /\ stream \in Seq(Row) /\ NoOne \notin Replayer
      /\ RepTypes
  BY CursorStep, KindsOfSteps, TypesSplit
  DEF RelayInv, CursorInv, Basics, RelayAssumption, Fence!DistinctTokens, Fence!Exclusive
<1>1. /\ \A e \in Replayer : rep[e].pc = "locked" => rep[e].at.count = 0
      /\ \A e \in Replayer : AtWork(e) /\ rep[e].at.since = epoch => ReplayedBy(rep[e].at) \subseteq ToSet(stream)
      /\ \A p \in Publisher : whole /\ pub[p].pc = "commit" => pub[p].cur \in ToSet(stream)
      /\ PublishedIsInStream
  BY DEF RelayInv
<1>2. ASSUME Aside
      PROVE  /\ \A e \in Replayer : rep'[e].pc = "locked" => rep'[e].at.count = 0
             /\ \A e \in Replayer : AtWork(e)' /\ rep'[e].at.since = epoch' =>
                                       ReplayedBy(rep[e].at)' \subseteq ToSet(stream')
  <2>1. ASSUME NEW e \in Replayer
        PROVE  \/ rep'[e] = rep[e] /\ (owner' = e => owner = e)
               \/ rep'[e].pc \in {"idle", "locked"} /\ rep'[e].at.count = 0
    BY <1>2, <2>1 DEF Aside
  <2>2. ASSUME NEW e \in Replayer, AtWork(e)', rep'[e].at.since = epoch'
        PROVE  ReplayedBy(rep[e].at)' \subseteq ToSet(stream')
    <3>1. rep'[e] = rep[e] /\ AtWork(e)
      BY <2>1, <2>2 DEF AtWork
    <3>2. Shut
      BY <1>0, <3>1 DEF AtWork, Shut
    <3>3. stream' = stream /\ Published' = Published /\ epoch' = epoch
      BY <1>2, <3>2 DEF Aside
    <3>4. ReplayedBy(rep[e].at)' = ReplayedBy(rep[e].at)
      BY <3>1, <3>3 DEF ReplayedBy
    <3> QED
      BY <1>1, <2>2, <3>1, <3>3, <3>4
  <2> QED
    BY <1>1, <2>1, <2>2
<1>3. ASSUME NEW p \in Publisher, PublishStep(p) \/ PublishFault(p) PROVE RelayInv'
  <2>1. Aside
    BY <1>0, <1>3, StepOfPublisher
  <2> QED
    BY <1>0, <1>1, <1>2, <1>3, <2>1, CommitsFollow DEF RelayInv
<1>4. ASSUME Aside, UNCHANGED <<pub, stream, whole>>, Published' = Published PROVE RelayInv'
  BY <1>0, <1>1, <1>2, <1>4 DEF RelayInv, PublishedIsInStream
<1>5. CASE StreamLost \/ RedisFlushed
  <2>1. /\ epoch' = epoch + 1 /\ whole' = FALSE /\ rep' = rep
    BY <1>0, <1>5, StepOfLoss
  <2>2. \A e \in Replayer : rep[e].at.since \in Nat /\ rep[e].at.since <= epoch
    BY <1>0, CursorTypes DEF CursorInv, Basics, Reached
  <2>3. epoch \in Nat
    BY <1>0, CursorTypes DEF Basics
  <2>4. \A e \in Replayer : rep'[e].at.since # epoch'
    BY <2>1, <2>2, <2>3
  <2> QED
    BY <1>0, <1>1, <2>1, <2>4 DEF RelayInv, PublishedIsInStream
<1>6. ASSUME NEW e \in Replayer, Works(e) PROVE RelayInv'
  <2>1. /\ Published' = Published /\ pub' = pub /\ epoch' = epoch /\ owner' = owner
        /\ whole' = whole \/ Complete(e)
        /\ UNCHANGED <<stream, exists>> \/ Copy(e)
        /\ \A f \in Replayer \ {e} : rep'[f] = rep[f]
    BY <1>0, <1>6, StepOfWork, CopyIsAhead
  <2>2. ToSet(stream) \subseteq ToSet(stream')
    <3>1. CASE Copy(e)
      <4>1. PICK r : r = Min(rep[e].todo)
        OBVIOUS
      <4>2. r \in Row /\ stream' = Append(stream, r)
        BY <1>0, <3>1, <4>1, CopyIsAhead, RowCopied DEF Basics
      <4> QED
        BY <1>0, <4>2, Appended
    <3> QED
      BY <2>1, <3>1
  <2>3. ASSUME NEW f \in Replayer \ {e}, AtWork(f)', rep'[f].at.since = epoch'
        PROVE  ReplayedBy(rep[f].at)' \subseteq ToSet(stream')
    <3>1. rep'[f] = rep[f] /\ AtWork(f)
      BY <2>1, <2>3 DEF AtWork
    <3>2. ReplayedBy(rep[f].at)' = ReplayedBy(rep[f].at)
      BY <2>1, <3>1 DEF ReplayedBy
    <3> QED
      BY <1>1, <2>1, <2>2, <2>3, <3>1, <3>2
  <2>4. rep'[e].pc # "locked"
        /\ (AtWork(e)' /\ rep'[e].at.since = epoch' => ReplayedBy(rep[e].at)' \subseteq ToSet(stream'))
    <3>1. CASE Open(e)
      <4>1. /\ rep'[e].pc = "opened"
            /\ \/ rep'[e].at = rep[e].at
               \/ MayResume(e) /\ rep'[e].at = [ckpt EXCEPT !.since = epoch]
        BY <1>0, <3>1, CursorsOpened DEF Basics
      <4>2. stream' = stream /\ rep[e].pc = "locked"
        BY <3>1 DEF Open, streamVars
      <4>3. CASE rep'[e].at = rep[e].at
        <5>1. rep[e].at.after = 0
          BY <1>0, <1>1, <4>2 DEF CursorInv, Reached
        <5>2. ReplayedBy(rep[e].at) = {}
          BY <5>1, NothingReplayed
        <5>3. ReplayedBy(rep[e].at)' = {}
          BY <2>1, <4>3, <5>2 DEF ReplayedBy
        <5> QED
          BY <4>1, <5>3
      <4>4. CASE MayResume(e) /\ rep'[e].at = [ckpt EXCEPT !.since = epoch]
        <5>1. ReplayedBy(ckpt) \subseteq ToSet(stream)
          BY <1>0, <4>4, ResumedIsThere DEF MayResume
        <5>2. ckpt \in Cursor /\ epoch \in 0..MaxFaults
          BY <1>0, TypesSplit DEF Basics
        <5>3. rep'[e].at.after = ckpt.after /\ rep'[e].at.until = ckpt.until
          BY <4>4, <5>2, CursorTyped
        <5>4. ReplayedBy(rep[e].at)' = ReplayedBy(ckpt)
          BY <2>1, <5>3 DEF ReplayedBy
        <5> QED
          BY <4>1, <4>2, <5>1, <5>4
      <4> QED
        BY <4>1, <4>3, <4>4
    <3>2. CASE FirstCheckpoint(e) \/ Checkpoint(e) \/ Complete(e)
      <4>1. rep'[e].at = rep[e].at /\ rep'[e].pc \in {"fetch", "last", "done"} /\ AtWork(e)
        BY <1>0, <3>2, CursorSaved DEF Basics, AtWork
      <4>2. ReplayedBy(rep[e].at)' = ReplayedBy(rep[e].at)
        BY <2>1, <4>1 DEF ReplayedBy
      <4> QED
        BY <1>1, <2>1, <2>2, <4>1, <4>2
    <3>3. CASE Fetch(e)
      <4>1. rep'[e].at = rep[e].at /\ rep'[e].pc = "copy" /\ rep[e].pc = "fetch"
        BY <1>0, <3>3, BatchFetched DEF Basics
      <4>2. ReplayedBy(rep[e].at)' = ReplayedBy(rep[e].at) /\ (AtWork(e)' => AtWork(e))
        BY <2>1, <4>1 DEF ReplayedBy, AtWork
      <4> QED
        BY <1>1, <2>1, <2>2, <4>1, <4>2
    <3>4. CASE Copy(e)
      <4>1. PICK r : r = Min(rep[e].todo)
        OBVIOUS
      <4>2. r \in Row /\ stream' = Append(stream, r) /\ rep'[e].pc = "copy" /\ rep'[e].at.since = rep[e].at.since
        BY <1>0, <3>4, <4>1, CopyIsAhead, RowCopied DEF Basics
      <4>3. ToSet(stream') = ToSet(stream) \cup {r} /\ AtWork(e)
        BY <1>0, <3>4, <4>2, Appended, CopyIsAhead
      <4>4. ReplayedBy(rep[e].at)' = ReplayedBy(rep[e].at) \cup {r}
        BY <1>0, <3>4, <4>1, PassesOne
      <4> QED
        BY <1>1, <2>1, <4>2, <4>3, <4>4
    <3> QED
      BY <1>6, <3>1, <3>2, <3>3, <3>4 DEF Works
  <2>5. \A p \in Publisher : whole' /\ pub'[p].pc = "commit" => pub'[p].cur \in ToSet(stream')
    <3>1. CASE whole' = whole
      BY <1>1, <2>1, <2>2, <3>1
    <3>2. CASE Complete(e)
      <4>1. Shut
        BY <1>0, <3>2 DEF Complete, Save, Fence!SetStatus, Shut
      <4>2. \A p \in Publisher : pub[p].pc = "idle"
        BY <1>0, <4>1 DEF Basics, Quiet, Drained
      <4> QED
        BY <2>1, <4>2
    <3> QED
      BY <2>1, <3>1, <3>2
  <2>6. PublishedIsInStream'
    <3>1. CASE whole' = whole
      BY <1>1, <2>1, <2>2, <3>1 DEF PublishedIsInStream
    <3>2. CASE Complete(e) /\ whole' /\ ~whole
      <4>1. /\ rep[e].pc = "last" /\ owner = e
            /\ rep[e].at.since = epoch /\ \A r \in Published : r <= rep[e].at.until
        BY <3>2 DEF Complete, Save, Fence!SetStatus
      <4>2. AtWork(e) /\ Beyond(rep[e].at) = {}
        BY <1>0, <4>1 DEF AtWork, CursorInv, Batch
      <4>3. PICK c : c = rep[e].at
        OBVIOUS
      <4>4. c.after \in Nat /\ Published \subseteq Nat
        BY <1>0, <4>3, CursorTypes DEF CursorInv, Basics
      <4>5. ASSUME NEW x \in Published PROVE x \in ReplayedBy(c)
        <5>1. x \in Nat /\ x <= c.until /\ ~(x > c.after)
          BY <4>1, <4>2, <4>3, <4>4 DEF Beyond
        <5> QED
          BY <4>4, <5>1 DEF ReplayedBy
      <4>6. ReplayedBy(c) \subseteq ToSet(stream)
        BY <1>1, <4>1, <4>2, <4>3
      <4> QED
        BY <2>1, <2>2, <4>5, <4>6 DEF PublishedIsInStream
    <3> QED
      BY <2>1, <3>1, <3>2 DEF PublishedIsInStream
  <2> QED
    BY <1>0, <1>1, <2>1, <2>3, <2>4, <2>5, <2>6 DEF RelayInv
<1> QED
  BY <1>0, <1>3, <1>4, <1>5, <1>6, KindsOfSteps

LEMMA RelayInit == ASSUME RelayAssumption, Init PROVE RelayInv
<1>1. /\ CursorInv /\ owner = NoOne /\ stream = <<>>
      /\ row = [r \in Row |-> "absent"]
      /\ pub = [p \in Publisher |-> IdlePub] /\ rep = [e \in Replayer |-> IdleRep]
  BY CursorInit DEF Init, Fence!Init
<1>2. /\ \A e \in Replayer : rep[e].pc = "idle" /\ ~AtWork(e)
      /\ \A p \in Publisher : pub[p].pc = "idle"
      /\ Published = {}
  BY <1>1 DEF IdlePub, IdleRep, AtWork, Published
<1> QED
  BY <1>1, <1>2 DEF RelayInv, PublishedIsInStream

(***************************************************************************)
(* At-least-once for any number of rows, publishers, consumers and replay  *)
(* runs, any batch sizes and windows, and any number of crashes, lost      *)
(* leases, failed calls and losses: unless the Stream was lost and not     *)
(* recovered since, every published row is in it.                          *)
(***************************************************************************)
THEOREM AtLeastOnce == ASSUME Drain PROVE Spec => []PublishedIsInStream
<1>1. Init => RelayInv
  BY RelayAssumption, RelayInit
<1>2. RelayInv /\ [Next]_vars => RelayInv'
  BY RelayAssumption, RelayStep
<1>3. RelayInv => PublishedIsInStream
  BY DEF RelayInv
<1> QED
  BY <1>1, <1>2, <1>3, PTL DEF Spec

-----------------------------------------------------------------------------
(***************************************************************************)
(* Once without faults.                                                    *)
(***************************************************************************)
LEMMA AloneStep ==
  ASSUME RelayAssumption, Basics, Alone, [Next]_vars
  PROVE  Alone'
<1>1. replay \in Fence!ReplayStatus /\ members \subseteq Participant
  BY TypesSplit DEF Basics, Fence!TypeOK
<1>2. Fence!Next \/ UNCHANGED fenceVars
  BY <1>1, StepMaps DEF fenceVars, Fence!fenceVars
<1> QED
  BY <1>1, <1>2 DEF Alone, fenceVars, Fence!Next, Fence!Join, Fence!Open, Fence!MemberWrite, Fence!Acquire,
     Fence!OwnerWrite, Fence!SetStatus, Fence!Lapse, Fence!Flush

LEMMA AppendsOnce ==
  ASSUME NEW s \in Seq(Row), NEW r \in Row, r \notin ToSet(s),
         \A i, j \in 1..Len(s) : s[i] = s[j] => i = j
  PROVE  LET t == Append(s, r) IN \A i, j \in 1..Len(t) : t[i] = t[j] => i = j
<1>1. PICK t : t = Append(s, r)
  OBVIOUS
<1>2. /\ Len(t) = Len(s) + 1 /\ t[Len(s) + 1] = r /\ \A i \in 1..Len(s) : t[i] = s[i]
      /\ Len(s) \in Nat /\ DOMAIN s = 1..Len(s)
  BY <1>1
<1>3. \A i \in 1..Len(s) : s[i] # r
  BY <1>2, Zenon DEF ToSet
<1>4. \A i \in 1..Len(t) : i \in 1..Len(s) \/ i = Len(s) + 1
  BY <1>2
<1>5. ASSUME NEW i \in 1..Len(t), NEW j \in 1..Len(t), t[i] = t[j] PROVE i = j
  BY <1>2, <1>3, <1>4, <1>5, Zenon
<1> QED
  BY <1>1, <1>5

LEMMA CleanBesideRuns ==
  ASSUME RelayAssumption, Alone, Clean, owner = NoOne
  PROVE  replay # "running" /\ \A e \in Replayer : rep[e].pc = "idle" /\ rep[e].todo = {}
<1>1. NoOne \notin Replayer
  BY DEF RelayAssumption, Fence!DistinctTokens, Fence!Exclusive
<1> QED
  BY <1>1 DEF Clean, Idling

LEMMA CleanPublisher ==
  ASSUME RelayAssumption, CursorInv, Alone, Clean, faults = 0, faults' = 0,
         NEW p \in Publisher, PublishStep(p) \/ PublishFault(p)
  PROVE  Clean'
<1>0. /\ TypeOK /\ PubTypes /\ stream \in Seq(Row) /\ row \in [Row -> {"absent", "pending", "published"}]
      /\ Basics /\ pub[p] \in PubType /\ DOMAIN pub = Publisher /\ Row \subseteq Nat
  BY TypesSplit DEF CursorInv, Basics, PubTypes, Row, RelayAssumption
<1>1. /\ \A q \in Publisher \ {p} : pub'[q] = pub[q]
      /\ pub[p].pc = "idle" => Start(p)
  BY <1>0, PublisherMoves
<1>2. /\ row' = row \/ MarkPublished(p)
      /\ UNCHANGED <<stream, exists>> \/ Xadd(p)
      /\ UNCHANGED <<rep, replay>> /\ owner' = owner
  BY <1>0, PublisherWrites DEF Basics
<1>3. /\ \A q \in Publisher : Entered(q) /\ (Holding(q) => row[pub[q].cur] = "pending")
      /\ \A q, s \in Publisher : Holding(q) /\ Holding(s) /\ pub[q].cur = pub[s].cur => q = s
      /\ ToSet(stream) = Published \cup Committing
      /\ \A i, j \in 1..Len(stream) : stream[i] = stream[j] => i = j
  BY DEF Clean
<1>4. owner = NoOne /\ (pub[p].pc # "idle" => p \in members /\ ~pub[p].lost)
  BY <1>1, <1>3 DEF Entered, Alone, Start, Fence!Join, Fence!Open
<1>5. replay # "running" /\ \A e \in Replayer : rep[e].pc = "idle" /\ rep[e].todo = {}
  BY <1>4, CleanBesideRuns
<1>6. Fence!Open
  BY <1>4, <1>5 DEF Fence!Open
<1>7. (\A e \in Replayer : Idling(e)') /\ replay' # "running"
  BY <1>2, <1>5 DEF Idling
<1>8. ~Fault(1)
  BY DEF Fault
<1>9. Start(p) \/ Select(p) \/ Finish(p) \/ Xadd(p) \/ MarkPublished(p)
  <2>1. ~MarkFails(p) /\ ~PublisherDies(p)
    BY <1>8 DEF MarkFails, PublisherDies
  <2>2. ~HeartbeatFails(p)
    BY <1>4, <1>6, <1>8 DEF HeartbeatFails, Renewable
  <2>3. ~XaddRejected(p)
    BY <1>4, <1>6 DEF XaddRejected, Renewable
  <2> QED
    BY <2>1, <2>2, <2>3 DEF PublishStep, PublishFault
\* The publisher itself.
<1>10. Entered(p)' /\ \A q \in Publisher \ {p} : q \in members => q \in members'
  <2>1. CASE Start(p)
    BY <1>0, <2>1 DEF Start, Fence!Join, Entered, IdlePub
  <2>2. CASE Select(p)
    BY <1>0, <1>4, <2>2 DEF Select, Entered, fenceVars, PubType
  <2>3. CASE Finish(p)
    BY <1>0, <2>3 DEF Finish, Entered, IdlePub
  <2>4. CASE Xadd(p)
    BY <1>0, <1>4, <1>8, <2>4 DEF Xadd, Entered, Fence!MemberWrite, PubType
  <2>5. CASE MarkPublished(p)
    BY <1>0, <1>4, <2>5 DEF MarkPublished, GiveUpRow, Entered, fenceVars, PubType
  <2> QED
    BY <1>9, <2>1, <2>2, <2>3, <2>4, <2>5
<1>11. \A q \in Publisher : Entered(q)'
  BY <1>1, <1>3, <1>10 DEF Entered
\* What it holds, and what it leaves to the others.
<1>12. CASE Start(p) \/ Finish(p)
  <2>1. ~Holding(p)' /\ pub[p].pc # "commit" /\ pub'[p].pc # "commit"
    BY <1>0, <1>12 DEF Start, Finish, Holding, IdlePub
  <2>2. row' = row /\ stream' = stream
    BY <1>12 DEF Start, Finish, streamVars
  <2>3. Committing' = Committing
    BY <1>1, <2>1 DEF Committing
  <2>4. Published' = Published
    BY <2>2, PublishedSame
  <2> QED
    BY <1>1, <1>3, <1>7, <1>11, <2>1, <2>2, <2>3, <2>4 DEF Clean, Holding
<1>13. CASE Select(p)
  <2>1. PICK r : r = Min(Candidates(p))
    OBVIOUS
  <2>2. r \in Candidates(p)
    <3>1. Candidates(p) # {} /\ Candidates(p) \in SUBSET Nat
      BY <1>0, <1>13 DEF Select, Candidates
    <3> QED
      BY <2>1, <3>1, MinIsLeast
  <2>3. row[r] = "pending" /\ r \notin Locked
    BY <2>2 DEF Candidates
  <2>4. /\ pub'[p].cur = r /\ pub'[p].pc \in {"next", "xadd"} /\ pub[p].pc = "next"
        /\ row' = row /\ stream' = stream
    BY <1>0, <1>13, <2>1 DEF Select, streamVars, PubType
  <2>5. \A q \in Publisher : Holding(q) => pub[q].cur # r
    BY <2>3 DEF Locked, Holding
  <2>6. Committing' = Committing
    BY <1>1, <2>4 DEF Committing
  <2>7. Published' = Published
    BY <2>4, PublishedSame
  <2>8. \A q \in Publisher : Holding(q)' => row'[pub'[q].cur] = "pending"
    BY <1>1, <1>3, <2>3, <2>4 DEF Holding
  <2>9. \A q, s \in Publisher : Holding(q)' /\ Holding(s)' /\ pub'[q].cur = pub'[s].cur => q = s
    BY <1>1, <1>3, <2>4, <2>5 DEF Holding
  <2> QED
    BY <1>3, <1>7, <1>11, <2>4, <2>6, <2>7, <2>8, <2>9 DEF Clean
<1>14. CASE Xadd(p)
  <2>1. /\ pub[p].pc = "xadd" /\ pub'[p].pc = "commit" /\ pub'[p].cur = pub[p].cur
        /\ stream' = Append(stream, pub[p].cur) /\ row' = row
    BY <1>0, <1>4, <1>8, <1>14 DEF Xadd, relayRest, PubType
  <2>2. pub[p].cur \in Row
    BY <1>0, <2>1 DEF Basics, Holding
  <2>3. pub[p].cur \notin Published
    BY <1>3, <2>1 DEF Holding, Published
  <2>4. pub[p].cur \notin Committing
    <3>1. ASSUME NEW q \in Publisher, pub[q].pc = "commit", pub[q].cur = pub[p].cur PROVE FALSE
      BY <1>3, <2>1, <3>1 DEF Holding
    <3> QED
      BY <3>1 DEF Committing
  <2>5. ToSet(stream') = ToSet(stream) \cup {pub[p].cur}
    BY <1>0, <2>1, <2>2, Appended
  <2>6. Committing' = Committing \cup {pub[p].cur}
    BY <1>1, <2>1 DEF Committing
  <2>7. Published' = Published
    BY <2>1, PublishedSame
  <2>8. \A i, j \in 1..Len(stream') : stream'[i] = stream'[j] => i = j
    BY <1>0, <1>3, <2>1, <2>2, <2>3, <2>4, AppendsOnce
  <2>9. Holding(p) /\ \A q \in Publisher : Holding(q)' => Holding(q) /\ pub'[q].cur = pub[q].cur
    BY <1>1, <2>1 DEF Holding
  <2>10. \A q \in Publisher : Holding(q)' => row'[pub'[q].cur] = "pending"
    BY <1>3, <2>1, <2>9
  <2>11. \A q, s \in Publisher : Holding(q)' /\ Holding(s)' /\ pub'[q].cur = pub'[s].cur => q = s
    BY <1>3, <2>9
  <2>12. ToSet(stream') = Published' \cup Committing'
    BY <1>3, <2>5, <2>6, <2>7
  <2> QED
    BY <1>7, <1>11, <2>8, <2>10, <2>11, <2>12 DEF Clean
<1>15. CASE MarkPublished(p)
  <2>1. /\ pub[p].pc = "commit" /\ pub'[p].pc = "next"
        /\ row' = [row EXCEPT ![pub[p].cur] = "published"] /\ stream' = stream
    BY <1>0, <1>15 DEF MarkPublished, GiveUpRow, streamVars, PubType
  <2>2. pub[p].cur \in Row
    BY <1>0, <2>1 DEF Basics, Holding
  <2>3. Published' = Published \cup {pub[p].cur}
    BY <1>0, <2>1, <2>2 DEF Published
  <2>4. \A q \in Publisher : Holding(q)' => q # p /\ Holding(q) /\ pub'[q].cur = pub[q].cur
    BY <1>1, <2>1 DEF Holding
  <2>5. \A q \in Publisher : Holding(q)' => pub[q].cur # pub[p].cur
    BY <1>3, <2>1, <2>4 DEF Holding
  <2>6. \A q \in Publisher : Holding(q) => pub[q].cur \in Row
    BY <1>0 DEF Basics
  <2>7. \A q \in Publisher : Holding(q)' => row'[pub'[q].cur] = "pending"
    BY <1>0, <1>3, <2>1, <2>4, <2>5, <2>6
  <2>8. Committing' \cup {pub[p].cur} = Committing
    <3>1. ASSUME NEW x \in Committing' PROVE x \in Committing
      <4>1. PICK q \in Publisher : pub'[q].pc = "commit" /\ x = pub'[q].cur
        BY <3>1 DEF Committing
      <4>2. q # p /\ pub'[q] = pub[q]
        BY <1>1, <2>1, <4>1
      <4> QED
        BY <4>1, <4>2 DEF Committing
    <3>2. ASSUME NEW x \in Committing, x # pub[p].cur PROVE x \in Committing'
      <4>1. PICK q \in Publisher : pub[q].pc = "commit" /\ x = pub[q].cur
        BY <3>2 DEF Committing
      <4>2. q # p /\ pub'[q] = pub[q]
        BY <1>1, <3>2, <4>1
      <4> QED
        BY <4>1, <4>2 DEF Committing
    <3>3. pub[p].cur \in Committing
      BY <2>1 DEF Committing
    <3> QED
      BY <3>1, <3>2, <3>3
  <2>9. \A q, s \in Publisher : Holding(q)' /\ Holding(s)' /\ pub'[q].cur = pub'[s].cur => q = s
    BY <1>3, <2>4
  <2>10. ToSet(stream') = Published' \cup Committing'
    BY <1>3, <2>1, <2>3, <2>8
  <2> QED
    BY <1>3, <1>7, <1>11, <2>1, <2>7, <2>9, <2>10 DEF Clean
<1> QED
  BY <1>9, <1>12, <1>13, <1>14, <1>15

\* Nothing of the publishers' moves, except that some lease is not theirs.
LEMMA CleanFrame ==
  ASSUME RelayAssumption, Clean, UNCHANGED <<pub, stream>>,
         \A p \in Publisher : pub[p].pc # "idle" /\ p \in members => p \in members',
         \A r \in Row : row[r] # "absent" => row'[r] = row[r],
         \A p \in Publisher : Holding(p) => pub[p].cur \in Row,
         Published' = Published
  PROVE  /\ \A p \in Publisher : (Entered(p) /\ (Holding(p) => row[pub[p].cur] = "pending"))'
         /\ \A p, q \in Publisher : Holding(p)' /\ Holding(q)' /\ pub'[p].cur = pub'[q].cur => p = q
         /\ ToSet(stream') = Published' \cup Committing'
         /\ \A i, j \in 1..Len(stream') : stream'[i] = stream'[j] => i = j
<1>1. \A p \in Publisher : (Entered(p) /\ (Holding(p) => row[pub[p].cur] = "pending"))'
  BY DEF Clean, Entered, Holding
<1>2. Committing' = Committing /\ stream' = stream /\ \A p \in Publisher : Holding(p)' = Holding(p)
  BY DEF Committing, Holding
<1> QED
  BY <1>1, <1>2 DEF Clean

LEMMA CleanBeside ==
  ASSUME RelayAssumption, CursorInv, Alone, Clean, faults = 0, faults' = 0,
         \/ \E r \in Row : Insert(r)
         \/ \E c \in Consumer : ConsumerStep(c)
         \/ \E t \in Participant \cup Replayer : LeaseRunsOut(t)
         \/ UNCHANGED vars
  PROVE  Clean'
<1>0. Basics /\ row \in [Row -> {"absent", "pending", "published"}] /\ Fence!TypeOK
      /\ NoOne \notin Replayer /\ Participant \cap Replayer = {}
  BY TypesSplit DEF CursorInv, Basics, RelayAssumption, Fence!DistinctTokens, Fence!Exclusive
<1>1. ~Fault(1)
  BY DEF Fault
<1>2. UNCHANGED <<pub, stream, rep, replay>>
  BY DEF Insert, ConsumerStep, ConsumerStarts, EnsureGroup, ConsumerStops, LeaseRunsOut, vars, fenceVars,
     streamVars, Fence!Join, Fence!Lapse
<1>3. \A r \in Row : row[r] # "absent" => row'[r] = row[r]
  BY <1>0 DEF Insert, ConsumerStep, ConsumerStarts, EnsureGroup, ConsumerStops, LeaseRunsOut, vars
<1>4. Published' = Published
  BY <1>0 DEF Published, Insert, ConsumerStep, ConsumerStarts, EnsureGroup, ConsumerStops, LeaseRunsOut, vars
<1>5. /\ \A p \in Publisher : pub[p].pc # "idle" /\ p \in members => p \in members'
      /\ owner' = owner \/ (owner' = NoOne /\ \A e \in Replayer : rep[e].pc # "idle" => owner # e)
  <2>1. CASE (\E r \in Row : Insert(r)) \/ UNCHANGED vars
    BY <2>1 DEF Insert, vars, fenceVars
  <2>2. ASSUME NEW c \in Consumer, ConsumerStep(c) PROVE <1>5
    <3>1. c \notin Publisher
      BY DEF RelayAssumption
    <3> QED
      BY <2>2, <3>1 DEF ConsumerStep, ConsumerStarts, EnsureGroup, ConsumerStops, fenceVars, Fence!Join
  <2>3. ASSUME NEW t \in Participant \cup Replayer, LeaseRunsOut(t) PROVE <1>5
    <3>1. ~Alive(t)
      BY <1>1, <2>3 DEF LeaseRunsOut
    <3>2. \A p \in Publisher : pub[p].pc # "idle" => p # t
      BY <3>1 DEF Alive
    <3>3. \A e \in Replayer : rep[e].pc # "idle" => e # t
      BY <3>1 DEF Alive
    <3> QED
      BY <2>3, <3>2, <3>3 DEF LeaseRunsOut
  <2> QED
    BY <2>1, <2>2, <2>3
<1>6. (\A e \in Replayer : Idling(e)') /\ (replay' = "running" => \E e \in Replayer : owner' = e /\ rep'[e].pc \in {"fetch", "copy", "last"})
  <2>1. \A e \in Replayer : Idling(e)
    BY DEF Clean
  <2>2. replay = "running" => \E e \in Replayer : owner = e /\ rep[e].pc \in {"fetch", "copy", "last"}
    BY DEF Clean
  <2>3. \A e \in Replayer : rep[e].pc # "idle" => owner' = owner
    BY <1>5, <2>1 DEF Idling
  <2> QED
    BY <1>2, <1>4, <2>1, <2>2, <2>3 DEF Idling
<1> QED
  BY <1>0, <1>2, <1>3, <1>4, <1>5, <1>6, CleanFrame DEF Clean, Basics

LEMMA CleanReplay ==
  ASSUME RelayAssumption, CursorInv, Alone, Clean, faults = 0, faults' = 0,
         NEW e \in Replayer, ReplayStep(e)
  PROVE  Clean'
<1>0. /\ Basics /\ TypeOK /\ RepTypes /\ rep[e] \in RepType /\ DOMAIN rep = Replayer /\ NoOne \notin Replayer
      /\ stream \in Seq(Row) /\ Row \subseteq Nat
  BY TypesSplit DEF CursorInv, Basics, RelayAssumption, Fence!DistinctTokens, Fence!Exclusive, RepTypes, Row
<1>1. ~Fault(1)
  BY DEF Fault
<1>2. /\ \A f \in Replayer : Idling(f)
      /\ replay = "running" => \E f \in Replayer : owner = f /\ rep[f].pc \in {"fetch", "copy", "last"}
      /\ ToSet(stream) = Published \cup Committing
  BY DEF Clean
<1>3. ~Copy(e) /\ ~ReplayerDies(e)
  BY <1>1, <1>2 DEF Copy, Idling, ReplayerDies
<1>4. UNCHANGED <<row, pub, con, stream, exists>> /\ members' = members
  <2>1. CASE \E u \in Windows : Begin(e, u)
    BY <2>1 DEF Begin, Fence!Acquire, replayRest, streamVars
  <2>2. CASE Open(e) \/ Fetch(e)
    BY <2>2 DEF Open, Fetch, Fetched, Fence!SetStatus, replayRest, streamVars, fenceVars
  <2>3. CASE FirstCheckpoint(e) \/ Checkpoint(e) \/ Complete(e)
    BY <2>3 DEF FirstCheckpoint, Checkpoint, Complete, Save, Fence!SetStatus, replayRest, streamVars
  <2>4. CASE Leave(e)
    BY <2>4 DEF Leave, Fence!Lapse, replayRest, streamVars
  <2> QED
    BY <1>3, <2>1, <2>2, <2>3, <2>4 DEF ReplayStep
<1>5. Published' = Published
  BY <1>4, PublishedSame
\* The runs.
<1>6. /\ \A f \in Replayer : Idling(f)'
      /\ replay' = "running" => \E f \in Replayer : owner' = f /\ rep'[f].pc \in {"fetch", "copy", "last"}
  <2>1. ASSUME NEW u \in Windows, Begin(e, u) PROVE <1>6
    <3>1. owner = NoOne /\ owner' = e /\ replay' = replay
      BY <2>1 DEF Begin, Fence!Acquire
    <3>2. replay # "running" /\ \A f \in Replayer : rep[f].pc = "idle" /\ rep[f].todo = {}
      BY <3>1, CleanBesideRuns
    <3>3. rep'[e].pc = "locked" /\ \A f \in Replayer \ {e} : rep'[f] = rep[f]
      BY <1>0, <2>1, Begun
    <3>4. rep'[e].todo = {}
      <4>1. PICK n : n = [NoCursor EXCEPT !.until = u, !.since = epoch]
        OBVIOUS
      <4>2. PICK v : v = [IdleRep EXCEPT !.pc = "locked", !.at = n]
        OBVIOUS
      <4>3. rep' = [rep EXCEPT ![e] = v]
        BY <2>1, <4>1, <4>2 DEF Begin
      <4> QED
        BY <1>0, <4>2, <4>3 DEF IdleRep
    <3> QED
      BY <3>1, <3>2, <3>3, <3>4 DEF Idling
  <2>2. ASSUME rep[e].pc # "idle", owner' = owner,
               \A f \in Replayer \ {e} : rep'[f] = rep[f],
               rep'[e].pc \in {"opened", "fetch", "copy", "last", "done"}, rep'[e].todo = {},
               rep[e].pc # "locked" \/ stream = <<>>, rep[e].pc # "done",
               replay' = "running" => rep'[e].pc \in {"fetch", "copy", "last"}
        PROVE  <1>6
    <3>1. owner = e
      BY <1>2, <2>2 DEF Idling
    <3>2. \A f \in Replayer \ {e} : rep[f].pc = "idle"
      BY <1>2, <3>1 DEF Idling
    <3>3. stream = <<>> /\ Published = {}
      <4>1. CASE stream = <<>>
        <5>1. ToSet(stream) = {}
          BY <4>1, NothingIn
        <5> QED
          BY <1>2, <4>1, <5>1
      <4>2. CASE rep[e].pc \in {"opened", "fetch", "copy", "last"}
        BY <1>2, <4>2 DEF Idling
      <4> QED
        BY <1>0, <2>2, <4>1, <4>2 DEF RepType
    <3> QED
      BY <1>2, <1>4, <1>5, <2>2, <3>1, <3>2, <3>3 DEF Idling
  <2>3. CASE Open(e)
    <3>1. rep[e].pc = "locked" /\ owner = e /\ rep[e].todo = {}
      BY <1>2, <2>3 DEF Open, Idling
    <3>2. replay # "running"
      BY <1>2, <3>1
    <3>3. /\ rep'[e].pc = "opened" /\ \A f \in Replayer \ {e} : rep'[f] = rep[f]
          /\ owner' = owner /\ replay' # "running"
      BY <1>0, <2>3, <3>2, CursorsOpened
    <3>4. ~exists /\ Move(e, "opened")
      BY <2>3, <3>2 DEF Open, MayStartFresh, MayReset, MayResume
    <3>5. rep'[e].todo = {}
      BY <1>0, <3>1, <3>4, RepMoves DEF Move
    <3>6. stream = <<>>
      BY <1>0, <3>4 DEF Basics
    <3> QED
      BY <2>2, <3>1, <3>3, <3>5, <3>6
  <2>4. CASE FirstCheckpoint(e) \/ Checkpoint(e) \/ Complete(e)
    <3>1. /\ owner = e /\ owner' = owner /\ rep'[e].todo = rep[e].todo /\ rep'[e].last = rep[e].last
          /\ \A f \in Replayer \ {e} : rep'[f] = rep[f]
          /\ rep[e].pc \in {"opened", "copy", "last"}
          /\ \/ rep'[e].pc \in {"fetch", "last"}
             \/ rep'[e].pc = "done" /\ replay' = "completed"
      BY <1>0, <2>4, CursorSaved
    <3>2. rep[e].todo = {}
      BY <1>2 DEF Idling
    <3> QED
      BY <2>2, <3>1, <3>2
  <2>5. CASE Fetch(e)
    <3>1. /\ rep[e].pc = "fetch" /\ rep'[e].pc = "copy" /\ rep'[e].todo = NextBatch(rep[e].at)
          /\ \A f \in Replayer \ {e} : rep'[f] = rep[f]
          /\ owner' = owner
      BY <1>0, <2>5, BatchFetched DEF fenceVars
    <3>2. Published = {}
      BY <1>2, <3>1 DEF Idling
    <3>3. rep'[e].todo = {}
      BY <3>1, <3>2 DEF NextBatch, FirstRows, Beyond
    <3> QED
      BY <2>2, <3>1, <3>3
  <2>6. CASE Leave(e)
    <3>1. rep[e].pc # "idle" /\ Refused(e) /\ owner' = (IF owner = e THEN NoOne ELSE owner) /\ replay' = replay
      BY <1>1, <2>6 DEF Leave, Fence!Lapse
    <3>2. owner = e /\ rep[e].pc \in {"done", "locked"}
      BY <1>2, <3>1 DEF Idling, Refused
    <3>3. replay # "running"
      BY <1>2, <3>2
    <3>4. rep' = [rep EXCEPT ![e] = IdleRep]
      BY <2>6 DEF Leave
    <3>5. rep'[e].pc = "idle" /\ rep'[e].todo = {} /\ \A f \in Replayer \ {e} : rep'[f] = rep[f]
      BY <1>0, <3>4 DEF IdleRep
    <3>6. \A f \in Replayer \ {e} : rep[f].pc = "idle"
      BY <1>2, <3>2 DEF Idling
    <3> QED
      BY <1>2, <3>1, <3>3, <3>5, <3>6 DEF Idling
  <2> QED
    BY <1>3, <2>1, <2>3, <2>4, <2>5, <2>6 DEF ReplayStep
<1> QED
  BY <1>0, <1>4, <1>5, <1>6, CleanFrame DEF Clean, Basics

LEMMA OnceStep ==
  ASSUME RelayAssumption, OnceInv, [Next]_vars
  PROVE  OnceInv'
<1>0. CursorInv /\ Basics /\ Alone /\ CursorInv' /\ Alone'
  BY CursorStep, AloneStep DEF OnceInv, CursorInv
<1>1. ASSUME faults' = 0 PROVE Clean'
  <2>1. faults \in Nat
    BY <1>0, TypesSplit DEF Basics, RelayAssumption
  <2>2. ~StreamLost /\ ~RedisFlushed
    BY <1>1, <2>1 DEF StreamLost, RedisFlushed, Fault
  <2>3. faults = 0
    <3>1. ASSUME NEW n \in {0, 1}, Fault(n) PROVE faults = 0
      BY <1>1, <2>1, <3>1 DEF Fault
    <3>2. ASSUME NEW p \in Publisher, PublishStep(p) \/ PublishFault(p) PROVE faults = 0
      <4>1. faults' \in faults..MaxFaults
        BY <1>0, <3>2, PublisherWrites DEF Basics
      <4> QED
        BY <1>1, <2>1, <4>1
    <3>3. ASSUME NEW e \in Replayer, ReplayStep(e) PROVE faults = 0
      BY <1>1, <3>1, <3>3 DEF ReplayStep, Begin, Open, FirstCheckpoint, Fetch, Fetched, Copy, Checkpoint, Complete,
         Leave, ReplayerDies
    <3>4. ASSUME NEW t \in Participant \cup Replayer, LeaseRunsOut(t) PROVE faults = 0
      BY <3>1, <3>4 DEF LeaseRunsOut
    <3>5. CASE (\E r \in Row : Insert(r)) \/ (\E c \in Consumer : ConsumerStep(c)) \/ UNCHANGED vars
      BY <1>1, <3>5 DEF Insert, ConsumerStep, ConsumerStarts, EnsureGroup, ConsumerStops, vars
    <3> QED
      BY <2>2, <3>2, <3>3, <3>4, <3>5 DEF Next
  <2>4. Clean
    BY <2>3 DEF OnceInv
  <2> QED
    BY <1>0, <1>1, <2>2, <2>3, <2>4, CleanPublisher, CleanBeside, CleanReplay DEF Next
<1> QED
  BY <1>0, <1>1 DEF OnceInv

LEMMA OnceInit == ASSUME RelayAssumption, Init PROVE OnceInv
<1>1. /\ CursorInv /\ stream = <<>> /\ members = {} /\ replay = "none"
      /\ row = [r \in Row |-> "absent"]
      /\ pub = [p \in Publisher |-> IdlePub] /\ rep = [e \in Replayer |-> IdleRep]
  BY CursorInit DEF Init, Fence!Init
<1>2. ToSet(stream) = {} /\ Len(stream) = 0
  BY <1>1, NothingIn
<1>3. /\ \A e \in Replayer : Idling(e)
      /\ \A p \in Publisher : Entered(p) /\ ~Holding(p)
      /\ Published = {} /\ Committing = {}
  BY <1>1 DEF IdlePub, IdleRep, Idling, Entered, Holding, Published, Committing
<1> QED
  BY <1>1, <1>2, <1>3 DEF OnceInv, Alone, Clean

(***************************************************************************)
(* As long as nothing fails, no row is in the Stream twice, for any number *)
(* of publishers and rows, and although replays may run between them.      *)
(***************************************************************************)
THEOREM OnceOnly == Spec => []OnceWithoutFaults
<1>1. Init => OnceInv
  BY RelayAssumption, OnceInit
<1>2. OnceInv /\ [Next]_vars => OnceInv'
  BY RelayAssumption, OnceStep
<1>3. OnceInv => OnceWithoutFaults
  BY DEF OnceInv, Clean, OnceWithoutFaults
<1> QED
  BY <1>1, <1>2, <1>3, PTL DEF Spec

-----------------------------------------------------------------------------
(***************************************************************************)
(* Saved progress verifies.                                                *)
(***************************************************************************)
LEMMA ThereWhenResumable ==
  ASSUME RelayAssumption, Basics, NEW c \in Cursor, Reached(c), Resumable(c)
  PROVE  ReplayedBy(c) \subseteq ToSet(stream)
<1>0. stream \in Seq(Row) /\ Len(stream) \in Nat /\ c.count \in Nat
  BY CursorTypes DEF Basics
<1>1. CASE c.count > 0
  <2>1. c.epoch = epoch /\ ToSet(SubSeq(stream, 1, c.pos)) = ReplayedBy(c)
    BY <1>1 DEF Resumable, verify_replayed_prefix, compare_replayed_prefix
  <2>2. c.pos \in 0..Len(stream)
    BY <1>0, <1>1, <2>1 DEF Reached
  <2> QED
    BY <1>0, <2>1, <2>2, PrefixOf
<1>2. CASE c.count = 0
  BY <1>2, NothingReplayed DEF Reached
<1> QED
  BY <1>0, <1>1, <1>2

LEMMA PrefixStays ==
  ASSUME NEW s \in Seq(Row), NEW r \in Row
  PROVE  /\ \A n \in 0..Len(s) : SubSeq(Append(s, r), 1, n) = SubSeq(s, 1, n)
         /\ SubSeq(s, 1, Len(s)) = s
<1>1. PICK t : t = Append(s, r)
  OBVIOUS
<1>2. t \in Seq(Row) /\ Len(t) = Len(s) + 1 /\ \A i \in 1..Len(s) : t[i] = s[i]
  BY <1>1
<1>3. ASSUME NEW n \in 0..Len(s) PROVE SubSeq(t, 1, n) = SubSeq(s, 1, n)
  <2>1. PICK u, v : u = SubSeq(t, 1, n) /\ v = SubSeq(s, 1, n)
    OBVIOUS
  <2>2. /\ u \in Seq(Row) /\ v \in Seq(Row) /\ Len(u) = n /\ Len(v) = n
        /\ \A i \in 1..n : u[i] = t[i] /\ v[i] = s[i]
    BY <1>2, <2>1
  <2>3. \A i \in 1..n : u[i] = v[i]
    BY <1>2, <2>2
  <2>4. u = v
    BY <2>2, <2>3
  <2> QED
    BY <2>1, <2>4
<1>4. SubSeq(s, 1, Len(s)) = s
  OBVIOUS
<1> QED
  BY <1>1, <1>3, <1>4

LEMMA NothingFollows ==
  ASSUME NEW s, s = <<>>, NEW batch
  PROVE  Follows(s, {}, batch)
<1>1. ToSet(s) = {} /\ DOMAIN s = {}
  <2>1. ToSet(s) = {}
    BY NothingIn
  <2>2. DOMAIN s = {}
    OBVIOUS
  <2> QED
    BY <2>1, <2>2
<1>2. InOrder(s)
  BY <1>1 DEF InOrder
<1> QED
  BY <1>1, <1>2 DEF Follows

\* Appending the least of the batch, which no passed row exceeds.
LEMMA FollowsOn ==
  ASSUME RelayAssumption, NEW s \in Seq(Row), NEW P \in SUBSET Row, NEW T \in SUBSET Row, NEW r \in T,
         \A t \in T : r <= t, \A x \in P : x < r, Follows(s, P, T)
  PROVE  Follows(Append(s, r), P \cup {r}, T \ {r})
<1>0. Row \subseteq Nat /\ r \in Row /\ r \in Nat
  BY DEF Row, RelayAssumption
<1>1. PICK t : t = Append(s, r)
  OBVIOUS
<1>2. /\ Len(s) \in Nat /\ Len(t) = Len(s) + 1 /\ t[Len(s) + 1] = r /\ \A i \in 1..Len(s) : t[i] = s[i]
      /\ DOMAIN s = 1..Len(s) /\ DOMAIN t = 1..(Len(s) + 1)
      /\ \A i \in 1..Len(s) : s[i] \in Row
  BY <1>0, <1>1
<1>3. ToSet(t) = ToSet(s) \cup {r} /\ ToSet(s) \subseteq Row /\ \A i \in 1..Len(s) : s[i] \in ToSet(s)
  <2>1. \A i \in 1..Len(s) : s[i] \in ToSet(s)
    BY <1>2, Zenon DEF ToSet
  <2> QED
    BY <1>0, <1>1, <2>1, Appended
<1>4. /\ InOrder(s) /\ P \subseteq ToSet(s) /\ ToSet(s) \subseteq P \cup T
      /\ \A x \in ToSet(s), q \in T : q < x => q \in ToSet(s)
  BY DEF Follows
<1>5. ASSUME NEW x \in ToSet(t), NEW q \in T \ {r}, q < x PROVE q \in ToSet(t)
  <2>1. CASE x \in ToSet(s)
    BY <1>3, <1>4, <1>5, <2>1
  <2>2. x # r
    <3>1. q \in Nat /\ r <= q
      BY <1>0
    <3> QED
      BY <1>0, <1>5, <3>1
  <2> QED
    BY <1>3, <2>1, <2>2
<1>6. ASSUME NEW i \in 1..(Len(s) + 1), NEW j \in 1..(Len(s) + 1), FirstAt(t, i), FirstAt(t, j), i < j
      PROVE  t[i] < t[j]
  <2>1. i \in 1..Len(s) /\ t[i] = s[i]
    BY <1>2, <1>6
  <2>2. CASE j \in 1..Len(s)
    <3>1. FirstAt(s, i) /\ FirstAt(s, j)
      <4>1. ASSUME NEW k \in 1..Len(s), FirstAt(t, k) PROVE FirstAt(s, k)
        <5>1. \A m \in 1..(k - 1) : m \in 1..Len(s)
          BY <1>2
        <5> QED
          BY <1>2, <4>1, <5>1 DEF FirstAt
      <4> QED
        BY <1>6, <2>1, <2>2, <4>1
    <3>2. s[i] < s[j]
      BY <1>2, <1>4, <1>6, <2>1, <2>2, <3>1 DEF InOrder
    <3> QED
      BY <1>2, <2>1, <2>2, <3>2
  <2>3. CASE j = Len(s) + 1
    <3>1. r \notin ToSet(s)
      <4>1. \A k \in 1..(j - 1) : t[k] # t[j]
        BY <1>6 DEF FirstAt
      <4>2. \A k \in 1..Len(s) : s[k] # r
        BY <1>2, <2>3, <4>1
      <4> QED
        BY <1>2, <4>2, Zenon DEF ToSet
    <3>2. s[i] \in ToSet(s) /\ s[i] \in Nat
      BY <1>0, <1>2, <1>3, <2>1
    <3>3. s[i] \in T => s[i] = r
      BY <1>0, <1>4, <3>1, <3>2
    <3>4. s[i] < r
      BY <1>4, <3>1, <3>2, <3>3
    <3> QED
      BY <1>2, <2>1, <2>3, <3>4
  <2> QED
    BY <2>2, <2>3
<1>7. InOrder(t)
  BY <1>2, <1>6 DEF InOrder
<1>8. Follows(t, P \cup {r}, T \ {r})
  BY <1>3, <1>4, <1>5, <1>7 DEF Follows
<1> QED
  BY <1>1, <1>8

\* With the batch copied, the next one follows.
LEMMA FollowsNext ==
  ASSUME RelayAssumption, Basics, NEW c \in Cursor, Neat(c, {})
  PROVE  Neat(c, NextBatch(c)) /\ ToSet(stream) = ReplayedBy(c)
<1>0. Published \subseteq Nat /\ c.after \in Nat
  BY CursorTypes DEF Basics
<1>1. /\ InOrder(stream) /\ ToSet(stream) = ReplayedBy(c)
  BY DEF Neat, Follows
<1>2. NextBatch(c) \subseteq Beyond(c)
  BY DEF NextBatch, FirstRows
<1>3. ASSUME NEW x \in ToSet(stream), NEW q \in NextBatch(c) PROVE ~(q < x)
  <2>1. x \in Nat /\ x <= c.after
    BY <1>0, <1>1 DEF ReplayedBy
  <2>2. q \in Nat /\ q > c.after
    BY <1>0, <1>2 DEF Beyond
  <2> QED
    BY <1>0, <2>1, <2>2
<1>4. Neat(c, NextBatch(c))
  BY <1>1, <1>3 DEF Neat, Follows
<1> QED
  BY <1>1, <1>4

\* The values of the claims about one run.
LEMMA SoundFrame ==
  ASSUME NEW e \in Replayer, UNCHANGED <<stream, exists, epoch>>, ckpt' = ckpt, Published' = Published,
         rep'[e] = rep[e], Sound(e), Ahead(e)
  PROVE  Sound(e)' /\ Ahead(e)'
<1>1. \A c : /\ ReplayedBy(c)' = ReplayedBy(c) /\ NextBatch(c)' = NextBatch(c)
             /\ Resumable(c)' = Resumable(c)
  BY DEF ReplayedBy, NextBatch, Beyond, Resumable, verify_replayed_prefix, compare_replayed_prefix
<1> QED
  BY <1>1 DEF Sound, Ahead, Missing, Neat

\* Both kinds of claims stay when neither the Stream nor the checkpoint changes.
LEMMA ReplayFrame ==
  ASSUME ReplayInv, RelayInv', UNCHANGED <<stream, exists, epoch>>, ckpt' = ckpt, replay' = replay,
         Published' = Published,
         \A e \in Replayer : AtWork(e)' => (AtWork(e) /\ rep'[e] = rep[e]) \/ (Sound(e)' /\ Ahead(e)')
  PROVE  ReplayInv'
<1>1. \A e \in Replayer : AtWork(e)' => Sound(e)' /\ Ahead(e)'
  BY SoundFrame DEF ReplayInv
<1>2. \A c : /\ ReplayedBy(c)' = ReplayedBy(c) /\ NextBatch(c)' = NextBatch(c)
             /\ Resumable(c)' = Resumable(c)
  BY DEF ReplayedBy, NextBatch, Beyond, Resumable, verify_replayed_prefix, compare_replayed_prefix
<1>3. /\ Resumable(ckpt)' = Resumable(ckpt)
      /\ Neat(ckpt, NextBatch(ckpt))' = Neat(ckpt, NextBatch(ckpt))
  BY <1>2 DEF Neat
<1>4. (replay' = "running" /\ Resumable(ckpt)' => Neat(ckpt, NextBatch(ckpt))') /\ SavedProgressVerifies'
  BY <1>3 DEF ReplayInv, SavedProgressVerifies
<1> QED
  BY <1>1, <1>4 DEF ReplayInv

LEMMA AsideKeepsReplay ==
  ASSUME RelayAssumption, Drain, ReplayInv, RelayInv', Aside
  PROVE  ReplayInv'
<1>0. NoOne \notin Replayer
  BY DEF RelayAssumption, Fence!DistinctTokens, Fence!Exclusive
<1>1. \A e \in Replayer : AtWork(e)' => AtWork(e) /\ rep'[e] = rep[e]
  BY DEF Aside, AtWork
<1>2. CASE Shut
  <2>1. UNCHANGED <<stream, exists, epoch>> /\ ckpt' = ckpt /\ replay' = replay /\ Published' = Published
    BY <1>2 DEF Aside
  <2> QED
    BY <1>1, <2>1, ReplayFrame
<1>3. CASE ~Shut
  <2>1. owner = NoOne /\ replay' # "running"
    BY <1>3 DEF Shut, Aside
  <2>2. \A e \in Replayer : ~AtWork(e)'
    BY <1>0, <1>1, <2>1 DEF AtWork
  <2> QED
    BY <2>1, <2>2 DEF ReplayInv, SavedProgressVerifies
<1> QED
  BY <1>2, <1>3

LEMMA LossKeepsReplay ==
  ASSUME RelayAssumption, ReplayInv, RelayInv', Fence!TypeOK', StreamLost \/ RedisFlushed
  PROVE  ReplayInv'
<1>0. /\ Basics /\ ckpt \in Cursor /\ \A e \in Replayer : rep[e].at \in Cursor
      /\ epoch \in Nat /\ \A c \in Cursor : c.epoch \in Nat /\ c.since \in Nat /\ c.count \in Nat
      /\ NoOne \notin Replayer
  BY CursorTypes DEF ReplayInv, RelayInv, CursorInv, Basics, RelayAssumption, Fence!DistinctTokens, Fence!Exclusive
<1>1. /\ stream' = <<>> /\ exists' = FALSE /\ epoch' = epoch + 1
      /\ rep' = rep /\ Published' = Published
      /\ \/ UNCHANGED <<ckpt, owner, replay>>
         \/ ckpt' = NoCursor /\ owner' = NoOne /\ replay' = "none"
  BY <1>0, StepOfLoss
<1>2. /\ Reached(ckpt) /\ \A e \in Replayer : Reached(rep[e].at)
      /\ \A e \in Replayer : AtWork(e) => Sound(e) /\ Ahead(e)
  BY DEF ReplayInv, RelayInv, CursorInv
<1>3. ToSet(stream') = {} /\ \A batch : Follows(stream', {}, batch)
  BY <1>1, NothingIn, NothingFollows
<1>4. ASSUME NEW e \in Replayer, AtWork(e)' PROVE Sound(e)' /\ Ahead(e)'
  <2>1. AtWork(e) /\ UNCHANGED <<ckpt, owner, replay>>
    BY <1>0, <1>1, <1>4 DEF AtWork
  <2>2. rep'[e] = rep[e] /\ rep[e].at \in Cursor /\ Reached(rep[e].at)
    BY <1>0, <1>1, <1>2
  <2>3. rep'[e].at.since # epoch' /\ ckpt'.epoch # epoch'
    BY <1>0, <1>1, <1>2, <2>1, <2>2 DEF Reached
  <2>4. ReplayedBy(rep[e].at)' = {} => \A batch : Follows(stream', ReplayedBy(rep[e].at)', batch)
    BY <1>3
  <2>5. Missing(rep[e].at)' \/ ReplayedBy(rep[e].at)' = {}
    BY <1>3 DEF Missing
  <2>6. Sound(e)'
    BY <2>3, <2>4, <2>5 DEF Sound, Neat
  <2>7. /\ NextBatch(ckpt)' = NextBatch(ckpt)
    BY <1>1, <2>1 DEF NextBatch, Beyond
  <2>8. Ahead(e)
    BY <1>2, <2>1
  <2>9. Ahead(e)'
    BY <2>1, <2>2, <2>3, <2>7, <2>8 DEF Ahead
  <2> QED
    BY <2>6, <2>9
<1>5. ASSUME replay' = "running" PROVE SavedProgressVerifies' /\ (Resumable(ckpt)' => Neat(ckpt, NextBatch(ckpt))')
  <2>1. ckpt' = ckpt
    BY <1>1, <1>5
  <2>2. ckpt'.since # epoch'
    BY <1>0, <1>1, <1>2, <2>1 DEF Reached
  <2>3. ASSUME Resumable(ckpt)' PROVE Neat(ckpt, NextBatch(ckpt))'
    <3>1. ckpt.count = 0
      BY <1>0, <1>1, <2>1, <2>3 DEF Resumable
    <3>2. ckpt'.after = 0
      BY <1>2, <2>1, <3>1 DEF Reached
    <3>3. ReplayedBy(ckpt)' = {}
      BY <3>2 DEF ReplayedBy, Published, Row, RelayAssumption
    <3> QED
      BY <1>3, <3>3 DEF Neat
  <2> QED
    BY <2>2, <2>3 DEF SavedProgressVerifies
<1>6. replay' # "running" => SavedProgressVerifies'
  BY DEF SavedProgressVerifies
<1> QED
  BY <1>4, <1>5, <1>6 DEF ReplayInv

\* A run's claims about the Stream when neither changed.
LEMMA SavedIsSound ==
  ASSUME RelayAssumption, ReplayInv, NEW e \in Replayer, AtWork(e)
  PROVE  LET at == rep[e].at IN
         /\ at \in Cursor /\ Reached(at) /\ Basics
         /\ Resumable(at) => ~Missing(at)
         /\ rep[e].pc = "copy" /\ rep[e].todo = {} /\ ~Missing(at) => Neat(at, NextBatch(at))
         /\ at.since = epoch => ~Missing(at)
         /\ at.since = epoch /\ at.count > 0 /\ (rep[e].pc = "copy" => rep[e].todo = {}) => Resumable(at)
<1>0. rep[e].at \in Cursor /\ Reached(rep[e].at) /\ Basics /\ Sound(e) /\ stream \in Seq(Row) /\ Len(stream) \in Nat
  BY CursorTypes DEF ReplayInv, RelayInv, CursorInv, Basics
<1>1. PICK c : c = rep[e].at
  OBVIOUS
<1>2. Resumable(c) => ~Missing(c)
  BY <1>0, <1>1, ThereWhenResumable DEF Missing
<1>3. rep[e].pc = "copy" /\ rep[e].todo = {} /\ ~Missing(c) => Neat(c, {})
  BY <1>0, <1>1 DEF Sound
<1>4. Neat(c, {}) => Neat(c, NextBatch(c)) /\ ToSet(stream) = ReplayedBy(c)
  BY <1>0, <1>1, FollowsNext
<1>5. c.since = epoch => ~Missing(c)
  BY <1>1 DEF ReplayInv, RelayInv, Missing
<1>6. ASSUME c.since = epoch, c.count > 0, rep[e].pc = "copy" => rep[e].todo = {}
      PROVE  Resumable(c)
  <2>1. /\ exists /\ c.epoch = epoch /\ stream[c.pos] = c.after
        /\ c.count = Cardinality(ReplayedBy(c))
        /\ Resumable(c) \/ (rep[e].pc = "copy" /\ c.pos = Len(stream))
    BY <1>0, <1>1, <1>6 DEF Sound
  <2>2. CASE rep[e].pc = "copy" /\ c.pos = Len(stream)
    <3>1. Neat(c, {}) /\ ToSet(stream) = ReplayedBy(c)
      BY <1>3, <1>4, <1>5, <1>6, <2>2
    <3>2. SubSeq(stream, 1, c.pos) = stream
      BY <1>0, <2>2
    <3>3. verify_replayed_prefix(c)
      BY <2>1, <3>1, <3>2 DEF verify_replayed_prefix, compare_replayed_prefix, Neat, Follows
    <3> QED
      BY <1>0, <1>6, <2>1, <2>2, <3>3 DEF Resumable
  <2> QED
    BY <2>1, <2>2
<1> QED
  BY <1>0, <1>1, <1>2, <1>3, <1>4, <1>5, <1>6

\* Opening and fetching leave the Stream and what was saved.
LEMMA OpenIsSound ==
  ASSUME RelayAssumption, ReplayInv, NEW e \in Replayer, Open(e)
  PROVE  Sound(e)' /\ Ahead(e)'
<1>0. /\ Basics /\ TypeOK /\ ckpt \in Cursor /\ epoch \in 0..MaxFaults /\ Reached(rep[e].at) /\ Reached(ckpt)
      /\ rep[e].at \in Cursor /\ epoch \in Nat
  BY TypesSplit, CursorTypes DEF ReplayInv, RelayInv, CursorInv, Basics
<1>1. /\ rep'[e].pc = "opened"
      /\ \/ ~exists /\ rep'[e].at = rep[e].at
         \/ MayResume(e) /\ ckpt' = ckpt /\ rep'[e].at = [ckpt EXCEPT !.since = epoch]
  BY <1>0, CursorsOpened
<1>2. rep[e].pc = "locked" /\ UNCHANGED <<stream, exists, epoch>> /\ row' = row
  BY DEF Open, streamVars, replayRest
<1>3. Published' = Published
  BY <1>2, PublishedSame
<1>4. CASE ~exists /\ rep'[e].at = rep[e].at
  <2>1. rep[e].at.count = 0
    BY <1>2 DEF ReplayInv, RelayInv
  <2>2. rep[e].at.after = 0
    BY <1>0, <2>1 DEF Reached
  <2>3. ReplayedBy(rep[e].at)' = {}
    BY <1>4, <2>2 DEF ReplayedBy, Published, Row, RelayAssumption
  <2>4. stream' = <<>>
    BY <1>0, <1>2, <1>4 DEF Basics
  <2>5. \A batch : Follows(stream', ReplayedBy(rep[e].at)', batch)
    BY <2>3, <2>4, NothingFollows
  <2> QED
    BY <1>1, <1>4, <2>1, <2>5 DEF Sound, Ahead, Neat
<1>5. CASE MayResume(e) /\ ckpt' = ckpt /\ rep'[e].at = [ckpt EXCEPT !.since = epoch]
  <2>1. Resumable(ckpt) /\ Neat(ckpt, NextBatch(ckpt))
    BY <1>5 DEF MayResume, ReplayInv
  <2>2. PICK c : c = rep'[e].at
    OBVIOUS
  <2>3. c.until = ckpt.until /\ c.count = ckpt.count /\ c.after = ckpt.after /\ c.epoch = ckpt.epoch /\ c.pos = ckpt.pos
    BY <1>0, <1>5, <2>2, CursorTyped
  <2>4. /\ ReplayedBy(rep[e].at)' = ReplayedBy(ckpt) /\ NextBatch(rep[e].at)' = NextBatch(ckpt)
    BY <1>3, <2>2, <2>3 DEF ReplayedBy, NextBatch, Beyond
  <2>5. Neat(rep[e].at, NextBatch(rep[e].at))'
    BY <1>2, <2>1, <2>4 DEF Neat
  <2>6. Resumable(rep[e].at)'
    BY <1>2, <2>1, <2>2, <2>3, <2>4 DEF Resumable, verify_replayed_prefix, compare_replayed_prefix
  <2>7. ckpt.count > 0 => /\ exists /\ ckpt.epoch = epoch /\ stream[ckpt.pos] = ckpt.after
                          /\ ckpt.count = Cardinality(ReplayedBy(ckpt))
    BY <2>1 DEF Resumable, verify_replayed_prefix, compare_replayed_prefix
  <2> QED
    BY <1>1, <1>2, <2>2, <2>3, <2>4, <2>5, <2>6, <2>7 DEF Sound, Ahead
<1> QED
  BY <1>1, <1>4, <1>5

LEMMA FetchIsSound ==
  ASSUME RelayAssumption, ReplayInv, NEW e \in Replayer, Fetch(e), owner = e
  PROVE  Sound(e)' /\ Ahead(e)'
<1>0. TypeOK
  BY DEF ReplayInv, RelayInv, CursorInv, Basics
<1>1. /\ rep[e].pc = "fetch" /\ rep'[e].pc = "copy" /\ rep'[e].at = rep[e].at
      /\ rep'[e].todo = NextBatch(rep[e].at)
      /\ UNCHANGED <<replayRest, streamVars, ckpt>>
  BY <1>0, BatchFetched
<1>2. UNCHANGED <<stream, exists, epoch>> /\ Published' = Published /\ ckpt' = ckpt
  BY <1>1, PublishedSame DEF replayRest, streamVars
<1>3. AtWork(e) /\ Sound(e) /\ Ahead(e)
  BY <1>1 DEF AtWork, ReplayInv
<1>4. \A c : /\ ReplayedBy(c)' = ReplayedBy(c) /\ NextBatch(c)' = NextBatch(c)
             /\ Resumable(c)' = Resumable(c)
  BY <1>2 DEF ReplayedBy, NextBatch, Beyond, Resumable, verify_replayed_prefix, compare_replayed_prefix
<1>5. ckpt = rep[e].at
  BY <1>1, <1>3 DEF Ahead
<1>6. Sound(e)'
  BY <1>1, <1>2, <1>3, <1>4 DEF Sound, Missing, Neat
<1>7. Ahead(e)'
  <2>1. ckpt.after <= rep[e].at.after
    BY <1>0, <1>5, CursorTypes
  <2> QED
    BY <1>1, <1>2, <1>4, <1>5, <2>1 DEF Ahead, Missing
<1> QED
  BY <1>6, <1>7

LEMMA SaveKeepsReplay ==
  ASSUME RelayAssumption, ReplayInv, RelayInv', NEW e \in Replayer,
         FirstCheckpoint(e) \/ Checkpoint(e) \/ Complete(e)
  PROVE  ReplayInv'
<1>0. TypeOK
  BY DEF ReplayInv, RelayInv, CursorInv, Basics
<1>1. /\ ckpt' = rep[e].at /\ rep'[e].at = rep[e].at /\ owner = e /\ owner' = owner
      /\ UNCHANGED <<replayRest, streamVars>>
      /\ \A f \in Replayer \ {e} : rep'[f] = rep[f]
      /\ \/ rep[e].pc = "opened" /\ rep'[e].pc = "fetch" /\ replay' = "running"
         \/ rep[e].pc = "copy" /\ rep[e].todo = {} /\ rep'[e].pc \in {"last", "fetch"}
         \/ rep[e].pc = "last" /\ rep'[e].pc = "done" /\ replay' = "completed"
  BY <1>0, CursorSaved
<1>2. UNCHANGED <<stream, exists, epoch>> /\ Published' = Published
  BY <1>1, PublishedSame DEF replayRest, streamVars
<1>3. AtWork(e) /\ Sound(e)
  BY <1>1 DEF AtWork, ReplayInv
<1>4. PICK c : c = rep[e].at
  OBVIOUS
<1>5. \A d : /\ ReplayedBy(d)' = ReplayedBy(d) /\ NextBatch(d)' = NextBatch(d)
             /\ Resumable(d)' = Resumable(d)
  BY <1>2 DEF ReplayedBy, NextBatch, Beyond, Resumable, verify_replayed_prefix, compare_replayed_prefix
<1>6. /\ Missing(c) \/ Neat(c, NextBatch(c))
      /\ Resumable(c) => ~Missing(c)
      /\ c.since = epoch /\ c.count > 0 => Resumable(c)
  <2>1. rep[e].pc # "copy" => Missing(c) \/ Neat(c, NextBatch(c))
    BY <1>3, <1>4 DEF Sound
  <2> QED
    BY <1>1, <1>3, <1>4, <2>1, SavedIsSound
<1>7. \A f \in Replayer : AtWork(f)' => f = e
  BY <1>1 DEF AtWork
<1>8. ASSUME AtWork(e)' PROVE Sound(e)' /\ Ahead(e)'
  <2>1. rep'[e].pc # "copy" /\ rep'[e].at = c /\ ckpt' = c
    BY <1>1, <1>4, <1>8 DEF AtWork
  <2>2. /\ c.since = epoch /\ c.count > 0 =>
             /\ exists /\ c.epoch = epoch /\ stream[c.pos] = c.after
             /\ c.count = Cardinality(ReplayedBy(c))
    BY <1>3, <1>4 DEF Sound
  <2> QED
    BY <1>2, <1>5, <1>6, <2>1, <2>2 DEF Sound, Ahead, Missing, Neat
<1>9. (Resumable(ckpt)' => Neat(ckpt, NextBatch(ckpt))') /\ SavedProgressVerifies'
  <2>1. ckpt' = c
    BY <1>1, <1>4
  <2>2. Resumable(ckpt)' = Resumable(c) /\ (Neat(ckpt, NextBatch(ckpt))' <=> Neat(c, NextBatch(c)))
    BY <1>2, <1>5, <2>1 DEF Neat, Resumable, verify_replayed_prefix, compare_replayed_prefix, ReplayedBy, NextBatch, Beyond
  <2> QED
    BY <1>2, <1>6, <2>1, <2>2 DEF SavedProgressVerifies
<1> QED
  BY <1>7, <1>8, <1>9 DEF ReplayInv

LEMMA CopyKeepsReplay ==
  ASSUME RelayAssumption, Drain, ReplayInv, RelayInv', NEW e \in Replayer, Copy(e)
  PROVE  ReplayInv'
<1>a. CursorInv /\ Basics
  BY DEF ReplayInv, RelayInv, CursorInv
<1>0. /\ TypeOK /\ stream \in Seq(Row) /\ Len(stream) \in Nat /\ Row \subseteq Nat /\ Published \subseteq Nat
      /\ ckpt \in Cursor /\ rep[e].at \in Cursor /\ rep[e].todo \subseteq Row /\ epoch \in Nat
      /\ \A c \in Cursor : c.count \in Nat /\ c.after \in Nat /\ c.pos \in Nat
  BY <1>a, CursorTypes DEF Basics
<1>1. AtWork(e) /\ \A t \in rep[e].todo : rep[e].at.count < t
  BY <1>a, CopyIsAhead
<1>2. PICK r : r = Min(rep[e].todo)
  OBVIOUS
<1>3. /\ r \in rep[e].todo /\ r \in Row /\ \A t \in rep[e].todo : r <= t
      /\ stream' = Append(stream, r) /\ exists' = TRUE
      /\ rep[e].pc = "copy" /\ rep'[e].pc = "copy"
      /\ rep'[e].todo = rep[e].todo \ {r}
      /\ rep'[e].at.until = rep[e].at.until /\ rep'[e].at.since = rep[e].at.since
      /\ rep'[e].at.count = rep[e].at.count + 1 /\ rep'[e].at.after = r
      /\ rep'[e].at.epoch = epoch /\ rep'[e].at.pos = Len(stream) + 1
      /\ \A f \in Replayer \ {e} : rep'[f] = rep[f]
      /\ owner = e /\ owner' = owner /\ replay' = replay
      /\ UNCHANGED <<replayRest, epoch, ckpt>>
  BY <1>0, <1>1, <1>2, RowCopied
<1>4. Published' = Published /\ ckpt' = ckpt /\ epoch' = epoch
  BY <1>3, PublishedSame DEF replayRest
<1>5. PICK c : c = rep[e].at
  OBVIOUS
<1>6. /\ ReplayedBy(rep[e].at)' = ReplayedBy(c) \cup {r} /\ r \notin ReplayedBy(c)
      /\ \A x \in ReplayedBy(c) : x < r
  BY <1>1, <1>2, <1>5, <1>a, PassesOne
<1>7. /\ ToSet(stream') = ToSet(stream) \cup {r} /\ Len(stream') = Len(stream) + 1
      /\ stream'[Len(stream) + 1] = r /\ \A i \in 1..Len(stream) : stream'[i] = stream[i]
      /\ \A n \in 0..Len(stream) : SubSeq(stream', 1, n) = SubSeq(stream, 1, n)
  <2>1. \A n \in 0..Len(stream) : SubSeq(Append(stream, r), 1, n) = SubSeq(stream, 1, n)
    BY <1>0, <1>3, PrefixStays
  <2>2. /\ ToSet(Append(stream, r)) = ToSet(stream) \cup {r} /\ Len(Append(stream, r)) = Len(stream) + 1
        /\ Append(stream, r)[Len(stream) + 1] = r
        /\ \A i \in 1..Len(stream) : Append(stream, r)[i] = stream[i]
    BY <1>0, <1>3, Appended
  <2>3. stream' = Append(stream, r)
    BY <1>3
  <2> QED
    BY <2>1, <2>2, <2>3, Zenon
<1>8. Sound(e) /\ Ahead(e) /\ Reached(c) /\ Reached(ckpt) /\ replay = "running" /\ ckpt.until = c.until
  BY <1>1, <1>3, <1>5 DEF ReplayInv, RelayInv, CursorInv
<1>9. r > c.after /\ r \in Nat
  BY <1>0, <1>3, <1>5, <1>a DEF CursorInv, Due, Beyond
\* What the run had passed is there, and so is the beginning of its batch.
<1>10. Missing(rep[e].at)' <=> Missing(c)
  BY <1>6, <1>7 DEF Missing
<1>11. ~Missing(c) => Follows(stream', ReplayedBy(rep[e].at)', rep'[e].todo)
  <2>1. ASSUME ~Missing(c) PROVE Follows(stream, ReplayedBy(c), rep[e].todo)
    BY <1>3, <1>5, <1>8, <2>1 DEF Sound, Neat
  <2>2. PICK P \in SUBSET Row : P = ReplayedBy(c)
    BY SetsOfRows
  <2>3. PICK T \in SUBSET Row : T = rep[e].todo
    BY <1>0
  <2>4. r \in T /\ (\A t \in T : r <= t) /\ \A x \in P : x < r
    BY <1>3, <1>6, <2>2, <2>3
  <2>5. Follows(stream, P, T) => Follows(Append(stream, r), P \cup {r}, T \ {r})
    BY <1>0, <2>4, FollowsOn
  <2>6. stream' = Append(stream, r) /\ ReplayedBy(rep[e].at)' = P \cup {r} /\ rep'[e].todo = T \ {r}
    BY <1>3, <1>6, <2>2, <2>3
  <2> QED
    BY <2>1, <2>2, <2>3, <2>5, <2>6
<1>12. c.since = epoch => c.count + 1 = Cardinality(ReplayedBy(rep[e].at)')
  <2>1. IsFiniteSet(ReplayedBy(c))
    <3>1. IsFiniteSet(Row)
      BY FS_Interval DEF Row, RelayAssumption
    <3> QED
      BY <3>1, SetsOfRows, FS_Subset
  <2>2. Cardinality(ReplayedBy(c) \cup {r}) = Cardinality(ReplayedBy(c)) + 1
    BY <1>6, <2>1, FS_AddElement
  <2>3. CASE c.count > 0
    BY <1>5, <1>6, <1>8, <2>2, <2>3 DEF Sound
  <2>4. CASE c.count = 0
    <3>1. ReplayedBy(c) = {}
      BY <1>8, <2>4, NothingReplayed DEF Reached
    <3>2. Cardinality(ReplayedBy(c)) = 0
      BY <3>1, FS_EmptySet
    <3> QED
      BY <1>6, <2>2, <2>4, <3>2
  <2> QED
    BY <1>0, <1>5, <2>3, <2>4
<1>13. Sound(e)'
  <2>1. Missing(rep[e].at)' \/ Neat(rep[e].at, rep[e].todo)'
    BY <1>10, <1>11 DEF Neat
  <2>2. rep'[e].at.since = epoch' => rep'[e].at.count = Cardinality(ReplayedBy(rep[e].at)')
    BY <1>3, <1>4, <1>5, <1>12
  <2>3. stream'[rep'[e].at.pos] = rep'[e].at.after /\ rep'[e].at.pos = Len(stream')
    BY <1>3, <1>7
  <2> QED
    BY <1>3, <1>4, <2>1, <2>2, <2>3 DEF Sound
\* How far it is from what it saved.
<1>14. /\ ckpt.after <= c.after /\ rep[e].todo \subseteq NextBatch(ckpt)
       /\ Missing(c) => ckpt.count = 0 \/ Missing(ckpt) \/ ckpt.epoch # epoch
  BY <1>3, <1>5, <1>8 DEF Ahead
<1>15. NextBatch(ckpt)' = NextBatch(ckpt) /\ ReplayedBy(ckpt)' = ReplayedBy(ckpt)
  BY <1>4 DEF NextBatch, Beyond, ReplayedBy
<1>16. \A x \in ReplayedBy(ckpt) : x < r
  <2>1. ASSUME NEW x \in ReplayedBy(ckpt) PROVE x < r
    <3>1. x \in Nat /\ x <= ckpt.after /\ ckpt.after \in Nat /\ c.after \in Nat
      BY <1>0, <1>5, <2>1 DEF ReplayedBy
    <3> QED
      BY <1>9, <1>14, <3>1
  <2> QED
    BY <2>1
<1>17. Missing(ckpt)' <=> Missing(ckpt)
  <2>1. r \notin ReplayedBy(ckpt)
    <3>1. ~(r < r)
      BY <1>9
    <3> QED
      BY <1>16, <3>1
  <2> QED
    BY <1>7, <1>15, <2>1 DEF Missing
<1>18. Ahead(e)'
  <2>1. ckpt'.after <= rep'[e].at.after
    <3>1. ckpt.after \in Nat /\ c.after \in Nat
      BY <1>0, <1>5
    <3> QED
      BY <1>3, <1>4, <1>9, <1>14, <3>1
  <2> QED
    BY <1>3, <1>4, <1>10, <1>14, <1>15, <1>17, <2>1 DEF Ahead
\* What was saved.
<1>19. ckpt.count > 0 => (Resumable(ckpt)' <=> Resumable(ckpt))
  <2>1. ASSUME ckpt.count > 0, ckpt.epoch = epoch
        PROVE  /\ ckpt.pos \in 1..Len(stream) /\ exists
               /\ stream'[ckpt.pos] = stream[ckpt.pos]
               /\ SubSeq(stream', 1, ckpt.pos) = SubSeq(stream, 1, ckpt.pos)
    <3>1. ckpt.pos \in 1..Len(stream)
      BY <1>8, <2>1 DEF Reached
    <3>2. ckpt.pos \in 0..Len(stream) /\ Len(stream) # 0
      BY <1>0, <3>1
    <3>3. exists
      BY <1>a, <3>2, NothingIn DEF Basics
    <3> QED
      BY <1>7, <3>1, <3>2, <3>3
  <2>2. ASSUME ckpt.count > 0, ckpt.epoch = epoch PROVE Resumable(ckpt)' <=> Resumable(ckpt)
    <3>1. verify_replayed_prefix(ckpt)' <=> verify_replayed_prefix(ckpt)
      BY <1>4, <1>15, <2>1, <2>2 DEF verify_replayed_prefix, compare_replayed_prefix
    <3>2. ckpt.pos <= Len(stream) /\ ckpt.pos <= Len(stream')
      BY <1>0, <1>7, <2>1, <2>2
    <3> QED
      BY <1>3, <1>4, <2>1, <2>2, <3>1, <3>2 DEF Resumable
  <2> QED
    BY <1>4, <2>2 DEF Resumable
<1>20. SavedProgressVerifies'
  BY <1>3, <1>4, <1>19 DEF ReplayInv, SavedProgressVerifies
<1>21. ASSUME Resumable(ckpt)' PROVE Neat(ckpt, NextBatch(ckpt))'
  <2>1. ckpt.count > 0
    BY <1>0, <1>4, <1>7, <1>21 DEF Resumable
  <2>2. Resumable(ckpt) /\ ckpt.epoch = epoch
    BY <1>19, <1>21, <2>1 DEF Resumable
  <2>3. Follows(stream, ReplayedBy(ckpt), NextBatch(ckpt))
    BY <1>8, <2>2 DEF ReplayInv, Neat
  <2>4. ~Missing(ckpt)
    BY <1>0, <1>8, <1>a, <2>2, ThereWhenResumable DEF Missing
  <2>5. ~Missing(c)
    BY <1>14, <2>1, <2>2, <2>4
  <2>6. InOrder(stream')
    BY <1>11, <2>5 DEF Follows
  <2>7. /\ ReplayedBy(ckpt) \subseteq ToSet(stream)
        /\ ToSet(stream) \subseteq ReplayedBy(ckpt) \cup NextBatch(ckpt)
        /\ \A x \in ToSet(stream), q \in NextBatch(ckpt) : q < x => q \in ToSet(stream)
    BY <2>3 DEF Follows
  <2>8. r \in NextBatch(ckpt)
    BY <1>3, <1>14
  <2>9. ASSUME NEW q \in NextBatch(ckpt), q < r PROVE q \in ToSet(stream)
    <3>1. q \in Published /\ q <= c.until /\ q \in Nat /\ c.after \in Nat
      BY <1>0, <1>5, <1>8 DEF NextBatch, FirstRows, Beyond
    <3>2. CASE q <= c.after
      BY <2>5, <3>1, <3>2 DEF ReplayedBy, Missing
    <3>3. CASE q > c.after
      <4>1. q \in Beyond(c)
        BY <3>1, <3>3 DEF Beyond
      <4>2. \A x \in Beyond(c) : x <= r => x \in rep[e].todo
        BY <1>1, <1>3, <1>5, <1>a DEF CursorInv, Batch
      <4>3. q <= r
        BY <1>9, <2>9, <3>1
      <4>4. r <= q
        BY <1>3, <4>1, <4>2, <4>3
      <4> QED
        BY <1>9, <2>9, <3>1, <4>4
    <3> QED
      BY <3>1, <3>2, <3>3
  <2>10. Follows(stream', ReplayedBy(ckpt), NextBatch(ckpt))
    BY <1>7, <2>6, <2>7, <2>8, <2>9 DEF Follows
  <2> QED
    BY <1>4, <1>15, <2>10 DEF Neat
<1>22. \A f \in Replayer : AtWork(f)' => f = e
  BY <1>3 DEF AtWork
<1> QED
  BY <1>13, <1>18, <1>20, <1>21, <1>22 DEF ReplayInv

LEMMA WorkKeepsReplay ==
  ASSUME RelayAssumption, Drain, ReplayInv, RelayInv', Fence!TypeOK', NEW e \in Replayer, Works(e)
  PROVE  ReplayInv'
<1>0. CursorInv /\ Basics /\ TypeOK
  BY DEF ReplayInv, RelayInv, CursorInv, Basics
<1>1. /\ Published' = Published /\ epoch' = epoch /\ owner' = owner
      /\ UNCHANGED <<stream, exists>> \/ Copy(e)
      /\ \A f \in Replayer \ {e} : rep'[f] = rep[f]
  BY <1>0, StepOfWork, CopyIsAhead
<1>2. \A f \in Replayer \ {e} : AtWork(f)' => AtWork(f) /\ rep'[f] = rep[f]
  BY <1>1 DEF AtWork
<1>3. CASE Copy(e)
  BY <1>3, CopyKeepsReplay
<1>4. CASE FirstCheckpoint(e) \/ Checkpoint(e) \/ Complete(e)
  BY <1>4, SaveKeepsReplay
<1>5. CASE Fetch(e)
  <2>1. ckpt' = ckpt /\ replay' = replay /\ UNCHANGED <<stream, exists, epoch>>
    BY <1>5 DEF Fetch, Fetched, fenceVars, streamVars
  <2>2. AtWork(e)' => Sound(e)' /\ Ahead(e)'
    BY <1>1, <1>5, FetchIsSound DEF AtWork
  <2> QED
    BY <1>1, <1>2, <2>1, <2>2, ReplayFrame
<1>6. CASE Open(e)
  <2>1. UNCHANGED <<stream, exists, epoch>>
    BY <1>6 DEF Open, streamVars
  <2>2. Sound(e)' /\ Ahead(e)'
    BY <1>6, OpenIsSound
  <2>3. CASE ckpt' = ckpt /\ replay' = replay
    BY <1>1, <1>2, <2>1, <2>2, <2>3, ReplayFrame
  <2>4. CASE ckpt' = NoCursor /\ replay' = "none" /\ owner = e
    <3>1. \A f \in Replayer : AtWork(f)' => f = e
      BY <1>1, <2>4 DEF AtWork
    <3> QED
      BY <2>2, <2>4, <3>1 DEF ReplayInv, SavedProgressVerifies
  <2> QED
    BY <1>6, <2>3, <2>4 DEF Open, fenceVars, Fence!SetStatus
<1> QED
  BY <1>3, <1>4, <1>5, <1>6 DEF Works

LEMMA ReplayInvStep ==
  ASSUME RelayAssumption, Drain, ReplayInv, [Next]_vars
  PROVE  ReplayInv'
<1>0. RelayInv' /\ Basics /\ Fence!TypeOK'
  BY RelayStep, KindsOfSteps DEF ReplayInv, RelayInv, CursorInv
<1>1. ASSUME NEW p \in Publisher, PublishStep(p) \/ PublishFault(p) PROVE Aside
  BY <1>0, <1>1, StepOfPublisher
<1> QED
  BY <1>0, <1>1, KindsOfSteps, AsideKeepsReplay, LossKeepsReplay, WorkKeepsReplay

LEMMA ReplayInvInit == ASSUME RelayAssumption, Init PROVE ReplayInv
<1>1. RelayInv /\ replay = "none" /\ rep = [e \in Replayer |-> IdleRep]
  BY RelayInit DEF Init, Fence!Init
<1>2. \A e \in Replayer : ~AtWork(e)
  BY <1>1 DEF IdleRep, AtWork
<1> QED
  BY <1>1, <1>2 DEF ReplayInv, SavedProgressVerifies

(***************************************************************************)
(* A replay that was interrupted after its first checkpoint can go on, for *)
(* any number of rows and runs and any batch size: the Stream it was       *)
(* writing, duplicates of every crashed batch included, passes the         *)
(* verification of the next run unless it was lost.                        *)
(***************************************************************************)
THEOREM InterruptedReplayResumes == ASSUME Drain PROVE Spec => []SavedProgressVerifies
<1>1. Init => ReplayInv
  BY RelayAssumption, ReplayInvInit
<1>2. ReplayInv /\ [Next]_vars => ReplayInv'
  BY RelayAssumption, ReplayInvStep
<1>3. ReplayInv => SavedProgressVerifies
  BY DEF ReplayInv
<1> QED
  BY <1>1, <1>2, <1>3, PTL DEF Spec

-----------------------------------------------------------------------------
(***************************************************************************)
(* The fence of the relay is kept by leases: the lease protocol of         *)
(* StreamFence, for any sets of tokens and any lease.  Its retention       *)
(* tokens are the trimmers, which the relay has none of.                   *)
(***************************************************************************)
CONSTANTS Trimmer, Lease
VARIABLES ttl, ownerTtl, phase
Leases == INSTANCE StreamFence WITH Maintainer <- Trimmer

\* LeaseAssumption and TokenAssumption of StreamFence.
LeasesAssumption ==
    /\ Lease \in Nat \ {0}
    /\ Participant \cap Leases!Exclusive = {}
    /\ Replayer \cap Trimmer = {}
    /\ NoOne \notin Leases!Token

(***************************************************************************)
(* TypeOK is inductive on its own once it says that an existing lock has   *)
(* time left and a missing one has none.                                   *)
(***************************************************************************)
LockHasTime == owner # NoOne <=> ownerTtl > 0

LeasesTyped == Leases!TypeOK /\ LockHasTime

LEMMA LeasesTypedInit ==
  ASSUME LeasesAssumption
  PROVE  Leases!Init => LeasesTyped
  BY DEF LeasesAssumption, Leases!Init, LeasesTyped, Leases!TypeOK, LockHasTime, Leases!Phase

LEMMA LeasesTypedStep ==
  ASSUME LeasesAssumption
  PROVE  LeasesTyped /\ [Leases!Next]_Leases!vars => LeasesTyped'
<1> SUFFICES ASSUME LeasesTyped, [Leases!Next]_Leases!vars
             PROVE  LeasesTyped'
  OBVIOUS
<1> USE DEF LeasesAssumption, LeasesTyped, Leases!TypeOK, LockHasTime, Leases!Phase,
            Leases!Token, Leases!Exclusive, Leases!Goto, Leases!Shut
<1>1. ASSUME NEW t \in Participant, Leases!ParticipantStep(t)
      PROVE  LeasesTyped'
  BY <1>1 DEF Leases!ParticipantStep, Leases!register_stream_participant,
              Leases!renew_stream_participant,
              Leases!xadd_as_stream_participant, Leases!release_stream_participant
<1>2. ASSUME NEW e \in Leases!Exclusive, Leases!ExclusiveStep(e)
      PROVE  LeasesTyped'
  <2>1. CASE Leases!acquire_stream_exclusive(e) \/ Leases!execute_replay_acquire(e)
    BY <2>1 DEF Leases!acquire_stream_exclusive, Leases!execute_replay_acquire, Leases!Take
  <2>2. CASE Leases!renew_stream_exclusive(e) \/ Leases!xadd_as_stream_exclusive(e)
    BY <2>2 DEF Leases!renew_stream_exclusive, Leases!xadd_as_stream_exclusive
  <2>3. CASE Leases!reset_completed_checkpoint(e) \/ Leases!write_checkpoint(e)
    BY <2>3 DEF Leases!reset_completed_checkpoint, Leases!write_checkpoint
  <2>4. CASE Leases!release_stream_exclusive(e)
    BY <2>4 DEF Leases!release_stream_exclusive
  <2> QED BY <1>2, <2>1, <2>2, <2>3, <2>4 DEF Leases!ExclusiveStep
<1>3. ASSUME NEW t \in Leases!Token, Leases!Crash(t)
      PROVE  LeasesTyped'
  BY <1>3 DEF Leases!Crash
<1>4. CASE Leases!Tick
  BY <1>4 DEF Leases!Tick
<1>5. CASE Leases!Flush
  BY <1>5 DEF Leases!Flush
<1>6. CASE UNCHANGED Leases!vars
  BY <1>6 DEF Leases!vars
<1> QED
  BY <1>1, <1>2, <1>3, <1>4, <1>5, <1>6 DEF Leases!Next

(***************************************************************************)
(* Every reachable state of the protocol is well typed: in particular no   *)
(* lease is ever longer than PARTICIPANT_LEASE_SECONDS.                    *)
(***************************************************************************)
THEOREM LeasesTypeCorrect ==
  ASSUME LeasesAssumption
  PROVE  Leases!Spec => []Leases!TypeOK
<1>1. LeasesTyped => Leases!TypeOK
  BY DEF LeasesTyped
<1> QED
  BY <1>1, LeasesTypedInit, LeasesTypedStep, PTL DEF Leases!Spec

-----------------------------------------------------------------------------
(* Refinement: the initial state, then one lemma per kind of step.         *)

LiveLeases == {t \in Participant : ttl[t] > 0}

LEMMA LeasesInitMaps ==
  ASSUME LeasesAssumption
  PROVE  Leases!Init => Leases!Fence!Init
  BY DEF Leases!Init, Leases!Fence!Init

LEMMA HolderMaps ==
  ASSUME LeasesAssumption, Leases!TypeOK, NEW t \in Participant, Leases!ParticipantStep(t)
  PROVE  Leases!Fence!Join(t) \/ Leases!Fence!MemberWrite(t) \/ Leases!Fence!Lapse
         \/ UNCHANGED Leases!Fence!fenceVars
<1> USE DEF LeasesAssumption, Leases!TypeOK, Leases!Shut, Leases!Goto, Leases!Fence!Open,
            Leases!Fence!fenceVars
<1>1. CASE Leases!register_stream_participant(t)
  BY <1>1 DEF Leases!register_stream_participant, Leases!Fence!Join
<1>2. CASE Leases!renew_stream_participant(t)
  BY <1>2 DEF Leases!renew_stream_participant
<1>3. CASE Leases!xadd_as_stream_participant(t)
  BY <1>3 DEF Leases!xadd_as_stream_participant, Leases!Fence!MemberWrite
<1>4. CASE Leases!release_stream_participant(t)
  BY <1>4 DEF Leases!release_stream_participant, Leases!Fence!Lapse
<1> QED
  BY <1>1, <1>2, <1>3, <1>4 DEF Leases!ParticipantStep

LEMMA OwnerMaps ==
  ASSUME LeasesAssumption, Leases!TypeOK, NEW e \in Leases!Exclusive, Leases!ExclusiveStep(e)
  PROVE  \/ Leases!Fence!Acquire(e) \/ Leases!Fence!OwnerWrite(e) \/ Leases!Fence!Lapse
         \/ \E s \in Leases!Fence!ReplayStatus : e \in Replayer /\ Leases!Fence!SetStatus(e, s)
         \/ UNCHANGED Leases!Fence!fenceVars
<1> USE DEF LeasesAssumption, Leases!TypeOK, Leases!Goto, Leases!Exclusive, Leases!Token,
            Leases!Fence!fenceVars, Leases!Fence!ReplayStatus
<1>1. CASE Leases!acquire_stream_exclusive(e) \/ Leases!execute_replay_acquire(e)
  BY <1>1 DEF Leases!acquire_stream_exclusive, Leases!execute_replay_acquire, Leases!Take,
              Leases!Fence!Acquire
<1>2. CASE Leases!renew_stream_exclusive(e)
  BY <1>2 DEF Leases!renew_stream_exclusive
<1>3. CASE Leases!xadd_as_stream_exclusive(e)
  BY <1>3 DEF Leases!xadd_as_stream_exclusive, Leases!Fence!OwnerWrite
<1>4. CASE Leases!reset_completed_checkpoint(e)
  BY <1>4 DEF Leases!reset_completed_checkpoint, Leases!Fence!SetStatus
<1>5. CASE Leases!write_checkpoint(e)
  BY <1>5 DEF Leases!write_checkpoint, Leases!Fence!SetStatus
<1>6. CASE Leases!release_stream_exclusive(e)
  BY <1>6 DEF Leases!release_stream_exclusive, Leases!Fence!Lapse
<1> QED
  BY <1>1, <1>2, <1>3, <1>4, <1>5, <1>6 DEF Leases!ExclusiveStep

LEMMA LeasesStepMaps ==
  ASSUME LeasesAssumption
  PROVE  Leases!TypeOK /\ [Leases!Next]_Leases!vars => [Leases!Fence!Next]_Leases!Fence!fenceVars
<1> SUFFICES ASSUME Leases!TypeOK, [Leases!Next]_Leases!vars
             PROVE  [Leases!Fence!Next]_Leases!Fence!fenceVars
  OBVIOUS
<1>1. ASSUME NEW t \in Participant, Leases!ParticipantStep(t)
      PROVE  [Leases!Fence!Next]_Leases!Fence!fenceVars
  BY <1>1, HolderMaps DEF Leases!Fence!Next
<1>2. ASSUME NEW e \in Leases!Exclusive, Leases!ExclusiveStep(e)
      PROVE  [Leases!Fence!Next]_Leases!Fence!fenceVars
  BY <1>2, OwnerMaps DEF Leases!Fence!Next, Leases!Fence!Exclusive, Leases!Exclusive
<1>3. ASSUME NEW t \in Leases!Token, Leases!Crash(t)
      PROVE  [Leases!Fence!Next]_Leases!Fence!fenceVars
  BY <1>3 DEF Leases!Crash, Leases!Fence!fenceVars
<1>4. CASE Leases!Tick
  <2>1. LiveLeases' \subseteq LiveLeases
    BY <1>4 DEF Leases!Tick, Leases!TypeOK, LiveLeases
  <2>2. Leases!Fence!Lapse
    BY <1>4, <2>1 DEF Leases!Tick, LiveLeases, Leases!Fence!Lapse
  <2> QED BY <2>2 DEF Leases!Fence!Next
<1>5. CASE Leases!Flush
  <2>1. Leases!Fence!Flush
    BY <1>5 DEF Leases!Flush, Leases!Fence!Flush
  <2> QED BY <2>1 DEF Leases!Fence!Next
<1>6. CASE UNCHANGED Leases!vars
  BY <1>6 DEF Leases!vars, Leases!Fence!fenceVars
<1> QED
  BY <1>1, <1>2, <1>3, <1>4, <1>5, <1>6 DEF Leases!Next

(***************************************************************************)
(* The leases of outbox.py implement the abstract fence.                   *)
(***************************************************************************)
THEOREM LeasesImplementFence ==
  ASSUME LeasesAssumption
  PROVE  Leases!Spec => Leases!ImplementsFence
  BY LeasesInitMaps, LeasesStepMaps, LeasesTypeCorrect, PTL
     DEF Leases!Spec, Leases!ImplementsFence, Leases!Fence!Spec

-----------------------------------------------------------------------------
(***************************************************************************)
(* The abstract fence itself, members being the tokens with time left.     *)
(* Undisturbed is not inductive: a maintainer that owned the fence of a    *)
(* running replay could write.  No step leads there, because a running     *)
(* replay admits only replay tokens and only an owner changes the status.  *)
(***************************************************************************)
RunningIsReplayers == replay = "running" => owner \notin Trimmer

FenceInv ==
    /\ Leases!Fence!TypeOK /\ Leases!Fence!OwnerIsAlone
    /\ RunningIsReplayers /\ Leases!Fence!Undisturbed

LEMMA FenceInit ==
  ASSUME LeasesAssumption
  PROVE  Leases!Fence!Init => FenceInv
  BY DEF LeasesAssumption, Leases!Fence!Init, FenceInv, Leases!Fence!TypeOK,
         Leases!Fence!OwnerIsAlone, RunningIsReplayers,
         Leases!Fence!Undisturbed, Leases!Fence!Exclusive, Leases!Fence!ReplayStatus,
         Leases!Exclusive, Leases!Token

LEMMA FenceStep ==
  ASSUME LeasesAssumption
  PROVE  FenceInv /\ [Leases!Fence!Next]_Leases!Fence!fenceVars => FenceInv'
<1> SUFFICES ASSUME FenceInv, [Leases!Fence!Next]_Leases!Fence!fenceVars
             PROVE  FenceInv'
  OBVIOUS
<1> USE DEF LeasesAssumption, FenceInv, Leases!Fence!TypeOK, Leases!Fence!OwnerIsAlone,
            RunningIsReplayers, Leases!Fence!Undisturbed,
        Leases!Fence!Exclusive, Leases!Fence!ReplayStatus, Leases!Fence!Open, Leases!Exclusive,
        Leases!Token
<1>1. ASSUME NEW t \in Participant, Leases!Fence!Join(t)
      PROVE  FenceInv'
  BY <1>1 DEF Leases!Fence!Join
<1>2. ASSUME NEW t \in Participant, Leases!Fence!MemberWrite(t)
      PROVE  FenceInv'
  BY <1>2 DEF Leases!Fence!MemberWrite
<1>3. ASSUME NEW e \in Leases!Fence!Exclusive, Leases!Fence!Acquire(e)
      PROVE  FenceInv'
  <2>1. CASE replay = "running"
    BY <1>3, <2>1 DEF Leases!Fence!Acquire
  <2>2. CASE replay # "running"
    BY <1>3, <2>2 DEF Leases!Fence!Acquire
  <2> QED BY <2>1, <2>2
<1>4. ASSUME NEW e \in Leases!Fence!Exclusive, Leases!Fence!OwnerWrite(e)
      PROVE  FenceInv'
  BY <1>4 DEF Leases!Fence!OwnerWrite
<1>5. ASSUME NEW r \in Replayer, NEW s \in Leases!Fence!ReplayStatus, Leases!Fence!SetStatus(r, s)
      PROVE  FenceInv'
  BY <1>5 DEF Leases!Fence!SetStatus
<1>6. CASE Leases!Fence!Lapse
  BY <1>6 DEF Leases!Fence!Lapse
<1>7. CASE Leases!Fence!Flush
  BY <1>7 DEF Leases!Fence!Flush
<1>8. CASE UNCHANGED Leases!Fence!fenceVars
  BY <1>8 DEF Leases!Fence!fenceVars
<1> QED
  BY <1>1, <1>2, <1>3, <1>4, <1>5, <1>6, <1>7, <1>8 DEF Leases!Fence!Next

(***************************************************************************)
(* The abstract fence keeps exclusive owners alone and their tenure        *)
(* undisturbed, however many tokens there are.                             *)
(***************************************************************************)
THEOREM FenceCorrect ==
  ASSUME LeasesAssumption
  PROVE  Leases!Fence!Spec => [](Leases!Fence!OwnerIsAlone /\ Leases!Fence!Undisturbed)
<1>1. FenceInv => Leases!Fence!OwnerIsAlone /\ Leases!Fence!Undisturbed
  BY DEF FenceInv
<1> QED
  BY <1>1, FenceInit, FenceStep, PTL DEF Leases!Fence!Spec

(***************************************************************************)
(* What the abstract fence guarantees holds of the leases: an exclusive    *)
(* owner is alone and nobody disturbs its tenure.                          *)
(***************************************************************************)
THEOREM FenceHolds ==
  ASSUME LeasesAssumption
  PROVE  Leases!Spec => [](Leases!OwnerIsAlone /\ Leases!Undisturbed)
<1>1. Leases!TypeOK /\ Leases!Fence!OwnerIsAlone /\ Leases!Fence!Undisturbed
      => Leases!OwnerIsAlone /\ Leases!Undisturbed
  BY DEF LeasesAssumption, Leases!TypeOK, Leases!Fence!OwnerIsAlone, Leases!OwnerIsAlone,
         Leases!Undisturbed
<1> QED
  BY <1>1, LeasesImplementFence, LeasesTypeCorrect, FenceCorrect, PTL DEF Leases!ImplementsFence
=============================================================================
