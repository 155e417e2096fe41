---------------------------- MODULE OutboxRelay ----------------------------
(***************************************************************************)
(* The transactional outbox on its way to the Redis Stream: publish_batch  *)
(* of radar/outbox.py run by several schedulers, and execute_replay of     *)
(* tools/replay_outbox_to_redis.py, which rebuilds a lost Stream from the  *)
(* rows PostgreSQL says were published.  Both are built on the fence of    *)
(* LeaseFence: every access to the Stream is conjoined with one of its     *)
(* actions.                                                                *)
(*                                                                         *)
(* Outbox rows are numbered in (created_at,id) order; they may be          *)
(* committed in any order.  An entry of the Stream is the row it carries.  *)
(* Its Redis id is its place together with the epoch, the number of times  *)
(* the Stream was lost before, since ids are never reused.                 *)
(***************************************************************************)
EXTENDS Integers, Sequences, FiniteSets, FiniteSetsExt, SequencesExt

CONSTANTS
    Publisher,     \* concurrent runs of publish_batch
    Consumer,      \* alert workers, of interest here as fence participants
    Replayer,      \* runs of the replay tool
    NoOne,
    Rows,          \* how many outbox rows there are
    Unregistered,  \* rows whose kind is not in STREAM_OUTBOX_KINDS
    Limit,         \* rows one publish_batch attempts
    BatchSize,     \* rows one replay_batch copies
    Windows,       \* the choices of --until: the last row inside the window
    Drain,         \* the operator stops publishers and consumers before a replay
    MaxLen,        \* bound: entries of the Stream
    MaxFaults      \* bound: crashes, lapses of live leases, failed calls, losses

Row == 1..Rows
Participant == Publisher \cup Consumer
Maintainer == {}

VARIABLES
    members, owner, replay, wrote,  \* the fence, see LeaseFence
    row,      \* outbox table: "absent", "pending" or "published"
    stream,   \* rows in the order of their Stream entries
    exists,   \* the Stream key exists (it may be empty: XGROUP MKSTREAM)
    epoch,    \* how often the Stream was lost
    ckpt,     \* cursors of the replay state key
    pub,      \* each publisher: pc, cursor row, rows attempted, lost flag
    con,      \* each consumer: "idle" or "active"
    rep,      \* each replay run: pc and its local variables
    whole,    \* history: no loss since the last complete recovery of everything
    faults    \* history: how many faults happened

fenceVars == <<members, owner, replay, wrote>>
streamVars == <<stream, exists, epoch>>
vars == <<fenceVars, row, streamVars, ckpt, pub, con, rep, whole, faults>>

Fence == INSTANCE LeaseFence

ASSUME RelayAssumption ==
    /\ Fence!DistinctTokens /\ Publisher \cap Consumer = {}
    /\ Rows \in Nat /\ Limit \in Nat \ {0} /\ BatchSize \in Nat \ {0}
    /\ Unregistered \subseteq Row /\ Windows \subseteq Row
    /\ Drain \in BOOLEAN
    /\ MaxLen \in Nat /\ MaxFaults \in Nat

NoCursor == [until |-> 0, count |-> 0, after |-> 0, epoch |-> 0, pos |-> 0, since |-> 0]
IdlePub == [pc |-> "idle", cur |-> 0, att |-> 0, lost |-> FALSE]
IdleRep == [pc |-> "idle", at |-> NoCursor, todo |-> {}, last |-> FALSE]

Cursor == [until : 0..Rows, count : 0..Rows, after : 0..Rows,
           epoch : 0..MaxFaults, pos : 0..MaxLen, since : 0..MaxFaults]

TypeOK ==
    /\ Fence!TypeOK
    /\ row \in [Row -> {"absent", "pending", "published"}]
    /\ stream \in Seq(Row) /\ Len(stream) <= MaxLen
    /\ exists \in BOOLEAN /\ whole \in BOOLEAN
    /\ epoch \in 0..MaxFaults /\ faults \in 0..MaxFaults
    /\ ckpt \in Cursor
    /\ pub \in [Publisher -> [pc : {"idle", "next", "xadd", "commit"}, cur : 0..Rows,
                              att : 0..Limit, lost : BOOLEAN]]
    /\ con \in [Consumer -> {"idle", "active"}]
    /\ rep \in [Replayer -> [pc : {"idle", "locked", "opened", "fetch", "copy", "last", "done"},
                             at : Cursor, todo : SUBSET Row, last : BOOLEAN]]

Init ==
    /\ Fence!Init
    /\ row = [r \in Row |-> "absent"]
    /\ stream = <<>> /\ exists = FALSE /\ epoch = 0
    /\ ckpt = NoCursor
    /\ pub = [p \in Publisher |-> IdlePub]
    /\ con = [c \in Consumer |-> "idle"]
    /\ rep = [e \in Replayer |-> IdleRep]
    /\ whole = TRUE
    /\ faults = 0

Fault(n) == faults + n <= MaxFaults /\ faults' = faults + n

\* A domain transaction commits its outbox row; a slow one commits it late.
Insert(r) ==
    /\ row[r] = "absent"
    /\ row' = [row EXCEPT ![r] = "pending"]
    /\ UNCHANGED <<fenceVars, streamVars, ckpt, pub, con, rep, whole, faults>>

-----------------------------------------------------------------------------
(* publish_batch                                                           *)

relayRest == <<ckpt, con, rep, whole>>

Published == {r \in Row : row[r] = "published"}
Renewable(t) == Fence!Open /\ t \in members
Locked == {pub[p].cur : p \in {q \in Publisher : pub[q].pc \in {"xadd", "commit"}}}
\* No row lock: another publisher's row is taken again.
CandidatesUnlocked(p) == {r \in Row : row[r] = "pending" /\ r > pub[p].cur}
\* Every attempt starts over at the first unpublished row.
CandidatesFromStart(p) == {r \in Row : row[r] = "pending" /\ r \notin Locked}

Candidates(p) == {r \in Row : row[r] = "pending" /\ r > pub[p].cur /\ r \notin Locked}

Start(p) ==
    /\ pub[p].pc = "idle"
    /\ Fence!Join(p)
    /\ pub' = [pub EXCEPT ![p] = [IdlePub EXCEPT !.pc = "next"]]
    /\ UNCHANGED <<row, streamVars, relayRest, faults>>

\* Lock the next row.  One of an unregistered kind fails at once: rolled back,
\* its failure recorded, and the cursor is past it.
Select(p) ==
    /\ pub[p].pc = "next" /\ ~pub[p].lost /\ pub[p].att < Limit
    /\ Renewable(p)
    /\ Candidates(p) # {}
    /\ LET r == Min(Candidates(p)) IN
       pub' = [pub EXCEPT ![p].cur = r, ![p].att = @ + 1,
                          ![p].pc = IF r \in Unregistered THEN "next" ELSE "xadd"]
    /\ UNCHANGED <<fenceVars, row, streamVars, relayRest, faults>>

\* The batch is over or raises; either way the lease is released.
Finish(p) ==
    /\ pub[p].pc = "next"
    /\ \/ pub[p].lost \/ pub[p].att = Limit
       \/ ~Renewable(p) \/ Candidates(p) = {}
    /\ members' = members \ {p} /\ owner' = owner /\ Fence!Lapse
    /\ pub' = [pub EXCEPT ![p] = IdlePub]
    /\ UNCHANGED <<row, streamVars, relayRest, faults>>

\* After a failed row the transaction is rolled back and the batch goes on.
GiveUpRow(p) == pub' = [pub EXCEPT ![p].pc = "next"]

Xadd(p) ==
    /\ pub[p].pc = "xadd"
    /\ Len(stream) < MaxLen
    /\ Fence!MemberWrite(p)
    /\ stream' = Append(stream, pub[p].cur)
    /\ exists' = TRUE
    /\ \/ ~pub[p].lost /\ pub' = [pub EXCEPT ![p].pc = "commit"] /\ UNCHANGED faults
       \/ pub[p].lost /\ GiveUpRow(p) /\ UNCHANGED faults
       \/ GiveUpRow(p) /\ Fault(1)            \* the reply is lost
    /\ UNCHANGED <<row, epoch, relayRest>>

XaddRejected(p) ==
    /\ pub[p].pc = "xadd"
    /\ ~Renewable(p)
    /\ GiveUpRow(p)
    /\ UNCHANGED <<fenceVars, row, streamVars, relayRest, faults>>

\* UPDATE outbox SET published_at: nothing here looks at Redis again.
MarkPublished(p) ==
    /\ pub[p].pc = "commit"
    /\ row' = [row EXCEPT ![pub[p].cur] = "published"]
    /\ GiveUpRow(p)
    /\ UNCHANGED <<fenceVars, streamVars, relayRest, faults>>

MarkFails(p) ==
    /\ pub[p].pc = "commit"
    /\ GiveUpRow(p) /\ Fault(1)
    /\ UNCHANGED <<fenceVars, row, streamVars, relayRest>>

\* maintain_stream_participant: a renewal is refused, or fails by itself.
HeartbeatFails(p) ==
    /\ pub[p].pc # "idle" /\ ~pub[p].lost
    /\ Fault(IF Renewable(p) THEN 1 ELSE 0)
    /\ pub' = [pub EXCEPT ![p].lost = TRUE]
    /\ UNCHANGED <<fenceVars, row, streamVars, relayRest>>

PublisherDies(p) ==
    /\ pub[p].pc # "idle"
    /\ Fault(1)
    /\ pub' = [pub EXCEPT ![p] = IdlePub]
    /\ UNCHANGED <<fenceVars, row, streamVars, relayRest>>

PublishStep(p) == Start(p) \/ Select(p) \/ Finish(p) \/ Xadd(p) \/ XaddRejected(p) \/ MarkPublished(p)
PublishFault(p) == MarkFails(p) \/ HeartbeatFails(p) \/ PublisherDies(p)

-----------------------------------------------------------------------------
(* The alert worker as a participant: register, ensure_group, release.     *)

ConsumerStarts(c) ==
    /\ con[c] = "idle"
    /\ Fence!Join(c)
    /\ con' = [con EXCEPT ![c] = "active"]
    /\ UNCHANGED <<row, streamVars, ckpt, pub, rep, whole, faults>>

\* XGROUP CREATE MKSTREAM is a plain command, no script guards it.
EnsureGroup(c) ==
    /\ con[c] = "active"
    /\ exists' = TRUE
    /\ UNCHANGED <<fenceVars, row, stream, epoch, ckpt, pub, con, rep, whole, faults>>

ConsumerStops(c) ==
    /\ con[c] = "active"
    /\ members' = members \ {c} /\ owner' = owner /\ Fence!Lapse
    /\ con' = [con EXCEPT ![c] = "idle"]
    /\ UNCHANGED <<row, streamVars, ckpt, pub, rep, whole, faults>>

ConsumerStep(c) == ConsumerStarts(c) \/ EnsureGroup(c) \/ ConsumerStops(c)

-----------------------------------------------------------------------------
(* execute_replay                                                          *)

replayRest == <<row, pub, con>>

Move(e, pc) == rep' = [rep EXCEPT ![e].pc = pc]

Drained == (\A p \in Publisher : pub[p].pc = "idle") /\ (\A c \in Consumer : con[c] = "idle")

Begin(e, u) ==
    /\ rep[e].pc = "idle"
    /\ Drain => Drained
    /\ Fence!Acquire(e)
    /\ rep' = [rep EXCEPT ![e] = [IdleRep EXCEPT !.pc = "locked",
                                                 !.at = [NoCursor EXCEPT !.until = u, !.since = epoch]]]
    /\ UNCHANGED <<replayRest, streamVars, ckpt, whole, faults>>

\* Each row of a part of the Stream counts where it occurs first (INSERT OR IGNORE): a
\* crash after a checkpoint leaves duplicates.
FirstAt(part, i) == \A j \in 1..(i - 1) : part[j] # part[i]
InOrder(part) == \A i, j \in DOMAIN part :
    FirstAt(part, i) /\ FirstAt(part, j) /\ i < j => part[i] < part[j]

\* They are the published rows up to the cursor, in their order, and as many as the
\* checkpoint counted.
ReplayedBy(c) == {r \in Published : r <= c.after /\ r <= c.until}
compare_replayed_prefix(c, actual) ==
    ToSet(actual) = ReplayedBy(c) /\ InOrder(actual) /\ c.count = Cardinality(ReplayedBy(c))

\* Of the Stream up to the checkpointed entry.
verify_replayed_prefix(c) == compare_replayed_prefix(c, SubSeq(stream, 1, c.pos))

\* Only the checkpointed row is looked up, not the prefix before it.
ResumableByLastRow(c) ==
    IF c.count > 0
    THEN exists /\ c.epoch = epoch /\ c.pos <= Len(stream) /\ stream[c.pos] = c.after
    ELSE Len(stream) = 0

Resumable(c) ==
    IF c.count > 0
    THEN /\ exists /\ c.epoch = epoch /\ c.pos <= Len(stream)
         /\ stream[c.pos] = c.after
         /\ verify_replayed_prefix(c)
    ELSE Len(stream) = 0

\* What the state key and the Stream let this run do.
MayStartFresh == replay = "none" /\ ~exists
MayReset(e) == replay = "completed" /\ ~exists /\ ckpt.until = rep[e].at.until
MayResume(e) == replay = "running" /\ ckpt.until = rep[e].at.until /\ Resumable(ckpt)

Open(e) ==
    /\ rep[e].pc = "locked"
    /\ \/ /\ MayStartFresh
          /\ Move(e, "opened")
          /\ UNCHANGED <<fenceVars, ckpt>>
       \/ /\ MayReset(e)                      \* reset_completed_checkpoint
          /\ Fence!SetStatus(e, "none")
          /\ ckpt' = NoCursor
          /\ Move(e, "opened")
       \/ /\ MayResume(e)
          /\ rep' = [rep EXCEPT ![e].pc = "opened", ![e].at = [ckpt EXCEPT !.since = epoch]]
          /\ UNCHANGED <<fenceVars, ckpt>>
    /\ UNCHANGED <<replayRest, streamVars, whole, faults>>

\* write_checkpoint: the cursors reach Redis only under the lock token.
Save(e, status) == Fence!SetStatus(e, status) /\ ckpt' = rep[e].at

FirstCheckpoint(e) ==
    /\ rep[e].pc = "opened"
    /\ Save(e, "running")
    /\ Move(e, "fetch")
    /\ UNCHANGED <<replayRest, streamVars, whole, faults>>

\* The SELECT of replay_batch: the first rows beyond the cursor.
Beyond(c) == {r \in Published : r > c.after /\ r <= c.until}
FirstRows(found) == {r \in found : Cardinality({q \in found : q <= r}) <= BatchSize}
Fetched(e, batch) ==
    /\ rep[e].pc = "fetch"
    /\ rep' = [rep EXCEPT ![e].pc = "copy", ![e].todo = batch,
                          ![e].last = Cardinality(batch) < BatchSize]
    /\ UNCHANGED <<fenceVars, replayRest, streamVars, ckpt, whole, faults>>

\* The cursor comparison is >= instead of >.
FetchInclusive(e) ==
    LET at == rep[e].at IN
    Fetched(e, FirstRows({r \in Published : r >= at.after /\ r <= at.until}))

Fetch(e) == Fetched(e, FirstRows(Beyond(rep[e].at)))

\* One XADD of the batch.  The cursors move with it; they are local until saved.
Copy(e) ==
    /\ rep[e].pc = "copy" /\ rep[e].todo # {}
    /\ Len(stream) < MaxLen
    /\ Fence!OwnerWrite(e)
    /\ LET r == Min(rep[e].todo)
           at == [rep[e].at EXCEPT !.count = @ + 1, !.after = r,
                                   !.epoch = epoch, !.pos = Len(stream) + 1]
       IN  /\ stream' = Append(stream, r)
           /\ rep' = [rep EXCEPT ![e].todo = @ \ {r}, ![e].at = at]
    /\ exists' = TRUE
    /\ UNCHANGED <<replayRest, epoch, ckpt, whole, faults>>

Checkpoint(e) ==
    /\ rep[e].pc = "copy" /\ rep[e].todo = {}
    /\ Save(e, replay)
    /\ Move(e, IF rep[e].last THEN "last" ELSE "fetch")
    /\ UNCHANGED <<replayRest, streamVars, whole, faults>>

Complete(e) ==
    /\ rep[e].pc = "last"
    /\ Save(e, "completed")
    /\ Move(e, "done")
    /\ whole' = \/ whole
                \/ rep[e].at.since = epoch /\ \A r \in Published : r <= rep[e].at.until
    /\ UNCHANGED <<replayRest, streamVars, faults>>

Refused(e) ==
    \/ rep[e].pc = "done"
    \/ rep[e].pc = "locked" /\ ~(MayStartFresh \/ MayReset(e) \/ MayResume(e))
    \/ rep[e].pc # "idle" /\ owner # e

\* The finally block: the lock is deleted if the token is still in it.
Leave(e) ==
    /\ rep[e].pc # "idle"
    /\ Fault(IF Refused(e) THEN 0 ELSE 1)
    /\ members' = members /\ owner' = (IF owner = e THEN NoOne ELSE owner)
    /\ Fence!Lapse
    /\ rep' = [rep EXCEPT ![e] = IdleRep]
    /\ UNCHANGED <<replayRest, streamVars, ckpt, whole>>

ReplayerDies(e) ==
    /\ rep[e].pc # "idle"
    /\ Fault(1)
    /\ rep' = [rep EXCEPT ![e] = IdleRep]
    /\ UNCHANGED <<fenceVars, replayRest, streamVars, ckpt, whole>>

ReplayStep(e) ==
    \/ \E u \in Windows : Begin(e, u)
    \/ Open(e) \/ FirstCheckpoint(e) \/ Fetch(e) \/ Copy(e)
    \/ Checkpoint(e) \/ Complete(e) \/ Leave(e) \/ ReplayerDies(e)

-----------------------------------------------------------------------------
(* Leases run out, and Redis loses data.                                   *)

Alive(t) == \/ t \in Publisher /\ pub[t].pc # "idle"
            \/ t \in Consumer /\ con[t] # "idle"
            \/ t \in Replayer /\ rep[t].pc # "idle"

LeaseRunsOut(t) ==
    /\ \/ t \in members /\ members' = members \ {t} /\ owner' = owner
       \/ t = owner /\ owner' = NoOne /\ members' = members
    /\ Fence!Lapse
    /\ Fault(IF Alive(t) THEN 1 ELSE 0)
    /\ UNCHANGED <<row, streamVars, ckpt, pub, con, rep, whole>>

Lost ==
    /\ stream' = <<>> /\ exists' = FALSE
    /\ epoch' = epoch + 1
    /\ whole' = FALSE

StreamLost ==
    /\ exists /\ Lost /\ Fault(1)
    /\ UNCHANGED <<fenceVars, row, ckpt, pub, con, rep>>

RedisFlushed ==
    /\ Lost /\ Fault(1)
    /\ Fence!Flush
    /\ ckpt' = NoCursor
    /\ UNCHANGED <<row, pub, con, rep>>

Next ==
    \/ \E r \in Row : Insert(r)
    \/ \E p \in Publisher : PublishStep(p) \/ PublishFault(p)
    \/ \E c \in Consumer : ConsumerStep(c)
    \/ \E e \in Replayer : ReplayStep(e)
    \/ \E t \in Participant \cup Replayer : LeaseRunsOut(t)
    \/ StreamLost
    \/ RedisFlushed

Spec == Init /\ [][Next]_vars

\* Every scheduler cycle calls publish_batch again and lets it run.
FairSpec == Spec /\ \A p \in Publisher : WF_vars(PublishStep(p))

-----------------------------------------------------------------------------
(***************************************************************************)
(* At-least-once: unless the Stream was lost and not recovered since, what *)
(* PostgreSQL calls published is in the Stream.  A completed replay counts *)
(* as recovery when its window covers every published row and nothing was  *)
(* lost after it took the lock (code: the XADD before the UPDATE in        *)
(* publish_batch; the verification and cursors of execute_replay).         *)
(***************************************************************************)
PublishedIsInStream == whole => Published \subseteq ToSet(stream)

(***************************************************************************)
(* A replay interrupted after progress can be resumed: while the Stream it *)
(* was writing is not lost, the prefix behind the saved cursors passes the *)
(* verification that the next run makes, duplicates of a crashed batch     *)
(* notwithstanding.                                                        *)
(***************************************************************************)
SavedProgressVerifies ==
    replay = "running" /\ ckpt.count > 0 /\ ckpt.since = epoch => Resumable(ckpt)

(***************************************************************************)
(* Concurrent publishers deliver once as long as nothing fails: the row    *)
(* locks keep two of them off the same row (FOR UPDATE SKIP LOCKED).       *)
(***************************************************************************)
OnceWithoutFaults ==
    faults = 0 => \A i, j \in 1..Len(stream) : stream[i] = stream[j] => i = j

(***************************************************************************)
(* Every committed row of a registered kind is published, whatever crashes *)
(* and lapses happen on the way and although rows before it fail for ever, *)
(* provided fewer than Limit rows do (each batch starts again at the       *)
(* first).                                                                 *)
(***************************************************************************)
EveryRowIsPublished ==
    \A r \in Row \ Unregistered : (row[r] = "pending") ~> (row[r] = "published")

=============================================================================
