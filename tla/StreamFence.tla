---------------------------- MODULE StreamFence ----------------------------
(***************************************************************************)
(* The lease protocol of services/api/radar/outbox.py.  Normal Stream      *)
(* processing (publisher, consumer) holds a scored entry of the            *)
(* participants ZSET; replay and retention hold the lock key.  Every Lua   *)
(* script is one atomic action.  Scores and TTLs are kept as the time left *)
(* (score - TIME), so a Tick decrements them and an entry whose score is   *)
(* past is the same as one that ZREMRANGEBYSCORE has removed.              *)
(* A token stands for one unit of work (one publish_batch, one run_once,   *)
(* one execute_replay): its random part makes it fresh, so a token is      *)
(* reused only once its old lease is gone.                                 *)
(***************************************************************************)
EXTENDS Integers

CONSTANTS Participant, Replayer, Maintainer, NoOne,
          Lease   \* PARTICIPANT_LEASE_SECONDS, in ticks

Exclusive == Replayer \cup Maintainer
Token == Participant \cup Exclusive

ASSUME LeaseAssumption == Lease \in Nat \ {0}
ASSUME TokenAssumption ==
    /\ Participant \cap Exclusive = {}
    /\ Replayer \cap Maintainer = {}
    /\ NoOne \notin Token

VARIABLES
    ttl,       \* participants ZSET: time left of each token's score
    owner,     \* value of the lock key, NoOne when it does not exist
    ownerTtl,  \* TTL of the lock key, 0 when it does not exist
    replay,    \* HGET state "status"; "none" when the key does not exist
    phase,     \* where the process behind a token is
    wrote      \* history: writers since the fence last shut on a fresh state

vars == <<ttl, owner, ownerTtl, replay, phase, wrote>>

Phase == {"idle", "active", "copying", "finished"}

TypeOK ==
    /\ ttl \in [Participant -> 0..Lease]
    /\ owner \in Exclusive \cup {NoOne}
    /\ ownerTtl \in 0..Lease
    /\ replay \in {"none", "running", "completed"}
    /\ phase \in [Token -> Phase]
    /\ wrote \subseteq Token

Init ==
    /\ ttl = [t \in Participant |-> 0]
    /\ owner = NoOne
    /\ ownerTtl = 0
    /\ replay = "none"
    /\ phase = [t \in Token |-> "idle"]
    /\ wrote = {}

\* The test every participant script makes before it touches the ZSET.
Shut == owner # NoOne \/ replay = "running"

Goto(t, p) == phase' = [phase EXCEPT ![t] = p]

-----------------------------------------------------------------------------
(* Plausible bugs of the scripts below, which the runs must tell from them. *)

\* XADD on the strength of an earlier renewal instead of in its script.
xadd_without_fence(t) ==
    /\ phase[t] = "active"
    /\ wrote' = wrote \cup {t}
    /\ UNCHANGED <<ttl, owner, ownerTtl, replay, phase>>

\* SET without EX: the lock outlives its owner.
take_without_expiry(e) ==
    /\ phase[e] = "idle"
    /\ owner = NoOne
    /\ \A t \in Participant : ttl[t] = 0
    /\ owner' = e
    /\ ownerTtl' = -1
    /\ wrote' = IF replay = "running" THEN wrote ELSE {}
    /\ Goto(e, "active")
    /\ UNCHANGED <<ttl, replay>>

-----------------------------------------------------------------------------
(* Participants: publish_batch and RedisAlertWorker.run_once.              *)

register_stream_participant(t) ==
    /\ phase[t] = "idle"
    /\ ttl[t] = 0
    /\ ~Shut
    /\ ttl' = [ttl EXCEPT ![t] = Lease]
    /\ Goto(t, "active")
    /\ UNCHANGED <<owner, ownerTtl, replay, wrote>>

\* Called in line and by the heartbeat task.  A refused or failed renewal only
\* makes the process leave, which it may do at any time (release, Crash).
renew_stream_participant(t) ==
    /\ phase[t] = "active"
    /\ ~Shut
    /\ ttl[t] > 0
    /\ ttl' = [ttl EXCEPT ![t] = Lease]
    /\ UNCHANGED <<owner, ownerTtl, replay, phase, wrote>>

\* No belief of the process is consulted: one that stalled past its lease
\* calls XADD as any other, and only the script decides.
xadd_as_stream_participant(t) ==
    /\ phase[t] = "active"
    /\ ~Shut
    /\ ttl[t] > 0
    /\ ttl' = [ttl EXCEPT ![t] = Lease]
    /\ wrote' = wrote \cup {t}
    /\ UNCHANGED <<owner, ownerTtl, replay, phase>>

release_stream_participant(t) ==
    /\ phase[t] = "active"
    /\ ttl' = [ttl EXCEPT ![t] = 0]
    /\ Goto(t, "idle")
    /\ UNCHANGED <<owner, ownerTtl, replay, wrote>>

-----------------------------------------------------------------------------
(* Exclusive owners: the replay tool and stream retention.                 *)

Take(e) ==
    /\ phase[e] = "idle"
    /\ owner = NoOne
    /\ \A t \in Participant : ttl[t] = 0
    /\ owner' = e
    /\ ownerTtl' = Lease
    /\ wrote' = IF replay = "running" THEN wrote ELSE {}
    /\ Goto(e, "active")
    /\ UNCHANGED <<ttl, replay>>

\* acquire_stream_exclusive without allow_running_replay_state, as retention calls it.
acquire_stream_exclusive(e) ==
    /\ e \in Maintainer
    /\ replay # "running"
    /\ Take(e)

\* The acquiring script at the head of execute_replay, which may resume.
execute_replay_acquire(e) ==
    /\ e \in Replayer
    /\ Take(e)

renew_stream_exclusive(e) ==
    /\ phase[e] # "idle"
    /\ owner = e
    /\ ownerTtl' = Lease
    /\ UNCHANGED <<ttl, owner, replay, phase, wrote>>

\* Only the replay appends under the lock, and only after its first checkpoint.
xadd_as_stream_exclusive(e) ==
    /\ e \in Replayer
    /\ phase[e] = "copying"
    /\ owner = e
    /\ ownerTtl' = Lease
    /\ wrote' = wrote \cup {e}
    /\ UNCHANGED <<ttl, owner, replay, phase>>

\* A completed state over a Stream that is gone is dropped before a new run.
reset_completed_checkpoint(e) ==
    /\ e \in Replayer
    /\ phase[e] = "active"
    /\ replay = "completed"
    /\ owner = e
    /\ replay' = "none"
    /\ ownerTtl' = Lease
    /\ UNCHANGED <<ttl, owner, phase, wrote>>

\* The checkpoints of execute_replay: "running" first, one after every batch
\* that names no status, and "completed" last.
write_checkpoint(e) ==
    /\ e \in Replayer
    /\ owner = e
    /\ \/ /\ phase[e] = "active"
          /\ replay # "completed"
          /\ Goto(e, "copying")
          /\ replay' = "running"
       \/ /\ phase[e] = "copying"
          /\ UNCHANGED <<phase, replay>>
       \/ /\ phase[e] = "copying"
          /\ Goto(e, "finished")
          /\ replay' = "completed"
    /\ ownerTtl' = Lease
    /\ UNCHANGED <<ttl, owner, wrote>>

release_stream_exclusive(e) ==
    /\ phase[e] # "idle"
    /\ owner' = IF owner = e THEN NoOne ELSE owner
    /\ ownerTtl' = IF owner = e THEN 0 ELSE ownerTtl
    /\ Goto(e, "idle")
    /\ UNCHANGED <<ttl, replay, wrote>>

-----------------------------------------------------------------------------
(* The environment: process death, the Redis clock, loss of the Redis data. *)

\* The process dies, or its release call fails: the lease stays behind.
Crash(t) ==
    /\ phase[t] # "idle"
    /\ Goto(t, "idle")
    /\ UNCHANGED <<ttl, owner, ownerTtl, replay, wrote>>

Tick ==
    /\ ttl' = [t \in Participant |-> IF ttl[t] > 0 THEN ttl[t] - 1 ELSE 0]
    /\ ownerTtl' = IF ownerTtl > 0 THEN ownerTtl - 1 ELSE ownerTtl
    /\ owner' = IF ownerTtl = 1 THEN NoOne ELSE owner
    /\ UNCHANGED <<replay, phase, wrote>>

Flush ==
    /\ ttl' = [t \in Participant |-> 0]
    /\ owner' = NoOne
    /\ ownerTtl' = 0
    /\ replay' = "none"
    /\ UNCHANGED <<phase, wrote>>

ParticipantStep(t) ==
    \/ register_stream_participant(t)
    \/ renew_stream_participant(t)
    \/ xadd_as_stream_participant(t)
    \/ release_stream_participant(t)

ExclusiveStep(e) ==
    \/ acquire_stream_exclusive(e)
    \/ execute_replay_acquire(e)
    \/ renew_stream_exclusive(e)
    \/ xadd_as_stream_exclusive(e)
    \/ reset_completed_checkpoint(e)
    \/ write_checkpoint(e)
    \/ release_stream_exclusive(e)

Next ==
    \/ \E t \in Participant : ParticipantStep(t)
    \/ \E e \in Exclusive : ExclusiveStep(e)
    \/ \E t \in Token : Crash(t)
    \/ Tick
    \/ Flush

Spec == Init /\ [][Next]_vars

\* The Redis clock moves on whatever the processes do.
FairSpec == Spec /\ WF_vars(Tick)

-----------------------------------------------------------------------------
\* The fence this protocol implements: a lease that has run out is no member.
Fence == INSTANCE LeaseFence WITH members <- {t \in Participant : ttl[t] > 0}

(***************************************************************************)
(* The leases, heartbeats and Lua checks of outbox.py implement the fence  *)
(* of LeaseFence: whatever expires, crashes, stalls or is flushed, every   *)
(* write is one the open fence (or its owner) allows.                      *)
(***************************************************************************)
ImplementsFence == Fence!Spec

(***************************************************************************)
(* OwnerIsAlone of LeaseFence for the leases of the code: as long as the   *)
(* lock key exists no participant score is in the future.                  *)
(***************************************************************************)
OwnerIsAlone == owner # NoOne => \A t \in Participant : ttl[t] = 0

(***************************************************************************)
(* Nobody but its owner wrote during an exclusive tenure, and nobody but   *)
(* replay tokens wrote while a replay is marked running, although any      *)
(* process may act on the belief that it still holds a lease.              *)
(***************************************************************************)
Undisturbed == Fence!Undisturbed

(***************************************************************************)
(* A crash never shuts the fence for good: the lease or lock a dead        *)
(* process left behind expires (the checkpoint status is durable and does  *)
(* not: only a resumed replay clears "running").                           *)
(***************************************************************************)
AbandonedLeasesExpire ==
    /\ \A t \in Participant : (phase[t] = "idle") ~> (ttl[t] = 0)
    /\ \A e \in Exclusive : (phase[e] = "idle") ~> (owner # e)

=============================================================================
