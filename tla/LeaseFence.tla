----------------------------- MODULE LeaseFence -----------------------------
(***************************************************************************)
(* What the Redis fence of radar/outbox.py promises, without leases, TTLs  *)
(* or heartbeats: a set of members writes the Stream while the fence is    *)
(* open, and one exclusive owner writes it while the fence is shut.  Any   *)
(* member or owner may drop out at any moment (it left, crashed, or its    *)
(* lease ran out).  StreamFence implements this specification, and         *)
(* OutboxRelay is built on it.                                             *)
(***************************************************************************)
CONSTANTS
    Participant,  \* tokens of publishers and consumers
    Replayer,     \* tokens of the replay tool, which may resume a running replay
    Maintainer,   \* tokens of other exclusive maintenance (retention)
    NoOne

Exclusive == Replayer \cup Maintainer
ReplayStatus == {"none", "running", "completed"}

\* What the modules that use the fence assume of their tokens.
DistinctTokens ==
    /\ Participant \cap Exclusive = {}
    /\ Replayer \cap Maintainer = {}
    /\ NoOne \notin Participant \cup Exclusive

VARIABLES
    members,  \* participants inside the fence
    owner,    \* the exclusive owner, or NoOne
    replay,   \* status of the replay checkpoint
    wrote     \* history: who wrote since the fence last shut on a fresh state

fenceVars == <<members, owner, replay, wrote>>

TypeOK ==
    /\ members \subseteq Participant
    /\ owner \in Exclusive \cup {NoOne}
    /\ replay \in ReplayStatus
    /\ wrote \subseteq Participant \cup Exclusive

Init ==
    /\ members = {}
    /\ owner = NoOne
    /\ replay = "none"
    /\ wrote = {}

Open == owner = NoOne /\ replay # "running"

Join(t) ==
    /\ Open
    /\ members' = members \cup {t}
    /\ UNCHANGED <<owner, replay, wrote>>

MemberWrite(t) ==
    /\ Open
    /\ t \in members
    /\ wrote' = wrote \cup {t}
    /\ UNCHANGED <<members, owner, replay>>

Acquire(e) ==
    /\ owner = NoOne
    /\ members = {}
    /\ replay = "running" => e \in Replayer
    /\ owner' = e
    /\ wrote' = IF replay = "running" THEN wrote ELSE {}
    /\ UNCHANGED <<members, replay>>

OwnerWrite(e) ==
    /\ owner = e
    /\ wrote' = wrote \cup {e}
    /\ UNCHANGED <<members, owner, replay>>

SetStatus(r, s) ==
    /\ owner = r
    /\ replay' = s
    /\ UNCHANGED <<members, owner, wrote>>

Lapse ==
    /\ members' \in SUBSET members
    /\ owner' \in {owner, NoOne}
    /\ UNCHANGED <<replay, wrote>>

Flush ==
    /\ members' = {}
    /\ owner' = NoOne
    /\ replay' = "none"
    /\ UNCHANGED wrote

Next ==
    \/ \E t \in Participant : Join(t) \/ MemberWrite(t)
    \/ \E e \in Exclusive : Acquire(e) \/ OwnerWrite(e)
    \/ \E r \in Replayer, s \in ReplayStatus : SetStatus(r, s)
    \/ Lapse
    \/ Flush

Spec == Init /\ [][Next]_fenceVars

(***************************************************************************)
(* While somebody owns the fence no participant is left inside it: the     *)
(* exclusive owner never runs beside a publisher or a consumer that the    *)
(* fence still counts as live.                                             *)
(***************************************************************************)
OwnerIsAlone == owner # NoOne => members = {}

(***************************************************************************)
(* An exclusive tenure is undisturbed: since retention took the fence only *)
(* retention wrote, and since a replay became "running" only replay tokens *)
(* wrote, even across the crash of one replay and the resumption by        *)
(* another.                                                                *)
(***************************************************************************)
Undisturbed ==
    /\ owner \in Maintainer => wrote \subseteq {owner}
    /\ owner \in Replayer \/ replay = "running" => wrote \subseteq Replayer

=============================================================================
