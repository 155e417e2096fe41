------------------------- MODULE EvidenceLifecycle -------------------------
(***************************************************************************)
(* Raw evidence from its collection to its deletion: a connector's cycle   *)
(* (run_connector of radar/worker.py, the collect of connectors/base.py,   *)
(* rss.py, github.py and bluesky.py), the rows that refer to the archived  *)
(* objects (save_observation_with_outbox), the retention worker            *)
(* (radar/retention.py over expire_raw_evidence), and the erasure of a     *)
(* source, whose objects the alert consumer deletes (radar/deletion.py).   *)
(*                                                                         *)
(* The object store and PostgreSQL share no transaction: objects are put   *)
(* before the rows that name them are written and deleted after the last   *)
(* of those is gone, with a crash possible between any two calls.  A key   *)
(* holds the moment of the poll, so that no two polls share one: here the  *)
(* polls are numbered.  Scoring is ScoringPipeline's matter.               *)
(***************************************************************************)
EXTENDS Integers, FiniteSets, FiniteSetsExt

CONSTANTS
    Connector,
    Feed,              \* the connector that reads Jetstream by a cursor
    Posts,             \* all posts of the feed: the time of a post is its number
    Item, ItemsOf,     \* what a connector can collect: items are numbers
    Batched,           \* items of one document, archived whole (RSS)
    Metered,           \* items with metrics, a snapshot of each poll (GitHub)
    Source, SourceOf,
    Worker,            \* processes that run the retention worker
    Start,             \* the checkpoint of the feed to begin with
    Overlap,           \* how far a reconnecting feed reads back
    MaxMessages,       \* messages a connection of the feed reads
    MaxUris,           \* candidates one AppView request can verify (25)
    Blank, Absent,     \* the reference was removed; there is no row
    MaxPolls,          \* bound: polls of all connectors together
    MaxDeliveries,     \* deliveries of a message before the alert worker gives it up (5)
    Erasable,          \* bound: sources that may be erased, each once
    MaxFaults          \* bound: crashes and failed calls

Poll == 1..MaxPolls
Whole == 0             \* the document of a batch, in place of an item
Ref == Poll \X ((Item \ Batched) \cup {Whole})
Matching == ItemsOf[Feed]    \* posts about one of the keywords

ASSUME EvidenceAssumption ==
    /\ Feed \in Connector /\ Item \subseteq Nat \ {0} /\ IsFiniteSet(Item)
    /\ ItemsOf \in [Connector -> SUBSET Item] /\ SourceOf \in [Item -> Source]
    /\ Posts \subseteq Nat \ {0} /\ IsFiniteSet(Posts) /\ Item \cap Posts = Matching
    /\ Batched \subseteq Item \ Posts /\ Metered \subseteq Item \ Posts
    /\ Blank \notin Ref /\ Absent \notin Ref /\ Blank # Absent
    /\ Start \in Posts /\ Overlap \in Nat /\ MaxMessages \in Nat \ {0, 1} /\ MaxUris \in Nat \ {0}
    /\ MaxDeliveries \in Nat \ {0} /\ MaxPolls \in Nat /\ Erasable \subseteq Source /\ MaxFaults \in Nat

VARIABLES
    objects,    \* the keys present in the object store
    row,        \* observations: the reference of an item's row
    snapshot,   \* metric_snapshots: pairs of an item and a source_revision
    deletion,   \* raw_evidence_deletions
    erasure,    \* each source: its purge, then its source.erased message
    connector,  \* each connector: pc, its poll, what is to be archived and saved
    cursor,     \* connector_checkpoints: cursorTimeUs of the feed
    polls,      \* polls begun
    cutoff,     \* polls up to this one are older than the retention period
    worker,     \* each retention worker: pc, the references it claimed, the current one
    faults,     \* history: how many faults happened
    lost        \* history: references erased, and items whose source was

rows == <<row, snapshot>>
vars == <<objects, rows, deletion, erasure, connector, cursor, polls, cutoff, worker, faults, lost>>

\* What the purge read, the deliveries that failed, and whether the message is in the
\* dead-letter list.
NoErasure == [pc |-> "none", items |-> {}, refs |-> {}, tries |-> 0, dead |-> FALSE]
Resting == [pc |-> "idle", poll |-> 0, todo |-> {}, save |-> {}, highest |-> 0, full |-> FALSE]
Idle == [pc |-> "idle", todo |-> {}, cur |-> Absent]

Key(p, i) == IF i \in Batched THEN <<p, Whole>> ELSE <<p, i>>

raw_evidence_is_referenced(r) ==
    (\E i \in Item : row[i] = r) \/ (\E i \in Item : <<i, r>> \in snapshot)

TypeOK ==
    /\ objects \subseteq Ref /\ row \in [Item -> Ref \cup {Blank, Absent}]
    /\ snapshot \subseteq Item \X Ref
    /\ deletion \in [Ref -> {"none", "due", "leased", "waiting", "completed"}]
    /\ \A s \in Source : /\ erasure[s].pc \in {"none", "purging", "pending", "acknowledged"}
                         /\ erasure[s].items \subseteq Item /\ erasure[s].refs \subseteq Ref
                         /\ erasure[s].tries \in Nat /\ erasure[s].dead \in BOOLEAN
    /\ \A c \in Connector :
          /\ connector[c].pc \in {"idle", "archiving", "saving", "finishing"}
          /\ connector[c].todo \cup connector[c].save \subseteq ItemsOf[c]
          /\ connector[c].highest \in Posts \cup {0}
    /\ cursor \in Posts /\ polls \in 0..MaxPolls /\ cutoff \in 0..polls
    /\ \A w \in Worker : worker[w].pc \in {"idle", "checking", "deleting", "confirming", "failing"}
                         /\ worker[w].todo \subseteq Ref
    /\ faults \in 0..MaxFaults

Init ==
    /\ objects = {} /\ row = [i \in Item |-> Absent] /\ snapshot = {}
    /\ deletion = [r \in Ref |-> "none"] /\ erasure = [s \in Source |-> NoErasure]
    /\ connector = [c \in Connector |-> Resting]
    /\ cursor = Start /\ polls = 0 /\ cutoff = 0
    /\ worker = [w \in Worker |-> Idle]
    /\ faults = 0 /\ lost = [refs |-> {}, items |-> {}]

Fault == faults < MaxFaults /\ faults' = faults + 1

-----------------------------------------------------------------------------
(* A cycle of a connector.                                                 *)

\* The messages of a connection that begins at start and ends after n of them,
\* because the limit is reached or nothing comes for some seconds.
Messages(start, n) == {t \in Posts : t >= start /\ Cardinality({u \in Posts : start <= u /\ u <= t}) <= n}

\* Posts up to the checkpoint are skipped, and nothing is read past the last
\* candidate that one request can verify.
Novel(messages) == {t \in messages : t > cursor}
UpToLimit(messages) ==
    {t \in Novel(messages) : Cardinality({u \in Novel(messages) \cap Matching : u < t}) < MaxUris}

BackUp(n) == LET first == IF cursor > Overlap THEN cursor - Overlap ELSE 0 IN Messages(first, n)

\* A whole window of posts that are known already: once more, from the cursor.
WindowIsStale(n) ==
    n = MaxMessages /\ Cardinality(BackUp(n)) = n /\ Novel(BackUp(n)) = {} /\ Overlap > 0

_read_candidates(n) == IF WindowIsStale(n) THEN Messages(cursor, n) ELSE BackUp(n)

\* restore_checkpoint forgets what an earlier cycle had read beyond the checkpoint.
ReadBeyond(c) == connector[c].highest
restore_checkpoint(c) == cursor

CollectFeed(n) ==
    LET messages == _read_candidates(n)
        read == UpToLimit(messages)
    IN /\ connector' = [connector EXCEPT ![Feed] =
              [pc |-> "archiving", poll |-> polls + 1, todo |-> read \cap Matching, save |-> {},
               highest |-> Max(read \cup {restore_checkpoint(Feed)}),
               full |-> Cardinality(messages) = MaxMessages]]
       /\ connector[Feed].pc = "idle" /\ polls < MaxPolls /\ polls' = polls + 1
       /\ UNCHANGED <<objects, rows, deletion, erasure, cursor, cutoff, worker, faults, lost>>

Collect(c) ==
    /\ c # Feed /\ connector[c].pc = "idle" /\ polls < MaxPolls /\ polls' = polls + 1
    /\ \E items \in (SUBSET ItemsOf[c]) \ {{}} :
          connector' = [connector EXCEPT ![c] =
              [Resting EXCEPT !.pc = "archiving", !.poll = polls + 1, !.todo = items]]
    /\ UNCHANGED <<objects, rows, deletion, erasure, cursor, cutoff, worker, faults, lost>>

\* An error of the object store passed over.
ArchiveIfPossible(c) ==
    LET x == connector[c]
        i == Min(x.todo)
    IN /\ x.pc = "archiving" /\ x.todo # {}
       /\ \/ objects' = objects \cup {Key(x.poll, i)} /\ UNCHANGED faults
          \/ Fault /\ UNCHANGED objects
       /\ connector' = [connector EXCEPT ![c].todo = @ \ {i}, ![c].save = @ \cup {i},
                                         ![c].pc = IF x.todo = {i} THEN "saving" ELSE @]
       /\ UNCHANGED <<rows, deletion, erasure, cursor, polls, cutoff, worker, lost>>

\* Within collect: the object is in the store before the observation is built.
Archive(c) ==
    LET x == connector[c]
        i == Min(x.todo)
    IN /\ x.pc = "archiving"
       /\ IF x.todo = {}
          THEN connector' = [connector EXCEPT ![c].pc = "saving"] /\ UNCHANGED objects
          ELSE /\ objects' = objects \cup {Key(x.poll, i)}
               /\ connector' = [connector EXCEPT ![c].todo = @ \ {i}, ![c].save = @ \cup {i}]
       /\ UNCHANGED <<rows, deletion, erasure, cursor, polls, cutoff, worker, faults, lost>>

\* A row that exists is not written over.  A discovery that is ignored puts its new
\* object into the deletion queue; an item with metrics adds a snapshot that names
\* the new object; of any other item nothing names it.
save_observation_with_outbox(i, r) ==
    /\ row' = IF row[i] = Absent THEN [row EXCEPT ![i] = r] ELSE row
    /\ snapshot' = IF i \in Metered THEN snapshot \cup {<<i, r>>} ELSE snapshot
    /\ deletion' = IF row[i] # Absent /\ i \in Posts /\ ~raw_evidence_is_referenced(r)
                   THEN [deletion EXCEPT ![r] = "due"] ELSE deletion

Save(c) ==
    LET x == connector[c]
        i == Min(x.save)
    IN /\ x.pc = "saving"
       /\ IF x.save = {}
          THEN connector' = [connector EXCEPT ![c].pc = "finishing"] /\ UNCHANGED <<rows, deletion>>
          ELSE /\ save_observation_with_outbox(i, Key(x.poll, i))
               /\ connector' = [connector EXCEPT ![c].save = @ \ {i}]
       /\ UNCHANGED <<objects, erasure, cursor, polls, cutoff, worker, faults, lost>>

\* next_checkpoint and save_connector_checkpoint, when every observation is saved.
Finish(c) ==
    /\ connector[c].pc = "finishing"
    /\ cursor' = IF c = Feed THEN Max({cursor, connector[c].highest}) ELSE cursor
    /\ connector' = [connector EXCEPT ![c].pc = "idle"]
    /\ UNCHANGED <<objects, rows, deletion, erasure, polls, cutoff, worker, faults, lost>>

\* An error ends the cycle, or the process dies: no checkpoint is saved.
CycleFails(c) ==
    /\ connector[c].pc # "idle" /\ Fault
    /\ connector' = [connector EXCEPT ![c].pc = "idle", ![c].todo = {}, ![c].save = {}]
    /\ UNCHANGED <<objects, rows, deletion, erasure, cursor, polls, cutoff, worker, lost>>

\* The retention period of the next poll is over: some days, no cycle takes so long.
PeriodEnds ==
    /\ cutoff < polls /\ \A c \in Connector : connector[c].pc = "idle" \/ connector[c].poll # cutoff + 1
    /\ cutoff' = cutoff + 1
    /\ UNCHANGED <<objects, rows, deletion, erasure, connector, cursor, polls, worker, faults, lost>>

-----------------------------------------------------------------------------
(* The retention worker.                                                   *)

Old(r) == r[1] <= cutoff
ExpiredRows == {i \in Item : row[i] \in Ref /\ Old(row[i])}
ExpiredSnapshots == {x \in snapshot : Old(x[2]) /\ row[x[1]] # Absent}
Candidates == {row[i] : i \in ExpiredRows} \cup {x[2] : x \in ExpiredSnapshots}

\* One transaction: remove the references, queue what nothing refers to any more,
\* and claim what is due.
expire_raw_evidence(w) ==
    LET kept == [i \in Item |-> IF i \in ExpiredRows THEN Blank ELSE row[i]]
        left == snapshot \ ExpiredSnapshots
        used == {kept[i] : i \in Item} \cup {x[2] : x \in left}
        queue == [r \in Ref |-> IF r \in Candidates \ used /\ deletion[r] = "none"
                                THEN "due" ELSE deletion[r]]
        claimed == {r \in Ref \ used : queue[r] = "due"}
    IN /\ worker[w].pc = "idle" /\ (claimed # {} \/ Candidates # {})
       /\ row' = kept /\ snapshot' = left
       /\ deletion' = [r \in Ref |-> IF r \in claimed THEN "leased" ELSE queue[r]]
       /\ worker' = [worker EXCEPT ![w] =
              IF claimed = {} THEN Idle ELSE [Idle EXCEPT !.pc = "checking", !.todo = claimed]]
       /\ UNCHANGED <<objects, erasure, connector, cursor, polls, cutoff, faults, lost>>

Rest(w, r) == IF worker[w].todo = {r} THEN Idle
              ELSE [Idle EXCEPT !.pc = "checking", !.todo = worker[w].todo \ {r}]

\* Looked at again just before the object is deleted.
Check(w) ==
    /\ worker[w].pc = "checking"
    /\ \E r \in worker[w].todo :
          IF raw_evidence_is_referenced(r)
          THEN /\ worker' = [worker EXCEPT ![w] = Rest(w, r)]
               /\ deletion' = [deletion EXCEPT ![r] = IF @ = "leased" THEN "due" ELSE @]
          ELSE worker' = [worker EXCEPT ![w].pc = "deleting", ![w].cur = r] /\ UNCHANGED deletion
    /\ UNCHANGED <<objects, rows, erasure, connector, cursor, polls, cutoff, faults, lost>>

DeleteAnyway(w) ==
    /\ worker[w].pc = "deleting"
    /\ \/ objects' = objects \ {worker[w].cur} /\ UNCHANGED faults
       \/ Fault /\ UNCHANGED objects
    /\ worker' = [worker EXCEPT ![w].pc = "confirming"]
    /\ UNCHANGED <<rows, deletion, erasure, connector, cursor, polls, cutoff, lost>>

\* The store deletes the object or reports an error.
Delete(w) ==
    /\ worker[w].pc = "deleting"
    /\ \/ /\ objects' = objects \ {worker[w].cur}
          /\ worker' = [worker EXCEPT ![w].pc = "confirming"] /\ UNCHANGED faults
       \/ /\ Fault /\ worker' = [worker EXCEPT ![w].pc = "failing"] /\ UNCHANGED objects
    /\ UNCHANGED <<rows, deletion, erasure, connector, cursor, polls, cutoff, lost>>

\* Whoever holds the row's lease by now.
confirm_raw_evidence_deletions(w) ==
    /\ worker[w].pc = "confirming"
    /\ deletion' = [deletion EXCEPT ![worker[w].cur] = "completed"]
    /\ worker' = [worker EXCEPT ![w] = Rest(w, worker[w].cur)]
    /\ UNCHANGED <<objects, rows, erasure, connector, cursor, polls, cutoff, faults, lost>>

\* Later again, unless someone confirmed it meanwhile.
fail_raw_evidence_deletion(w) ==
    /\ worker[w].pc = "failing"
    /\ deletion' = [deletion EXCEPT ![worker[w].cur] = IF @ = "completed" THEN @ ELSE "waiting"]
    /\ worker' = [worker EXCEPT ![w] = Rest(w, worker[w].cur)]
    /\ UNCHANGED <<objects, rows, erasure, connector, cursor, polls, cutoff, faults, lost>>

WorkerDies(w) ==
    /\ worker[w].pc # "idle" /\ Fault
    /\ worker' = [worker EXCEPT ![w] = Idle]
    /\ UNCHANGED <<objects, rows, deletion, erasure, connector, cursor, polls, cutoff, lost>>

\* Five minutes of a lease, or the delay after a failure, are over.
NeverForTheDead(r) == deletion[r] = "waiting"
MayElapse(r) == deletion[r] \in {"leased", "waiting"}

Elapse(r) ==
    /\ MayElapse(r)
    /\ deletion' = [deletion EXCEPT ![r] = "due"]
    /\ UNCHANGED <<objects, rows, erasure, connector, cursor, polls, cutoff, worker, faults, lost>>

-----------------------------------------------------------------------------
(* The erasure of a source.                                                *)

RefsOf(items) == {row[i] : i \in items} \cup {x[2] : x \in {y \in snapshot : y[1] \in items}}

ItemsFrom(s) == {i \in Item : SourceOf[i] = s}
Stored(s) == {i \in ItemsFrom(s) : row[i] # Absent}

\* The beginning of purge_source: the observations there are, and what they name and
\* no other source does.
ReadForPurge(s) ==
    LET raw_refs == (RefsOf(ItemsFrom(s)) \ RefsOf(Item \ ItemsFrom(s))) \cap Ref
    IN /\ s \in Erasable /\ erasure[s].pc = "none" /\ Stored(s) # {}
       /\ erasure' = [erasure EXCEPT ![s] =
              [NoErasure EXCEPT !.pc = "purging", !.items = Stored(s), !.refs = raw_refs]]
       /\ UNCHANGED <<objects, rows, deletion, connector, cursor, polls, cutoff, worker, faults, lost>>

\* Its end, READ COMMITTED: the snapshots of the observations read, but every row of
\* the source, those saved meanwhile included.
purge_source(s) ==
    /\ erasure[s].pc = "purging"
    /\ row' = [i \in Item |-> IF i \in ItemsFrom(s) THEN Absent ELSE row[i]]
    /\ snapshot' = {x \in snapshot : x[1] \notin erasure[s].items}
    /\ erasure' = [erasure EXCEPT ![s].pc = "pending", ![s].items = {}]
    /\ lost' = [refs |-> lost.refs \cup erasure[s].refs, items |-> lost.items \cup Stored(s)]
    /\ UNCHANGED <<objects, deletion, connector, cursor, polls, cutoff, worker, faults>>

PurgeFails(s) ==
    /\ erasure[s].pc = "purging" /\ Fault
    /\ erasure' = [erasure EXCEPT ![s] = NoErasure]
    /\ UNCHANGED <<objects, rows, deletion, connector, cursor, polls, cutoff, worker, lost>>

\* SourceDeletionConsumer.handle, and the message is acknowledged only then.
Handle(s) ==
    /\ erasure[s].pc = "pending"
    /\ objects' = objects \ erasure[s].refs
    /\ erasure' = [erasure EXCEPT ![s].pc = "acknowledged", ![s].tries = 0]
    /\ UNCHANGED <<rows, deletion, connector, cursor, polls, cutoff, worker, faults, lost>>

DeletePart(s) ==
    /\ erasure[s].pc = "pending"
    /\ \E part \in SUBSET erasure[s].refs : objects' = objects \ part
    /\ UNCHANGED <<rows, deletion, connector, cursor, polls, cutoff, worker, lost>>

LastDelivery(s) == erasure[s].tries + 1 >= MaxDeliveries

\* The store deletes a part of them and reports an error: the message stays pending,
\* or the last time it is put into the dead-letter list and acknowledged.
HandleFails(s) ==
    /\ DeletePart(s) /\ UNCHANGED faults
    /\ erasure' = IF LastDelivery(s)
         THEN [erasure EXCEPT ![s].pc = "acknowledged", ![s].tries = 0, ![s].dead = TRUE]
         ELSE [erasure EXCEPT ![s].tries = @ + 1]

DiesAcknowledging(s) ==
    /\ DeletePart(s) /\ Fault
    /\ erasure' = IF LastDelivery(s)
         THEN [erasure EXCEPT ![s].pc = "acknowledged", ![s].tries = 0]
         ELSE [erasure EXCEPT ![s].tries = @ + 1]

\* The consumer dies, or loses its lease, before it acknowledges: the last time maybe
\* between the dead-letter list and the acknowledgement.
ConsumerDies(s) ==
    /\ DeletePart(s) /\ Fault
    /\ \E listed \in {FALSE, LastDelivery(s)} :
          erasure' = [erasure EXCEPT ![s].tries = @ + 1, ![s].dead = @ \/ listed]

-----------------------------------------------------------------------------
Cycle(c) == Archive(c) \/ Save(c) \/ Finish(c)
Retaining(w) == expire_raw_evidence(w) \/ Check(w) \/ Delete(w)
                \/ confirm_raw_evidence_deletions(w) \/ fail_raw_evidence_deletion(w)

Next ==
    \/ \E n \in 0..MaxMessages : CollectFeed(n)
    \/ \E c \in Connector : Collect(c) \/ Cycle(c) \/ CycleFails(c)
    \/ PeriodEnds
    \/ \E w \in Worker : Retaining(w) \/ WorkerDies(w)
    \/ \E r \in Ref : Elapse(r)
    \/ \E s \in Source : \/ ReadForPurge(s) \/ purge_source(s) \/ PurgeFails(s)
                         \/ Handle(s) \/ HandleFails(s) \/ ConsumerDies(s)

Spec == Init /\ [][Next]_vars

\* Schedulers begin again for ever, and leases and delays run out.  A transaction that
\* has read goes on, and a pending message is delivered again, be it to fail: the
\* consumer does not do so for ever.  A connector need not run again.
Fairness ==
    /\ \A w \in Worker : WF_vars(Retaining(w))
    /\ WF_vars(\E r \in Ref : Elapse(r))
    /\ \A s \in Source : WF_vars(purge_source(s)) /\ WF_vars(Handle(s) \/ HandleFails(s))

FairSpec == Spec /\ Fairness

-----------------------------------------------------------------------------
\* What a row names is in the object store, from the moment it is written ("R2
\* objects are written before the facts are committed") until nothing names it, unless
\* an erasure of its source asked for it: a document may be erased between two of
\* its items being saved.
EvidenceBehindEveryFact ==
    \A r \in Ref : raw_evidence_is_referenced(r) => r \in objects \cup lost.refs

\* Only what the store deleted is confirmed, by whomever and however late.
CompletedMeansDeleted == \A r \in Ref : deletion[r] = "completed" => r \notin objects

\* The checkpoint passes no post about a keyword that was not saved, however a cycle
\* fails, reconnects or is cut at the last candidate one request can verify.
NoPostSkipped ==
    \A t \in Matching : Start < t /\ t <= cursor => row[t] # Absent \/ t \in lost.items

\* The message of an erasure is acknowledged only when all it listed is gone from the
\* store, or else the dead-letter list has it with its references, wherever the
\* consumer failed or died.
ErasureIsDoneOrGivenUp ==
    \A s \in Source : erasure[s].pc = "acknowledged" =>
                         erasure[s].dead \/ erasure[s].refs \cap objects = {}

\* Whatever is queued for deletion is deleted in the end, although workers die and the
\* store fails; the message of an erasure is acknowledged in the end.
EveryDeletionEnds ==
    []<>(/\ \A r \in Ref : deletion[r] \in {"none", "completed"}
         /\ \A s \in Source : erasure[s].pc \in {"none", "acknowledged"})
=============================================================================
