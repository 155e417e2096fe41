--------------------------- MODULE StreamRetention ---------------------------
(***************************************************************************)
(* Trimming the Stream behind its consumers: maintain_stream_retention of  *)
(* radar/stream_retention.py, run by tools/trim_redis_stream.py first as a *)
(* dry run and then, with the boundary that reported, to execute.  It owns *)
(* the fence of LeaseFence, but XREADGROUP, XACK and XGROUP CREATE of the  *)
(* alert worker pass beside the fence, so a consumer is let act here       *)
(* whether or not its lease is alive, and the task that cleans published   *)
(* rows out of PostgreSQL knows nothing of Redis.                          *)
(*                                                                         *)
(* Stream ids are positions of log, the rows ever added; stream holds the  *)
(* ids that are still there.                                               *)
(***************************************************************************)
EXTENDS Integers, Sequences, FiniteSets, FiniteSetsExt

CONSTANTS
    Publisher, Group, Run, NoOne,
    Required,     \* groups without which nothing is trimmed
    Row,          \* outbox rows
    MaxLen,       \* bound: entries ever added
    MaxFaults     \* bound: lapses of live leases, crashes, losses, cancellations

VARIABLES
    members, owner, wrote,  \* as in LeaseFence
    log, stream, exists,    \* the Stream
    group,                  \* consumer groups: position and pending entries
    row,                    \* outbox: "pending", "published" or "gone"
    pub,                    \* publishers: "out", "in" or the row sent but not marked
    approved,               \* what the latest dry run reported: boundary and entries
    run,                    \* retention runs: pc and local variables
    guard,                  \* rows a run holds FOR SHARE
    underway,               \* the operation a run has started and awaits: a thread or a script
    faults                  \* history: how many faults happened

Participant == Publisher
Maintainer == Run
Replayer == {}
Fence == INSTANCE LeaseFence WITH replay <- "none"

fenceVars == <<members, owner, wrote>>
streamVars == <<log, stream, exists>>
runVars == <<run, guard, underway, approved>>
others == <<row, pub>>
vars == <<fenceVars, streamVars, group, others, runVars, faults>>

ASSUME RetentionAssumption ==
    /\ Fence!DistinctTokens
    /\ Required \subseteq Group /\ Required # {}
    /\ MaxLen \in Nat /\ MaxFaults \in Nat
    /\ Row \cap {"out", "in"} = {}

Id == 1..MaxLen
NoGroup == [here |-> FALSE, last |-> 0, pending |-> {}]
NewGroup == [NoGroup EXCEPT !.here = TRUE]
NoReview == [min |-> 0, entries |-> {}]
IdleRun == [pc |-> "idle", execute |-> FALSE, confirmed |-> NoReview, first |-> TRUE,
            todo |-> {}, marks |-> <<>>, before |-> <<>>, min |-> 0, entries |-> {},
            cancelled |-> FALSE]
Nothing == [op |-> "none"]

TypeOK ==
    /\ Fence!TypeOK
    /\ log \in Seq(Row) /\ Len(log) <= MaxLen /\ stream \subseteq 1..Len(log)
    /\ exists \in BOOLEAN /\ (stream # {} => exists)
    /\ \A g \in Group : /\ group[g].here \in BOOLEAN
                        /\ group[g].last \in 0..Len(log)
                        /\ group[g].pending \subseteq 1..group[g].last
    /\ row \in [Row -> {"pending", "published", "gone"}]
    /\ pub \in [Publisher -> {"out", "in"} \cup Row]
    /\ approved.min \in 0..(MaxLen + 1) /\ approved.entries \subseteq Id
    /\ \A x \in Run :
          /\ run[x].pc \in {"idle", "inspecting", "asking", "listing", "locking",
                            "trimming", "releasing", "leaving"}
          /\ run[x].execute \in BOOLEAN /\ run[x].todo \subseteq Group
          /\ run[x].min \in 0..(MaxLen + 1) /\ run[x].entries \subseteq Id
          /\ run[x].confirmed.min \in 0..(MaxLen + 1) /\ run[x].confirmed.entries \subseteq Id
          /\ guard[x] \subseteq Row /\ underway[x].op \in {"none", "lock", "trim"}
    /\ faults \in 0..MaxFaults

Init ==
    /\ members = {} /\ owner = NoOne /\ wrote = {}
    /\ log = <<>> /\ stream = {} /\ exists = FALSE
    /\ group = [g \in Group |-> NoGroup]
    /\ row = [r \in Row |-> "pending"]
    /\ pub = [p \in Publisher |-> "out"]
    /\ approved = NoReview
    /\ run = [x \in Run |-> IdleRun]
    /\ guard = [x \in Run |-> {}]
    /\ underway = [x \in Run |-> Nothing]
    /\ faults = 0

Fault(n) == faults + n <= MaxFaults /\ faults' = faults + n

-----------------------------------------------------------------------------
(* Publishers, alert workers and the clean-up of the outbox.               *)

Leave(t) == members' = members \ {t} /\ owner' = owner /\ Fence!Lapse

PublisherJoins(p) ==
    /\ pub[p] = "out" /\ Fence!Join(p)
    /\ pub' = [pub EXCEPT ![p] = "in"]
    /\ UNCHANGED <<streamVars, group, row, runVars, faults>>

Xadd(p, r) ==
    /\ pub[p] = "in" /\ row[r] = "pending" /\ Len(log) < MaxLen
    /\ \A q \in Publisher : pub[q] # r
    /\ Fence!MemberWrite(p)
    /\ log' = Append(log, r) /\ stream' = stream \cup {Len(log) + 1} /\ exists' = TRUE
    /\ pub' = [pub EXCEPT ![p] = r]
    /\ UNCHANGED <<group, row, runVars, faults>>

MarkPublished(p) ==
    /\ pub[p] \in Row
    /\ row' = [row EXCEPT ![pub[p]] = "published"]
    /\ pub' = [pub EXCEPT ![p] = "in"]
    /\ UNCHANGED <<fenceVars, streamVars, group, runVars, faults>>

\* The batch ends, or fails between XADD and UPDATE.
PublisherLeaves(p) ==
    /\ pub[p] # "out" /\ Leave(p)
    /\ Fault(IF pub[p] = "in" THEN 0 ELSE 1)
    /\ pub' = [pub EXCEPT ![p] = "out"]
    /\ UNCHANGED <<streamVars, group, row, runVars>>

\* XGROUP CREATE with id 0 and MKSTREAM.
EnsureGroup(g) ==
    /\ ~group[g].here
    /\ group' = [group EXCEPT ![g] = NewGroup]
    /\ exists' = TRUE
    /\ UNCHANGED <<fenceVars, log, stream, others, runVars, faults>>

ReadGroup(g) ==
    /\ group[g].here
    /\ LET new == {id \in stream : id > group[g].last} IN
       /\ new # {}
       /\ group' = [group EXCEPT ![g].last = Max(new), ![g].pending = @ \cup new]
    /\ UNCHANGED <<fenceVars, streamVars, others, runVars, faults>>

Acknowledge(g, id) ==
    /\ id \in group[g].pending
    /\ group' = [group EXCEPT ![g].pending = @ \ {id}]
    /\ UNCHANGED <<fenceVars, streamVars, others, runVars, faults>>

\* DELETE of a published row waits for nobody but a FOR SHARE lock.
CleanUp(r) ==
    /\ row[r] = "published" /\ \A x \in Run : r \notin guard[x]
    /\ row' = [row EXCEPT ![r] = "gone"]
    /\ UNCHANGED <<fenceVars, streamVars, group, pub, runVars, faults>>

-----------------------------------------------------------------------------
(* A retention run.  Whatever it raises, it releases what it holds.        *)

Goto(x, pc) == run' = [run EXCEPT ![x].pc = pc]
Raise(x) == run' = [run EXCEPT ![x] =
    [IdleRun EXCEPT !.pc = IF guard[x] = {} THEN "leaving" ELSE "releasing"]]
Outside == <<streamVars, group, others>>

\* An execute run is given the boundary that a dry run reported.
Begin(x, execute) ==
    /\ run[x].pc = "idle" /\ exists /\ (execute => approved.min > 0)
    /\ Fence!Acquire(x)
    /\ run' = [run EXCEPT ![x] =
          [IdleRun EXCEPT !.pc = "inspecting", !.execute = execute,
                          !.confirmed = IF execute THEN approved ELSE NoReview]]
    /\ UNCHANGED <<Outside, guard, underway, approved, faults>>

\* XINFO GROUPS: position and number of pending entries of each group.
Present == {g \in Group : group[g].here}
Mark(g) == [last |-> group[g].last, count |-> Cardinality(group[g].pending), first |-> 0]

Inspect(x) ==
    /\ run[x].pc = "inspecting"
    /\ IF ~exists \/ ~(Required \subseteq Present)
       THEN Raise(x)
       ELSE run' = [run EXCEPT ![x].pc = "asking",
                               ![x].marks = [g \in Present |-> Mark(g)],
                               ![x].todo = {g \in Present : group[g].pending # {}}]
    /\ UNCHANGED <<fenceVars, Outside, guard, underway, approved, faults>>

\* XPENDING of a group that had pending entries: the earliest of them.
AskPending(x, g) ==
    /\ run[x].pc = "asking" /\ g \in run[x].todo
    /\ IF group[g].pending = {}
       THEN Raise(x)
       ELSE run' = [run EXCEPT ![x].todo = @ \ {g},
                               ![x].marks = [@ EXCEPT ![g].first = Min(group[g].pending)]]
    /\ UNCHANGED <<fenceVars, Outside, guard, underway, approved, faults>>

\* What a group has got but not acknowledged, and what it has not got, stays.
SafeBoundary(mark) == IF mark.count = 0 THEN mark.last ELSE Min({mark.last, mark.first})

\* What a run may calculate: the earliest of the groups' boundaries and of the cut
\* where the retention period begins.  The cut comes from the clock of Redis and may be
\* any id; 0 results only if a group has got nothing.
Calculable(x) ==
    LET boundaries == {SafeBoundary(run[x].marks[g]) : g \in DOMAIN run[x].marks} IN
    {m \in 0..(Len(log) + 1) : /\ \A b \in boundaries : m <= b
                               /\ m = 0 => 0 \in boundaries}

\* Execute trims up to what is safe by now.
CalculatedMin(x, calculated) == calculated

\* Execute trims up to what was confirmed.
TrimMin(x, calculated) == IF run[x].execute THEN run[x].confirmed.min ELSE calculated

Decide(x) ==
    /\ run[x].pc = "asking" /\ run[x].todo = {} /\ run[x].first
    /\ \E calculated \in Calculable(x) :
       IF run[x].execute /\ calculated < run[x].confirmed.min
       THEN Raise(x)
       ELSE run' = [run EXCEPT ![x].pc = "listing", ![x].min = TrimMin(x, calculated),
              ![x].before = [g \in DOMAIN run[x].marks |-> SafeBoundary(run[x].marks[g])],
              ![x].marks = <<>>]
    /\ UNCHANGED <<fenceVars, Outside, guard, underway, approved, faults>>

\* build_candidate_ledger; the thread of lock_outbox_ledger starts.
Rows(ids) == {log[id] : id \in ids}

List(x) ==
    /\ run[x].pc = "listing"
    /\ LET ids == {id \in stream : id < run[x].min} IN
       /\ run' = [run EXCEPT ![x].pc = "locking", ![x].entries = ids]
       /\ underway' = [underway EXCEPT ![x] = [op |-> "lock", rows |-> Rows(ids)]]
    /\ UNCHANGED <<fenceVars, Outside, guard, approved, faults>>

\* SELECT ... FOR SHARE finds the rows that are published.
LockLedger(x) ==
    /\ underway[x].op = "lock"
    /\ guard' = [guard EXCEPT ![x] = {r \in underway[x].rows : row[r] = "published"}]
    /\ underway' = [underway EXCEPT ![x] = Nothing]
    /\ UNCHANGED <<fenceVars, Outside, run, approved, faults>>

\* The cancelled await yields no guard, so there is none to release.
LockedInVain(x) ==
    /\ run[x].pc = "locking" /\ underway[x] = Nothing
    /\ IF run[x].cancelled
       THEN run' = [run EXCEPT ![x] = [IdleRun EXCEPT !.pc = "leaving"]]
       ELSE run' = [run EXCEPT ![x].pc = "inspecting", ![x].first = FALSE]
    /\ UNCHANGED <<fenceVars, Outside, guard, underway, approved, faults>>

Locked(x) ==
    /\ run[x].pc = "locking" /\ underway[x] = Nothing
    /\ IF run[x].cancelled
       THEN Raise(x)
       ELSE run' = [run EXCEPT ![x].pc = "inspecting", ![x].first = FALSE]
    /\ UNCHANGED <<fenceVars, Outside, guard, underway, approved, faults>>

\* ensure_watermarks_did_not_move_backwards
Regressed(before, after) ==
    \/ DOMAIN before # DOMAIN after
    \/ \E g \in DOMAIN before \cap DOMAIN after : SafeBoundary(after[g]) < before[g]

\* A dry run reports; an execute run that misses no row renews its lease and
\* sends the script.  The heartbeat may have noticed that the lease is lost.
Verify(x) ==
    /\ run[x].pc = "asking" /\ run[x].todo = {} /\ ~run[x].first
    /\ \/ /\ ~Regressed(run[x].before, run[x].marks) /\ ~run[x].execute
          /\ approved' = [min |-> run[x].min, entries |-> run[x].entries]
          /\ Raise(x) /\ UNCHANGED underway
       \/ /\ ~Regressed(run[x].before, run[x].marks) /\ run[x].execute
          /\ guard[x] = Rows(run[x].entries) /\ owner = x
          /\ underway' = [underway EXCEPT ![x] =
                             [op |-> "trim", min |-> run[x].min, marks |-> run[x].marks]]
          /\ Goto(x, "trimming") /\ UNCHANGED approved
       \/ /\ \/ Regressed(run[x].before, run[x].marks) \/ owner # x
             \/ run[x].execute /\ guard[x] # Rows(run[x].entries)
          /\ Raise(x) /\ UNCHANGED <<underway, approved>>
    /\ UNCHANGED <<fenceVars, Outside, guard, faults>>

Now(g) == [Mark(g) EXCEPT !.first = IF @ = 0 /\ group[g].pending # {} THEN Min(group[g].pending) ELSE 0]
Unchanged(marks) == DOMAIN marks = Present /\ \A g \in Present : marks[g] = Now(g)

XtrimMinId(x) ==
    /\ stream' = {id \in stream : id >= underway[x].min}
    /\ underway' = [underway EXCEPT ![x] = Nothing]
    /\ UNCHANGED <<log, exists, group, others, run, guard, approved, faults>>

\* The script does not look at the groups again.
TrimUnchecked(x) ==
    /\ underway[x].op = "trim" /\ Fence!OwnerWrite(x)
    /\ XtrimMinId(x)

\* trim_stream_at_verified_watermarks: lease, groups and XTRIM in one script.
Trim(x) ==
    /\ underway[x].op = "trim" /\ exists /\ Unchanged(underway[x].marks)
    /\ Fence!OwnerWrite(x)
    /\ XtrimMinId(x)

TrimRefused(x) ==
    /\ underway[x].op = "trim"
    /\ owner # x \/ ~exists \/ ~Unchanged(underway[x].marks)
    /\ underway' = [underway EXCEPT ![x] = Nothing]
    /\ UNCHANGED <<fenceVars, Outside, run, guard, approved, faults>>

Trimmed(x) ==
    /\ run[x].pc = "trimming" /\ underway[x] = Nothing
    /\ Raise(x)
    /\ UNCHANGED <<fenceVars, Outside, guard, underway, approved, faults>>

\* The two finally clauses.
ReleaseGuard(x) ==
    /\ run[x].pc = "releasing"
    /\ guard' = [guard EXCEPT ![x] = {}]
    /\ Goto(x, "leaving")
    /\ UNCHANGED <<fenceVars, Outside, underway, approved, faults>>

release_stream_exclusive(x) ==
    /\ run[x].pc = "leaving"
    /\ members' = members /\ owner' = (IF owner = x THEN NoOne ELSE owner) /\ Fence!Lapse
    /\ run' = [run EXCEPT ![x] = IdleRun]
    /\ UNCHANGED <<Outside, guard, underway, approved, faults>>

\* Cancellation does not wait for the thread or the script.
CancelAtOnce(x) ==
    /\ run[x].pc \notin {"idle", "releasing", "leaving"} /\ Fault(1)
    /\ Raise(x)
    /\ UNCHANGED <<fenceVars, Outside, guard, underway, approved>>

\* CancelledError: what is underway is awaited, then everything is released.
Cancel(x) ==
    /\ run[x].pc \notin {"idle", "releasing", "leaving"} /\ Fault(1)
    /\ IF run[x].pc \in {"locking", "trimming"}
       THEN run' = [run EXCEPT ![x].cancelled = TRUE]
       ELSE Raise(x)
    /\ UNCHANGED <<fenceVars, Outside, guard, underway, approved>>

\* The process dies and its connections with it.
Die(x) ==
    /\ run[x].pc # "idle" /\ Fault(1)
    /\ run' = [run EXCEPT ![x] = IdleRun]
    /\ guard' = [guard EXCEPT ![x] = {}]
    /\ underway' = [underway EXCEPT ![x] = Nothing]
    /\ UNCHANGED <<fenceVars, Outside, approved>>

-----------------------------------------------------------------------------
Alive(t) == \/ t \in Publisher /\ pub[t] # "out"
            \/ t \in Run /\ run[t].pc # "idle"

LeaseRunsOut(t) ==
    /\ \/ t \in members /\ members' = members \ {t} /\ owner' = owner
       \/ t = owner /\ owner' = NoOne /\ members' = members
    /\ Fence!Lapse
    /\ Fault(IF Alive(t) THEN 1 ELSE 0)
    /\ UNCHANGED <<Outside, runVars>>

\* The Stream key is lost with its groups, alone or with the fence's keys.
StreamLost ==
    /\ exists /\ Fault(1)
    /\ stream' = {} /\ exists' = FALSE /\ log' = log
    /\ group' = [g \in Group |-> NoGroup]
    /\ UNCHANGED fenceVars \/ Fence!Flush
    /\ UNCHANGED <<others, runVars>>

Traffic ==
    \/ \E p \in Publisher : \/ PublisherJoins(p) \/ MarkPublished(p) \/ PublisherLeaves(p)
                            \/ \E r \in Row : Xadd(p, r)
    \/ \E g \in Group : \/ EnsureGroup(g) \/ ReadGroup(g)
                        \/ \E id \in Id : Acknowledge(g, id)
    \/ \E r \in Row : CleanUp(r)

Retention(x) ==
    \/ \E execute \in BOOLEAN : Begin(x, execute)
    \/ Inspect(x) \/ (\E g \in Group : AskPending(x, g)) \/ Decide(x) \/ List(x)
    \/ LockLedger(x) \/ Locked(x) \/ Verify(x) \/ Trim(x) \/ TrimRefused(x) \/ Trimmed(x)
    \/ ReleaseGuard(x) \/ release_stream_exclusive(x) \/ Cancel(x) \/ Die(x)

Next ==
    \/ Traffic
    \/ \E x \in Run : Retention(x)
    \/ \E t \in Participant \cup Run : LeaseRunsOut(t)
    \/ StreamLost

Spec == Init /\ [][Next]_vars

-----------------------------------------------------------------------------
\* What a step took out of a Stream that is still there.
Removed == IF exists' THEN stream \ stream' ELSE {}

\* Every group that exists has got and acknowledged what is trimmed, although
\* groups read, acknowledge and appear while the boundary is being worked out.
NothingUnreadIsTrimmed ==
    [][\A id \in Removed : \A g \in Present : id <= group[g].last /\ id \notin group[g].pending]_vars

\* A trimmed entry can be replayed: its outbox row is still there and published at
\* that moment, whatever the clean-up of PostgreSQL does meanwhile.
TrimmedIsRecoverable == [][\A id \in Removed : row[log[id]] = "published"]_vars

\* Nothing is deleted that the dry run did not list whose boundary the executing run
\* was given, whatever other runs report in between (README: execute never widens the
\* range that was approved).
OnlyWhatWasReviewed ==
    [][\A id \in Removed : \E x \in Run : owner = x /\ id \in run[x].confirmed.entries]_vars

\* A run that is over holds no row locks, cancelled in whatever step.
NoGuardIsLeaked == \A x \in Run : run[x].pc = "idle" => guard[x] = {}
=============================================================================
