--------------------------- MODULE EventCuration ---------------------------
(***************************************************************************)
(* What people and deletion requests do to events while they are scored:   *)
(* merging and splitting them, undoing that, and erasing a source          *)
(* (queue_cluster_edit, execute_cluster_edit, revert_cluster_edit,         *)
(* execute_pending_cluster_edits, set_behavior_applicability and           *)
(* purge_source of radar/storage.py), beside the EventProcessor of         *)
(* radar/processor.py.                                                     *)
(*                                                                         *)
(* Edits and erasures change the rows of an event without raising          *)
(* events.version, so the optimistic write of a scorer does not notice     *)
(* them.  ScoringPipeline models that write, the leases and the revisions  *)
(* in full; here a scorer only remembers whether the version it read has   *)
(* changed (stale), and an observation whether a revision of it awaits a   *)
(* scorer (pending).  The content of an event is the set of observations   *)
(* its stored evidence quotes.                                             *)
(***************************************************************************)
EXTENDS Integers, FiniteSets, FiniteSetsExt

CONSTANTS
    Observation,
    Source, SourceOf,   \* the source of an observation
    Erasable,           \* the sources whose erasure may be asked for
    Event, EventOf,     \* the event id made from an observation's fingerprint
    Op,                 \* cluster edits, numbered in the order they are queued
    Scorer,             \* processes that score, one observation at a time each
    Executor,           \* processes that run execute_pending_cluster_edits
    Nowhere, Erased,    \* no event; the successor marker of a tombstone
    Attempts,           \* tries at an observation whose event changes underneath (3)
    Budget              \* bound: edits, claims, crashes, errors, writes by others, marks and
                        \* items collected again, taken together

Child == Op \X {1, 2}
Id == Event \cup Child

ASSUME CurationAssumption ==
    /\ SourceOf \in [Observation -> Source] /\ EventOf \in [Observation -> Event]
    /\ Erasable \subseteq Source /\ Op \subseteq Nat /\ IsFiniteSet(Op) /\ IsFiniteSet(Event)
    /\ Event \cap Child = {} /\ Nowhere \notin Id /\ Erased \notin Id
    /\ Attempts \in Nat \ {0} /\ Budget \in Nat

VARIABLES
    event,      \* events: here, cluster version, superseded_by, content of its evidence
    member,     \* event_observations: an observation is in one event at most
    stored,     \* observations: the ones that have a row
    pending,    \* observations with a revision no scorer has taken up
    op,         \* cluster_edit_requests
    mark,       \* the outbox row of an edit: "none", "due" or "done" (clusterExecutedAt)
    scorer,     \* each scorer: pc and its local variables
    executor,   \* each executor: pc and the edits it read
    purge,      \* each source: whether its erasure is under way, and the events it found
    spent,      \* how much of the budget is used up
    scoredIn,   \* history: the event an observation was last scored in
    disturbed,  \* history: queued edits whose events were edited since
    overtaken   \* history: events a source came into while its erasure was under way

rows == <<event, member, stored, pending>>
edits == <<op, mark, disturbed>>
erasures == <<purge, overtaken>>
vars == <<rows, edits, erasures, scorer, executor, spent, scoredIn>>

NoEvent == [here |-> FALSE, cv |-> 0, by |-> {}, content |-> {}]
NoOp == [status |-> "none", parents |-> {}, picks |-> {}, expected |-> <<>>, moved |-> <<>>]
Idle == [pc |-> "idle", o |-> Nowhere, e |-> Nowhere, tries |-> 0,
         stale |-> FALSE, input |-> {}]
NoPurge == [on |-> FALSE, found |-> {}]
Resting == [pc |-> "idle", todo |-> {}]

Members(e) == {o \in Observation : member[o] = e}
Active == {e \in Id : event[e].here /\ event[e].by = {}}
IsMerge(i) == Cardinality(op[i].parents) = 2
Children(i) == IF IsMerge(i) THEN {<<i, 1>>} ELSE {<<i, 1>>, <<i, 2>>}
Held == {o \in Observation : \E w \in Scorer : scorer[w].pc # "idle" /\ scorer[w].o = o}

MaxVersion == 1 + 2 * Cardinality(Op)

TypeOK ==
    /\ \A e \in Id : /\ event[e].here \in BOOLEAN /\ event[e].cv \in 0..MaxVersion
                     /\ event[e].by \subseteq Id \cup {Erased}
                     /\ event[e].content \subseteq Observation
    /\ member \in [Observation -> Id \cup {Nowhere}]
    /\ stored \subseteq Observation /\ pending \subseteq stored
    /\ \A o \in Observation : member[o] # Nowhere => o \in stored /\ event[member[o]].here
    /\ \A i \in Op : /\ op[i].status \in {"none", "queued", "completed", "failed", "reverted"}
                     /\ op[i].parents \subseteq Id /\ Cardinality(op[i].parents) <= 2
                     /\ op[i].picks \subseteq Observation
                     /\ op[i].status \in {"completed", "reverted"} =>
                           \A e \in Children(i) : event[e].here
    /\ mark \in [Op -> {"none", "due", "done"}]
    /\ \A w \in Scorer : /\ scorer[w].pc \in {"idle", "creating", "assigning", "loading",
                                             "committing", "completing"}
                         /\ scorer[w].tries \in 0..(Attempts - 1) /\ scorer[w].input \subseteq Observation
    /\ \A x \in Executor : executor[x].pc \in {"idle", "taking", "marking", "refusing"}
                           /\ executor[x].todo \subseteq Op
    /\ \A s \in Source : purge[s].on \in BOOLEAN /\ purge[s].found \subseteq Id
    /\ spent \in 0..Budget /\ disturbed \subseteq Op /\ overtaken \subseteq Id

\* Whatever was collected has been scored: each item in the event it founded, or
\* in one that another founded.
Home == {home \in [Observation -> Event] :
           \A o \in Observation : \E f \in Observation : EventOf[f] = home[o] /\ home[f] = home[o]}

Init ==
    /\ member \in Home /\ scoredIn = member
    /\ event = [e \in Id |-> IF Members(e) = {} THEN NoEvent
                             ELSE [here |-> TRUE, cv |-> 1, by |-> {}, content |-> Members(e)]]
    /\ stored = Observation /\ pending = {}
    /\ op = [i \in Op |-> NoOp] /\ mark = [i \in Op |-> "none"] /\ disturbed = {}
    /\ scorer = [w \in Scorer |-> Idle]
    /\ executor = [x \in Executor |-> Resting]
    /\ purge = [s \in Source |-> NoPurge] /\ overtaken = {}
    /\ spent = 0

Spend == spent < Budget /\ spent' = spent + 1

-----------------------------------------------------------------------------
(* Scoring an observation, one repository call a step.                     *)

At(w, pc) == scorer[w].pc = pc
Goto(w, pc) == scorer' = [scorer EXCEPT ![w].pc = pc]
Fail(w) ==
    /\ scorer' = [scorer EXCEPT ![w] = Idle]
    /\ pending' = pending \cup ({scorer[w].o} \cap stored)

\* What choose_cluster takes is up to the contents: one of the candidates that
\* list_events returned before the embedding was awaited, or a new event.
Choice(o) == {[Idle EXCEPT !.pc = "assigning", !.o = o, !.e = e] : e \in Active}
             \cup {[Idle EXCEPT !.pc = "creating", !.o = o, !.e = EventOf[o]]}

Claim(w, o) ==
    /\ At(w, "idle") /\ o \in pending \ Held /\ Spend
    /\ \E x \in Choice(o) : scorer' = [scorer EXCEPT ![w] = x]
    /\ pending' = pending \ {o}
    /\ UNCHANGED <<event, member, stored, edits, executor, scoredIn, erasures>>

\* ConcurrentScoreConflict: start over.
Retry(w) ==
    IF scorer[w].tries + 1 < Attempts
    THEN /\ \E x \in Choice(scorer[w].o) :
              scorer' = [scorer EXCEPT ![w] = [x EXCEPT !.tries = scorer[w].tries + 1]]
         /\ UNCHANGED pending
    ELSE Fail(w)

\* upsert_event of the skeleton: revision 0, so an event of that id is a conflict,
\* be it superseded.
Create(w) ==
    /\ At(w, "creating")
    /\ LET e == scorer[w].e IN
       IF event[e].here THEN Retry(w) /\ UNCHANGED event
       ELSE /\ event' = [event EXCEPT ![e] = [here |-> TRUE, cv |-> 1, by |-> {},
                                              content |-> {scorer[w].o}]]
            /\ Goto(w, "assigning") /\ UNCHANGED pending
    /\ UNCHANGED <<member, stored, edits, executor, spent, scoredIn, erasures>>

\* The version is read just before.  The insert violates the primary key of an
\* observation in another event, or the foreign key of one that was erased.
assign_observation(w) ==
    /\ At(w, "assigning")
    /\ LET o == scorer[w].o
           e == scorer[w].e IN
       IF o \in stored /\ member[o] \in {Nowhere, e}
       THEN member' = [member EXCEPT ![o] = e] /\ Goto(w, "loading") /\ UNCHANGED pending
       ELSE Fail(w) /\ UNCHANGED member
    /\ UNCHANGED <<event, stored, edits, executor, spent, scoredIn, erasures>>

Load(w) ==
    /\ At(w, "loading")
    /\ LET input == Members(scorer[w].e) IN
       IF input = {} THEN Fail(w)
       ELSE /\ scorer' = [scorer EXCEPT ![w].pc = "committing", ![w].input = input]
            /\ UNCHANGED pending
    /\ UNCHANGED <<event, member, stored, edits, executor, spent, scoredIn, erasures>>

\* Whoever read e before its version is raised is refused later.
Raised(e, x) == IF x.e = e THEN [x EXCEPT !.stale = TRUE] ELSE x

\* The payload is replaced; the columns superseded_by and cluster_version are not
\* in the statement, and neither an edit nor an erasure has raised the version.
commit_scored_event(w) ==
    /\ At(w, "committing")
    /\ LET e == scorer[w].e IN
       IF scorer[w].stale THEN Retry(w) /\ UNCHANGED event
       ELSE /\ event' = [event EXCEPT ![e].content = scorer[w].input]
            /\ scorer' = [x \in Scorer |-> IF x = w THEN [scorer[w] EXCEPT !.pc = "completing"]
                                           ELSE Raised(e, scorer[x])]
            /\ UNCHANGED pending
    /\ UNCHANGED <<member, stored, edits, executor, spent, scoredIn, erasures>>

Complete(w) ==
    /\ At(w, "completing")
    /\ scoredIn' = [scoredIn EXCEPT ![scorer[w].o] = scorer[w].e]
    /\ scorer' = [scorer EXCEPT ![w] = Idle]
    /\ UNCHANGED <<rows, edits, executor, spent, erasures>>

\* The process dies, and in five minutes the lease is over.
ScorerCrashes(w) ==
    /\ ~At(w, "idle") /\ Spend /\ Fail(w)
    /\ UNCHANGED <<event, member, stored, edits, executor, scoredIn, erasures>>

\* A coverage penalty or a time-driven refresh stores the event again.
ForeignWrite(e) ==
    /\ event[e].here /\ Spend
    /\ scorer' = [x \in Scorer |-> Raised(e, scorer[x])]
    /\ UNCHANGED <<rows, edits, executor, scoredIn, erasures>>

-----------------------------------------------------------------------------
(* Cluster edits.                                                          *)

\* A merge of two events or a split of one that takes picks out of it.
queue_cluster_edit(i, parents, picks) ==
    /\ op[i].status = "none" /\ \A j \in Op : j < i => op[j].status # "none"
    /\ Spend
    /\ parents \subseteq Active
    /\ \/ Cardinality(parents) = 2 /\ picks = {}
       \/ \E e \in parents : parents = {e} /\ picks # {}
                             /\ picks \subseteq Members(e) /\ picks # Members(e)
    /\ op' = [op EXCEPT ![i] = [NoOp EXCEPT !.status = "queued", !.parents = parents,
                 !.picks = picks, !.expected = [e \in parents |-> event[e].cv]]]
    /\ mark' = [mark EXCEPT ![i] = "due"]
    /\ UNCHANGED <<rows, disturbed, scorer, executor, scoredIn, erasures>>

Moving(i) == {o \in Observation : member[o] \in op[i].parents}
SplitStands(i) == op[i].picks # {} /\ op[i].picks \subseteq Moving(i) /\ op[i].picks # Moving(i)

\* Neither superseded nor edited since the edit was queued.
ParentsStand(i) ==
    \A e \in op[i].parents : event[e].by = {} /\ event[e].cv = op[i].expected[e]

Executable(i) ==
    op[i].status = "queued" /\ ParentsStand(i) /\ (IsMerge(i) \/ SplitStands(i))

ResultVersion(i) == Max({op[i].expected[e] : e \in op[i].parents}) + 1
ChildFor(i, o) == IF IsMerge(i) \/ o \in op[i].picks THEN <<i, 1>> ELSE <<i, 2>>

\* Edits still queued for an event that is edited now.
Disturb(events) ==
    disturbed' = disturbed \cup {j \in Op : op[j].status = "queued" /\ op[j].parents \cap events # {}}

\* The members move to fresh events, and each is to be scored anew there.
Supersede(i) ==
    /\ event' = [e \in Id |->
          IF e \in Children(i) THEN [NoEvent EXCEPT !.here = TRUE, !.cv = ResultVersion(i)]
          ELSE IF e \in op[i].parents THEN [event[e] EXCEPT !.by = Children(i)] ELSE event[e]]
    /\ member' = [o \in Observation |-> IF o \in Moving(i) THEN ChildFor(i, o) ELSE member[o]]
    /\ op' = [op EXCEPT ![i].status = "completed", ![i].moved = [o \in Moving(i) |-> member[o]]]

MoveSilently(i) == Supersede(i) /\ UNCHANGED <<pending, stored>> /\ Disturb(op[i].parents)

execute_cluster_edit(i) ==
    /\ Supersede(i)
    /\ pending' = pending \cup Moving(i) /\ stored' = stored
    /\ Disturb(op[i].parents)

\* POST /cluster-operations/{id}/execute, besides the executors.
ExecuteNow(i) ==
    /\ Executable(i) /\ execute_cluster_edit(i)
    /\ UNCHANGED <<mark, scorer, executor, spent, scoredIn, erasures>>

\* The children's columns still say what the edit wrote.
ChildrenStand(i) ==
    \A e \in Children(i) : event[e].by = {} /\ event[e].cv = ResultVersion(i)

\* Recorded members that the children still have go back, others stay behind.
Returning(i) == {o \in DOMAIN op[i].moved : member[o] \in Children(i)}

RestoredQuietly(i, e) == [event[e] EXCEPT !.by = {}]
RestoredHidden(i, e) == [event[e] EXCEPT !.cv = @ + 1]
Restored(i, e) == [event[e] EXCEPT !.by = {}, !.cv = @ + 1]

revert_cluster_edit(i) ==
    /\ op[i].status = "completed" /\ ChildrenStand(i)
    /\ event' = [e \in Id |->
          IF e \in op[i].parents THEN Restored(i, e)
          ELSE IF e \in Children(i) THEN [event[e] EXCEPT !.by = op[i].parents] ELSE event[e]]
    /\ member' = [o \in Observation |-> IF o \in Returning(i) THEN op[i].moved[o] ELSE member[o]]
    /\ pending' = pending \cup Returning(i)
    /\ op' = [op EXCEPT ![i].status = "reverted"]
    /\ Disturb(op[i].parents \cup Children(i))
    /\ UNCHANGED <<stored, mark, scorer, executor, spent, scoredIn, erasures>>

-----------------------------------------------------------------------------
(* execute_pending_cluster_edits, at the beginning of a worker's cycle.    *)

ExecutorStarts(x) ==
    /\ executor[x].pc = "idle"
    /\ \E i \in Op : mark[i] = "due"
    /\ executor' = [executor EXCEPT ![x] = [pc |-> "taking", todo |-> {i \in Op : mark[i] = "due"}]]
    /\ UNCHANGED <<rows, edits, scorer, spent, scoredIn, erasures>>

Current(x) == Min(executor[x].todo)
Step(x, pc) == executor' = [executor EXCEPT ![x].pc = pc]
Done(x) == executor' = [executor EXCEPT ![x] =
    IF @.todo = {Current(x)} THEN Resting ELSE [pc |-> "taking", todo |-> @.todo \ {Current(x)}]]

ExecutorTakes(x) ==
    /\ executor[x].pc = "taking"
    /\ IF Executable(Current(x))
       THEN execute_cluster_edit(Current(x)) /\ Step(x, "marking")
       ELSE Step(x, "refusing") /\ UNCHANGED <<rows, op, disturbed>>
    /\ UNCHANGED <<mark, scorer, spent, scoredIn, erasures>>

\* The edit is committed already; this is a transaction of its own.
ExecutorMarks(x) ==
    /\ executor[x].pc = "marking"
    /\ mark' = [mark EXCEPT ![Current(x)] = "done"] /\ Done(x)
    /\ UNCHANGED <<rows, op, disturbed, scorer, spent, scoredIn, erasures>>

RefusedAnyway(i) == "failed"
\* What the row says by now is kept unless it is still queued.
Refused(i) == IF op[i].status = "queued" THEN "failed" ELSE op[i].status

RefusesUnmarked(x) ==
    /\ executor[x].pc = "refusing"
    /\ op' = [op EXCEPT ![Current(x)].status = Refused(Current(x))] /\ Done(x)
    /\ UNCHANGED <<rows, mark, disturbed, scorer, spent, scoredIn, erasures>>

ExecutorRefuses(x) ==
    /\ executor[x].pc = "refusing"
    /\ op' = [op EXCEPT ![Current(x)].status = Refused(Current(x))]
    /\ mark' = [mark EXCEPT ![Current(x)] = "done"] /\ Done(x)
    /\ UNCHANGED <<rows, disturbed, scorer, spent, scoredIn, erasures>>

\* The process dies, or an error that is no ValueError ends its cycle.
ExecutorFails(x) ==
    /\ executor[x].pc # "idle" /\ Spend
    /\ executor' = [executor EXCEPT ![x] = Resting]
    /\ UNCHANGED <<rows, edits, scorer, scoredIn, erasures>>

-----------------------------------------------------------------------------
(* A behaviour mark of an owner, and the erasure of a source.              *)

set_behavior_applicability(e) ==
    /\ event[e].here /\ Spend
    /\ pending' = pending \cup Members(e)
    /\ UNCHANGED <<event, member, stored, edits, scorer, executor, scoredIn, erasures>>

Of(s) == {o \in Observation : SourceOf[o] = s}
\* The events with a member of the source, and those that quote one.
Affected(s) ==
    {member[o] : o \in {x \in Of(s) : member[x] # Nowhere}}
    \cup {e \in Id : event[e].here /\ event[e].content \cap Of(s) # {}}

\* An event that loses its last member stays as a tombstone no list shows.
WithoutSource(e, s) ==
    IF Members(e) \subseteq Of(s)
    THEN [event[e] EXCEPT !.by = {Erased}, !.content = {}]
    ELSE [event[e] EXCEPT !.content = @ \ Of(s)]

NoneRescored(s) == {}
\* What an erasure leaves in the events it affects is scored anew.
Rescored(s) == {o \in Observation \ Of(s) : member[o] \in purge[s].found}

\* The first statements of a purge: they read the events and, in the procedure
\* erase_source_score_history, read them again, and give up when those differ.
ReadAffected(s) ==
    /\ ~purge[s].on /\ Of(s) \cap stored # {}
    /\ purge' = [purge EXCEPT ![s] = [on |-> TRUE, found |-> Affected(s)]]
    /\ UNCHANGED <<rows, edits, scorer, executor, spent, scoredIn, overtaken>>

\* The others, READ COMMITTED: every observation of the source goes that is there by
\* now, but only the events found before are stripped of it.
purge_source(s) ==
    LET found == purge[s].found IN
    /\ purge[s].on /\ purge' = [purge EXCEPT ![s] = NoPurge]
    /\ event' = [e \in Id |-> IF e \in found THEN WithoutSource(e, s) ELSE event[e]]
    /\ member' = [o \in Observation |-> IF o \in Of(s) THEN Nowhere ELSE member[o]]
    /\ stored' = stored \ Of(s)
    /\ pending' = (pending \ Of(s)) \cup Rescored(s)
    /\ overtaken' = overtaken \cup (Affected(s) \ found)
    /\ UNCHANGED <<edits, scorer, executor, spent, scoredIn>>

\* The transaction is rolled back: it gave up, or the process died.
PurgeFails(s) ==
    /\ purge[s].on /\ purge' = [purge EXCEPT ![s] = NoPurge]
    /\ UNCHANGED <<rows, edits, scorer, executor, spent, scoredIn, overtaken>>

\* A connector that still runs collects an item of an erased source again.
CollectAgain(o) ==
    /\ o \notin stored \cup Held /\ Spend
    /\ stored' = stored \cup {o} /\ pending' = pending \cup {o}
    /\ UNCHANGED <<event, member, edits, scorer, executor, scoredIn, erasures>>

-----------------------------------------------------------------------------
Scoring(w) ==
    Create(w) \/ assign_observation(w) \/ Load(w) \/ commit_scored_event(w) \/ Complete(w)

Executing(x) ==
    ExecutorStarts(x) \/ ExecutorTakes(x) \/ ExecutorMarks(x) \/ ExecutorRefuses(x)

Next ==
    \/ \E w \in Scorer : Scoring(w) \/ ScorerCrashes(w)
    \/ \E w \in Scorer, o \in Observation : Claim(w, o)
    \/ \E e \in Id : ForeignWrite(e) \/ set_behavior_applicability(e)
    \/ \E i \in Op, parents \in SUBSET Active, picks \in SUBSET Observation :
          queue_cluster_edit(i, parents, picks)
    \/ \E i \in Op : ExecuteNow(i) \/ revert_cluster_edit(i)
    \/ \E x \in Executor : Executing(x) \/ ExecutorFails(x)
    \/ \E s \in Erasable : ReadAffected(s) \/ purge_source(s) \/ PurgeFails(s)
    \/ \E o \in Observation : CollectAgain(o)

Spec == Init /\ [][Next]_vars

\* A worker begins a cycle again and again, and a cycle runs to its end.
Fairness == \A x \in Executor : WF_vars(Executing(x))

FairSpec == Spec /\ Fairness

-----------------------------------------------------------------------------
\* The events a watch on e leads to: list_watchlists follows superseded_by.
Successors(e) ==
    LET reach[n \in 0..Cardinality(Id)] ==
          IF n = 0 THEN {e}
          ELSE reach[n - 1] \cup UNION {event[f].by \cap Id : f \in reach[n - 1]}
    IN reach[Cardinality(Id)]

\* From an event that was merged, split or restored the links lead to an event in
\* the active list, or to a tombstone, whatever was edited, undone and erased since.
EveryRedirectEnds ==
    \A e \in Id : event[e].here =>
        \E f \in Successors(e) : event[f].by = {} \/ Erased \in event[f].by

\* An observation that awaits no scoring was last scored in the event it belongs to:
\* a move between the commit of its score and the acknowledgement is not lost.
ScoredWhereItBelongs ==
    \A o \in stored : o \notin pending \cup Held => scoredIn[o] = member[o]

\* A score that was under way when a source was erased writes what it had read over
\* the erasure; as long as the event quotes an erased observation a scoring of one
\* of its remaining members is due, which will correct it, save an event the source
\* came into after its erasure had read the events.
ErasureIsRedone ==
    \A e \in Active \ overtaken :
        ~(event[e].content \subseteq stored) /\ Members(e) # {} => Members(e) \cap (pending \cup Held) # {}

\* An edit is executed only on events that nobody edited since it was queued, not
\* even when that edit was undone ("a stale command from before the undo: 409").
NoEditOverAnother ==
    [][\A i \in Op : op[i].status = "queued" /\ op'[i].status = "completed"
                        => i \notin disturbed]_vars

\* What became of an edit stays: executed twice, by the API and by an executor that
\* died before it left its mark, it is neither failed nor completed again.
OutcomeStands ==
    [][\A i \in Op : /\ op[i].status \in {"failed", "reverted"} => op'[i] = op[i]
                     /\ op[i].status = "completed" =>
                           op'[i] \in {op[i], [op[i] EXCEPT !.status = "reverted"]}]_vars

\* A queued edit is executed or refused in the end, although executors die between
\* an edit and its mark (R-13: it is consumed, not repeated for ever).
EveryEditIsSettled ==
    \A i \in Op : op[i].status = "queued" ~> mark[i] = "done" /\ op[i].status # "queued"
=============================================================================
