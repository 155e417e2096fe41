-------------------------- MODULE ScoringPipeline --------------------------
(***************************************************************************)
(* From a collected observation to a scored event: run_connector and       *)
(* retry_pending of radar/worker.py, EventProcessor of radar/processor.py  *)
(* and the tables observations, observation_processing, event_observations,*)
(* events and score_runs behind radar/storage.py.                          *)
(*                                                                         *)
(* A scheduler process runs its connectors and then the retry of pending   *)
(* work as tasks of one event loop: a task keeps the loop (running) until  *)
(* it awaits the processing lock or an embedding.  Each repository call is *)
(* a transaction, hence a step of its own, because another process may     *)
(* come between two of them.                                               *)
(*                                                                         *)
(* A revision of an observation stands for its provenance and metrics, so  *)
(* the input of a score is a set of pairs <<observation, revision>>.  What *)
(* choose_cluster computes is reduced to the topic two items share.        *)
(* Observations are numbered in the order in which they classify an event: *)
(* official and research sources first, then the earlier published.        *)
(*                                                                         *)
(* Between the connectors and the end of a cycle a process sweeps over all *)
(* events: a connector that pauses for its budget lowers their coverage,   *)
(* and the refresh lets those without new signals cool.  Time counts in    *)
(* buckets that are long enough for that.                                  *)
(***************************************************************************)
EXTENDS Integers, FiniteSets, FiniteSetsExt

CONSTANTS
    Process, NoTask,
    Task,            \* connectors and retry loops
    Retrier,         \* the tasks that run retry_pending
    ProcessOf,       \* the scheduler process of a task
    Observation, Event,
    EventOf,         \* the event id made from an observation's fingerprint
    TopicOf,         \* the topic of an event
    Unsupported,     \* the observations outside the supported event types
    Arrivals,        \* the provenance collected items may have
    AnyOrder,        \* whether a source may list its items in another order than numbered
    Downgrades,      \* whether a source sends unverified again what it verified
    MaxRevision,     \* bound: revisions of an observation
    MaxBucket,       \* bound: how often events have time to cool
    MaxFaults        \* bound: crashes, overrun leases, errors, penalties, foreign writes

ASSUME ScoringAssumption ==
    /\ NoTask \notin Task /\ Retrier \subseteq Task
    /\ ProcessOf \in [Task -> Process] /\ EventOf \in [Observation -> Event]
    /\ DOMAIN TopicOf = Event
    /\ Observation \subseteq Nat /\ Unsupported \subseteq Observation
    /\ AnyOrder \in BOOLEAN /\ Downgrades \in BOOLEAN
    /\ Arrivals \subseteq {"unverified", "verified"}
    /\ MaxRevision \in Nat \ {0} /\ MaxBucket \in Nat /\ MaxFaults \in Nat

VARIABLES
    obs,      \* observations and observation_processing
    members,  \* event_observations
    event,    \* events: storage version (0: no row), cluster version, input taken in,
              \* and the bucket of the newest point of the timeline
    runs,     \* score_runs: the distinct input digests
    task,     \* each task: pc and its local variables
    work,     \* what a task may still take up in this cycle of its process
    running,  \* the task that holds a process's event loop
    lock,     \* _process_lock of each process
    sweep,    \* what a process does to all events, one after the other
    bucket,   \* the time, in buckets long enough for an event to cool
    faults,   \* history: how many faults happened
    overran   \* history: observations whose lease ran out under a living holder

vars == <<obs, members, event, runs, task, work, running, lock, sweep, bucket, faults, overran>>
housekeeping == <<sweep, bucket>>
history == <<faults, overran>>
results == <<members, event, runs>>

Topic(o) == TopicOf[EventOf[o]]
Input == SUBSET (Observation \X (1..MaxRevision))
Provenance == {"unverified", "verified"}
Versions == 0..(MaxRevision * Cardinality(Observation) * 3 + MaxFaults)

Bucket == 0..MaxBucket
NoPoint == -1
NoSweep == [pc |-> "none"]
Idle == [pc |-> "idle"]
Active == {"queued", "creating", "reading", "assigning", "loading",
           "noting", "triaging", "scoring", "completing", "failing"}

At(t, pc) == task[t].pc = pc
Holds(t, o) == task[t].pc \in Active /\ task[t].o = o

TypeOK ==
    /\ obs \in [Observation -> [prov : Provenance \cup {"absent"}, rev : 0..MaxRevision,
                                at : Bucket, done : 0..MaxRevision, leased : BOOLEAN]]
    /\ members \subseteq Event \X Observation
    /\ \A e \in Event : /\ event[e].version \in Versions /\ event[e].cv \in Versions
                        /\ event[e].input \in Input /\ event[e].last \in Bucket \cup {NoPoint}
    /\ \A d \in runs : d.e \in Event /\ d.cv \in Versions /\ d.input \in Input
    /\ \A t \in Task :
          /\ task[t].pc \in Active \cup {"idle", "claiming"}
          /\ task[t].pc # "idle" => task[t].o \in Observation
          /\ task[t].pc \in Active => task[t].rev \in 1..MaxRevision
          /\ "tries" \in DOMAIN task[t] => task[t].tries \in 0..2 /\ task[t].prov \in Provenance
          /\ task[t].pc \in {"scoring", "triaging"} => task[t].input \in Input
    /\ work \in [Task -> SUBSET Observation]
    /\ \A p \in Process : /\ running[p] \in {t \in Task : ProcessOf[t] = p} \cup {NoTask}
                          /\ lock[p] \in {t \in Task : ProcessOf[t] = p} \cup {NoTask}
    /\ \A o \in Observation : obs[o].done <= obs[o].rev
    /\ \A p \in Process : /\ sweep[p].pc \in {"none", "due", "looking", "storing", "penalising"}
                          /\ sweep[p].pc \in {"looking", "storing", "penalising"} =>
                                 DOMAIN sweep[p].read \subseteq Event
    /\ bucket \in Bucket
    /\ faults \in 0..MaxFaults /\ overran \subseteq Observation

Init ==
    /\ obs = [o \in Observation |->
                [prov |-> "absent", rev |-> 0, at |-> 0, done |-> 0, leased |-> FALSE]]
    /\ members = {}
    /\ event = [e \in Event |-> [version |-> 0, cv |-> 0, input |-> {}, last |-> NoPoint]]
    /\ runs = {}
    /\ task = [t \in Task |-> Idle]
    /\ work = [t \in Task |-> {}]
    /\ running = [p \in Process |-> NoTask]
    /\ lock = [p \in Process |-> NoTask]
    /\ sweep = [p \in Process |-> NoSweep]
    /\ bucket = 0
    /\ faults = 0
    /\ overran = {}

Fault == faults < MaxFaults /\ faults' = faults + 1

MayRun(t) == running[ProcessOf[t]] \in {t, NoTask}
Run(t) == running' = [running EXCEPT ![ProcessOf[t]] = t]
Yield(t) == running' = [running EXCEPT ![ProcessOf[t]] = NoTask]
\* The local variables that are still used after pc.
Kept(pc) == {"pc", "o", "rev"} \cup
    CASE pc \in {"completing", "failing"} -> {}
      [] pc \in {"scoring", "triaging"}  -> {"prov", "tries", "e", "created", "ver", "cv", "joined",
                                            "input", "at"}
      [] OTHER                           -> {"prov", "tries", "e", "created", "ver", "cv", "joined"}

\* x [field |-> value] laid over the local variables of t.
Local(t, x) == task' = [task EXCEPT ![t] =
    [f \in (DOMAIN x \cup DOMAIN task[t]) \cap Kept(x.pc) |->
        IF f \in DOMAIN x THEN x[f] ELSE task[t][f]]]
Goto(t, pc) == Local(t, [pc |-> pc])

-----------------------------------------------------------------------------
(* A cycle, run_once: the retry of what is pending when it begins, then the  *)
(* connectors side by side, each with what its source returns.               *)

TasksOf(p) == {t \in Task : ProcessOf[t] = p}
\* Only what somebody failed at, or left behind, one revision earlier is retried.
PendingBehind == {o \in Observation : obs[o].done + 1 < obs[o].rev /\ ~obs[o].leased}
Pending == {o \in Observation : obs[o].done < obs[o].rev /\ ~obs[o].leased}

BeginCycle(p) ==
    /\ sweep[p].pc = "none" /\ sweep' = [sweep EXCEPT ![p].pc = "due"]
    /\ work' = [t \in Task |-> IF t \notin TasksOf(p) THEN work[t]
                              ELSE IF t \in Retrier THEN Pending ELSE Observation]
    /\ UNCHANGED <<obs, results, task, running, lock, bucket, history>>

\* The connectors wait for the retry loop.
MayStart(t, o) ==
    /\ At(t, "idle") /\ MayRun(t) /\ o \in work[t] /\ sweep[ProcessOf[t]].pc = "due"
    /\ \A u \in TasksOf(ProcessOf[t]) \ {t} : u \in Retrier => At(u, "idle") /\ work[u] = {}

Handle(t, o, prov) ==
    /\ Local(t, [pc |-> "claiming", o |-> o, prov |-> prov])
    /\ work' = [work EXCEPT ![t] = @ \ {o}]

\* Whether a save of o with that provenance changes anything: a new row, an
\* upgrade to verified, or metrics nobody has seen (fresh).
Changes(o, prov, fresh) ==
    \/ obs[o].prov = "absent"
    \/ prov = "verified" /\ (obs[o].prov = "unverified" \/ fresh)

\* A new revision takes the lease away from whoever works on an older one.
SaveAndRelease(o, prov) ==
    obs' = [obs EXCEPT ![o].prov = prov, ![o].rev = @ + 1, ![o].at = bucket, ![o].leased = FALSE]

save_observation_with_outbox(o, prov) ==
    obs' = [obs EXCEPT ![o].prov = prov, ![o].rev = @ + 1, ![o].at = bucket]

Collect(t, o, prov, fresh) ==
    /\ t \notin Retrier /\ MayStart(t, o) /\ prov \in Arrivals
    /\ AnyOrder \/ o = Min(work[t])
    /\ prov = "unverified" => Downgrades \/ obs[o].prov # "verified"
    /\ IF Changes(o, prov, fresh)
       THEN obs[o].rev < MaxRevision /\ save_observation_with_outbox(o, prov)
       ELSE UNCHANGED obs
    /\ Handle(t, o, prov)
    /\ Run(t)
    /\ UNCHANGED <<results, lock, history, housekeeping>>

\* The stored item as it is now, which need not be the one whose processing failed.
get_latest_observation(o) == obs[o].prov

\* An id that list_pending_observation_ids returned.
RetryPending(t, o) ==
    /\ t \in Retrier /\ MayStart(t, o)
    /\ Handle(t, o, get_latest_observation(o))
    /\ Run(t)
    /\ UNCHANGED <<obs, results, lock, history, housekeeping>>

Claimable(o) == obs[o].done < obs[o].rev /\ ~obs[o].leased

\* The claim returns the newest revision; the item in hand may be older.
Claim(t) ==
    /\ At(t, "claiming") /\ MayRun(t)
    /\ LET o == task[t].o IN
       IF Claimable(o)
       THEN /\ obs' = [obs EXCEPT ![o].leased = TRUE]
            /\ Local(t, [pc |-> "queued", rev |-> obs[o].rev])
            /\ IF lock[ProcessOf[t]] = NoTask THEN Run(t) ELSE Yield(t)
       ELSE /\ UNCHANGED obs
            /\ task' = [task EXCEPT ![t] = Idle]
            /\ Yield(t)
    /\ UNCHANGED <<results, work, lock, history, housekeeping>>

-----------------------------------------------------------------------------
(* EventProcessor.process, one attempt after the other under the lock.     *)

\* choose_cluster among the events a task reads before it awaits the embedding of
\* its item: one of the topic, else a new one.
Candidates == {e \in Event : event[e].version > 0}

Choose(t, tries) ==
    LET fits == {e \in Candidates : TopicOf[e] = Topic(task[t].o)} IN
    /\ \/ \E e \in fits :
             Local(t, [pc |-> "reading", e |-> e, created |-> FALSE, tries |-> tries])
       \/ /\ fits = {}
          /\ Local(t, [pc |-> "creating", e |-> EventOf[task[t].o], created |-> TRUE,
                        tries |-> tries])
    /\ Yield(t)

\* process runs without the lock.
EnterUnlocked(t) ==
    /\ At(t, "queued") /\ MayRun(t)
    /\ Choose(t, 0)
    /\ UNCHANGED <<obs, results, work, lock, history, housekeeping>>

Enter(t) ==
    /\ At(t, "queued") /\ MayRun(t)
    /\ lock[ProcessOf[t]] = NoTask
    /\ lock' = [lock EXCEPT ![ProcessOf[t]] = t]
    /\ Choose(t, 0)
    /\ UNCHANGED <<obs, results, work, history, housekeeping>>

\* ConcurrentScoreConflict: start over, three attempts in all.
Conflict(t) ==
    IF task[t].tries < 2 THEN Choose(t, task[t].tries + 1)
                         ELSE Goto(t, "failing") /\ Run(t)

\* An event that has one observation, and neither score nor timeline.
_skeleton == [version |-> 1, cv |-> 1, input |-> {}, last |-> NoPoint]

\* upsert_event of the skeleton, which was never stored: revision 0.
Create(t) ==
    /\ At(t, "creating") /\ MayRun(t)
    /\ IF event[task[t].e].version = 0
       THEN /\ event' = [event EXCEPT ![task[t].e] = _skeleton]
            /\ Goto(t, "reading") /\ Run(t)
       ELSE Conflict(t) /\ UNCHANGED event
    /\ UNCHANGED <<obs, members, runs, work, lock, history, housekeeping>>

Read(t) ==
    /\ At(t, "reading") /\ MayRun(t)
    /\ Local(t, [pc |-> "assigning", ver |-> event[task[t].e].version, cv |-> event[task[t].e].cv])
    /\ Run(t)
    /\ UNCHANGED <<obs, results, work, lock, history, housekeeping>>

assign_observation(t) ==
    /\ At(t, "assigning") /\ MayRun(t)
    /\ LET row == <<task[t].e, task[t].o>> IN
       /\ members' = members \cup {row}
       /\ Local(t, [pc |-> "loading", joined |-> row \notin members])
    /\ Run(t)
    /\ UNCHANGED <<obs, event, runs, work, lock, history, housekeeping>>

\* list_event_observations, without what is unverified.
TrustedInput(e) ==
    {<<o, obs[o].rev>> : o \in {o \in Observation : <<e, o>> \in members /\ obs[o].prov = "verified"}}

Greater(a, b) == IF a > b THEN a ELSE b

\* The bucket in which the newest of what is read was collected.
Signal(input) == Max({obs[x[1]].at : x \in input})

Digest(t, input) == [e |-> task[t].e, cv |-> task[t].cv, input |-> input]

\* classification_basis of an event: the observation that decides its type.
Basis(input) == Min({x[1] : x \in input})

Load(t) ==
    /\ At(t, "loading") /\ MayRun(t)
    /\ LET input == TrustedInput(task[t].e)
           next == IF task[t].prov = "unverified" THEN "noting"
                   ELSE IF input = {} THEN "failing"
                   ELSE IF Basis(input) \in Unsupported THEN "triaging"
                   ELSE IF Digest(t, input) \in runs THEN "completing" ELSE "scoring"
       IN Local(t, [pc |-> next, input |-> input, at |-> IF input = {} THEN NoPoint ELSE Signal(input)])
    /\ Run(t)
    /\ UNCHANGED <<obs, results, work, lock, history, housekeeping>>

\* The stored event is overwritten whatever its version.
WriteBlindly(t, row, new) ==
    /\ event' = [event EXCEPT ![task[t].e] = row]
    /\ runs' = runs \cup new
    /\ Goto(t, "completing") /\ Run(t)

\* upsert_event and commit_scored_event: only over the version that was read.
Write(t, row, new) ==
    IF event[task[t].e].version = task[t].ver
    THEN /\ event' = [event EXCEPT ![task[t].e] = row]
         /\ runs' = runs \cup new
         /\ Goto(t, "completing") /\ Run(t)
    ELSE Conflict(t) /\ UNCHANGED <<event, runs>>

\* A scored event counts a join of an existing event, a candidate counts any.
ClusterVersion(t, counted) == IF counted THEN task[t].cv + 1 ELSE task[t].cv

\* The scored event: the point of its bucket is put into the timeline that was read.
updated(t) ==
    [version |-> task[t].ver + 1,
     cv |-> ClusterVersion(t, task[t].joined /\ ~task[t].created),
     input |-> task[t].input, last |-> Greater(event[task[t].e].last, task[t].at)]

commit_scored_event(t) ==
    /\ At(t, "scoring") /\ MayRun(t)
    /\ Write(t, updated(t), {Digest(t, task[t].input)})
    /\ UNCHANGED <<obs, members, work, lock, history, housekeeping>>

\* A discovery candidate only becomes evidence beside the score.
NoteCandidate(t) ==
    /\ At(t, "noting") /\ MayRun(t)
    /\ Write(t, [event[task[t].e] EXCEPT !.version = task[t].ver + 1,
                                         !.cv = ClusterVersion(t, task[t].joined)], {})
    /\ UNCHANGED <<obs, members, work, lock, history, housekeeping>>

\* An unsupported event is put aside for triage without a score.
Triage(t) ==
    /\ At(t, "triaging") /\ MayRun(t)
    /\ Write(t, [version |-> task[t].ver + 1, cv |-> task[t].cv, input |-> task[t].input,
                 last |-> NoPoint], {})
    /\ UNCHANGED <<obs, members, work, lock, history, housekeeping>>

-----------------------------------------------------------------------------
(* Acknowledging the revision, and what may go wrong.                      *)

Free(p, t) == IF lock[p] = t THEN NoTask ELSE lock[p]
Leave(t) ==
    /\ task' = [task EXCEPT ![t] = Idle]
    /\ lock' = [lock EXCEPT ![ProcessOf[t]] = Free(ProcessOf[t], t)]
    /\ Yield(t)

\* Whatever was saved meanwhile is acknowledged with the revision in hand.
CompleteNewest(t) ==
    /\ At(t, "completing") /\ MayRun(t)
    /\ obs' = [obs EXCEPT ![task[t].o].done = obs[task[t].o].rev, ![task[t].o].leased = FALSE]
    /\ Leave(t)
    /\ UNCHANGED <<results, work, history, housekeeping>>

complete_observation_processing(t) ==
    /\ At(t, "completing") /\ MayRun(t)
    /\ obs' = [obs EXCEPT ![task[t].o].done = Greater(@, task[t].rev), ![task[t].o].leased = FALSE]
    /\ Leave(t)
    /\ UNCHANGED <<results, work, history, housekeeping>>

\* A connector gives its run up, the retry loop goes on to the next id.
EndsRun(t) == work' = IF t \in Retrier THEN work ELSE [work EXCEPT ![t] = {}]

fail_observation_processing(t) ==
    /\ At(t, "failing") /\ MayRun(t)
    /\ obs' = IF obs[task[t].o].done < task[t].rev
              THEN [obs EXCEPT ![task[t].o].leased = FALSE] ELSE obs
    /\ Leave(t)
    /\ EndsRun(t)
    /\ UNCHANGED <<results, history, housekeeping>>

\* A repository call of process raises.
Raises(t) ==
    /\ task[t].pc \in Active \ {"queued", "completing", "failing"}
    /\ MayRun(t) /\ Fault
    /\ Goto(t, "failing") /\ Run(t)
    /\ UNCHANGED <<obs, results, work, lock, overran, housekeeping>>

\* Between two steps of a task, or of a sweep.
Crash(p) ==
    /\ sweep[p].pc \notin {"none", "due"} \/ \E t \in TasksOf(p) : ~At(t, "idle")
    /\ Fault
    /\ task' = [t \in Task |-> IF t \in TasksOf(p) THEN Idle ELSE task[t]]
    /\ running' = [running EXCEPT ![p] = NoTask]
    /\ lock' = [lock EXCEPT ![p] = NoTask]
    /\ work' = [t \in Task |-> IF t \in TasksOf(p) THEN {} ELSE work[t]]
    /\ sweep' = [sweep EXCEPT ![p] = NoSweep]
    /\ UNCHANGED <<obs, results, bucket, overran>>

\* The five minutes are over: the holder died, or is slow.
LeaseExpires(o) ==
    /\ obs[o].leased
    /\ obs' = [obs EXCEPT ![o].leased = FALSE]
    /\ IF \E t \in Task : Holds(t, o)
       THEN Fault /\ overran' = overran \cup {o}
       ELSE UNCHANGED history
    /\ UNCHANGED <<results, task, work, running, lock, housekeeping>>

\* A scheduler process outside the instance stores the event again, for a penalty.
ForeignWrite(e) ==
    /\ event[e].version > 0 /\ Fault
    /\ event' = [event EXCEPT ![e].version = @ + 1]
    /\ UNCHANGED <<obs, members, runs, task, work, running, lock, overran, housekeeping>>

-----------------------------------------------------------------------------
(* What a process does to all events while its tasks have nothing to do: the  *)
(* penalty when a metered connector pauses for its budget, and at the end of  *)
(* a cycle the refresh of what has gone quiet.  An error that escapes from    *)
(* either ends the process, which is started again.                           *)

TasksDone(p) == \A t \in TasksOf(p) : At(t, "idle") /\ (t \in Retrier => work[t] = {})
Sweep(p, x) == sweep' = [sweep EXCEPT ![p] = x]
sweptRest == <<obs, members, runs, task, running, lock, history>>

\* list_events, as far as a sweep looks at them.
Listed(wanted) == [e \in {f \in Event : event[f].version > 0 /\ wanted[f]} |-> event[e]]
Without(read, e) == [f \in DOMAIN read \ {e} |-> read[f]]

\* apply_connector_coverage_penalty; the events here are all of one platform.
Penalise(p) ==
    /\ sweep[p].pc = "due" /\ TasksDone(p) /\ Fault
    /\ LET read == Listed([e \in Event |-> TRUE]) IN
       DOMAIN read # {} /\ Sweep(p, [pc |-> "penalising", read |-> read])
    /\ UNCHANGED <<obs, results, task, work, running, lock, bucket, overran>>

\* upsert_event; a conflict ends the cycle of all connectors.
ApplyPenalty(p, e) ==
    /\ sweep[p].pc = "penalising" /\ e \in DOMAIN sweep[p].read
    /\ LET rest == Without(sweep[p].read, e) IN
       IF event[e].version = sweep[p].read[e].version
       THEN /\ event' = [event EXCEPT ![e] = [sweep[p].read[e] EXCEPT !.version = @ + 1]]
            /\ Sweep(p, IF DOMAIN rest = {} THEN [pc |-> "due"]
                                            ELSE [sweep[p] EXCEPT !.read = rest])
            /\ UNCHANGED work
       ELSE /\ Sweep(p, NoSweep)
            /\ work' = [t \in Task |-> IF t \in TasksOf(p) THEN {} ELSE work[t]]
            /\ UNCHANGED event
    /\ UNCHANGED <<sweptRest, bucket>>

\* Events without a timeline, or with a point of this bucket, are left out.  No
\* connector begins any more.
refresh_time_driven(p) ==
    /\ sweep[p].pc = "due" /\ TasksDone(p)
    /\ LET read == Listed([e \in Event |-> event[e].last \in 0..(bucket - 1)]) IN
       Sweep(p, IF DOMAIN read = {} THEN NoSweep
                ELSE [pc |-> "looking", read |-> read, at |-> bucket, again |-> {}])
    /\ work' = [t \in Task |-> IF t \in TasksOf(p) THEN {} ELSE work[t]]
    /\ UNCHANGED <<sweptRest, event, bucket>>

\* Nothing trusted has come since an earlier bucket, nor has this bucket a point.
Quiet(e, row, at) ==
    /\ row.last < at
    /\ TrustedInput(e) # {} /\ Signal(TrustedInput(e)) < at

\* On with the next event.
Leaving(p, e) ==
    LET rest == Without(sweep[p].read, e) IN
    IF DOMAIN rest = {} THEN NoSweep ELSE [sweep[p] EXCEPT !.pc = "looking", !.read = rest, !.again = {}]

\* An event read again may have no timeline any more, of which a first point is
\* asked nevertheless: an IndexError.
Look(p, e) ==
    /\ sweep[p].pc = "looking" /\ e \in DOMAIN sweep[p].read
    /\ sweep[p].again \subseteq {e}
    /\ LET row == sweep[p].read[e] IN
       Sweep(p, IF ~Quiet(e, row, sweep[p].at) THEN Leaving(p, e)
                ELSE IF row.last = NoPoint THEN NoSweep
                ELSE [pc |-> "storing", read |-> sweep[p].read, at |-> sweep[p].at,
                      again |-> sweep[p].again, e |-> e])
    /\ UNCHANGED <<sweptRest, event, work, bucket>>

\* The point is added to the event that is stored, whatever has become of it.
StoreOver(p) ==
    LET e == sweep[p].e IN
    /\ sweep[p].pc = "storing"
    /\ event' = [event EXCEPT ![e] = [sweep[p].read[e] EXCEPT !.version = event[e].version + 1,
                                                             !.last = sweep[p].at]]
    /\ Sweep(p, Leaving(p, e))
    /\ UNCHANGED <<sweptRest, work, bucket>>

\* commit_scored_event of the cooled event, or one more look at what it is now; a
\* second conflict escapes.
_refresh_quiet_event(p) ==
    LET e == sweep[p].e IN
    IF sweep[p].pc = "storing" /\ event[e].version # sweep[p].read[e].version
    THEN /\ Sweep(p, IF sweep[p].again # {} THEN NoSweep
                     ELSE [pc |-> "looking", read |-> [sweep[p].read EXCEPT ![e] = event[e]],
                           at |-> sweep[p].at, again |-> {e}])
         /\ UNCHANGED <<sweptRest, event, work, bucket>>
    ELSE StoreOver(p)

\* Hours, in which no task is under way and no lease lasts.
TimeForCooling ==
    /\ bucket < MaxBucket /\ bucket' = bucket + 1
    /\ \A p \in Process : TasksDone(p) /\ sweep[p].pc \in {"none", "due"}
    /\ \A o \in Observation : ~obs[o].leased
    /\ UNCHANGED <<obs, results, task, work, running, lock, sweep, history>>

Sweeping(p) ==
    \/ refresh_time_driven(p) \/ _refresh_quiet_event(p)
    \/ \E e \in Event : ApplyPenalty(p, e) \/ Look(p, e)

-----------------------------------------------------------------------------
Handling(t) ==
    \/ Claim(t) \/ Enter(t) \/ Create(t) \/ Read(t) \/ assign_observation(t)
    \/ Load(t) \/ commit_scored_event(t) \/ NoteCandidate(t) \/ Triage(t)
    \/ complete_observation_processing(t) \/ fail_observation_processing(t)

Next ==
    \/ \E p \in Process : BeginCycle(p)
    \/ \E t \in Task, o \in Observation, prov \in Provenance, fresh \in BOOLEAN :
          Collect(t, o, prov, fresh)
    \/ \E t \in Task, o \in Observation : RetryPending(t, o)
    \/ \E t \in Task : Handling(t) \/ Raises(t)
    \/ \E p \in Process : Sweeping(p) \/ Penalise(p) \/ Crash(p)
    \/ TimeForCooling
    \/ \E o \in Observation : LeaseExpires(o)
    \/ \E e \in Event : ForeignWrite(e)

Spec == Init /\ [][Next]_vars

\* A process goes on, cycle after cycle; time passes for a lease.
Fairness ==
    /\ \A p \in Process : WF_vars(BeginCycle(p)) /\ WF_vars(Sweeping(p))
    /\ \A t \in Task : WF_vars(\E o \in Observation : RetryPending(t, o))
    /\ \A t \in Task : SF_vars(Handling(t))
    /\ \A o \in Observation : WF_vars(LeaseExpires(o))

FairSpec == Spec /\ Fairness

-----------------------------------------------------------------------------
\* A verified revision that processed_revision acknowledges has gone into the event
\* the observation belongs to, its score or its triage: claim, load, commit and
\* acknowledgement are separate transactions, and revisions keep arriving.
NoRevisionLost ==
    \A o \in Observation :
        obs[o].prov = "verified" /\ obs[o].done = obs[o].rev
        => \E e \in Event : <<e, o>> \in members /\ <<o, obs[o].rev>> \in event[e].input

\* "Cluster assignment ... must be ordered to avoid duplicate events": in one
\* process two items of a topic never found an event each.
OneEventPerTopic ==
    \A e, f \in Event : event[e].version > 0 /\ event[f].version > 0 /\ TopicOf[e] = TopicOf[f]
                           => e = f

\* A lease that nobody overran has one holder (D-06: a new revision must neither
\* clear an active lease nor start a second scoring).
OneHolder ==
    \A o \in Observation \ overran :
        /\ Cardinality({t \in Task : Holds(t, o)}) <= 1
        /\ \A t \in Task : Holds(t, o) => obs[o].leased

\* A stored event gives up nothing that went into it: two processes that score one
\* event from different readings do not overwrite each other.
ScoresNeverForget ==
    [][\A e \in Event : \A x \in event[e].input :
          \E y \in event'[e].input : y[1] = x[1] /\ y[2] >= x[2]]_vars

\* "Advance quiet events without inventing a new provider observation": the point
\* of a refresh is newer than all others and leaves what was scored as it is, and no
\* result that another process stored meanwhile is lost under it.
RefreshOnlyAges ==
    [][\A p \in Process : sweep[p].pc = "storing" /\ sweep'[p] # sweep[p] /\ event' # event
          => LET e == sweep[p].e IN
             /\ event'[e].input = event[e].input /\ event'[e].cv = event[e].cv
             /\ event'[e].last > event[e].last]_vars

\* Every saved revision is processed in the end, although processing failed, the
\* process died and the source never sends the item again (D-04).
EveryRevisionIsProcessed ==
    \A o \in Observation : obs[o].done < obs[o].rev ~> obs[o].done = obs[o].rev
=============================================================================
