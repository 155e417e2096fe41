# AI 热点雷达 (AI_HOT): a TLA+ model of the signal pipeline

AI_HOT collects public items about AI from a dozen sources, groups them into
events, scores the events, publishes what changed to a Redis Stream, sends alerts,
and samples itself over days to show that it works. This directory holds TLA+ modules
of the parts whose correctness rests on leases, locks, optimistic versions and the
order of steps of several processes, and of the scoring rules they apply; the TLC
configurations that check them on small instances; and theorems that TLAPS proves
for every value of the constants. Paths below are relative to the repository;
`radar/` stands for `services/api/radar/`.

## 1. The system

| Component | State it keeps | Operations | Talks to | Hard behaviour |
|---|---|---|---|---|
| Scheduler (`runner.py`) | none | one loop: `run_once`, evidence retention, `publish_batch`, sleep | worker, outbox | may run in several processes |
| Worker (`worker.py`) | budget credits, pauses | `run_once`, `run_connector`, `retry_pending` | connectors, processor, repository | connectors side by side in one event loop; errors end a run |
| Connectors (`connectors/*`) | checkpoint, request count | `collect` | third parties, evidence store | cursors that overlap, limits, redirects and retries |
| Processor (`processor.py`) | `_process_lock`, embedding cache | `process`, time-driven refresh | repository, clustering, scoring | reads, awaits, then writes under an optimistic version |
| Scoring and metrics (`scoring.py`, `metrics.py`, `feature_registry.py`) | none | `score_event`, `aggregate_metrics` | processor | streaks, confirmation over several cycles |
| Repository (`storage.py`, `001_init.sql`) | PostgreSQL | one transaction per method | everybody | row locks, advisory locks, leases, `SKIP LOCKED` |
| Outbox relay (`outbox.py`) | `outbox.published_at`, Stream | `publish_batch` | PostgreSQL and Redis, with no common transaction | crash between XADD and commit |
| Stream fence (`outbox.py`) | three Redis keys | register, renew, fenced XADD, exclusive acquire/XADD/release | relay, alert worker, replay, retention | leases that expire under a living holder |
| Replay (`tools/replay_outbox_to_redis.py`) | checkpoint hash in Redis | `execute_replay` | PostgreSQL, Stream, fence | interruption and resumption, loss of the Stream |
| Stream retention (`stream_retention.py`) | Stream | safe trim | fence | consumers outside the fence |
| Alert worker (`alert_worker.py`, `alerts.py`) | pending list of a consumer group, `alerts` | claim, dispatch, give up, acknowledge | Stream, repository, webhook | at-least-once delivery, two workers on one message, ageing reservations |
| Connector budget (`worker.py`, `budget.py`, `storage.py`, `001_init.sql`) | `connector_runs`, `connector_budget_reservations` | reserve, record, expire, resolve | worker, operator | run that dies before it reports |
| Cluster edits (`storage.py`, `main.py`) | `cluster_edit_requests`, the events' links | queue, execute, refuse, revert, mark | API, executors, scorers | edits that the scorer's version check does not see; death between an edit and its mark |
| Source deletion (`storage.py`, `deletion.py`) | the same tables | `purge_source`, `source.erased` | scorers, alert consumer, object store | reads first and deletes later; content that comes back; partial deletion, given up in the end |
| Evidence store and retention (`evidence_store.py`, `retention.py`) | objects, `raw_evidence_deletions` | put; claim, check, delete, confirm, fail | connectors, PostgreSQL, object store, with no common transaction | leases, late confirmations, crash between any two calls |
| Product metrics (`product_metrics.py`) | append-only facts | four metrics with denominators | API, monitor | facts stamped before they can be read |
| Acceptance monitor (`tools/acceptance_monitor.py`, `run_scheduled_acceptance.py`) | a file of hash-chained lines | collect, append, report | API, timer | overlapping or dying collectors; reads that are not one snapshot |
| API, web, tools, configuration | none of their own | | repository | |

What makes the parts correct:

* **Fence.** An exclusive owner (replay or maintenance) is alone; during its tenure
  nobody else writes to the Stream or changes the replay state; an abandoned lease
  ends by itself.
* **Relay and replay.** What PostgreSQL calls published is in the Stream unless the
  Stream was lost and not yet recovered; every row is published in the end; a
  replay that saved progress can be resumed.
* **Stream retention.** What is trimmed, every group has received and acknowledged, an
  operator has reviewed, and a replay could bring back; no row lock outlives its run.
* **Alerts.** Budgets hold for what is delivered; "delivered" is only said of what the
  receiver accepted; nothing is acknowledged that leaves a reservation behind; every
  message is settled in the end.
* **Scoring.** No acknowledged revision is missing from its event's score, no topic
  gets two events in one process, a lease has one holder, no score is overwritten
  by an older reading, a refresh only lets an event age, every revision is processed
  in the end. Of the rules: what a strong or dormant label rests on, that one cycle
  does not change a label, that time alone never excites.
* **Budget.** The provider is never paid beyond a limit, each run is charged once,
  no reservation is forgotten.
* **Cluster edits and erasure.** Redirects end; an observation is scored where it
  belongs; an edit never passes over another; its outcome stands and comes in the end;
  a score that quotes what was erased will be redone (with an exception, section 5).
* **Evidence.** No row names a missing object; only what is deleted is confirmed so; an
  erasure is acknowledged when its objects are gone, or kept in the dead-letter list; a
  cursor passes no post that was not saved; every deletion ends.
* **Metrics and acceptance.** What passes was up and remembers its past; a file that
  loads is complete; an honest system is not failed; what was counted stays counted.

## 2. Modules

| Module | Models | State ↔ code |
|---|---|---|
| `LeaseFence` | What the fence promises: members (live participants), owner (exclusive lease), replay state, and the last step's writer | abstract; its actions are the possible effects of the Lua scripts of `outbox.py` |
| `StreamFence` | The Lua scripts and the coroutines around them | `ttl`: the scores in the participants' sorted set; lock key with its time to live; `status` of the replay hash; a pc per task between two awaits |
| `OutboxRelay` | `publish_batch`, the alert worker's `ensure_group` and lease, `execute_replay` | `outbox` rows with `published`; the Stream as a sequence of rows; the checkpoint; `pub`, `rep`: pc and local variables of a publisher and of a replay run; `epoch`/`whole`: whether the Stream was lost |
| `StreamRetention` | `maintain_stream_retention` (dry run and execute) with publishers, consumer groups and the clean-up of PostgreSQL around it | `log`, `stream`: the entries ever added and the ids still there; `group`: position and pending entries; `run`: pc and local variables (`marks` from XINFO and XPENDING, `before`, the boundary `min`, the candidate `entries`); `guard`: rows held `FOR SHARE`; `underway`: the thread or script a cancelled run must wait for |
| `AlertDelivery` | `run_once` of the alert worker down to the rows of `alerts` | pending list with delivery counts and owners; alert status by (message, rule, channel); what the receiver accepted; one pc per worker, each repository or Redis call a step |
| `ScoringPipeline` | `run_once`, `run_connector`, `retry_pending`, `process`, the coverage penalty and the time-driven refresh | `obs`: `observations` and `observation_processing`; `members`: `event_observations`; `event`: version, cluster version and the input that went into the stored score; `running`: which task holds a process's event loop; `lock`: `_process_lock` |
| `Scoring` | `score_event` with its thresholds, streaks, label confirmation and decay | functions over hundredths; no state |
| `Metrics` | the rules of `feature_registry.py`, `aggregate_metrics`, `to_score_input`, and the processor's two ways to a score | functions over snapshots; no state |
| `ScoringCases` | the frozen registry, and the expectations of `tests/test_scoring.py`, `test_operational_rules.py` and `test_pipeline.py` as assumptions | TLC evaluates them in both `Score*` runs |
| `ConnectorBudget` | Reservation to charge, with the requests a run makes | both ledgers by owner token; `paid`: what the provider charges |
| `EventCuration` | queueing, executing, refusing, reverting and marking edits, behaviour marks and `purge_source`, beside scorers | `event`: existence, cluster version, `superseded_by` and what its evidence quotes; `member`; `op`: `cluster_edit_requests`; `mark`: the edit's outbox row; `purge`: what an erasure under way has read; a pc per scorer and executor |
| `EvidenceLifecycle` | a connector's cycle from poll to cursor, retention worker, erasure and its consumer | `objects`: keys in the store; `row`, `snapshot`: who names them; `deletion`: `raw_evidence_deletions`; `erasure`: each source's purge, what it read, its message, the deliveries that failed, the dead-letter list; `cursor` |
| `ProductMetrics` | the facts (deliveries, entries, decisions, quality reviews, incidents, exclusions, crossings), their late commits, the metrics' denominators, and recovery to a moment before | `facts` committed, `open`: stamped and not committed; `log`: the archive of what was committed; `clock` |
| `AcceptanceMonitor` | `ProductMetrics` with the scheduled collector, the reads of a sample, the file and the continuity rules of the report | `job`: which read a collector is at; `file`: lines, whole or torn; `up`, `attended` |

`MCOutboxRelay`, `MCStreamRetention`, `MCAlertDelivery`, `MCScoringPipeline`,
`MCConnectorBudget`, `MCEventCuration`, `MCEvidenceLifecycle` and `MCAcceptance` give the
structured constants their values and name the symmetric sets; `StreamFence` needs
neither and is checked directly. Modules named `...Proofs` hold theorems (section 4).

How they compose:

* `StreamFence` is shown to implement `LeaseFence` (`INSTANCE LeaseFence`, with members
  refined to the tokens that have time left). `OutboxRelay` and `StreamRetention` are built
  on the abstract fence: each of their steps that calls a script contains the action of
  `LeaseFence` for it. They therefore see a lease as its users do, as something that may
  lapse at any moment, and the seconds and Lua scripts stay in `StreamFence`.
* `AcceptanceMonitor` extends `ProductMetrics`: the collector reads the facts table by
  table while they commit.
* `ScoringPipeline` says when something is scored and from which input, `Scoring` and
  `Metrics` what the score then is. `ScoringPipeline` models claims, leases, revisions and
  the optimistic write in full; `EventCuration` keeps of them what edits can disturb.
* Raw evidence, erasure messages and their redelivery: `EvidenceLifecycle` models what a
  handler does to the objects, `AlertDelivery` how a message is claimed and given up.

Every repository method is one transaction and one step, except `purge_source`, which reads
first and deletes later under READ COMMITTED and is two: what it read, and its commit. Every `await` of a Redis
or HTTP call is a boundary between steps. Within one process a task keeps the event
loop between two awaits (`running` in `ScoringPipeline`).

Names are the code's where an operator is one of its functions
(`register_stream_participant`, `reserve_alert_delivery`, `assign_observation`,
`record_connector_run`, `purge_source`, `append_sample`, ...). Operators such as
`take_without_expiry`, `WriteBlindly` or `DiesAcknowledging` that no action uses are
deliberate faults: each is the code with one plausible mistake, and putting it in the
place of the real operator breaks the property it is meant for. They show that the
properties are about the code.

## 3. Runs

| Run | Module | Question and answer | Distinct states |
|---|---|---|---|
| `StreamFence` | `StreamFence` | Two participants, two replayers, one maintainer, leases of two ticks. The fence implements `LeaseFence` and opens by itself after a crash. | 36 thousand |
| `OutboxReplay` | `MCOutboxRelay` | One publisher, one consumer, two replay runs, a Stream that is lost, three faults. Published rows are in the Stream or the Stream is known to be incomplete; saved progress passes verification. The runs ask for the same window of two rows. | 703 thousand |
| `OutboxPublish` | `MCOutboxRelay` | Two publishers, three rows of which one always fails, rows commit out of order. No duplicates without a fault; every publishable row is published. | 19 thousand |
| `AlertRace` | `MCAlertDelivery` | Two workers that claim each other's messages, one fault, one place in the budget. | 1.1 million |
| `AlertCrash` | `MCAlertDelivery` | One worker, two faults, ageing reservations, two rules of which one has a webhook. | 186 thousand |
| `ScoreOneProcess` | `MCScoringPipeline` | Two connectors and the retry loop of one process, two observations of one topic, one of them unsupported, candidates and verified revisions. | 530 thousand |
| `ScoreTwoProcesses` | `MCScoringPipeline` | A connector of one process and the retry loop of another, with refresh and liveness. | 114 thousand |
| `BudgetRace` | `MCConnectorBudget` | Two workers, three connectors, two months, one fault. | 299 thousand |
| `StreamRetention` | `MCStreamRetention` | One tool run after the other (dry or execute), one publisher, a required and another group, two entries, a clean-up, one fault or cancellation. Nothing unread, unreviewed or unrecoverable is trimmed, and no row lock is left. | 1.3 million |
| `EventCuration` | `MCEventCuration` | Two observations of two sources, two edits and their reverts, an erasure in two steps, a scorer and an executor that die. | 433 thousand |
| `EvidenceLifecycle` | `MCEvidenceLifecycle` | A feed with a cursor, a document feed and a source with snapshots; two retention workers, an erasure whose message fails for good the second time, one fault. | 327 thousand |
| `Acceptance` | `MCAcceptance` | A timer's collector and an operator's, three alerts, late facts, two reviewers of one alert, an outage, a restore to any moment, torn lines, seven moments of five minutes. | 1.1 million |

What each property says, and of which code, is written above it in its module.

### Bounds, and why they are enough

* Faults (`MaxFaults`) are crashes, lapsing leases, failing calls and losses. One
  or two of them suffice for every fault hazard in the code, as each concerns one
  window between two steps; `OutboxReplay` takes three, because a lost Stream, an
  interrupted replay and a lapsed lease can coincide. `Budget` in `EventCuration` and
  `AcceptanceMonitor` bounds faults, edits and facts together.
* Two of everything that competes (publishers, workers, replay runs, processes,
  collectors). No rule of the code depends on a third competitor: locks and leases are
  pairwise. `EventCuration` has one scorer beside one executor, and other scorers'
  writes as a step (`ForeignWrite`).
* Two or three rows, messages, observations: enough for one to be overtaken,
  skipped by a cursor, joined to another's event, or to compete for the last place.
* The run `StreamRetention` has one tool run at a time, as the exclusive lease demands; the token
  is used again, so a run may find its lease lapsed. Two entries let one be read and the other not, one be
  pending, or one be added after the boundary was chosen. A run that has lost its lease goes on until
  it notices, so that two may overlap, and a dry run report while another executes. The boundary an execute run trims
  at is therefore the one it was given (`confirmed_trim_min_id`, `run[x].confirmed`), not the latest one reported;
  overlapping runs are covered by the theorem (`TrimWasReviewed`).
* `EventCuration`: a merge needs two events, a split two members; two edits let one be
  undone while another is queued. Children of an edit are events, so a merge of a
  split's child is reached.
* `EvidenceLifecycle`: five posts with a start of 3, an overlap of 2 and a limit of three messages
  make the feed stop short, read back and pass a candidate; `MaxUris = 1` cuts it at the
  last candidate it may verify. Two polls let one be older than the retention period.
  One publisher is erased, and its one item; a document of two items, of which an erasure may hit one
  while the other is saved, is left to the theorems. `MaxDeliveries = 2` lets a message fail, be
  delivered again and be given up.
* `AcceptanceMonitor`: a moment is five minutes, a slot three of them, the span two slots;
  `MaxGap = 1` and `Share = 50` let a slot be missed without failing the report. Windows of
  three and five units close within the run, so that denominators grow by time alone.
  A restore goes to any moment since just before the model begins, of which the archive keeps all; one alert is reviewed, by
  two reviewers, as many as it takes to call it wrong.
* `Lease = 2` ticks distinguishes a renewed lease from one that is about to end.
* `MaxRevision`, `MaxDeliveries`, `MaxRuns`, `Months`, `MaxLen`, `MaxPolls`, `MaxBucket`,
  `MaxTime` bound counters; actions that would exceed them are not taken, which only
  removes behaviours. One bucket of time is enough for an event to cool.
* `ScoreTwoProcesses` keeps one task per process; what two tasks of one process do
  to each other is the subject of `ScoreOneProcess`.
* The three limits of `BudgetRace` bind separately: two runs of one connector exceed
  only its own, two of a family only the family's, two others only the total.
* `CHECK_DEADLOCK FALSE` in all but `StreamFence`: bounded inputs run out, and an alert worker with
  nothing pending does rest. That nothing gets stuck is what the liveness properties say.

### Fairness

* `StreamFence`: weak fairness of `Tick` alone. Time passes; nothing is assumed of
  the processes, so a lease ends even if its holder is dead.
* `OutboxPublish`: weak fairness of each publisher's steps. The scheduler calls
  `publish_batch` every cycle (`runner.py:334`), and a started batch runs to its end.
* `AlertCrash`: weak fairness of a worker's steps, strong fairness of picking up a
  message: the loop of `alert_worker.py` never ends and XAUTOCLAIM scans the whole
  pending list, although a claim may be disabled for a while by somebody's lease.
* `ScoreTwoProcesses`: weak fairness of a cycle's begin, of the retry loop and of the
  five-minute lease; strong fairness of a task's handling, as the lock of the process
  is taken and released again and again (`asyncio.Lock` is first come, first served).
* `BudgetRace`: runs go on, an hour passes, and some worker's cycles begin with
  `reconcile_expired_connector_budget_reservations`, hence strong fairness for it.
* `EventCuration`: weak fairness of the executor alone: it begins cycle after cycle and a cycle
  runs to its end. Scorers and people need not do anything.
* `EvidenceLifecycle`: weak fairness of the retention workers and of the end of leases and
  delays; a purge that has read ends; a pending message is delivered again, to be handled or to
  fail. It need not ever succeed: the consumer gives up after `MaxDeliveries`
  (`alert_worker.py:349-374`). Connectors need not run again.

### What the constants leave out

Some constants name an assumption. With the other value TLC finds a counterexample
to a property above; these are limits of what the code promises, recorded here so
that nobody relies on more.

* `Drain = TRUE` (`OutboxRelay`): publishers and consumers are unscheduled before a
  replay, as the replay tool's header asks, so that no publisher that lost its lease is
  still about to mark a row when the replay starts. With `FALSE`,
  `PublishedIsInStream` fails: a publisher whose lease lapses between the check at
  `outbox.py:352` and the mark at `:355` marks a row that only the lost Stream contained.
* `Aging = FALSE` in `AlertRace`: no reservation outlives its fifteen minutes (section 5).
* Two workers at once with two rules and a webhook (`AlertDelivery`):
  `NoReservationIsStranded` is checked with one worker. With two, a worker that was
  overtaken after XAUTOCLAIM reserves after the other one acknowledged, and may die
  (`alert_worker.py:209`, `:221-230`).
* `Downgrades = FALSE` and, for two processes, verified arrivals only (`ScoringPipeline`):
  a task that read an unverified item but claimed the newest, verified revision
  acknowledges that one as a candidate (`processor.py:479-480`, `storage.py:1922`), and
  `NoRevisionLost` fails.
* `MonthEndRace = FALSE` (`ConnectorBudget`): a run does not begin in one month and
  reserve in the next (`worker.py:183`, `storage.py:2603-2604`); otherwise the charge
  goes to the old month and the place to the new one, and `WithinLimit` fails.
* In `ConnectorBudget` the operator resolves a reservation after its run came to an
  end, with the figure of the provider.
* In `StreamRetention` a command in flight when the tool dies either took effect before
  or does not; the row locks are not lost while the tool lives (the README's advice to
  pause the clean-up covers a broken connection). The cut of the retention period may be any
  id, as the clock is. A consumer may act without a live lease.
* In `OutboxRelay` the rows are of the kinds a replay covers (`REPLAY_KINDS`);
  others do not take part in it.
* In `AlertDelivery` whether an event's state was upgraded is chosen freely, which allows
  more than the stored delivery states do.
* `ErasureIsRedone` excepts the events an erased source came into between the two halves of its
  erasure (`overtaken`); without the exception TLC finds the sequence of section 5.
* `EvidenceBehindEveryFact` excepts references whose erasure was asked for: a document may be
  erased between two of its items being saved, and the second then names a deleted object.
* `HonestLedgersPass` excepts four things it names: an alert still `reserved` when it was
  listed, an excluded duplicate, an alert that two reviewers call wrong and one valid, and two samples
  of one slot (section 5).
  `CountedStaysCounted` excepts an alert decided on while an exclusion of it was open.

## 4. Proofs

`tlapm` checks these for all values of the constants, from the assumptions named
in the modules (finite numbers are natural, roles are disjoint, `NoOne` is no token).

* `OutboxRelayProofs!FenceCorrect`, of `StreamFence` for any leases (`Leases`, an instance of it): in the abstract fence an exclusive owner has no
  member beside it, and nobody disturbs its tenure. "No member beside an owner" is not
  inductive: a running replay whose owner lapsed keeps the fence closed, and the next owner
  must be a replayer for the state to be its own. The invariant `FenceInv` therefore adds
  that the owner during a running replay is a replayer, and that the last step's writer
  was entitled.
* `OutboxRelayProofs!LeasesTypeCorrect`: type correctness, strengthened by `LockHasTime`: the
  lock key has time left exactly while it names an owner.
* `OutboxRelayProofs!LeasesImplementFence`: each script, crash, tick and loss of data of
  `StreamFence` is a step of `LeaseFence` or a stutter, where members are the tokens
  with time left. One lemma per action; the tick is the interesting one, as it may end
  several leases at once.
* `OutboxRelayProofs!FenceHolds`: with the two above, the guarantees of the abstract
  fence hold of the leases.
* `OutboxRelayProofs!TypeCorrect`, from `CursorInv`: a cursor's count never exceeds the last row it counted, and
  what a run has fetched lies beyond its cursor (`Due`), so one more row still fits. It holds
  drained or not; what a drain adds is `Quiet`, that nobody publishes while a lock
  is held or a replay is running, and `Batch`, that what was fetched is all there is up to its last row.
* `OutboxRelayProofs!AtLeastOnce`, under `Drain`, from `RelayInv`: a run that still has the fence and has seen no
  loss since it began has put every published row behind its cursor into the Stream. A resumed run owes this
  to the verification it passed (`ThereWhenResumable`), a run that copies to `PassesOne`, which says the
  cursor passes the least row of the batch and no other. Without a drain a publisher may mark a row late,
  when the cursor has passed its number, and it is never copied.
* `OutboxRelayProofs!InterruptedReplayResumes`, under `Drain`, from `ReplayInv`: the Stream is, by first
  occurrences, what a cursor has passed and then the beginning of the next batch (`Follows`), whatever number of
  runs copied parts of that batch and crashed. Appending the least of what is to copy keeps it so (`FollowsOn`),
  as it is there already or greater than all that is. A run may have overtaken a loss without noticing, so
  the invariant carries the alternative `Missing` everywhere, and has to know (`Ahead`) that what
  is missing for the run was missing at its checkpoint too.
* `OutboxRelayProofs!OnceOnly`, from `OnceInv`: without a fault, what is in the Stream is what is published
  or about to be, nobody holds a row of another, and a replay, which then has everybody out, finds nothing to copy.
* `StreamRetentionProofs!GuardIsReleased` and `!TrimIsRecoverable`, from `RetentionInv`: whatever is
  underway belongs to a run that waits for it (`Awaited`), a run holds only published rows
  and none when it is over (`Held`), and from the listing on its candidates include
  every entry below its boundary (`Covered`), which stays true because the boundary is at most one beyond the
  last id (`Bounded`) and new entries come after it. None of these follows alone: XTRIM removes
  what is below a boundary, the locks are on what was listed.
* `StreamRetentionProofs!TrimIsBehindEveryGroup`, from `BoundaryInv`: after `Decide` the boundary is
  within what each group allowed at the first inspection, after `Verify` within what the marks sent to the script allow,
  and the script compares those marks with the groups at the moment of XTRIM. The least
  pending entry is `Min` of a set; that it exists follows from the library's well-founded
  order of finite sets, applied to `0..m` (`LeastExists`), since induction over the naturals takes an operator.
* `StreamRetentionProofs!TrimWasReviewed`, from `ReviewInv`: a report lists all that is left below its boundary and
  goes on to do so (`Reviewed`), because entries are added at the end of the log and the boundary is at most one beyond
  it; an executing run keeps, from `Decide` on, to the boundary it was given with that report (`ConfirmedInv`). The latest report
  (`approved`) is part of the invariant and may change beside the run: nothing is claimed of who wrote it.
* `AlertDeliveryProofs!DeliveredWasAccepted`, from `AcceptedInv`: a worker that is about
  to confirm a webhook alert has its acceptance, and one that recovers an earlier attempt
  confirms nothing but in-app alerts. The property alone says nothing of workers between
  the call and the confirmation.
* `AlertDeliveryProofs!BudgetHolds`, under `~Aging`: what is delivered is part of what
  counts, and only `reserve_alert_delivery` adds to what counts, after looking. The
  invariant `BudgetInv` bounds what counts, delivered or merely reserved.
* `AlertDeliveryProofs!NothingIsStranded`, for one worker, from `StrandInv`: from the listing on
  the worker aborts, every reservation of its message is among those still to be aborted; when none is left and it
  is about to acknowledge there is none (`Settling`). What it has claimed and not begun is pending. With a
  second worker, which may reserve in between, the property fails (section 3).
* `ConnectorBudgetProofs!EachRunIsChargedOnce`, from `ChargeInv`: a token is in the hands
  of one worker (`OneEach`); its row is active while requests are still made
  (`OpenWhileCollecting`), so that the cost recorded is all there will be; a row is
  confirmed exactly when a run was written for it. Expiry and the operator change rows
  without making or undoing a charge.
* `ConnectorBudgetProofs!TypeCorrect`, from `RowsInv`: a row reserves what its connector may cost, and its run has
  paid no more than its answers, attempts and redirects so far allow (`AttemptCosts`).
* `ConnectorBudgetProofs!ChargesStayWithinLimits`, under `~MonthEndRace`, from `LimitInv`: what a token claims, all its
  run may cost until the cost is known and the cost from then on (`Charge`), summed for a month over the connectors
  that share a limit, fits the limit (`ClaimsFit`). Only `reserve_connector_budget` claims more, after asking, and what it asks
  covers all claims: a confirmed one its run, of the same month and connector (`OnTime`), every other one itself
  (`SpendCovers`). A sum is the size of a set of dots (`SumsCountDots`); so a smaller, a split or a
  renumbered sum is a subset, a union or an injection of finite sets.
* `ScoringProofs`: of the score of any input, that a strong state has two families, two
  owners, medium evidence and no missing minimum (`StrongIsConfirmed`); that high evidence
  takes three signal families and 55 points of coverage (`HighNeedsBreadth`); that
  uncertainty covers what evidence leaves open (`UncertaintyCoversTheRest`); which states lead to
  cooling, out of established, to dormant and to established (`Hysteresis`,
  `DormantIsEarned`, `EstablishedIsConfirmedOrKept`); that a refresh neither excites nor
  labels growth (`TimeAloneNeverExcites`); and that one cycle, or one cycle run again, does
  not change settled labels (`OneCycleChangesNothing`, `RepeatedRunsDoNotConfirm`). They rest on bounds
  of the weighted sums. The arithmetic is linear once rounding is bounded by its neighbours.

* `EvidenceLifecycleProofs`: `TypeCorrect`; `FactsHaveEvidence`, that what rows and snapshots name is
  stored unless its erasure was asked for; `ConfirmedIsGone`, that a completed deletion left no object; and
  `AcknowledgedIsGoneOrListed`, that an acknowledged erasure left none either or is in the dead-letter
  list. They follow from one invariant,
  `EvidenceInv`: two cycles under way have different polls, and none older than the retention period
  (`PollUnderWay`), so what rows name is archived by nobody any more (`NamedIsPast`); what is queued
  is named by nothing and will not be (`QueuedIsRetired`); what is to be saved is stored
  (`ArchivedBeforeSaved`); a worker about to confirm has seen the object go (`ClaimInv`); and what a purge
  read is archived by nobody any more, before its commit as after it (`ListedIsPast`).
  None of the three is inductive without the others.
* `EvidenceLifecycleProofs!CheckpointSkipsNothing`, from `FeedInv`: what a cycle has read is every post from
  where it connected up to its candidate cursor. That the posts of a window have a least
  and a greatest one is again a least counterexample in the library's order of finite sets.
* `ScoringProofs!EventsNeverForget` and `!RefreshAgesOnly`, for any number of processes: from `ScoreInv`,
  that a reading whose version is still the stored one is the stored event itself (`Reading`, `Fresh`), so that
  whoever writes over the version he read forgets nothing; and from `Progress`, what any step
  may do to the stored events.
* `ScoringProofs!LeaseHasOneHolder`, from `HolderInv`: while nobody overran the lease of an observation, two
  tasks that hold it are one, and a task that holds it finds it leased.
* `ScoringProofs!NothingIsLost`, under `Orderly`: all that comes is verified, or one process collects
  and no source takes a verification back. `PromiseInv` follows a revision through a
  task: from the claim on, its provenance is at least that of the row, once written it is in the input of an event
  it is linked to, and no later step takes it out (by `Progress`). Without `Orderly` TLC finds a
  counterexample (section 3).
* `ScoringProofs!TopicsDoNotSplit`, under `Alone`, one process: `TopicInv` says that
  who is past the lock has it, and that who is about to create an event saw none of its topic. With two processes
  the code promises nothing of the kind.
* `EventCurationProofs!NoEditPassesAnother`, from `EditInv`: a queued edit whose events were edited since
  shows it, as one of them has a higher version than the edit expects or is superseded (`DisturbedShows`), and
  versions never fall behind what is expected (`Expectations`). An edit is refused on these two signs alone; that
  its own children cannot mislead it is because they do not exist yet (`ChildrenAreFresh`).
* `EventCurationProofs!OutcomesStand`: an action property. What is refused or undone stays as it is, and what was
  executed is at most undone, in whatever order executors and the API come to it.
* `EventCurationProofs!ScoresFollowTheEdits`, from `Belongs`: what a scorer assigned stays where it is unless
  something moved it, and who moves an observation makes it pending (`Assigned`); no two scorers
  hold one observation (`HoldersDiffer`). So a score is recorded for the event the observation is in.
* `EventCurationProofs!ErasedIsScoredAgain`, from `Redone`: whoever is about to write a score of something that
  an edit or an erasure took away leaves a member of the event due or in work (`InputIsCurrent`), and
  so does an event that quotes it (`ContentIsCurrent`). Events in no active list any more are excepted (`Dead`,
  the children of undone edits); that nothing makes them active takes that an executed
  edit is the only one that superseded its events (`SupersededByOne`). Excepted are also the events
  a source came into while its erasure was under way (`overtaken`), and only those.
* `AcceptanceProofs!LoadedFileIsComplete` and `!PassingSystemWasUp`, from `MonitorInv`: a healthy sample was taken
  at a moment at which the API answered (`Taken`), although the collector goes on reading while it may go down; a line names one
  of an earlier sample; and what was reported written is in a line that was ended, or ended one that cannot be read
  (`FileInv`), as a write after a torn line spoils both. A sequence that passes a bound passes it at
  some step (`FirstAbove`), so a long outage would show as a gap.
* `AcceptanceProofs!PassingSystemRemembers`, from `RememberInv`: a healthy sample lists no crossing that the database
  had forgotten by then (`Remembers`), since a forgotten one is neither committed nor on its way, and every new one is
  dated later (`DatedInv`); what the archive holds of an earlier moment is a part of what it holds of a later one
  (`LogInv`), so a step forgets only by a restore. The report wants each sample to list what the one before did, so a file that
  passes has no sample that forgot.
* `AcceptanceProofs!DenominatorsOnlyGrow`, from `CountInv`: what a decision, an incident or an exclusion names was delivered,
  and a decision is later than the delivery it is about (`Founded`). A fact becomes visible at most `Latency` after its stamp and no
  more duty passes than time (`DutyIsTime`), so with `Sla + Latency < Window` an exclusion is visible before the window of its alert
  closes; and an alert decided on before its exclusion became visible is noted (`OvertakenInv`).
* `AcceptanceProofs!HonestSystemsPass`, from `GrownInv`: a healthy sample is the ledger of some view of what the
  database still holds (`Seen`), of two samples of different moments the later one's view has all of the earlier's
  (`PairInv`), and so has what a collector has read so far, table by table (`ReaderInv`), although facts commit late
  between its reads. Samples are numbered in the order of their moments (`DrawnInv`), so a file that loads lists them in
  that order, and its rows are finitely many (`FiniteInv`).
* `EventCurationProofs!WatchesArrive`, from `Descent`: there is a measure of events that sinks along some link of every
  event that neither is active nor a tombstone. An edit links its events to fresh, active children and an undone one its
  children to active parents, so everything else is put above them (`DescentGoesOn`); an erasure ends a chain
  where it strikes. What is reached from an event is closed under the links after as many
  rounds as there are events, as each round before adds one (`LastStageIsClosed`, by a least counterexample); its lowest event ends.

Every invariant and action property of section 3 is proved, and that the leases implement the fence. Only model-checked: all liveness, which TLAPS does not reach
(nor `ENABLED`), and the types of `ScoringPipeline`, whose bound on versions depends on the instance. What a recursive function
computes for every input is out of reach as a theorem about data, and proved only where a least
counterexample will do. No module declares a `RECURSIVE`
operator.

## 5. What the models show about the code

These are sequences the models reach, or that reading for the models showed. None
is hidden by a property: each is either excluded by a constant or an exception named above, or allowed
by what the property says.

Relay and replay:

* `--batch-size` belongs to a run, not to the checkpoint (`replay_outbox_to_redis.py:455`). A run with a larger
  batch, interrupted within it, then one with a smaller batch, interrupted after a checkpoint, leave
  rows in the Stream that lie beyond the saved position, and verification refuses them. The model has one
  `BatchSize`.
* A replay interrupted between its first XADD and its first checkpoint is refused by every later run
  (`replay_outbox_to_redis.py:371`), while the state `running` keeps everybody else out. The
  README (`README.md:88`) speaks of an interruption between XADD and checkpoint as one a further run
  gets over by sending an id twice, and the tool's header (lines 4-5) of a resumable checkpoint.

Alerts:

* A reservation older than 15 minutes stops counting but may still be confirmed
  (`storage.py:3486`, `:3515`): one delivery above the limit. `README.md:178-179` says that
  budgets are checked atomically in the reserving transaction. `AlertRace` takes `Aging = FALSE`.
* The cooldown is checked in the same way but can be passed: with no earlier delivery of an event,
  its state always counts as upgraded, and an upgrade bypasses the cooldown. Two
  workers on two messages of one event, or one worker after a crash, both alert.
* The row of an alert that is given up says "delivery moved to DLQ" (`alert_worker.py:365`), but
  the rows are aborted before the XADD to the dead letter stream. A worker that dies between the two
  leaves rows the redelivery skips (`:170-172`), so the message is acknowledged without
  a copy. In `AlertDelivery`: `Drop`, `Crash`, then a dispatch that finds nothing to do, then `Ack`.
* With two workers the second may reserve after the first acknowledged, and die: the
  reservation is then nobody's.

Scoring:

* `processor.py:572-575` calls a retry after a lost acknowledgement acknowledgement-only. The
  digest contains `clusterVersion` (`:560`, `:618`), which the first commit of a joining observation raises; the
  retry scores the same input again.
* A late retry with an older bucket can undo a decay; a refresh that after a conflict re-reads
  an event without timeline, as one that became unsupported is, raises `IndexError` (`processor.py:306`). The coverage penalty is applied once per life of a process, so
  restarts and other processes compound it, which the comment at `worker.py:176` does not intend; a
  hard pause is never lifted.
* The comment at `scoring.py:294-296` says a confirmed event cannot collapse because of a single
  quiet evaluation. The downgrade for lost independence takes an established event to detected
  or emerging at once, and one cycle of insufficient data forgets what it was. `Hysteresis` names both.
* A dormant event that is inactive for less than its dormancy hours can become
  accelerating or established on its merits without an anomaly, although a test is named "reactivates
  only on new anomaly". A refresh may turn accelerating into established: the window passes with time.
* Behaviour counts as observed although no feature reaches its minimum sample. The coverage penalty
  lowers the evidence without looking at the state again.

Cluster edits and erasure:

* Merge A and B into C, purge what empties A to a tombstone, then undo the merge: the undo clears
  `superseded_by` and the tombstone is in the active list again, against the comment near
  `storage.py:3837` and `docs/SECURITY_AND_DATA_RIGHTS.md`. Of an event in the active list only links are promised.
* An observation that joined a child of a merge stays with the child when the merge is undone, and
  a merge cannot be undone after a split of its child was.
* After a split whose parent keeps the fingerprint's id, an item clustering does not match conflicts with that
  id on every try (`processor.py:448`).
* A reader that loaded an event before an edit writes its `supersededBy` back into the payload, and
  a scorer under way loses a mark that a behaviour does not apply.
* A save between the steps of a purge leaves an observation without a source row.
* `purge_source` fixes the affected events (`storage.py:3778-3796`) before it deletes the observations of the source
  (`:3822`), by the id of the source and under READ COMMITTED. In between a scorer may assign one of those
  observations to an event it was not in and commit its score. That event then quotes what was erased,
  is in the active list, and none of its members is due; against `docs/SECURITY_AND_DATA_RIGHTS.md:25`, that events
  with members left are scored again. TLC finds it in `EventCuration` as soon as `overtaken` is taken out of
  `ErasureIsRedone`: `ReadAffected`, a merge, `Claim`, `assign_observation`, `Load`,
  `commit_scored_event`, `Complete`, `purge_source`. What follows the reading is one step in the model, its commit: who commits an
  assignment or a score before the deletion reaches the row comes before it, who comes later waits for the rows or finds
  them gone. The procedure `erase_source_score_history` reads the events once more and gives up when they differ, which covers the
  time between the two readings only.

Evidence:

* Objects of a poll that failed are named by no row and so by no deletion: they stay, also when their
  source is deleted, of which `docs/TEST_CASES.md:34` (D-05) says that every revision only it
  had is removed. Keys are never used again, so `EvidenceLifecycle` numbers the polls.
* The message of an erasure is given up after five failed deliveries (`alert_worker.py:349-374`): it is put into the
  dead-letter list and acknowledged with objects still stored. Nothing in the repository reads that list, so
  `docs/SECURITY_AND_DATA_RIGHTS.md:25`, that a partial failure keeps its state to be retried, holds for five
  deliveries. `ErasureIsDoneOrGivenUp` says what is left: the references are kept in the list. If the consumer dies between the list and
  the acknowledgement the message comes again and is listed twice.
* A row saved between the reading of a purge (`storage.py:3776`, `:3797-3819`) and its DELETE by source (`:3822`) goes with the
  source, but the object it names is in no message, and the metric snapshots of a new observation stay behind it.
* A day that straddles the cut-off of metric retention is rolled up twice and the
  second upsert overwrites the first (`storage.py:2526-2550`).

Metrics and acceptance:

* An alert still `reserved` when a sample lists it changes afterwards, which fails an
  honest ledger; so may two samples of one slot. Two overlapping collectors can append
  both, against `docs/PRODUCTION_CONFIGURATION.md:241`.
* A valid exclusion after a sample lowers `workdayStrongAlerts`; a review that calls an alert valid which two had called
  wrong lowers `erroneousStrongAlerts` (`product_metrics.py:420-424`), which the report takes for a loss (`acceptance_monitor.py:1263`). An exclusion stamped before a decision and committed after it removes
  an alert that counted.
* A torn last line blocks the evidence file for good.
* With the continuous archive of `docs/PRODUCTION_CONFIGURATION.md:182` the database can be set back to any moment. A restore to
  a moment after the last crossing a sample listed keeps that crossing and may pass; what `PassedMeansRemembered` says is that
  no crossing a sample listed was ever lost. Of the facts the report compares
  counts (`acceptance_monitor.py:1242-1289`), so a restore that loses facts passes when as many new ones came before the next sample.
* `alert_quality_reviewed` names an alert by its key, and nothing checks that there is one or that it was delivered
  (`storage.py:3706-3753`, `main.py:1017-1028`); a review from before the delivery does not count.
* `runtime_component_heartbeats` has a row per component, not per instance: a second one masks a dead one.

## 6. Not modelled

* Normalisation, fact extraction, embeddings, clustering similarity, parsing of sources, assessment
  texts: network input and pure text functions. `ScoringPipeline` keeps of clustering that two items of a
  topic match, and of a score which revisions went into it.
* Scoring: robust z and growth against a baseline are inputs of `Metrics`; shares are rounded to
  whole percents where the code keeps fractions (a deviation of two points at most); the wording of drivers;
  `sample_reliability`, the gap's z and `reactivated`, which no caller passes.
* Alerts: tombstones of messages deleted while pending, several workspaces, deleted rules.
* Budget: down-sampling by credits, fixed external spend, the states a paused connector shows.
* Stream retention: counts, the report, invalid `outbox_id` fields, retention and capacity arguments.
* Cluster edits: inherited watches, lineage edges, access rights. Erasure: cache tags.
* Evidence: metric and audit retention, probes, the encoding of keys, the upgrade of a candidate to a
  verified item (`storage.py:1650-1715`), the first live poll of the feed.
* Scoring: the retry loop's limit of a hundred rows and its skip of those whose rights policy is not active any more
  (`worker.py:297-301`, `storage.py:1994`). Skipped rows are not updated and stay first in the order, so a hundred of
  them keep all others from being retried; `EveryRevisionIsProcessed` is about observations whose policy is active,
  fewer than the limit.
* Metrics and acceptance: rates and thresholds, verdicts other than valid and the policy's errors, review telemetry, signatures,
  keyring and frozen policy, checks of connectors and pipeline, manual evaluation, redeployments.
* Source discovery (each suggestion one transaction; promotion is behind an advisory lock, open to
  administrators and switched off by policy), evaluation (offline statistics), the in-memory repository (a
  test double), the HTTP API beyond the calls above, governance and authentication (lookups), the
  web application, operations tools, configuration and deployment.

## 7. Plan

Done, in this order: (1) `LeaseFence`, `StreamFence` and their proofs; (2)
`OutboxRelay` and its proofs; (3) `AlertDelivery`; (4) `ScoringPipeline`;
(5) `ConnectorBudget`; (6) `StreamRetention` with its proofs; (7) `EventCuration` and
`EvidenceLifecycle`; (8) `ProductMetrics` and `AcceptanceMonitor`; (9) `Metrics`, `Scoring`
and their proofs; (10) the alert budget and the charges proved; (11) evidence, the
scoring pipeline and the data of the relay proved; (12) cluster edits, erasure, stranded
reservations, the limits of the connector budget and the reviewed boundary of the trim proved;
(13) the acceptance monitor, the denominators of the metrics and the redirects of events proved; (14) the erasure in two steps
and given up, recovery to any moment and quality reviews, with their proofs.

Next, by importance:

1. Models: the retention of metrics, the checks of connectors and pipeline in the acceptance report,
   redeployments, source discovery.
2. An abstract work queue with leases, implemented by `observation_processing` and by the consumer group.

## 8. Running it

```
tlc -config AlertRace.cfg MCAlertDelivery.tla      # any run of section 3
tlc -config StreamFence.cfg StreamFence.tla
tlapm AcceptanceProofs.tla                         # any *Proofs module
```

With two workers the longest runs (`EventCuration`, `EvidenceLifecycle`, `BudgetRace`,
`Acceptance`, `ScoreTwoProcesses`) take two to three minutes, the others less.
