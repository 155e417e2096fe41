-------------------------- MODULE ConnectorBudget --------------------------
(***************************************************************************)
(* The budget of metered connectors: run_connector of radar/worker.py over *)
(* connector_budget_reservations and connector_runs of radar/storage.py,   *)
(* and the operator's resolve_connector_budget_reservation of 001_init.sql.*)
(* A worker runs one metered connector at a time; workers of several       *)
(* scheduler processes share the ledger.  Each repository call is a        *)
(* transaction; those that reserve or reconcile hold the advisory lock of  *)
(* the month.  Every request costs 1, redirects and retries included.  The *)
(* down-sampling of connectors as the budget fills up is left out: it only *)
(* drops runs.                                                             *)
(***************************************************************************)
EXTENDS Integers, FiniteSets, FiniteSetsExt

CONSTANTS
    Worker, Connector,
    Gets,             \* expected_requests_per_collect, of each connector
    MaxAttempts,      \* max_attempts, of each connector
    Hops,             \* how many requests one attempt may make, redirects followed
    FamilyOf,         \* signal family of a connector
    TotalLimit,
    ConnectorLimit,   \* of each connector
    FamilyLimit,      \* of each signal family
    Months,           \* bound: how many months pass
    MaxRuns,          \* bound: how many reservations are made
    MonthEndRace,     \* whether a month may end between a run's start and its reservation
    MaxFaults         \* bound: crashes and failing repository calls

Month == 1..Months
Token == 1..MaxRuns
Family == {FamilyOf[c] : c \in Connector}

\* What one run of a connector may cost.
_maximum_run_cost(c) == Gets[c] * MaxAttempts[c] * Hops

ASSUME BudgetAssumption ==
    /\ Gets \in [Connector -> Nat \ {0}] /\ MaxAttempts \in [Connector -> Nat \ {0}]
    /\ Hops \in Nat \ {0} /\ DOMAIN FamilyOf = Connector
    /\ TotalLimit \in Nat /\ ConnectorLimit \in [Connector -> Nat]
    /\ FamilyLimit \in [Family -> Nat]
    /\ Months \in Nat \ {0} /\ MaxRuns \in Nat /\ MaxFaults \in Nat
    /\ MonthEndRace \in BOOLEAN

VARIABLES
    month,         \* what clocks show
    reservation,   \* connector_budget_reservations by owner token
    runs,          \* connector_runs
    w,             \* each worker: pc and its local variables
    paid,          \* history: requests the provider charges for, by owner token
    faults         \* history: how many faults happened

vars == <<month, reservation, runs, w, paid, faults>>

Idle == [pc |-> "idle"]
NoRow == [status |-> "none"]

\* The statuses that still occupy the budget.
Occupying == {"reserved", "reconciliation_required", "reconciled_charged"}
Active == {"reserved", "reconciliation_required"}

TypeOK ==
    /\ month \in Month
    /\ \A t \in Token : \/ reservation[t] = NoRow
                        \/ reservation[t] \in
                             [status : Occupying \cup {"confirmed", "released"}, month : Month,
                              c : Connector, amount : Nat, actual : Nat, overdue : BOOLEAN]
                           /\ reservation[t].actual <= reservation[t].amount
    /\ \A r \in runs : /\ r.t \in Token /\ r.result \in {"healthy", "failed"}
                       /\ r.month \in Month /\ r.c \in Connector /\ r.cost \in 0.._maximum_run_cost(r.c)
    /\ \A x \in Worker :
          /\ w[x].pc \in {"idle", "begun", "collecting", "collected", "recorded", "failed"}
          /\ w[x].pc # "idle" => w[x].c \in Connector /\ w[x].started \in Month
          /\ w[x].pc \notin {"idle", "begun"} => w[x].t \in Token
    /\ \A t \in Token : paid[t] \in 0..(IF reservation[t] = NoRow THEN 0 ELSE reservation[t].amount)
    /\ faults \in 0..MaxFaults

Init ==
    /\ month = 1
    /\ reservation = [t \in Token |-> NoRow]
    /\ runs = {}
    /\ w = [x \in Worker |-> Idle]
    /\ paid = [t \in Token |-> 0]
    /\ faults = 0

Fault == faults < MaxFaults /\ faults' = faults + 1
At(x, pc) == w[x].pc = pc
Goto(x, pc) == w' = [w EXCEPT ![x].pc = pc]
Of(t, statuses) == reservation[t].status \in statuses
Holds(x, t) == w[x].pc \notin {"idle", "begun"} /\ w[x].t = t

-----------------------------------------------------------------------------
(* What a month has spent: runs that started in it, and reservations made   *)
(* in it that still occupy the budget.                                      *)

RunsCost(m, cs) == MapThenSumSet(LAMBDA r : r.cost, {r \in runs : r.month = m /\ r.c \in cs})

Occupied(t) == IF Of(t, {"reconciled_charged"}) THEN reservation[t].actual
                                                ELSE reservation[t].amount

ReservedFor(m, cs, statuses) ==
    MapThenSumSet(Occupied, {t \in Token : /\ Of(t, statuses) /\ reservation[t].month = m
                                           /\ reservation[t].c \in cs})

\* A reservation whose run never reported is not counted any more.
SpendOfLiving(m, cs) == RunsCost(m, cs) + ReservedFor(m, cs, {"reserved", "reconciled_charged"})

monthly_connector_spend(m, cs) == RunsCost(m, cs) + ReservedFor(m, cs, Occupying)

FamilyMembers(c) == {d \in Connector : FamilyOf[d] = FamilyOf[c]}

\* The three limits, asked before a run and again under the lock.
Fits(c) ==
    /\ monthly_connector_spend(month, Connector) + _maximum_run_cost(c) <= TotalLimit
    /\ monthly_connector_spend(month, {c}) + _maximum_run_cost(c) <= ConnectorLimit[c]
    /\ monthly_connector_spend(month, FamilyMembers(c)) + _maximum_run_cost(c) <= FamilyLimit[FamilyOf[c]]

\* Only the reservations of this month are looked at.
ExpiredOfThisMonth ==
    [t \in Token |-> IF Of(t, {"reserved"}) /\ reservation[t].overdue /\ reservation[t].month = month
                     THEN [reservation[t] EXCEPT !.status = "reconciliation_required"]
                     ELSE reservation[t]]

\* Overdue reservations await reconciliation; none is released.
Expired ==
    [t \in Token |-> IF Of(t, {"reserved"}) /\ reservation[t].overdue
                     THEN [reservation[t] EXCEPT !.status = "reconciliation_required"]
                     ELSE reservation[t]]

-----------------------------------------------------------------------------
(* run_once and run_connector.                                             *)

reconcile_expired(x) ==
    /\ At(x, "idle") /\ Expired # reservation
    /\ reservation' = Expired
    /\ UNCHANGED <<month, runs, w, paid, faults>>

Unused == {t \in Token : reservation[t] = NoRow}
NewToken == CHOOSE t \in Unused : TRUE

\* started = utcnow(), then _budget_skip_reason.
Begin(x, c) ==
    /\ At(x, "idle") /\ Fits(c)
    /\ Cardinality(Unused) > Cardinality({y \in Worker : At(y, "begun")})
    /\ w' = [w EXCEPT ![x] = [pc |-> "begun", c |-> c, started |-> month]]
    /\ UNCHANGED <<month, reservation, runs, paid, faults>>

\* What a run does from its first attempt at its first request on.
Collecting(x, t) ==
    [pc |-> "collecting", c |-> w[x].c, started |-> w[x].started, t |-> t,
     got |-> 0, attempt |-> 1]

\* The limits are not asked again.
ReserveUnasked(x) ==
    /\ At(x, "begun") /\ Unused # {}
    /\ reservation' = [Expired EXCEPT ![NewToken] =
           [status |-> "reserved", month |-> month, c |-> w[x].c,
            amount |-> _maximum_run_cost(w[x].c), actual |-> 0, overdue |-> FALSE]]
    /\ w' = [w EXCEPT ![x] = Collecting(x, NewToken)]
    /\ UNCHANGED <<month, runs, paid, faults>>

\* Refused, the connector is paused; what expired is marked all the same.
reserve_connector_budget(x) ==
    /\ At(x, "begun")
    /\ IF Fits(w[x].c)
       THEN ReserveUnasked(x)
       ELSE /\ reservation' = Expired
            /\ w' = [w EXCEPT ![x] = Idle]
            /\ UNCHANGED <<month, runs, paid, faults>>

\* The requests are over, for better or worse.
Over(x, pc) == [pc |-> pc, c |-> w[x].c, started |-> w[x].started, t |-> w[x].t]

Ready(x) == At(x, "collecting") /\ w[x].attempt = 1

\* An answer: the connector may make its next request.
Answered(x) == [w[x] EXCEPT !.got = @ + 1, !.attempt = 1]

\* An attempt is over without one; the last to be made ends the run.
AttemptFails(x) ==
    IF w[x].attempt < MaxAttempts[w[x].c] THEN [w[x] EXCEPT !.attempt = @ + 1]
                                          ELSE Over(x, "failed")

\* An attempt of BaseConnector.get: a request, one more for every redirect it
\* follows, and an answer, an error, or one redirect too many.
get(x) ==
    /\ At(x, "collecting") /\ w[x].got < Gets[w[x].c]
    /\ \E outcome \in {Answered(x), AttemptFails(x)} : w' = [w EXCEPT ![x] = outcome]
    /\ \E requests \in 1..Hops : paid' = [paid EXCEPT ![w[x].t] = @ + requests]
    /\ UNCHANGED <<month, reservation, runs, faults>>

\* collect, and the processing of what it returned, succeed, or raise at any time.
Collected(x) ==
    /\ Ready(x) /\ w[x].got > 0 /\ w' = [w EXCEPT ![x] = Over(x, "collected")]
    /\ UNCHANGED <<month, reservation, runs, paid, faults>>

CollectFails(x) ==
    /\ Ready(x) /\ w' = [w EXCEPT ![x] = Over(x, "failed")]
    /\ UNCHANGED <<month, reservation, runs, paid, faults>>

\* The row is written whatever became of the reservation.
RecordAnyway(x, result) ==
    LET t == w[x].t
        cost == paid[t]
    IN /\ runs' = runs \cup {[t |-> t, result |-> result, month |-> w[x].started,
                              c |-> w[x].c, cost |-> cost]}
       /\ reservation' = [reservation EXCEPT ![t].status = "confirmed", ![t].actual = cost]

\* Charges the run to the month it started in; raises unless the reservation is
\* active and covers the cost.
record_connector_run(x, result) ==
    LET t == w[x].t IN
    IF Of(t, Active) /\ paid[t] <= reservation[t].amount
    THEN RecordAnyway(x, result)
    ELSE UNCHANGED <<runs, reservation>>

RecordHealthy(x) ==
    /\ At(x, "collected")
    /\ \/ /\ record_connector_run(x, "healthy")
          /\ Goto(x, IF runs' = runs THEN "failed" ELSE "recorded")
          /\ UNCHANGED faults
       \/ Fault /\ Goto(x, "failed") /\ UNCHANGED <<runs, reservation>>
    /\ UNCHANGED <<month, paid>>

\* connector_stats_24h and upsert_connector, after the run was recorded.
UpdateStatus(x) ==
    /\ At(x, "recorded")
    /\ \/ w' = [w EXCEPT ![x] = Idle] /\ UNCHANGED faults
       \/ Fault /\ Goto(x, "failed")
    /\ UNCHANGED <<month, reservation, runs, paid>>

\* The handler records once more; what it raises ends the cycle.
RecordFailed(x) ==
    /\ At(x, "failed")
    /\ \/ record_connector_run(x, "failed") /\ UNCHANGED faults
       \/ Fault /\ UNCHANGED <<runs, reservation>>
    /\ w' = [w EXCEPT ![x] = Idle]
    /\ UNCHANGED <<month, paid>>

Crash(x) ==
    /\ ~At(x, "idle") /\ Fault
    /\ w' = [w EXCEPT ![x] = Idle]
    /\ UNCHANGED <<month, reservation, runs, paid>>

-----------------------------------------------------------------------------
(* Time, and the operator.                                                 *)

\* The hour of a reservation is over, whether or not its run is.
LeaseRunsOut(t) ==
    /\ Of(t, {"reserved"}) /\ ~reservation[t].overdue
    /\ reservation' = [reservation EXCEPT ![t].overdue = TRUE]
    /\ UNCHANGED <<month, runs, w, paid, faults>>

NextMonth ==
    /\ month < Months
    /\ MonthEndRace \/ \A x \in Worker : ~At(x, "begun")
    /\ month' = month + 1
    /\ UNCHANGED <<reservation, runs, w, paid, faults>>

\* The operator asks the provider, after the run came to an end.
resolve_connector_budget_reservation(t) ==
    /\ Of(t, {"reconciliation_required"})
    /\ \A x \in Worker : ~Holds(x, t)
    /\ reservation' = [reservation EXCEPT
           ![t].status = IF paid[t] = 0 THEN "released" ELSE "reconciled_charged",
           ![t].actual = paid[t]]
    /\ UNCHANGED <<month, runs, w, paid, faults>>

-----------------------------------------------------------------------------
Running(x) ==
    \/ reserve_connector_budget(x) \/ get(x) \/ Collected(x) \/ CollectFails(x)
    \/ RecordHealthy(x) \/ UpdateStatus(x) \/ RecordFailed(x)

Next ==
    \/ \E x \in Worker : \/ reconcile_expired(x) \/ Running(x) \/ Crash(x)
                         \/ \E c \in Connector : Begin(x, c)
    \/ \E t \in Token : LeaseRunsOut(t) \/ resolve_connector_budget_reservation(t)
    \/ NextMonth

Spec == Init /\ [][Next]_vars

\* Runs end, somebody's cycles begin with the reconciliation, hours pass.
Fairness ==
    /\ \A x \in Worker : WF_vars(Running(x))
    /\ SF_vars(\E x \in Worker : reconcile_expired(x))
    /\ WF_vars(\E t \in Token : LeaseRunsOut(t))

FairSpec == Spec /\ Fairness

-----------------------------------------------------------------------------
Paid(m, cs) == MapThenSumSet(LAMBDA t : paid[t],
    {t \in Token : ~Of(t, {"none"}) /\ reservation[t].month = m /\ reservation[t].c \in cs})

\* What the provider charges for the runs of a month stays within the total, the
\* connector's and the family's limit, however many workers run, whichever run
\* dies before it reports its cost, and whatever the operator resolves.
WithinLimit ==
    \A m \in Month :
        /\ Paid(m, Connector) <= TotalLimit
        /\ \A c \in Connector : Paid(m, {c}) <= ConnectorLimit[c]
        /\ \A c \in Connector : Paid(m, FamilyMembers(c)) <= FamilyLimit[FamilyOf[c]]

\* A run is charged once, by its own report or by the operator: a report that
\* failed half way, is repeated, or comes after the lease must not add a second.
ChargedOnce ==
    \A t \in Token :
        LET charges == {r \in runs : r.t = t} IN
        /\ Cardinality(charges) <= 1
        /\ charges # {} => Of(t, {"confirmed"})
        /\ Of(t, {"confirmed"}) => \E r \in charges : r.cost = paid[t]

\* A reservation whose run never reports comes before the operator.
NoReservationIsForgotten == \A t \in Token : Of(t, {"reserved"}) ~> ~Of(t, {"reserved"})
=============================================================================
