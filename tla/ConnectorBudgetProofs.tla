----------------------- MODULE ConnectorBudgetProofs -----------------------
(* Proofs about the connector budget, for any number of workers, connectors *)
(* and months, any limits and any number of faults.                         *)
EXTENDS ConnectorBudget, FiniteSetTheorems, TLAPS

(***************************************************************************)
(* What ChargedOnce rests on: a token is in the hands of one worker, whose *)
(* row is active while requests are still made, so that what is recorded   *)
(* is all there will be to pay; and nobody holds a token never reserved.   *)
(***************************************************************************)
Live(x) == w[x].pc \notin {"idle", "begun"}

Types ==
    /\ DOMAIN reservation = Token /\ DOMAIN w = Worker /\ DOMAIN paid = Token
    /\ \A t \in Token : "status" \in DOMAIN reservation[t]
    /\ \A x \in Worker : Live(x) => {"pc", "t"} \subseteq DOMAIN w[x] /\ w[x].t \in Token

OneEach == \A x, y \in Worker : Live(x) /\ Live(y) /\ w[x].t = w[y].t => x = y

OpenWhileCollecting == \A x \in Worker : At(x, "collecting") => Of(w[x].t, Active)

TakenIsReserved == \A x \in Worker : Live(x) => ~Of(w[x].t, {"none"})

OneCharge == \A r, s \in runs : r.t = s.t => r = s

ChargedIsConfirmed == \A r \in runs : r.t \in Token /\ Of(r.t, {"confirmed"}) /\ r.cost = paid[r.t]

ConfirmedIsCharged == \A t \in Token : Of(t, {"confirmed"}) => \E r \in runs : r.t = t

ChargeInv ==
    /\ Types /\ OneEach /\ OpenWhileCollecting /\ TakenIsReserved
    /\ OneCharge /\ ChargedIsConfirmed /\ ConfirmedIsCharged

LEMMA ChargeInit == Init => ChargeInv
BY DEF Init, ChargeInv, Types, Live, OneEach, OpenWhileCollecting, TakenIsReserved, OneCharge,
       ChargedIsConfirmed, ConfirmedIsCharged, Idle, NoRow, At, Of

\* Expired turns reserved into reconciliation_required, and nothing else.
LEMMA ExpiredKeepsKinds ==
  ASSUME DOMAIN reservation = Token, \A t \in Token : "status" \in DOMAIN reservation[t]
  PROVE  /\ DOMAIN Expired = Token /\ \A t \in Token : "status" \in DOMAIN Expired[t]
         /\ \A t \in Token : \A statuses \in {Active, {"none"}, {"confirmed"}} :
              Expired[t].status \in statuses <=> reservation[t].status \in statuses
<1>1. ASSUME NEW t \in Token
      PROVE  \/ Expired[t] = reservation[t]
             \/ reservation[t].status = "reserved"
                /\ Expired[t] = [reservation[t] EXCEPT !.status = "reconciliation_required"]
  BY <1>1 DEF Expired, Of
<1> QED
  BY <1>1 DEF Expired, Active

\* A worker that lets go of its token or goes on without changing any row.
LEMMA LetsGo ==
  ASSUME NEW x \in Worker, NEW v, ChargeInv, w' = [w EXCEPT ![x] = v], UNCHANGED <<runs, paid>>,
         DOMAIN reservation' = Token, \A t \in Token : "status" \in DOMAIN reservation'[t],
         \A t \in Token : \A statuses \in {Active, {"none"}, {"confirmed"}} :
            reservation'[t].status \in statuses <=> reservation[t].status \in statuses,
         \/ v.pc \in {"idle", "begun"}
         \/ Live(x) /\ {"pc", "t"} \subseteq DOMAIN v /\ v.t = w[x].t /\ (v.pc = "collecting" => At(x, "collecting"))
  PROVE  ChargeInv'
<1> USE DEF ChargeInv, Types, Live
<1>1. Types'
  OBVIOUS
<1>2. OneEach'
  BY DEF OneEach
<1>3. OpenWhileCollecting'
  BY DEF OpenWhileCollecting, At, Of
<1>4. TakenIsReserved'
  BY DEF TakenIsReserved, Of
<1>5. OneCharge' /\ ChargedIsConfirmed' /\ ConfirmedIsCharged'
  BY DEF OneCharge, ChargedIsConfirmed, ConfirmedIsCharged, Of
<1> QED
  BY <1>1, <1>2, <1>3, <1>4, <1>5

LEMMA ReserveCharges ==
  ASSUME NEW x \in Worker, ChargeInv, ReserveUnasked(x)
  PROVE  ChargeInv'
<1> USE DEF ChargeInv, Types, Live
<1> DEFINE t == NewToken
           v == Collecting(x, t)
<1>1. t \in Token /\ reservation[t] = NoRow /\ Of(t, {"none"})
  BY DEF ReserveUnasked, NewToken, Unused, Of, NoRow
<1>2. w' = [w EXCEPT ![x] = v] /\ v.pc = "collecting" /\ v.t = t /\ {"pc", "t"} \subseteq DOMAIN v
      /\ UNCHANGED <<runs, paid>>
  BY DEF ReserveUnasked, Collecting
<1>3. /\ DOMAIN reservation' = Token /\ \A u \in Token : "status" \in DOMAIN reservation'[u]
      /\ reservation'[t].status = "reserved"
      /\ \A u \in Token \ {t} : reservation'[u] = Expired[u]
  BY <1>1, ExpiredKeepsKinds DEF ReserveUnasked
<1>4. \A u \in Token \ {t} : \A statuses \in {Active, {"none"}, {"confirmed"}} :
        reservation'[u].status \in statuses <=> reservation[u].status \in statuses
  BY <1>3, ExpiredKeepsKinds
<1>5. \A y \in Worker : Live(y) => w[y].t # t
  BY <1>1 DEF TakenIsReserved
<1> HIDE DEF t, v
<1>6. Types'
  BY <1>1, <1>2, <1>3
<1>7. OneEach'
  BY <1>2, <1>5 DEF OneEach
<1>8. OpenWhileCollecting'
  BY <1>2, <1>3, <1>4, <1>5 DEF OpenWhileCollecting, At, Of, Active
<1>9. TakenIsReserved'
  BY <1>2, <1>3, <1>4, <1>5 DEF TakenIsReserved, Of
<1>10. ~Of(t, {"confirmed"})
  BY <1>1 DEF Of
<1>11. OneCharge' /\ ChargedIsConfirmed' /\ ConfirmedIsCharged'
  BY <1>2, <1>3, <1>4, <1>10 DEF OneCharge, ChargedIsConfirmed, ConfirmedIsCharged, Of
<1> QED
  BY <1>6, <1>7, <1>8, <1>9, <1>11

\* Only the worker that collects pays, and its reservation is still open.
LEMMA GetCharges ==
  ASSUME NEW x \in Worker, ChargeInv, get(x)
  PROVE  ChargeInv'
<1> USE DEF ChargeInv, Types, Live
<1> DEFINE OK(v) == v.pc \in {"collecting", "failed"} /\ v.t = w[x].t /\ {"pc", "t"} \subseteq DOMAIN v
<1>0. OK(Answered(x)) /\ OK(AttemptFails(x))
  <2>1. At(x, "collecting") /\ Live(x)
    BY DEF get, At
  <2>2. OK(Over(x, "failed")) /\ OK(Answered(x))
    BY <2>1 DEF Over, Answered, At
  <2>3. OK([w[x] EXCEPT !.attempt = @ + 1])
    BY <2>1 DEF At
  <2> QED
    BY <2>2, <2>3 DEF AttemptFails
<1>1. PICK v : w' = [w EXCEPT ![x] = v] /\ OK(v)
  <2>1. PICK v \in {Answered(x), AttemptFails(x)} : w' = [w EXCEPT ![x] = v]
    BY Zenon DEF get
  <2> QED
    BY <1>0, <2>1
<1>2. At(x, "collecting") /\ Live(x) /\ UNCHANGED <<reservation, runs>>
      /\ \E n : paid' = [paid EXCEPT ![w[x].t] = n]
  BY DEF get, At
<1>3. ~Of(w[x].t, {"confirmed"})
  BY <1>2 DEF OpenWhileCollecting, Of, Active
<1>4. Types' /\ OneEach' /\ TakenIsReserved' /\ OpenWhileCollecting'
  BY <1>1, <1>2 DEF OneEach, TakenIsReserved, OpenWhileCollecting, At, Of
<1>5. OneCharge' /\ ConfirmedIsCharged'
  BY <1>2 DEF OneCharge, ConfirmedIsCharged, Of
<1>6. ChargedIsConfirmed'
  BY <1>2, <1>3 DEF ChargedIsConfirmed, Of
<1> QED
  BY <1>4, <1>5, <1>6

\* A report, of a run that is over, into a row that is still active.
LEMMA RecordCharges ==
  ASSUME NEW x \in Worker, NEW v, NEW result, ChargeInv, At(x, "collected") \/ At(x, "failed"),
         RecordAnyway(x, result), Of(w[x].t, Active), w' = [w EXCEPT ![x] = v], UNCHANGED paid,
         v.pc \in {"idle", "recorded", "failed"},
         v.pc # "idle" => v.t = w[x].t /\ {"pc", "t"} \subseteq DOMAIN v
  PROVE  ChargeInv'
<1> USE DEF ChargeInv, Types, Live
<1> DEFINE t == w[x].t
           c == [t |-> t, result |-> result, month |-> w[x].started, c |-> w[x].c, cost |-> paid[t]]
<1>1. t \in Token /\ Live(x) /\ ~Of(t, {"none"}) /\ ~Of(t, {"confirmed"})
  BY DEF At, Of, Active
<1>2. /\ runs' = runs \cup {c} /\ c.t = t /\ c.cost = paid[t]
      /\ DOMAIN reservation' = Token /\ reservation'[t].status = "confirmed"
      /\ "status" \in DOMAIN reservation'[t]
      /\ \A u \in Token \ {t} : reservation'[u] = reservation[u]
  BY <1>1 DEF RecordAnyway
<1>3. \A y \in Worker \ {x} : Live(y) => w[y].t # t
  BY <1>1 DEF OneEach
<1>4. \A r \in runs : r.t # t
  BY <1>1 DEF ChargedIsConfirmed
<1> HIDE DEF t, c
<1>5. Types'
  BY <1>1, <1>2 DEF t
<1>6. OneEach'
  BY <1>1 DEF OneEach, t
<1>7. OpenWhileCollecting'
  BY <1>2, <1>3 DEF OpenWhileCollecting, At, Of
<1>8. TakenIsReserved'
  BY <1>1, <1>2, <1>3 DEF TakenIsReserved, Of, t
<1>9. OneCharge'
  BY <1>2, <1>4 DEF OneCharge
<1>10. ChargedIsConfirmed'
  BY <1>1, <1>2, <1>4 DEF ChargedIsConfirmed, Of
<1>11. ConfirmedIsCharged'
  BY <1>2 DEF ConfirmedIsCharged, Of
<1> QED
  BY <1>5, <1>6, <1>7, <1>8, <1>9, <1>10, <1>11

LEMMA RunningCharges ==
  ASSUME NEW x \in Worker, ChargeInv, Running(x)
  PROVE  ChargeInv'
<1> USE DEF ChargeInv, Types, Live
<1>e. \A t \in Token : \A statuses \in {Active, {"none"}, {"confirmed"}} :
        reservation[t].status \in statuses <=> reservation[t].status \in statuses
  OBVIOUS
<1>1. CASE reserve_connector_budget(x)
  <2>1. CASE ReserveUnasked(x)
    BY <2>1, ReserveCharges
  <2>2. CASE ~ReserveUnasked(x)
    <3>1. reservation' = Expired /\ w' = [w EXCEPT ![x] = Idle] /\ UNCHANGED <<runs, paid>>
      BY <1>1, <2>2 DEF reserve_connector_budget
    <3> QED
      BY <3>1, ExpiredKeepsKinds, LetsGo DEF Idle
  <2> QED
    BY <2>1, <2>2
<1>2. CASE get(x)
  BY <1>2, GetCharges
<1>3. CASE Collected(x) \/ CollectFails(x)
  <2>1. PICK pc \in {"collected", "failed"} : w' = [w EXCEPT ![x] = Over(x, pc)]
    BY <1>3 DEF Collected, CollectFails
  <2>2. Over(x, pc).pc = pc /\ Over(x, pc).t = w[x].t /\ {"pc", "t"} \subseteq DOMAIN Over(x, pc)
    BY DEF Over
  <2>3. Live(x) /\ UNCHANGED <<reservation, runs, paid>>
    BY <1>3 DEF Collected, CollectFails, Ready, At
  <2> QED
    BY <2>1, <2>2, <2>3, LetsGo
<1>4. CASE RecordHealthy(x)
  <2>1. At(x, "collected") /\ Live(x) /\ UNCHANGED paid
    BY <1>4 DEF RecordHealthy, At
  <2>2. PICK pc \in {"recorded", "failed"} : w' = [w EXCEPT ![x] = [w[x] EXCEPT !.pc = pc]]
    BY <1>4 DEF RecordHealthy, Goto
  <2> DEFINE v == [w[x] EXCEPT !.pc = pc]
  <2>3. v.pc = pc /\ v.t = w[x].t /\ {"pc", "t"} \subseteq DOMAIN v
    BY <2>1
  <2> HIDE DEF v
  <2>4. CASE UNCHANGED <<runs, reservation>>
    BY <2>1, <2>2, <2>3, <2>4, LetsGo DEF v
  <2>5. CASE RecordAnyway(x, "healthy") /\ Of(w[x].t, Active)
    BY <2>1, <2>2, <2>3, <2>5, RecordCharges DEF v
  <2> QED
    BY <1>4, <2>4, <2>5 DEF RecordHealthy, record_connector_run
<1>5. CASE UpdateStatus(x)
  <2>1. Live(x) /\ UNCHANGED <<reservation, runs, paid>>
    BY <1>5 DEF UpdateStatus, At
  <2> DEFINE v == [w[x] EXCEPT !.pc = "failed"]
  <2>2. v.pc = "failed" /\ v.t = w[x].t /\ {"pc", "t"} \subseteq DOMAIN v
    BY <2>1
  <2> HIDE DEF v
  <2>3. w' = [w EXCEPT ![x] = v] \/ w' = [w EXCEPT ![x] = Idle]
    BY <1>5 DEF UpdateStatus, Goto, v
  <2> QED
    BY <2>1, <2>2, <2>3, LetsGo DEF Idle
<1>6. CASE RecordFailed(x)
  <2>1. At(x, "failed") /\ UNCHANGED paid /\ w' = [w EXCEPT ![x] = Idle]
    BY <1>6 DEF RecordFailed
  <2>2. CASE UNCHANGED <<runs, reservation>>
    BY <2>1, <2>2, LetsGo DEF Idle
  <2>3. CASE RecordAnyway(x, "failed") /\ Of(w[x].t, Active)
    BY <2>1, <2>3, RecordCharges DEF Idle
  <2> QED
    BY <1>6, <2>2, <2>3 DEF RecordFailed, record_connector_run
<1> QED
  BY <1>1, <1>2, <1>3, <1>4, <1>5, <1>6 DEF Running

\* Steps that change rows, and nothing of what a worker does.
LEMMA RowsCharge ==
  ASSUME ChargeInv, UNCHANGED <<w, runs, paid>>, DOMAIN reservation' = Token,
         \A t \in Token : "status" \in DOMAIN reservation'[t],
         \A t \in Token : Of(t, {"confirmed"})' <=> Of(t, {"confirmed"}),
         \A x \in Worker : Live(x) => (Of(w[x].t, Active) => Of(w[x].t, Active)')
                                     /\ (~Of(w[x].t, {"none"}) => ~Of(w[x].t, {"none"})')
  PROVE  ChargeInv'
BY DEF ChargeInv, Types, Live, OneEach, OpenWhileCollecting, TakenIsReserved, OneCharge,
       ChargedIsConfirmed, ConfirmedIsCharged, At

LEMMA StepCharges ==
  ASSUME ChargeInv, [Next]_vars
  PROVE  ChargeInv'
<1> USE DEF ChargeInv, Types, Live
<1>1. ASSUME NEW x \in Worker, reconcile_expired(x) PROVE ChargeInv'
  <2>1. reservation' = Expired /\ UNCHANGED <<w, runs, paid>>
    BY <1>1 DEF reconcile_expired
  <2> QED
    BY <2>1, ExpiredKeepsKinds, RowsCharge DEF Of
<1>2. ASSUME NEW x \in Worker, Crash(x) \/ \E c \in Connector : Begin(x, c) PROVE ChargeInv'
  <2>1. UNCHANGED <<reservation, runs, paid>>
    BY <1>2 DEF Crash, Begin
  <2>2. CASE Crash(x)
    <3>1. w' = [w EXCEPT ![x] = Idle]
      BY <2>2 DEF Crash
    <3> QED
      BY <2>1, <3>1, LetsGo DEF Idle
  <2>3. ASSUME NEW c \in Connector, Begin(x, c) PROVE ChargeInv'
    <3> DEFINE v == [pc |-> "begun", c |-> c, started |-> month]
    <3>1. w' = [w EXCEPT ![x] = v]
      BY <2>3 DEF Begin
    <3>2. v.pc = "begun" /\ "pc" \in DOMAIN v
      OBVIOUS
    <3> HIDE DEF v
    <3> QED
      BY <2>1, <3>1, <3>2, LetsGo
  <2> QED
    BY <1>2, <2>2, <2>3
<1>3. ASSUME NEW t \in Token, LeaseRunsOut(t) PROVE ChargeInv'
  <2>1. /\ reservation' = [reservation EXCEPT ![t] = [@ EXCEPT !.overdue = TRUE]]
        /\ UNCHANGED <<w, runs, paid>>
    BY <1>3 DEF LeaseRunsOut
  <2> QED
    BY <2>1, RowsCharge DEF Of
<1>4. ASSUME NEW t \in Token, resolve_connector_budget_reservation(t) PROVE ChargeInv'
  <2>1. /\ DOMAIN reservation' = Token /\ "status" \in DOMAIN reservation'[t]
        /\ reservation'[t].status \in {"released", "reconciled_charged"}
        /\ \A u \in Token \ {t} : reservation'[u] = reservation[u]
        /\ reservation[t].status = "reconciliation_required"
        /\ UNCHANGED <<w, runs, paid>>
    BY <1>4 DEF resolve_connector_budget_reservation, Of
  <2>2. \A x \in Worker : Live(x) => w[x].t # t
    BY <1>4 DEF resolve_connector_budget_reservation, Holds
  <2>3. \A u \in Token : "status" \in DOMAIN reservation'[u]
    BY <2>1
  <2>4. \A u \in Token : Of(u, {"confirmed"})' <=> Of(u, {"confirmed"})
    BY <2>1 DEF Of
  <2> QED
    BY <2>1, <2>2, <2>3, <2>4, RowsCharge DEF Of
<1>5. CASE NextMonth \/ UNCHANGED vars
  BY <1>5, RowsCharge DEF NextMonth, vars, Of
<1> QED
  BY <1>1, <1>2, <1>3, <1>4, <1>5, RunningCharges DEF Next

(***************************************************************************)
(* A run is charged once and for what it cost, however its report fails,   *)
(* is repeated or comes late, and whatever the operator resolves.          *)
(***************************************************************************)
THEOREM EachRunIsChargedOnce == Spec => []ChargedOnce
<1>1. ASSUME ChargeInv PROVE ChargedOnce
  <2> SUFFICES ASSUME NEW t \in Token
               PROVE  LET charges == {r \in runs : r.t = t}
                      IN  /\ Cardinality(charges) <= 1
                          /\ charges # {} => Of(t, {"confirmed"})
                          /\ Of(t, {"confirmed"}) => \E r \in charges : r.cost = paid[t]
    BY DEF ChargedOnce
  <2> DEFINE charges == {r \in runs : r.t = t}
  <2>1. Cardinality(charges) <= 1
    <3>1. \A r \in charges : charges = {r}
      BY <1>1 DEF ChargeInv, OneCharge
    <3>2. Cardinality({}) = 0 /\ \A r : Cardinality({r}) = 1
      BY FS_EmptySet, FS_Singleton
    <3> HIDE DEF charges
    <3>3. charges = {} \/ \E r \in charges : charges = {r}
      BY <3>1
    <3>4. Cardinality(charges) = 0 \/ Cardinality(charges) = 1
      BY <3>2, <3>3, Zenon
    <3> QED
      BY <3>4
  <2> QED
    BY <1>1, <2>1 DEF ChargeInv, ChargedIsConfirmed, ConfirmedIsCharged
<1> QED
  BY <1>1, ChargeInit, StepCharges, PTL DEF Spec

-----------------------------------------------------------------------------
(***************************************************************************)
(* A sum of natural numbers is how many dots it takes to draw them, so     *)
(* what is known of finite sets is known of sums.  MapThenSumSet takes the *)
(* elements out one by one; that this ends and counts the dots follows     *)
(* from the least set for which it would not.                              *)
(***************************************************************************)
Dots(n, S) == {p \in S \X Nat : p[2] < n[p[1]]}

LEMMA LeastSet ==
  ASSUME NEW S, IsFiniteSet(S), NEW X \in SUBSET SUBSET S, X # {}
  PROVE  \E T \in X : \A U \in X : U \subseteq T => U = T
<1>1. X \subseteq FiniteSubsetsOf(S)
  BY FS_FiniteSubsetsOfFinite, Zenon
<1>2. PICK T \in X : \A U \in X : <<U, T>> \notin StrictSubsetOrdering(S)
  BY <1>1, WFMin, FS_StrictSubsetOrderingWellFounded
<1>3. ASSUME NEW U \in X, U \subseteq T PROVE U = T
  <2>1. <<U, T>> \notin StrictSubsetOrdering(S)
    BY <1>2
  <2>2. U \in SUBSET S /\ T \in SUBSET S
    OBVIOUS
  <2> QED
    BY <1>3, <2>1, <2>2 DEF StrictSubsetOrdering
<1> QED
  BY <1>3

LEMMA DotsOfOne ==
  ASSUME NEW x, NEW n, n[x] \in Nat
  PROVE  IsFiniteSet(Dots(n, {x})) /\ Cardinality(Dots(n, {x})) = n[x]
<1> DEFINE f == [i \in 1..n[x] |-> <<x, i - 1>>]
<1>1. Dots(n, {x}) = {<<x, i>> : i \in 0..(n[x] - 1)}
  <2>1. ASSUME NEW p \in Dots(n, {x}) PROVE p \in {<<x, i>> : i \in 0..(n[x] - 1)}
    <3>1. p = <<x, p[2]>> /\ p[2] \in Nat /\ p[2] < n[x]
      BY DEF Dots
    <3> QED
      BY <3>1
  <2>2. ASSUME NEW i \in 0..(n[x] - 1) PROVE <<x, i>> \in Dots(n, {x})
    BY DEF Dots
  <2> QED
    BY <2>1, <2>2
<1>2. f \in Bijection(1..n[x], Dots(n, {x}))
  <2>1. f \in [1..n[x] -> Dots(n, {x})]
    BY <1>1
  <2>2. IsInjective(f)
    BY DEF IsInjective
  <2>3. ASSUME NEW p \in Dots(n, {x}) PROVE \E i \in 1..n[x] : f[i] = p
    <3>1. PICK i \in 0..(n[x] - 1) : p = <<x, i>>
      BY <1>1
    <3>2. i + 1 \in 1..n[x] /\ f[i + 1] = p
      BY <3>1
    <3> QED
      BY <3>2
  <2> HIDE DEF f
  <2> QED
    BY <2>1, <2>2, <2>3 DEF Bijection, Injection, Surjection
<1>3. ExistsBijection(1..n[x], Dots(n, {x}))
  BY <1>2 DEF ExistsBijection
<1> HIDE DEF f
<1> QED
  BY <1>3, FS_CountingElements, FS_NatBijection

LEMMA DotsTakeOut ==
  ASSUME NEW n, NEW S, NEW x \in S, n[x] \in Nat, IsFiniteSet(Dots(n, S \ {x}))
  PROVE  IsFiniteSet(Dots(n, S)) /\ Cardinality(Dots(n, S)) = n[x] + Cardinality(Dots(n, S \ {x}))
<1> DEFINE A == Dots(n, {x})
           B == Dots(n, S \ {x})
<1>1. Dots(n, S) = A \cup B
  BY DEF Dots
<1>2. A \cap B = {}
  BY DEF Dots
<1>3. IsFiniteSet(A) /\ Cardinality(A) = n[x]
  BY DotsOfOne
<1> HIDE DEF A, B
<1>4. IsFiniteSet(A \cup B) /\ Cardinality(A \cup B) = Cardinality(A) + Cardinality(B) - Cardinality(A \cap B)
  BY <1>3, FS_Union DEF B
<1>5. Cardinality(A \cap B) = 0 /\ Cardinality(B) \in Nat
  BY <1>2, FS_EmptySet, FS_CardinalityType DEF B
<1> QED
  BY <1>1, <1>3, <1>4, <1>5 DEF B

LEMMA DotsAreFinite ==
  ASSUME NEW S, IsFiniteSet(S), NEW n, \A x \in S : n[x] \in Nat
  PROVE  IsFiniteSet(Dots(n, S)) /\ Cardinality(Dots(n, S)) \in Nat
<1> DEFINE X == {T \in SUBSET S : ~IsFiniteSet(Dots(n, T))}
<1>1. ASSUME X # {} PROVE FALSE
  <2>1. PICK T \in X : \A U \in X : U \subseteq T => U = T
    <3> HIDE DEF X
    <3>1. X \in SUBSET SUBSET S
      BY DEF X
    <3> QED
      BY <1>1, <3>1, LeastSet
  <2>2. T # {}
    <3>1. ASSUME T = {} PROVE FALSE
      <4>1. Dots(n, T) = {}
        BY <3>1 DEF Dots
      <4> QED
        BY <4>1, FS_EmptySet
    <3> QED
      BY <3>1
  <2>3. PICK x \in T : TRUE
    BY <2>2
  <2>4. IsFiniteSet(Dots(n, T \ {x}))
    BY <2>1
  <2>5. n[x] \in Nat
    OBVIOUS
  <2> QED
    BY <2>4, <2>5, DotsTakeOut
<1> QED
  BY <1>1, FS_CardinalityType

\* How MapThenSumSet computes the sum of n over a set: s by s.
First(s) == CHOOSE x \in s : TRUE
SumsUp(g, n, S) == g = [s \in SUBSET S |-> IF s = {} THEN 0 ELSE n[First(s)] + g[s \ {First(s)}]]

LEMMA SumsCountDots ==
  ASSUME NEW S, IsFiniteSet(S), NEW n, \A x \in S : n[x] \in Nat
  PROVE  /\ \E g : SumsUp(g, n, S)
         /\ \A g : SumsUp(g, n, S) => g[S] = Cardinality(Dots(n, S))
<1>1. ASSUME NEW s \in SUBSET S, s # {}
      PROVE  /\ First(s) \in s /\ s \ {First(s)} \in SUBSET S /\ s \ {First(s)} # s
             /\ Cardinality(Dots(n, s)) = n[First(s)] + Cardinality(Dots(n, s \ {First(s)}))
  <2>1. First(s) \in s
    BY <1>1 DEF First
  <2>2. IsFiniteSet(s \ {First(s)}) /\ \A x \in s \ {First(s)} : n[x] \in Nat
    BY FS_Subset
  <2>3. n[First(s)] \in Nat
    BY <2>1
  <2> QED
    BY <2>1, <2>2, <2>3, DotsAreFinite, DotsTakeOut
<1>2. ASSUME NEW s \in SUBSET S, s = {} PROVE Cardinality(Dots(n, s)) = 0
  <2>1. Dots(n, s) = {}
    BY <1>2 DEF Dots
  <2> QED
    BY <2>1, FS_EmptySet
<1>3. \E g : SumsUp(g, n, S)
  <2> DEFINE h == [s \in SUBSET S |-> Cardinality(Dots(n, s))]
             k == [s \in SUBSET S |-> IF s = {} THEN 0 ELSE n[First(s)] + h[s \ {First(s)}]]
  <2>1. ASSUME NEW s \in SUBSET S PROVE h[s] = k[s]
    <3>1. CASE s = {}
      BY <1>2, <3>1
    <3>2. CASE s # {}
      <4>1. h[s \ {First(s)}] = Cardinality(Dots(n, s \ {First(s)}))
        BY <1>1, <3>2
      <4> QED
        BY <1>1, <3>2, <4>1
    <3> QED
      BY <3>1, <3>2
  <2>2. h = k
    BY <2>1
  <2>3. SumsUp(h, n, S)
    BY <2>2 DEF SumsUp
  <2> QED
    BY <2>3
<1>4. ASSUME NEW g, SumsUp(g, n, S) PROVE g[S] = Cardinality(Dots(n, S))
  <2> DEFINE X == {s \in SUBSET S : g[s] # Cardinality(Dots(n, s))}
  <2>1. ASSUME NEW s \in SUBSET S
        PROVE  g[s] = IF s = {} THEN 0 ELSE n[First(s)] + g[s \ {First(s)}]
    BY <1>4 DEF SumsUp
  <2>2. ASSUME X # {} PROVE FALSE
    <3>1. PICK T \in X : \A U \in X : U \subseteq T => U = T
      <4> HIDE DEF X
      <4>1. X \in SUBSET SUBSET S
        BY DEF X
      <4> QED
        BY <2>2, <4>1, LeastSet
    <3>2. T # {}
      BY <1>2, <2>1
    <3>3. g[T \ {First(T)}] = Cardinality(Dots(n, T \ {First(T)}))
      BY <1>1, <3>1, <3>2
    <3> QED
      BY <1>1, <2>1, <3>2, <3>3
  <2> QED
    BY <2>2
<1> QED
  BY <1>3, <1>4

LEMMA CostOfRuns ==
  ASSUME NEW S, IsFiniteSet(S), \A r \in S : r.cost \in Nat
  PROVE  MapThenSumSet(LAMBDA r : r.cost, S) = Cardinality(Dots([r \in S |-> r.cost], S))
<1> DEFINE n == [r \in S |-> r.cost]
           Rec(g) == g = [s \in SUBSET S |-> IF s = {} THEN 0 ELSE
                             (CHOOSE x \in s : TRUE).cost + g[s \ {CHOOSE x \in s : TRUE}]]
<1>1. MapThenSumSet(LAMBDA r : r.cost, S) = (CHOOSE g : Rec(g))[S]
  BY DEF MapThenSumSet, MapThenFoldSet
<1>2. ASSUME NEW g PROVE Rec(g) <=> SumsUp(g, n, S)
  <2>1. ASSUME NEW s \in SUBSET S, s # {} PROVE n[First(s)] = First(s).cost
    BY <2>1 DEF First
  <2>2. [s \in SUBSET S |-> IF s = {} THEN 0 ELSE First(s).cost + g[s \ {First(s)}]]
          = [s \in SUBSET S |-> IF s = {} THEN 0 ELSE n[First(s)] + g[s \ {First(s)}]]
    <3> HIDE DEF n
    <3> QED
      BY <2>1
  <2> QED
    BY <2>2 DEF SumsUp, First
<1>3. \A x \in S : n[x] \in Nat
  OBVIOUS
<1> HIDE DEF n, Rec
<1>4. Rec(CHOOSE g : Rec(g))
  BY <1>2, <1>3, SumsCountDots
<1> QED
  BY <1>1, <1>2, <1>3, <1>4, SumsCountDots DEF n

LEMMA CostOfReservations ==
  ASSUME NEW S \in SUBSET Token, \A t \in S : Occupied(t) \in Nat, IsFiniteSet(S)
  PROVE  MapThenSumSet(Occupied, S) = Cardinality(Dots([t \in S |-> Occupied(t)], S))
<1> DEFINE n == [t \in S |-> Occupied(t)]
           Rec(g) == g = [s \in SUBSET S |-> IF s = {} THEN 0 ELSE
                             Occupied(CHOOSE x \in s : TRUE) + g[s \ {CHOOSE x \in s : TRUE}]]
<1>1. MapThenSumSet(Occupied, S) = (CHOOSE g : Rec(g))[S]
  BY DEF MapThenSumSet, MapThenFoldSet
<1>2. ASSUME NEW g PROVE Rec(g) <=> SumsUp(g, n, S)
  <2>1. ASSUME NEW s \in SUBSET S, s # {} PROVE n[First(s)] = Occupied(First(s))
    BY <2>1 DEF First
  <2>2. [s \in SUBSET S |-> IF s = {} THEN 0 ELSE Occupied(First(s)) + g[s \ {First(s)}]]
          = [s \in SUBSET S |-> IF s = {} THEN 0 ELSE n[First(s)] + g[s \ {First(s)}]]
    <3> HIDE DEF n
    <3> QED
      BY <2>1
  <2> QED
    BY <2>2 DEF SumsUp, First
<1>3. \A t \in S : n[t] \in Nat
  OBVIOUS
<1> HIDE DEF n, Rec
<1>4. Rec(CHOOSE g : Rec(g))
  BY <1>2, <1>3, SumsCountDots
<1> QED
  BY <1>1, <1>2, <1>3, <1>4, SumsCountDots DEF n

LEMMA CostOfRequests ==
  ASSUME NEW S, IsFiniteSet(S), \A t \in S : paid[t] \in Nat
  PROVE  MapThenSumSet(LAMBDA t : paid[t], S) = Cardinality(Dots(paid, S))
<1> DEFINE Rec(g) == g = [s \in SUBSET S |-> IF s = {} THEN 0 ELSE
                             paid[CHOOSE x \in s : TRUE] + g[s \ {CHOOSE x \in s : TRUE}]]
<1>1. MapThenSumSet(LAMBDA t : paid[t], S) = (CHOOSE g : Rec(g))[S]
  BY DEF MapThenSumSet, MapThenFoldSet
<1>2. ASSUME NEW g PROVE Rec(g) <=> SumsUp(g, paid, S)
  BY DEF SumsUp, First
<1> HIDE DEF Rec
<1>3. Rec(CHOOSE g : Rec(g))
  BY <1>2, SumsCountDots
<1> QED
  BY <1>1, <1>2, <1>3, SumsCountDots

-----------------------------------------------------------------------------
(***************************************************************************)
(* What rows, workers and runs agree on, whether or not a month may end in *)
(* between: a row reserves what its connector may cost, and its run cannot *)
(* pay more, however its attempts and redirects go.                        *)
(***************************************************************************)
Row == [status : Occupying \cup {"confirmed", "released"}, month : Month,
        c : Connector, amount : Nat, actual : Nat, overdue : BOOLEAN]

WorkerState ==
    {Idle} \cup [pc : {"begun"}, c : Connector, started : Month]
           \cup [pc : {"collecting"}, c : Connector, started : Month, t : Token, got : Nat, attempt : Nat]
           \cup [pc : {"collected", "recorded", "failed"}, c : Connector, started : Month, t : Token]

RunRecord == [t : Token, result : {"healthy", "failed"}, month : Month, c : Connector, cost : Nat]

RowTypes ==
    /\ month \in Month /\ faults \in 0..MaxFaults
    /\ reservation \in [Token -> {NoRow} \cup Row]
    /\ paid \in [Token -> Nat]
    /\ w \in [Worker -> WorkerState]
    /\ runs \subseteq RunRecord /\ IsFiniteSet(runs)

RowFits(t) ==
    /\ reservation[t] = NoRow => paid[t] = 0
    /\ reservation[t] # NoRow =>
          /\ reservation[t].amount = _maximum_run_cost(reservation[t].c)
          /\ reservation[t].actual <= reservation[t].amount
          /\ paid[t] <= reservation[t].amount
    /\ Of(t, {"confirmed", "reconciled_charged"}) => reservation[t].actual = paid[t]
    /\ Of(t, {"released"}) => paid[t] = 0

WorkerFits(x) ==
    /\ Live(x) => reservation[w[x].t] # NoRow /\ reservation[w[x].t].c = w[x].c
    /\ At(x, "collecting") =>
          /\ w[x].got <= Gets[w[x].c] /\ w[x].attempt \in 1..MaxAttempts[w[x].c]
          /\ paid[w[x].t] <= (w[x].got * MaxAttempts[w[x].c] + w[x].attempt - 1) * Hops

RowsInv ==
    /\ RowTypes
    /\ \A t \in Token : RowFits(t)
    /\ \A x \in Worker : WorkerFits(x)
    /\ \A r \in runs : r.c = reservation[r.t].c

(***************************************************************************)
(* Without a month ending between a run's start and its reservation, both  *)
(* fall into one month, and so does the charge.                            *)
(***************************************************************************)
OnTime ==
    /\ \A x \in Worker : At(x, "begun") => w[x].started = month
    /\ \A x \in Worker : Live(x) => reservation[w[x].t].month = w[x].started
    /\ \A r \in runs : r.month = reservation[r.t].month

\* What a token takes of the budget: all its run may cost until its cost is known.
Charge == [t \in Token |-> IF Of(t, Active) THEN reservation[t].amount
                           ELSE IF Of(t, {"confirmed", "reconciled_charged"}) THEN reservation[t].actual
                           ELSE 0]

TokensOf(m, cs) == {t \in Token : ~Of(t, {"none"}) /\ reservation[t].month = m /\ reservation[t].c \in cs}
Claimed(m, cs) == Dots(Charge, TokensOf(m, cs))

\* The sets of connectors that share a limit.
Limits(cs, limit) ==
    \/ cs = Connector /\ limit = TotalLimit
    \/ \E c \in Connector : cs = {c} /\ limit = ConnectorLimit[c]
    \/ \E c \in Connector : cs = FamilyMembers(c) /\ limit = FamilyLimit[FamilyOf[c]]

ClaimsFit ==
    \A m \in Month : \A cs, limit : Limits(cs, limit) => Cardinality(Claimed(m, cs)) <= limit

LimitInv == ChargeInv /\ RowsInv /\ OnTime /\ ClaimsFit

LEMMA RowFacts ==
  ASSUME RowTypes
  PROVE  /\ \A t \in Token : reservation[t] = NoRow \/ reservation[t] \in Row
         /\ \A t \in Token : reservation[t] = NoRow <=> Of(t, {"none"})
         /\ \A x \in Worker : Live(x) => w[x].t \in Token /\ w[x].c \in Connector /\ w[x].started \in Month
         /\ \A x \in Worker : At(x, "begun") => w[x] = [pc |-> "begun", c |-> w[x].c, started |-> w[x].started]
                                              /\ w[x].c \in Connector /\ w[x].started \in Month
         /\ \A x \in Worker : At(x, "collecting") => w[x] \in
              [pc : {"collecting"}, c : Connector, started : Month, t : Token, got : Nat, attempt : Nat]
         /\ \A x \in Worker : Live(x) /\ ~At(x, "collecting") => w[x] \in
              [pc : {"collected", "recorded", "failed"}, c : Connector, started : Month, t : Token]
<1>1. ASSUME NEW t \in Token
      PROVE  (reservation[t] = NoRow \/ reservation[t] \in Row) /\ (reservation[t] = NoRow <=> Of(t, {"none"}))
  BY DEF RowTypes, Row, NoRow, Of, Occupying
<1>2. ASSUME NEW x \in Worker
      PROVE  /\ Live(x) => w[x].t \in Token /\ w[x].c \in Connector /\ w[x].started \in Month
             /\ At(x, "begun") => w[x] = [pc |-> "begun", c |-> w[x].c, started |-> w[x].started]
                                    /\ w[x].c \in Connector /\ w[x].started \in Month
             /\ At(x, "collecting") => w[x] \in
              [pc : {"collecting"}, c : Connector, started : Month, t : Token, got : Nat, attempt : Nat]
             /\ Live(x) /\ ~At(x, "collecting") => w[x] \in
              [pc : {"collected", "recorded", "failed"}, c : Connector, started : Month, t : Token]
  <2>1. w[x] \in WorkerState
    BY DEF RowTypes
  <2> QED
    BY <2>1 DEF WorkerState, Idle, Live, At
<1> QED
  BY <1>1, <1>2

\* Each product, with what one more attempt adds.
LEMMA Products ==
  ASSUME NEW a \in Nat, NEW b \in Nat, NEW h \in Nat
  PROVE  /\ a * h \in Nat
         /\ (a + 1) * h = a * h + h
         /\ a <= b => a * h <= b * h
<1>1. a * h \in Nat /\ (a + 1) * h = a * h + h
  OBVIOUS
<1>2. ASSUME a <= b PROVE a * h <= b * h
  <2>1. PICK d \in Nat : b = a + d
    <3>1. b - a \in Nat /\ b = a + (b - a)
      BY <1>2
    <3> QED
      BY <3>1
  <2>2. b * h = a * h + d * h /\ d * h \in Nat /\ a * h \in Nat
    BY <2>1
  <2> QED
    BY <2>2
<1> QED
  BY <1>1, <1>2

\* A request more, with its redirects, and what it may have cost by then.
LEMMA AttemptCosts ==
  ASSUME NEW c \in Connector, NEW got \in Nat, NEW attempt \in 1..MaxAttempts[c], got < Gets[c]
  PROVE  /\ (got * MaxAttempts[c] + attempt - 1) * Hops \in Nat
         /\ (got * MaxAttempts[c] + attempt - 1) * Hops + Hops = (got * MaxAttempts[c] + attempt) * Hops
         /\ (got * MaxAttempts[c] + attempt) * Hops <= ((got + 1) * MaxAttempts[c]) * Hops
         /\ ((got + 1) * MaxAttempts[c]) * Hops <= _maximum_run_cost(c)
<1> DEFINE m == MaxAttempts[c]
           p == got * m
<1>1. m \in Nat /\ Hops \in Nat /\ Gets[c] \in Nat /\ attempt \in Nat /\ attempt >= 1 /\ attempt <= m
  BY BudgetAssumption
<1> HIDE DEF m
<1>2. p \in Nat /\ (got + 1) * m = p + m
  BY <1>1, Products
<1>3. (got + 1) * m <= Gets[c] * m
  <2>1. got + 1 \in Nat /\ got + 1 <= Gets[c]
    BY <1>1
  <2> QED
    BY <1>1, <2>1, Products
<1> HIDE DEF p
<1>4. p + attempt - 1 \in Nat /\ (p + attempt - 1) + 1 = p + attempt /\ p + attempt \in Nat /\ p + m \in Nat
      /\ p + attempt <= p + m
  BY <1>1, <1>2
<1>5. (p + attempt - 1) * Hops \in Nat /\ (p + attempt - 1) * Hops + Hops = (p + attempt) * Hops
  BY <1>1, <1>4, Products
<1>6. (p + attempt) * Hops <= (p + m) * Hops
  BY <1>1, <1>4, Products
<1>7. Gets[c] * m \in Nat /\ p + m <= Gets[c] * m
  BY <1>1, <1>2, <1>3, Products
<1>8. (p + m) * Hops <= (Gets[c] * m) * Hops
  BY <1>1, <1>4, <1>7, Products
<1> QED
  BY <1>2, <1>5, <1>6, <1>8 DEF _maximum_run_cost, m, p

LEMMA RunCostIsNat ==
  ASSUME NEW c \in Connector
  PROVE  _maximum_run_cost(c) \in Nat
<1>1. Gets[c] \in Nat /\ MaxAttempts[c] \in Nat /\ Hops \in Nat
  BY BudgetAssumption
<1>2. Gets[c] * MaxAttempts[c] \in Nat
  BY <1>1, Products
<1> QED
  BY <1>1, <1>2, Products DEF _maximum_run_cost

LEMMA RowsInit == Init => RowsInv
<1> SUFFICES ASSUME Init PROVE RowsInv
  OBVIOUS
<1>1. RowTypes
  BY BudgetAssumption, FS_EmptySet DEF Init, RowTypes, Month, WorkerState
<1> QED
  BY <1>1 DEF Init, RowsInv, RowFits, WorkerFits, Live, At, Of, NoRow, Idle

\* A worker that lets go of its token, or has made all its requests.
GoesOn(x, v) ==
    \/ v = Idle \/ v \in [pc : {"begun"}, c : Connector, started : Month]
    \/ /\ Live(x) /\ v \in [pc : {"collected", "recorded", "failed"}, c : Connector, started : Month, t : Token]
       /\ v.t = w[x].t /\ v.c = w[x].c /\ v.started = w[x].started

SameRow(t) ==
    \/ reservation'[t] = reservation[t]
    \/ /\ reservation[t] \in Row /\ reservation'[t] \in Row
       /\ reservation'[t].month = reservation[t].month /\ reservation'[t].c = reservation[t].c
       /\ reservation'[t].amount = reservation[t].amount /\ reservation'[t].actual = reservation[t].actual
       /\ \A statuses \in {Active, {"confirmed", "reconciled_charged"}, {"released"}, {"confirmed"}} :
            Of(t, statuses)' <=> Of(t, statuses)

\* A step that charges nothing and gives nothing back.
Quiet ==
    /\ month' \in Month /\ faults' \in 0..MaxFaults /\ UNCHANGED <<runs, paid>>
    /\ reservation' \in [Token -> {NoRow} \cup Row] /\ \A t \in Token : SameRow(t)
    /\ w' \in [Worker -> WorkerState] /\ \A y \in Worker : w'[y] = w[y] \/ GoesOn(y, w'[y])
    /\ ~MonthEndRace => \A y \in Worker : w'[y].pc = "begun" =>
                           w'[y].started = month' \/ (w'[y] = w[y] /\ month' = month)

\* A report that is written, by a worker that is done with its requests.
Reports(x, result) ==
    /\ Live(x) /\ ~At(x, "collecting") /\ result \in {"healthy", "failed"}
    /\ RecordAnyway(x, result) /\ Of(w[x].t, Active) /\ paid[w[x].t] <= reservation[w[x].t].amount
    /\ \E v : w' = [w EXCEPT ![x] = v] /\ GoesOn(x, v) /\ v.pc # "begun"
    /\ UNCHANGED <<month, paid, faults>>

LEMMA RowsExpire ==
  ASSUME RowTypes, reservation' = Expired
  PROVE  reservation' \in [Token -> {NoRow} \cup Row] /\ \A t \in Token : SameRow(t)
<1>1. ASSUME NEW t \in Token PROVE SameRow(t)
  <2>1. CASE reservation'[t] = reservation[t]
    BY <2>1 DEF SameRow
  <2>2. CASE reservation'[t] # reservation[t]
    <3>1. Of(t, {"reserved"}) /\ reservation'[t] = [reservation[t] EXCEPT !.status = "reconciliation_required"]
      BY <2>2 DEF Expired
    <3>2. reservation[t] \in Row
      BY <3>1, RowFacts DEF Of, NoRow
    <3>3. /\ reservation'[t] \in Row /\ reservation'[t].status = "reconciliation_required"
          /\ reservation'[t].month = reservation[t].month /\ reservation'[t].c = reservation[t].c
          /\ reservation'[t].amount = reservation[t].amount /\ reservation'[t].actual = reservation[t].actual
      BY <3>1, <3>2 DEF Row, Occupying
    <3> QED
      BY <3>1, <3>2, <3>3 DEF SameRow, Of, Active
  <2> QED
    BY <2>1, <2>2
<1>2. \A t \in Token : Expired[t] \in {NoRow} \cup Row
  BY <1>1 DEF SameRow, RowTypes
<1>3. Expired \in [Token -> {NoRow} \cup Row]
  BY <1>2 DEF Expired
<1> QED
  BY <1>1, <1>3

LEMMA SameRows ==
  ASSUME RowTypes, UNCHANGED reservation
  PROVE  reservation' \in [Token -> {NoRow} \cup Row] /\ \A t \in Token : SameRow(t)
BY DEF RowTypes, SameRow

\* Over a worker's w[x]: its step is quiet if the rows stay.
LEMMA WorkerIsQuiet ==
  ASSUME RowTypes, NEW x \in Worker, NEW v, w' = [w EXCEPT ![x] = v], GoesOn(x, v),
         v.pc = "begun" => v.started = month, UNCHANGED <<month, runs, paid>>,
         UNCHANGED faults \/ Fault, reservation' \in [Token -> {NoRow} \cup Row], \A t \in Token : SameRow(t)
  PROVE  Quiet
<1>1. w' \in [Worker -> WorkerState] /\ w'[x] = v /\ \A y \in Worker \ {x} : w'[y] = w[y]
  <2>1. v \in WorkerState
    BY DEF GoesOn, WorkerState
  <2> QED
    BY <2>1 DEF RowTypes
<1>2. faults' \in 0..MaxFaults
  BY BudgetAssumption DEF RowTypes, Fault
<1>3. \A y \in Worker : w'[y] = w[y] \/ GoesOn(y, w'[y])
  BY <1>1
<1>4. \A y \in Worker : w'[y].pc = "begun" => w'[y].started = month' \/ (w'[y] = w[y] /\ month' = month)
  BY <1>1
<1> QED
  BY <1>1, <1>2, <1>3, <1>4 DEF Quiet, RowTypes

LEMMA WorkersAreQuiet ==
  ASSUME RowTypes, UNCHANGED <<runs, paid, w, faults>>, month' \in Month,
         ~MonthEndRace => month' = month \/ \A x \in Worker : ~At(x, "begun"),
         reservation' \in [Token -> {NoRow} \cup Row], \A t \in Token : SameRow(t)
  PROVE  Quiet
BY DEF Quiet, RowTypes, At

LEMMA DoneIsQuiet ==
  ASSUME RowTypes, NEW x \in Worker, NEW pc \in {"collected", "recorded", "failed"}, NEW v, Live(x),
         \/ v = Over(x, pc)
         \/ ~At(x, "collecting") /\ v = [w[x] EXCEPT !.pc = pc]
  PROVE  GoesOn(x, v) /\ v.pc # "begun"
<1>1. w[x].t \in Token /\ w[x].c \in Connector /\ w[x].started \in Month
  BY RowFacts
<1>2. CASE v = Over(x, pc)
  BY <1>1, <1>2 DEF Over, GoesOn
<1>3. CASE ~At(x, "collecting") /\ v = [w[x] EXCEPT !.pc = pc]
  <2>1. w[x] \in [pc : {"collected", "recorded", "failed"}, c : Connector, started : Month, t : Token]
    BY <1>3, RowFacts
  <2> QED
    BY <1>3, <2>1 DEF GoesOn
<1> QED
  BY <1>2, <1>3

LEMMA ReportForms ==
  ASSUME RowTypes, NEW x \in Worker, NEW result \in {"healthy", "failed"}, NEW v, Live(x), ~At(x, "collecting"),
         record_connector_run(x, result), w' = [w EXCEPT ![x] = v], GoesOn(x, v), v.pc # "begun",
         UNCHANGED <<month, paid, faults>>
  PROVE  Quiet \/ Reports(x, result)
<1>1. CASE Of(w[x].t, Active) /\ paid[w[x].t] <= reservation[w[x].t].amount
  BY <1>1 DEF record_connector_run, Reports
<1>2. CASE ~(Of(w[x].t, Active) /\ paid[w[x].t] <= reservation[w[x].t].amount)
  <2>1. UNCHANGED <<runs, reservation>>
    BY <1>2 DEF record_connector_run
  <2> QED
    BY <2>1, SameRows, WorkerIsQuiet
<1> QED
  BY <1>1, <1>2

LEMMA RunningForms ==
  ASSUME RowTypes, NEW x \in Worker, Running(x)
  PROVE  \/ Quiet \/ get(x) \/ \E result \in {"healthy", "failed"} : Reports(x, result)
         \/ ReserveUnasked(x) /\ Fits(w[x].c)
<1>i. GoesOn(x, Idle) /\ Idle.pc # "begun"
  BY DEF GoesOn, Idle
<1>1. CASE reserve_connector_budget(x)
  <2>1. CASE Fits(w[x].c)
    BY <1>1, <2>1 DEF reserve_connector_budget
  <2>2. CASE ~Fits(w[x].c)
    <3>1. reservation' = Expired /\ w' = [w EXCEPT ![x] = Idle] /\ UNCHANGED <<month, runs, paid, faults>>
      BY <1>1, <2>2 DEF reserve_connector_budget
    <3> QED
      BY <1>i, <3>1, RowsExpire, WorkerIsQuiet
  <2> QED
    BY <2>1, <2>2
<1>2. CASE get(x)
  BY <1>2
<1>3. CASE Collected(x) \/ CollectFails(x)
  <2>1. PICK pc \in {"collected", "failed"} : w' = [w EXCEPT ![x] = Over(x, pc)]
    BY <1>3 DEF Collected, CollectFails
  <2>2. Live(x) /\ UNCHANGED <<month, reservation, runs, paid, faults>>
    BY <1>3 DEF Collected, CollectFails, Ready, At, Live
  <2>3. GoesOn(x, Over(x, pc)) /\ Over(x, pc).pc # "begun"
    BY <2>2, DoneIsQuiet
  <2> QED
    BY <2>1, <2>2, <2>3, SameRows, WorkerIsQuiet
<1>4. CASE RecordHealthy(x)
  <2>1. At(x, "collected") /\ Live(x) /\ ~At(x, "collecting") /\ UNCHANGED <<month, paid>>
    BY <1>4 DEF RecordHealthy, At, Live
  <2>2. PICK pc \in {"recorded", "failed"} :
            /\ w' = [w EXCEPT ![x] = [w[x] EXCEPT !.pc = pc]]
            /\ \/ record_connector_run(x, "healthy") /\ UNCHANGED faults
               \/ Fault /\ UNCHANGED <<runs, reservation>>
    BY <1>4 DEF RecordHealthy, Goto
  <2>3. PICK v : v = [w[x] EXCEPT !.pc = pc]
    OBVIOUS
  <2>4. GoesOn(x, v) /\ v.pc # "begun" /\ w' = [w EXCEPT ![x] = v]
    BY <2>1, <2>2, <2>3, DoneIsQuiet
  <2>5. CASE record_connector_run(x, "healthy") /\ UNCHANGED faults
    BY <2>1, <2>4, <2>5, ReportForms
  <2>6. CASE Fault /\ UNCHANGED <<runs, reservation>>
    BY <2>1, <2>4, <2>6, SameRows, WorkerIsQuiet
  <2> QED
    BY <2>2, <2>5, <2>6
<1>5. CASE UpdateStatus(x)
  <2>1. Live(x) /\ ~At(x, "collecting") /\ UNCHANGED <<month, reservation, runs, paid>>
        /\ (UNCHANGED faults \/ Fault)
    BY <1>5 DEF UpdateStatus, At, Live
  <2>2. PICK v : v = [w[x] EXCEPT !.pc = "failed"]
    OBVIOUS
  <2>3. GoesOn(x, v) /\ v.pc # "begun"
    BY <2>1, <2>2, DoneIsQuiet
  <2>4. w' = [w EXCEPT ![x] = v] \/ w' = [w EXCEPT ![x] = Idle]
    BY <1>5, <2>2 DEF UpdateStatus, Goto
  <2> QED
    BY <1>i, <2>1, <2>3, <2>4, SameRows, WorkerIsQuiet
<1>6. CASE RecordFailed(x)
  <2>1. Live(x) /\ ~At(x, "collecting") /\ UNCHANGED <<month, paid>> /\ w' = [w EXCEPT ![x] = Idle]
    BY <1>6 DEF RecordFailed, At, Live
  <2>2. CASE record_connector_run(x, "failed") /\ UNCHANGED faults
    BY <1>i, <2>1, <2>2, ReportForms
  <2>3. CASE Fault /\ UNCHANGED <<runs, reservation>>
    BY <1>i, <2>1, <2>3, SameRows, WorkerIsQuiet
  <2> QED
    BY <1>6, <2>2, <2>3 DEF RecordFailed
<1> QED
  BY <1>1, <1>2, <1>3, <1>4, <1>5, <1>6 DEF Running

\* The kinds of steps: most are quiet.
LEMMA BudgetForms ==
  ASSUME RowTypes, [Next]_vars
  PROVE  \/ Quiet
         \/ \E x \in Worker : \/ get(x) \/ \E result \in {"healthy", "failed"} : Reports(x, result)
                              \/ ReserveUnasked(x) /\ Fits(w[x].c)
         \/ \E t \in Token : resolve_connector_budget_reservation(t)
<1>1. ASSUME NEW x \in Worker, reconcile_expired(x) PROVE Quiet
  <2>1. reservation' = Expired /\ UNCHANGED <<month, runs, w, paid, faults>>
    BY <1>1 DEF reconcile_expired
  <2> QED
    BY <2>1, RowsExpire, WorkersAreQuiet DEF RowTypes
<1>2. ASSUME NEW x \in Worker, Crash(x) PROVE Quiet
  <2>1. w' = [w EXCEPT ![x] = Idle] /\ Fault /\ UNCHANGED <<month, reservation, runs, paid>>
    BY <1>2 DEF Crash
  <2>2. GoesOn(x, Idle) /\ Idle.pc # "begun"
    BY DEF GoesOn, Idle
  <2> QED
    BY <2>1, <2>2, SameRows, WorkerIsQuiet
<1>3. ASSUME NEW x \in Worker, NEW c \in Connector, Begin(x, c) PROVE Quiet
  <2>1. PICK v : v = [pc |-> "begun", c |-> c, started |-> month]
    OBVIOUS
  <2>2. w' = [w EXCEPT ![x] = v] /\ UNCHANGED <<month, reservation, runs, paid, faults>>
    BY <1>3, <2>1 DEF Begin
  <2>3. GoesOn(x, v) /\ v.started = month
    BY <2>1 DEF GoesOn, RowTypes
  <2> QED
    BY <2>2, <2>3, SameRows, WorkerIsQuiet
<1>4. ASSUME NEW t \in Token, LeaseRunsOut(t) PROVE Quiet
  <2>1. /\ reservation' = [reservation EXCEPT ![t] = [@ EXCEPT !.overdue = TRUE]]
        /\ UNCHANGED <<month, runs, w, paid, faults>> /\ Of(t, {"reserved"})
    BY <1>4 DEF LeaseRunsOut
  <2>2. reservation[t] \in Row
    BY <2>1, RowFacts DEF Of, NoRow
  <2>3. reservation'[t] = [reservation[t] EXCEPT !.overdue = TRUE]
        /\ \A u \in Token \ {t} : reservation'[u] = reservation[u]
    BY <2>1 DEF RowTypes
  <2>4. SameRow(t)
    <3>1. reservation'[t] \in Row
      BY <2>2, <2>3 DEF Row
    <3>2. /\ reservation'[t].status = reservation[t].status /\ reservation'[t].month = reservation[t].month
          /\ reservation'[t].c = reservation[t].c /\ reservation'[t].amount = reservation[t].amount
          /\ reservation'[t].actual = reservation[t].actual
      BY <2>2, <2>3 DEF Row
    <3> QED
      BY <2>2, <3>1, <3>2 DEF SameRow, Of
  <2>5. \A u \in Token : SameRow(u)
    BY <2>3, <2>4 DEF SameRow
  <2> QED
    <3>1. reservation' \in [Token -> {NoRow} \cup Row]
      BY <2>1, <2>2, <2>3 DEF RowTypes, Row
    <3> QED
      BY <2>1, <2>5, <3>1, WorkersAreQuiet DEF RowTypes
<1>5. CASE NextMonth
  <2>1. month' \in Month
    BY <1>5, BudgetAssumption DEF NextMonth, RowTypes, Month
  <2> QED
    BY <1>5, <2>1, SameRows, WorkersAreQuiet DEF NextMonth
<1>6. CASE UNCHANGED vars
  BY <1>6, SameRows, WorkersAreQuiet DEF vars, RowTypes
<1> QED
  BY <1>1, <1>2, <1>3, <1>4, <1>5, <1>6, RunningForms DEF Next

-----------------------------------------------------------------------------
(* Each kind of step keeps rows, workers and runs in agreement.             *)

LEMMA SameRowFits ==
  ASSUME RowTypes, NEW t \in Token, RowFits(t), SameRow(t), paid'[t] = paid[t]
  PROVE  /\ reservation'[t] = NoRow <=> reservation[t] = NoRow
         /\ reservation'[t].c = reservation[t].c
         /\ RowFits(t)'
<1>1. reservation[t] \in {NoRow} \cup Row /\ NoRow \notin Row
  BY DEF RowTypes, NoRow, Row, Occupying
<1>2. CASE reservation'[t] = reservation[t]
  BY <1>1, <1>2 DEF RowFits, Of
<1>3. CASE reservation'[t] # reservation[t]
  <2>1. /\ reservation[t] \in Row /\ reservation'[t] \in Row /\ reservation'[t].c = reservation[t].c
        /\ reservation'[t].amount = reservation[t].amount /\ reservation'[t].actual = reservation[t].actual
        /\ Of(t, {"confirmed", "reconciled_charged"})' <=> Of(t, {"confirmed", "reconciled_charged"})
        /\ Of(t, {"released"})' <=> Of(t, {"released"})
    BY <1>3 DEF SameRow
  <2> QED
    BY <1>1, <2>1 DEF RowFits
<1> QED
  BY <1>2, <1>3

LEMMA QuietRows ==
  ASSUME RowsInv, Quiet
  PROVE  RowsInv'
<1>0. RowTypes /\ (\A t \in Token : RowFits(t)) /\ (\A x \in Worker : WorkerFits(x))
      /\ \A r \in runs : r.c = reservation[r.t].c
  BY DEF RowsInv
<1>1. ASSUME NEW t \in Token
      PROVE  /\ reservation'[t] = NoRow <=> reservation[t] = NoRow
             /\ reservation'[t].c = reservation[t].c /\ RowFits(t)'
  BY <1>0, SameRowFits DEF Quiet
<1>3. RowTypes'
  BY <1>0 DEF RowTypes, Quiet
<1>4. ASSUME NEW y \in Worker PROVE WorkerFits(y)'
  <2>1. UNCHANGED paid
    BY DEF Quiet
  <2>2. CASE w'[y] = w[y]
    <3>1. Live(y)' <=> Live(y)
      BY <2>2 DEF Live
    <3>2. Live(y) => w[y].t \in Token
      BY <1>0, RowFacts
    <3> QED
      BY <1>0, <1>1, <2>1, <2>2, <3>1, <3>2 DEF WorkerFits, Live, At
  <2>3. CASE GoesOn(y, w'[y])
    <3>1. w'[y].pc # "collecting"
      BY <2>3 DEF GoesOn, Idle
    <3>2. w'[y].pc \notin {"idle", "begun"} => Live(y) /\ w'[y].t = w[y].t /\ w'[y].c = w[y].c /\ w[y].t \in Token
      BY <1>0, <2>3, RowFacts DEF GoesOn, Idle
    <3> QED
      BY <1>0, <1>1, <3>1, <3>2 DEF WorkerFits, Live, At
  <2> QED
    BY <2>2, <2>3 DEF Quiet
<1>5. \A r \in runs' : r.c = reservation'[r.t].c
  BY <1>0, <1>1 DEF Quiet, RowTypes, RunRecord
<1> QED
  BY <1>1, <1>3, <1>4, <1>5 DEF RowsInv

\* A step that changes one row, of a run that nobody makes requests for, and
\* no worker but x.
RowBecomes(t, row) ==
    /\ reservation' = [reservation EXCEPT ![t] = row] /\ reservation'[t] = row
    /\ \A u \in Token \ {t} : reservation'[u] = reservation[u]

LEMMA ClosedRows ==
  ASSUME RowsInv, NEW t \in Token, reservation[t] \in Row, NEW row \in Row, RowBecomes(t, row),
         row.c = reservation[t].c, row.amount = reservation[t].amount, row.actual <= row.amount,
         row.status \in {"confirmed", "reconciled_charged"} => row.actual = paid[t],
         row.status = "released" => paid[t] = 0,
         UNCHANGED <<month, paid, faults>>,
         runs' \subseteq RunRecord, IsFiniteSet(runs'),
         \A r \in runs' \ runs : r.t = t /\ r.c = row.c,
         w' \in [Worker -> WorkerState], \A y \in Worker : w'[y] = w[y] \/ GoesOn(y, w'[y])
  PROVE  RowsInv'
<1>0. RowTypes /\ (\A u \in Token : RowFits(u)) /\ (\A x \in Worker : WorkerFits(x))
      /\ \A r \in runs : r.c = reservation[r.t].c
  BY DEF RowsInv
<1>1. ASSUME NEW u \in Token
      PROVE  /\ reservation'[u] = NoRow <=> reservation[u] = NoRow
             /\ reservation'[u] \in {NoRow} \cup Row /\ reservation'[u].c = reservation[u].c
             /\ RowFits(u)'
  <2>1. RowFits(u) /\ reservation[u] \in {NoRow} \cup Row /\ NoRow \notin Row
    BY <1>0 DEF RowTypes, NoRow, Row, Occupying
  <2>2. CASE u # t
    <3>1. reservation'[u] = reservation[u]
      BY <2>2 DEF RowBecomes
    <3> QED
      BY <2>1, <3>1 DEF RowFits, Of
  <2>3. CASE u = t
    <3>1. reservation'[t] = row /\ row # NoRow /\ reservation[t] # NoRow
      BY <2>1 DEF RowBecomes
    <3> QED
      BY <2>1, <2>3, <3>1 DEF RowFits, Of
  <2> QED
    BY <2>2, <2>3
<1>3. RowTypes'
  BY <1>0, <1>1 DEF RowTypes, RowBecomes
<1>4. ASSUME NEW y \in Worker PROVE WorkerFits(y)'
  <2>2. CASE w'[y] = w[y]
    <3>1. Live(y)' <=> Live(y)
      BY <2>2 DEF Live
    <3>2. Live(y) => w[y].t \in Token
      BY <1>0, RowFacts
    <3> QED
      BY <1>0, <1>1, <2>2, <3>1, <3>2 DEF WorkerFits, Live, At
  <2>3. CASE GoesOn(y, w'[y])
    <3>1. w'[y].pc # "collecting"
      BY <2>3 DEF GoesOn, Idle
    <3>2. w'[y].pc \notin {"idle", "begun"} => Live(y) /\ w'[y].t = w[y].t /\ w'[y].c = w[y].c /\ w[y].t \in Token
      BY <1>0, <2>3, RowFacts DEF GoesOn, Idle
    <3> QED
      BY <1>0, <1>1, <3>1, <3>2 DEF WorkerFits, Live, At
  <2> QED
    BY <2>2, <2>3
<1>5. \A r \in runs' : r.c = reservation'[r.t].c
  BY <1>0, <1>1 DEF RowTypes, RunRecord, RowBecomes
<1> QED
  BY <1>1, <1>3, <1>4, <1>5 DEF RowsInv

LEMMA ResolveRows ==
  ASSUME RowsInv, NEW t \in Token, resolve_connector_budget_reservation(t)
  PROVE  RowsInv'
<1>1. RowTypes /\ RowFits(t) /\ reservation[t] \in Row
  <2>1. RowTypes /\ RowFits(t)
    BY DEF RowsInv
  <2> QED
    BY <2>1, RowFacts DEF resolve_connector_budget_reservation, Of, NoRow
<1>2. PICK row : row = [reservation[t] EXCEPT !.status = IF paid[t] = 0 THEN "released" ELSE "reconciled_charged",
                                              !.actual = paid[t]]
  OBVIOUS
<1>3. /\ row \in Row /\ row.c = reservation[t].c /\ row.amount = reservation[t].amount
      /\ row.actual = paid[t] /\ row.status \in {"released", "reconciled_charged"}
      /\ row.status = "released" => paid[t] = 0
  BY <1>1, <1>2 DEF Row, Occupying, RowTypes
<1>4. RowBecomes(t, row)
  BY <1>1, <1>2 DEF resolve_connector_budget_reservation, RowBecomes, RowTypes
<1>5. row.actual <= row.amount
  BY <1>1, <1>3 DEF RowFits, NoRow, Row, Occupying
<1>6. UNCHANGED <<month, runs, w, paid, faults>>
  BY DEF resolve_connector_budget_reservation
<1> QED
  BY <1>1, <1>3, <1>4, <1>5, <1>6, ClosedRows DEF RowTypes

LEMMA ReportRows ==
  ASSUME RowsInv, NEW x \in Worker, NEW result, Reports(x, result)
  PROVE  RowsInv'
<1> DEFINE t == w[x].t
<1>1. /\ RowTypes /\ t \in Token /\ w[x].c \in Connector /\ w[x].started \in Month
      /\ reservation[t] \in Row /\ reservation[t].c = w[x].c
  <2>1. RowTypes /\ WorkerFits(x) /\ Live(x)
    BY DEF RowsInv, Reports
  <2> QED
    BY <2>1, RowFacts DEF WorkerFits
<1>2. PICK row : row = [reservation[t] EXCEPT !.status = "confirmed", !.actual = paid[t]]
  OBVIOUS
<1>3. /\ row \in Row /\ row.c = w[x].c /\ row.amount = reservation[t].amount
      /\ row.actual = paid[t] /\ row.status = "confirmed"
  BY <1>1, <1>2 DEF Row, Occupying, RowTypes
<1>4. RowBecomes(t, row)
  BY <1>1, <1>2 DEF Reports, RecordAnyway, RowBecomes, RowTypes
<1>5. row.actual <= row.amount
  BY <1>3 DEF Reports
<1>6. PICK c : c = [t |-> t, result |-> result, month |-> w[x].started, c |-> w[x].c, cost |-> paid[t]]
  OBVIOUS
<1>7. c \in RunRecord /\ c.t = t /\ c.c = row.c
  BY <1>1, <1>3, <1>6 DEF RunRecord, Reports, RowTypes
<1>8. runs' = runs \cup {c}
  BY <1>6 DEF Reports, RecordAnyway
<1>9. runs' \subseteq RunRecord /\ IsFiniteSet(runs')
  BY <1>1, <1>7, <1>8, FS_AddElement DEF RowTypes
<1>10. PICK v : w' = [w EXCEPT ![x] = v] /\ GoesOn(x, v)
  BY DEF Reports
<1>11. w' \in [Worker -> WorkerState] /\ \A y \in Worker : w'[y] = w[y] \/ GoesOn(y, w'[y])
  <2>1. v \in WorkerState
    BY <1>10 DEF GoesOn, WorkerState
  <2> QED
    BY <1>1, <1>10, <2>1 DEF RowTypes
<1>12. UNCHANGED <<month, paid, faults>>
  BY DEF Reports
<1> HIDE DEF t
<1> QED
  BY <1>1, <1>3, <1>4, <1>5, <1>7, <1>8, <1>9, <1>11, <1>12, ClosedRows

LEMMA GetRows ==
  ASSUME ChargeInv, RowsInv, NEW x \in Worker, get(x)
  PROVE  RowsInv'
<1>0. RowTypes /\ (\A u \in Token : RowFits(u)) /\ (\A y \in Worker : WorkerFits(y))
      /\ \A r \in runs : r.c = reservation[r.t].c
  BY DEF RowsInv
<1>1. At(x, "collecting") /\ Live(x) /\ UNCHANGED <<month, reservation, runs, faults>>
  BY DEF get, At, Live
<1>2. w[x] \in [pc : {"collecting"}, c : Connector, started : Month, t : Token, got : Nat, attempt : Nat]
  BY <1>0, <1>1, RowFacts
<1>t. PICK t \in Token, c \in Connector : t = w[x].t /\ c = w[x].c
  BY <1>2
<1> USE <1>t
<1> DEFINE bound == (w[x].got * MaxAttempts[c] + w[x].attempt - 1) * Hops
<1>3. t \in Token /\ c \in Connector /\ w[x].got \in Nat /\ w[x].attempt \in 1..MaxAttempts[c]
      /\ w[x].got < Gets[c] /\ paid[t] <= bound
      /\ reservation[t] # NoRow /\ reservation[t].c = c /\ reservation[t].amount = _maximum_run_cost(c)
  <2>1. WorkerFits(x) /\ w[x].t \in Token /\ RowFits(w[x].t)
    BY <1>0, <1>2
  <2> QED
    BY <1>1, <1>2, <2>1 DEF WorkerFits, RowFits, get
<1>4. PICK requests \in 1..Hops : paid' = [paid EXCEPT ![t] = @ + requests]
  BY DEF get
<1>5. /\ bound \in Nat
      /\ bound + Hops = (w[x].got * MaxAttempts[c] + w[x].attempt) * Hops
      /\ (w[x].got * MaxAttempts[c] + w[x].attempt) * Hops <= ((w[x].got + 1) * MaxAttempts[c]) * Hops
      /\ ((w[x].got + 1) * MaxAttempts[c]) * Hops <= _maximum_run_cost(c)
  BY <1>3, AttemptCosts
<1>6. Hops \in Nat /\ MaxAttempts[c] \in Nat /\ MaxAttempts[c] >= 1 /\ Gets[c] \in Nat
  BY <1>3, BudgetAssumption
<1>7. paid' \in [Token -> Nat] /\ paid'[t] \in Nat /\ \A u \in Token \ {t} : paid'[u] = paid[u]
  BY <1>0, <1>3, <1>4 DEF RowTypes
<1>8. paid'[t] <= bound + Hops
  <2>1. paid'[t] = paid[t] + requests /\ paid[t] \in Nat
    BY <1>0, <1>3, <1>4 DEF RowTypes
  <2> HIDE DEF bound
  <2> QED
    BY <1>3, <1>5, <1>6, <2>1
<1>9. paid'[t] <= (w[x].got * MaxAttempts[c] + w[x].attempt) * Hops /\ paid'[t] <= _maximum_run_cost(c)
      /\ paid'[t] <= ((w[x].got + 1) * MaxAttempts[c]) * Hops
  <2> DEFINE p == (w[x].got * MaxAttempts[c] + w[x].attempt) * Hops
             q == ((w[x].got + 1) * MaxAttempts[c]) * Hops
  <2>1. paid'[t] <= p /\ p <= q /\ q <= _maximum_run_cost(c)
    BY <1>5, <1>8
  <2>2. p \in Nat /\ q \in Nat /\ _maximum_run_cost(c) \in Nat
    <3>1. (w[x].got + 1) * MaxAttempts[c] \in Nat
      <4>1. w[x].got + 1 \in Nat
        BY <1>3
      <4> QED
        BY <1>6, <4>1, Products
    <3>2. q \in Nat
      BY <1>6, <3>1, Products
    <3>3. p \in Nat
      <4> HIDE DEF bound, p
      <4>1. p = bound + Hops
        BY <1>5 DEF p
      <4> QED
        BY <1>5, <1>6, <4>1
    <3> QED
      BY <1>3, <3>2, <3>3, RunCostIsNat
  <2> HIDE DEF p, q
  <2>3. paid'[t] <= p /\ paid'[t] <= q /\ paid'[t] <= _maximum_run_cost(c)
    BY <1>7, <2>1, <2>2
  <2> QED
    BY <2>3 DEF p, q
<1> HIDE DEF bound
<1>10. Of(t, Active) /\ \A y \in Worker \ {x} : Live(y) => w[y].t # t
  BY <1>1, <1>2 DEF ChargeInv, OneEach, OpenWhileCollecting
<1>11. \A u \in Token : RowFits(u)'
  <2>1. ASSUME NEW u \in Token, u # t PROVE RowFits(u)'
    BY <1>0, <1>1, <1>7, <2>1 DEF RowFits, Of
  <2>2. RowFits(t)'
    <3>1. ~Of(t, {"confirmed", "reconciled_charged"}) /\ ~Of(t, {"released"})
      BY <1>10 DEF Of, Active
    <3>2. reservation' = reservation /\ paid'[t] <= reservation[t].amount
          /\ reservation[t].actual <= reservation[t].amount
      BY <1>0, <1>1, <1>3, <1>9 DEF RowFits
    <3> QED
      BY <1>3, <3>1, <3>2 DEF RowFits, Of
  <2> QED
    BY <2>1, <2>2
<1>12. PICK v \in {Answered(x), AttemptFails(x)} : w' = [w EXCEPT ![x] = v]
  BY Zenon DEF get
<1>13. /\ v \in WorkerState /\ v.pc \in {"collecting", "failed"} /\ v.t = t /\ v.c = c
       /\ v.pc = "collecting" => /\ v.got <= Gets[c] /\ v.attempt \in 1..MaxAttempts[c]
                                 /\ paid'[t] <= (v.got * MaxAttempts[c] + v.attempt - 1) * Hops
  <2>1. CASE v = Answered(x)
    <3>1. v = [w[x] EXCEPT !.got = @ + 1, !.attempt = 1]
      BY <2>1 DEF Answered
    <3>2. /\ v \in [pc : {"collecting"}, c : Connector, started : Month, t : Token, got : Nat, attempt : Nat]
          /\ v.t = t /\ v.c = c /\ v.got = w[x].got + 1 /\ v.attempt = 1
      <4>1. PICK z : z = [w[x] EXCEPT !.got = @ + 1]
        OBVIOUS
      <4>2. /\ z \in [pc : {"collecting"}, c : Connector, started : Month, t : Token, got : Nat, attempt : Nat]
            /\ z.t = t /\ z.c = c /\ z.got = w[x].got + 1
        BY <1>2, <4>1
      <4>3. v = [z EXCEPT !.attempt = 1]
        BY <3>1, <4>1
      <4> QED
        BY <4>2, <4>3
    <3>3. v.got * MaxAttempts[c] + v.attempt - 1 = (w[x].got + 1) * MaxAttempts[c]
      <4>1. (w[x].got + 1) * MaxAttempts[c] \in Nat
        <5>1. w[x].got + 1 \in Nat
          BY <1>3
        <5> QED
          BY <1>6, <5>1, Products
      <4> QED
        BY <3>2, <4>1
    <3> QED
      BY <1>3, <1>6, <1>9, <3>2, <3>3 DEF WorkerState
  <2>2. CASE v = AttemptFails(x)
    <3>1. CASE w[x].attempt < MaxAttempts[c]
      <4>1. v = [w[x] EXCEPT !.attempt = @ + 1]
        BY <2>2, <3>1 DEF AttemptFails
      <4>2. /\ v \in [pc : {"collecting"}, c : Connector, started : Month, t : Token, got : Nat, attempt : Nat]
            /\ v.t = t /\ v.c = c /\ v.got = w[x].got /\ v.attempt = w[x].attempt + 1
        BY <1>2, <4>1
      <4>3. v.got * MaxAttempts[c] + v.attempt - 1 = w[x].got * MaxAttempts[c] + w[x].attempt
        <5>1. w[x].got * MaxAttempts[c] \in Nat /\ w[x].attempt \in Nat
          BY <1>3, <1>6, Products
        <5> QED
          BY <4>2, <5>1
      <4>4. v.attempt \in 1..MaxAttempts[c]
        BY <1>3, <1>6, <3>1, <4>2
      <4> QED
        <5>1. paid'[t] <= (v.got * MaxAttempts[c] + v.attempt - 1) * Hops
          BY <1>9, <4>3
        <5>2. v \in WorkerState /\ v.pc = "collecting"
          BY <4>2 DEF WorkerState
        <5>3. v.got <= Gets[c]
          BY <1>3, <1>6, <4>2
        <5> QED
          BY <4>2, <4>4, <5>1, <5>2, <5>3
    <3>2. CASE ~(w[x].attempt < MaxAttempts[c])
      <4>1. v = Over(x, "failed")
        BY <2>2, <3>2 DEF AttemptFails
      <4>2. v \in [pc : {"collected", "recorded", "failed"}, c : Connector, started : Month, t : Token]
            /\ v.pc = "failed" /\ v.t = t /\ v.c = c
        BY <1>2, <4>1 DEF Over
      <4> QED
        BY <4>2 DEF WorkerState
    <3> QED
      BY <3>1, <3>2
  <2> QED
    BY <2>1, <2>2
<1>14. RowTypes'
  BY <1>0, <1>1, <1>7, <1>12, <1>13 DEF RowTypes, WorkerState, Row, Occupying
<1>15. \A y \in Worker : WorkerFits(y)'
  <2>1. ASSUME NEW y \in Worker, y # x PROVE WorkerFits(y)'
    <3>1. w'[y] = w[y] /\ WorkerFits(y)
      BY <1>0, <1>12, <2>1 DEF RowTypes
    <3>2. Live(y) => w[y].t \in Token \ {t}
      BY <1>0, <1>10, <2>1, RowFacts
    <3> QED
      BY <1>1, <1>7, <3>1, <3>2 DEF WorkerFits, Live, At
  <2>2. WorkerFits(x)'
    <3>1. w'[x] = v
      BY <1>0, <1>12 DEF RowTypes
    <3> QED
      BY <1>1, <1>3, <1>13, <3>1 DEF WorkerFits, At
  <2> QED
    BY <2>1, <2>2
<1>16. \A r \in runs' : r.c = reservation'[r.t].c
  BY <1>0, <1>1
<1> QED
  BY <1>11, <1>14, <1>15, <1>16 DEF RowsInv

\* The one step that makes a row, for what the connector may cost.
Reserved(x, t, row) ==
    /\ t \in Token /\ reservation[t] = NoRow /\ row \in Row
    /\ row.status = "reserved" /\ row.month = month /\ row.c = w[x].c /\ row.actual = 0
    /\ row.amount = _maximum_run_cost(w[x].c)
    /\ reservation' = [Expired EXCEPT ![t] = row]
    /\ \E v : /\ w' = [w EXCEPT ![x] = v] /\ v \in WorkerState
              /\ v = [pc |-> "collecting", c |-> w[x].c, started |-> w[x].started, t |-> t, got |-> 0, attempt |-> 1]
    /\ At(x, "begun") /\ w[x].c \in Connector
    /\ UNCHANGED <<month, runs, paid, faults>>

LEMMA ReserveForm ==
  ASSUME RowTypes, NEW x \in Worker, ReserveUnasked(x)
  PROVE  \E t, row : Reserved(x, t, row)
<1>1. At(x, "begun") /\ w[x].c \in Connector /\ w[x].started \in Month
  BY RowFacts DEF ReserveUnasked
<1>2. PICK t : t = NewToken
  OBVIOUS
<1>3. t \in Token /\ reservation[t] = NoRow
  BY <1>2 DEF ReserveUnasked, NewToken, Unused
<1>4. PICK row : row = [status |-> "reserved", month |-> month, c |-> w[x].c,
                        amount |-> _maximum_run_cost(w[x].c), actual |-> 0, overdue |-> FALSE]
  OBVIOUS
<1>5. row \in Row
  BY <1>1, <1>4, RunCostIsNat DEF Row, Occupying, RowTypes
<1>6. /\ row.status = "reserved" /\ row.month = month /\ row.c = w[x].c /\ row.actual = 0
      /\ row.amount = _maximum_run_cost(w[x].c)
  BY <1>4
<1>7. reservation' = [Expired EXCEPT ![t] = row]
  BY <1>2, <1>4 DEF ReserveUnasked
<1>8. PICK v : v = [pc |-> "collecting", c |-> w[x].c, started |-> w[x].started, t |-> t, got |-> 0, attempt |-> 1]
  OBVIOUS
<1>9. w' = [w EXCEPT ![x] = v] /\ v \in WorkerState
  BY <1>1, <1>2, <1>3, <1>8 DEF ReserveUnasked, Collecting, WorkerState
<1>10. UNCHANGED <<month, runs, paid, faults>>
  BY DEF ReserveUnasked
<1>11. \E z : w' = [w EXCEPT ![x] = z] /\ z \in WorkerState
              /\ z = [pc |-> "collecting", c |-> w[x].c, started |-> w[x].started, t |-> t, got |-> 0, attempt |-> 1]
  BY <1>8, <1>9
<1>12. Reserved(x, t, row)
  BY <1>1, <1>3, <1>5, <1>6, <1>7, <1>10, <1>11, Zenon DEF Reserved
<1> QED
  BY <1>12

\* Like RowsExpire, of what the other rows become.
LEMMA OthersExpire ==
  ASSUME RowTypes, NEW x, NEW t, NEW row, Reserved(x, t, row)
  PROVE  /\ reservation' \in [Token -> {NoRow} \cup Row] /\ reservation'[t] = row
         /\ \A u \in Token \ {t} : SameRow(u)
<1>1. ASSUME NEW u \in Token
      PROVE  /\ Expired[u] \in {NoRow} \cup Row
             /\ u # t => SameRow(u)
  <2>1. u # t => reservation'[u] = Expired[u]
    BY DEF Reserved, Expired
  <2>2. CASE Expired[u] = reservation[u]
    BY <2>1, <2>2 DEF SameRow, RowTypes
  <2>3. CASE Expired[u] # reservation[u]
    <3>1. Of(u, {"reserved"}) /\ Expired[u] = [reservation[u] EXCEPT !.status = "reconciliation_required"]
      BY <2>3 DEF Expired
    <3>2. reservation[u] \in Row
      BY <3>1, RowFacts DEF Of, NoRow
    <3>3. /\ Expired[u] \in Row /\ Expired[u].status = "reconciliation_required"
          /\ Expired[u].month = reservation[u].month /\ Expired[u].c = reservation[u].c
          /\ Expired[u].amount = reservation[u].amount /\ Expired[u].actual = reservation[u].actual
      BY <3>1, <3>2 DEF Row, Occupying
    <3> QED
      BY <2>1, <3>1, <3>2, <3>3 DEF SameRow, Of, Active
  <2> QED
    BY <2>2, <2>3
<1>2. Expired \in [Token -> {NoRow} \cup Row]
  BY <1>1 DEF Expired
<1> QED
  BY <1>1, <1>2 DEF Reserved

LEMMA ReserveRows ==
  ASSUME ChargeInv, RowsInv, NEW x \in Worker, NEW t, NEW row, Reserved(x, t, row)
  PROVE  RowsInv'
<1>0. RowTypes /\ (\A u \in Token : RowFits(u)) /\ (\A y \in Worker : WorkerFits(y))
      /\ \A r \in runs : r.c = reservation[r.t].c
  BY DEF RowsInv
<1>1. /\ t \in Token /\ reservation[t] = NoRow /\ row \in Row /\ row # NoRow /\ UNCHANGED <<month, runs, paid, faults>>
      /\ reservation' \in [Token -> {NoRow} \cup Row] /\ reservation'[t] = row
      /\ \A u \in Token \ {t} : SameRow(u)
  <2>1. t \in Token /\ reservation[t] = NoRow /\ row \in Row /\ UNCHANGED <<month, runs, paid, faults>>
    BY DEF Reserved
  <2>2. row # NoRow
    BY <2>1 DEF NoRow, Row, Occupying
  <2>3. /\ reservation' \in [Token -> {NoRow} \cup Row] /\ reservation'[t] = row
        /\ \A u \in Token \ {t} : SameRow(u)
    BY <1>0, OthersExpire
  <2> QED
    BY <2>1, <2>2, <2>3
<1>2. PICK v : /\ w' = [w EXCEPT ![x] = v] /\ v \in WorkerState
               /\ v.pc = "collecting" /\ v.c = row.c /\ v.t = t /\ v.got = 0 /\ v.attempt = 1
  <2>1. PICK v : /\ w' = [w EXCEPT ![x] = v] /\ v \in WorkerState
                 /\ v = [pc |-> "collecting", c |-> w[x].c, started |-> w[x].started, t |-> t,
                         got |-> 0, attempt |-> 1]
    BY DEF Reserved
  <2>2. v.pc = "collecting" /\ v.c = w[x].c /\ v.t = t /\ v.got = 0 /\ v.attempt = 1
    BY <2>1
  <2>3. row.c = w[x].c
    BY DEF Reserved
  <2> QED
    BY <2>1, <2>2, <2>3, Zenon
<1>3. RowTypes'
  BY <1>0, <1>1, <1>2 DEF RowTypes, WorkerState, Row, Occupying
<1>4. \A u \in Token \ {t} : /\ reservation'[u] = NoRow <=> reservation[u] = NoRow
                             /\ reservation'[u].c = reservation[u].c /\ RowFits(u)'
  BY <1>0, <1>1, SameRowFits
<1>5. row.c \in Connector /\ row.amount = _maximum_run_cost(row.c) /\ row.amount \in Nat /\ row.actual = 0
      /\ row.status = "reserved"
  BY <1>1 DEF Reserved, Row
<1>6. paid[t] = 0 /\ paid'[t] = 0
  BY <1>0, <1>1 DEF RowFits
<1>7. RowFits(t)'
  BY <1>1, <1>5, <1>6 DEF RowFits, Of
<1>8. \A y \in Worker : Live(y) => w[y].t \in Token \ {t}
  BY <1>0, <1>1, RowFacts DEF WorkerFits
<1>9. ASSUME NEW y \in Worker, y # x PROVE WorkerFits(y)'
  <2>1. w'[y] = w[y] /\ WorkerFits(y) /\ paid' = paid
    BY <1>0, <1>1, <1>2, <1>9 DEF RowTypes
  <2> QED
    BY <1>4, <1>8, <2>1 DEF WorkerFits, Live, At
<1>10. WorkerFits(x)'
  <2>1. w'[x] = v
    BY <1>0, <1>2 DEF RowTypes
  <2>2. Gets[row.c] \in Nat /\ MaxAttempts[row.c] \in Nat \ {0} /\ Hops \in Nat
    BY <1>5, BudgetAssumption
  <2>3. (0 * MaxAttempts[row.c] + 1 - 1) * Hops = 0
    BY <2>2
  <2> QED
    <3>1. v.got <= Gets[row.c] /\ v.attempt \in 1..MaxAttempts[row.c]
      BY <1>2, <2>2
    <3>2. paid'[t] <= (v.got * MaxAttempts[row.c] + v.attempt - 1) * Hops
      BY <1>2, <1>6, <2>3
    <3> QED
      BY <1>1, <1>2, <2>1, <3>1, <3>2 DEF WorkerFits, Live, At
<1>11. \A r \in runs' : r.c = reservation'[r.t].c
  <2>1. \A r \in runs : r.t \in Token \ {t}
    BY <1>1 DEF ChargeInv, ChargedIsConfirmed, Of, NoRow
  <2> QED
    BY <1>0, <1>1, <1>4, <2>1
<1> QED
  BY <1>1, <1>3, <1>4, <1>7, <1>9, <1>10, <1>11 DEF RowsInv

LEMMA RowsStep ==
  ASSUME ChargeInv, RowsInv, [Next]_vars
  PROVE  RowsInv'
<1>1. RowTypes
  BY DEF RowsInv
<1>2. ASSUME NEW x \in Worker, ReserveUnasked(x) PROVE RowsInv'
  BY <1>1, <1>2, ReserveForm, ReserveRows
<1> QED
  BY <1>1, <1>2, BudgetForms, QuietRows, GetRows, ReportRows, ResolveRows

(***************************************************************************)
(* Type correctness, and with it that no run pays more than was reserved   *)
(* for it, however its attempts fail and its redirects go.                 *)
(***************************************************************************)
THEOREM TypeCorrect == Spec => []TypeOK
<1>1. ASSUME ChargeInv, RowsInv PROVE TypeOK
  <2>0. RowTypes /\ (\A t \in Token : RowFits(t)) /\ (\A x \in Worker : WorkerFits(x))
        /\ \A r \in runs : r.c = reservation[r.t].c
    BY <1>1 DEF RowsInv
  <2>1. \A t \in Token : \/ reservation[t] = NoRow
                         \/ reservation[t] \in Row /\ reservation[t].actual <= reservation[t].amount
    BY <2>0 DEF RowTypes, RowFits
  <2>2. ASSUME NEW r \in runs
        PROVE  /\ r.t \in Token /\ r.result \in {"healthy", "failed"}
               /\ r.month \in Month /\ r.c \in Connector /\ r.cost \in 0.._maximum_run_cost(r.c)
    <3>1. r \in RunRecord /\ Of(r.t, {"confirmed"}) /\ r.cost = paid[r.t] /\ r.c = reservation[r.t].c
      BY <1>1, <2>0 DEF ChargeInv, ChargedIsConfirmed, RowTypes
    <3>2. r.t \in Token /\ reservation[r.t] # NoRow
      BY <3>1 DEF RunRecord, Of, NoRow
    <3>3. paid[r.t] <= _maximum_run_cost(r.c)
      BY <2>0, <3>1, <3>2 DEF RowFits
    <3>4. _maximum_run_cost(r.c) \in Nat
      BY <3>1, RunCostIsNat DEF RunRecord
    <3> QED
      BY <3>1, <3>3, <3>4 DEF RunRecord
  <2>3. ASSUME NEW x \in Worker
        PROVE  /\ w[x].pc \in {"idle", "begun", "collecting", "collected", "recorded", "failed"}
               /\ w[x].pc # "idle" => w[x].c \in Connector /\ w[x].started \in Month
               /\ w[x].pc \notin {"idle", "begun"} => w[x].t \in Token
    BY <2>0 DEF RowTypes, WorkerState, Idle
  <2>4. ASSUME NEW t \in Token
        PROVE  paid[t] \in 0..(IF reservation[t] = NoRow THEN 0 ELSE reservation[t].amount)
    <3>1. RowFits(t) /\ paid[t] \in Nat /\ (reservation[t] = NoRow \/ reservation[t] \in Row)
      BY <2>0 DEF RowTypes
    <3>2. CASE reservation[t] = NoRow
      BY <3>1, <3>2 DEF RowFits
    <3>3. CASE reservation[t] # NoRow
      <4>1. reservation[t].amount \in Nat
        BY <3>1, <3>3 DEF Row
      <4> QED
        BY <3>1, <3>3, <4>1 DEF RowFits
    <3> QED
      BY <3>2, <3>3
  <2> QED
    BY <2>0, <2>1, <2>2, <2>3, <2>4 DEF TypeOK, RowTypes, Row
<1>2. ChargeInv /\ RowsInv /\ [Next]_vars => ChargeInv' /\ RowsInv'
  BY StepCharges, RowsStep
<1> QED
  BY <1>1, <1>2, ChargeInit, RowsInit, PTL DEF Spec

-----------------------------------------------------------------------------
(* What a step does to a row that is there, and to what it claims.          *)

Kept(t) ==
    reservation[t] # NoRow =>
        /\ reservation'[t] # NoRow
        /\ reservation'[t].month = reservation[t].month /\ reservation'[t].c = reservation[t].c
        /\ Charge'[t] <= Charge[t]

NoneNew == \A t \in Token : reservation[t] = NoRow => reservation'[t] = NoRow

LEMMA ChargeIs ==
  ASSUME RowsInv, NEW t \in Token
  PROVE  /\ Charge[t] \in Nat
         /\ paid[t] \in Nat /\ paid[t] <= Charge[t]
         /\ Of(t, Active) => Charge[t] = reservation[t].amount
         /\ Of(t, {"confirmed", "reconciled_charged"}) => Charge[t] = reservation[t].actual
         /\ reservation[t] # NoRow /\ ~Of(t, Active) /\ ~Of(t, {"confirmed", "reconciled_charged"}) =>
               Of(t, {"released"}) /\ Charge[t] = 0
<1>1. RowFits(t) /\ paid[t] \in Nat /\ (reservation[t] = NoRow \/ reservation[t] \in Row)
  BY DEF RowsInv, RowTypes
<1>2. CASE reservation[t] = NoRow
  BY <1>1, <1>2 DEF Charge, Of, NoRow, Active, RowFits
<1>3. CASE reservation[t] \in Row
  <2>1. /\ reservation[t].amount \in Nat /\ reservation[t].actual \in Nat /\ reservation[t] # NoRow
        /\ reservation[t].status \in Occupying \cup {"confirmed", "released"}
    BY <1>3 DEF Row, NoRow, Occupying
  <2> QED
    BY <1>1, <2>1 DEF Charge, Of, Active, RowFits, Occupying
<1> QED
  BY <1>1, <1>2, <1>3

LEMMA SameRowKept ==
  ASSUME RowsInv, RowsInv', NEW t \in Token, SameRow(t)
  PROVE  Kept(t) /\ (reservation[t] = NoRow => reservation'[t] = NoRow)
<1>1. Charge[t] \in Nat
  BY ChargeIs
<1>2. CASE reservation'[t] = reservation[t]
  <2>1. Charge'[t] = Charge[t]
    BY <1>2 DEF Charge, Of
  <2> QED
    BY <1>1, <1>2, <2>1 DEF Kept
<1>3. CASE reservation'[t] # reservation[t]
  <2>1. /\ reservation[t] \in Row /\ reservation'[t] \in Row
        /\ reservation'[t].month = reservation[t].month /\ reservation'[t].c = reservation[t].c
        /\ reservation'[t].amount = reservation[t].amount /\ reservation'[t].actual = reservation[t].actual
        /\ Of(t, {"confirmed", "reconciled_charged"})' <=> Of(t, {"confirmed", "reconciled_charged"})
        /\ Of(t, Active)' <=> Of(t, Active)
    BY <1>3 DEF SameRow
  <2>2. Charge'[t] = Charge[t]
    BY <2>1 DEF Charge
  <2>3. NoRow \notin Row
    BY DEF NoRow, Row, Occupying
  <2> QED
    BY <1>1, <2>1, <2>2, <2>3 DEF Kept
<1> QED
  BY <1>2, <1>3

\* A row that is closed claims what was paid, instead of all that may be.
LEMMA ClosedKept ==
  ASSUME RowsInv, NEW t \in Token, reservation[t] \in Row, Of(t, Active), paid[t] <= reservation[t].amount,
         NEW row \in Row, RowBecomes(t, row), row.month = reservation[t].month, row.c = reservation[t].c,
         row.actual = paid[t], row.status \in {"confirmed", "released", "reconciled_charged"}
  PROVE  /\ \A u \in Token : Kept(u)
         /\ NoneNew
<1>1. NoRow \notin Row /\ reservation'[t] = row
  BY DEF NoRow, Row, Occupying, RowBecomes
<1>2. ASSUME NEW u \in Token, u # t PROVE Kept(u) /\ (reservation[u] = NoRow => reservation'[u] = NoRow)
  <2>1. reservation'[u] = reservation[u] /\ Charge[u] \in Nat
    BY <1>2, ChargeIs DEF RowBecomes
  <2>2. Charge'[u] = Charge[u]
    BY <2>1 DEF Charge, Of
  <2> QED
    BY <2>1, <2>2 DEF Kept
<1>3. Kept(t)
  <2>1. Charge[t] = reservation[t].amount /\ Charge[t] \in Nat /\ paid[t] \in Nat
    BY ChargeIs
  <2>2. Charge'[t] \in {0, paid[t]}
    BY <1>1 DEF Charge, Of, Active
  <2>3. Charge'[t] <= Charge[t]
    BY <2>1, <2>2
  <2> QED
    BY <1>1, <2>3 DEF Kept
<1> QED
  BY <1>1, <1>2, <1>3 DEF NoneNew

LEMMA ResolveKept ==
  ASSUME RowsInv, NEW t \in Token, resolve_connector_budget_reservation(t)
  PROVE  (\A u \in Token : Kept(u)) /\ NoneNew
<1>1. RowTypes /\ RowFits(t) /\ reservation[t] \in Row /\ Of(t, Active)
  <2>1. RowTypes /\ RowFits(t)
    BY DEF RowsInv
  <2>2. Of(t, Active)
    BY DEF resolve_connector_budget_reservation, Of, Active
  <2> QED
    BY <2>1, <2>2, RowFacts DEF Of, NoRow, Active
<1>2. PICK row : row = [reservation[t] EXCEPT !.status = IF paid[t] = 0 THEN "released" ELSE "reconciled_charged",
                                              !.actual = paid[t]]
  OBVIOUS
<1>3. /\ row \in Row /\ row.c = reservation[t].c /\ row.month = reservation[t].month
      /\ row.actual = paid[t] /\ row.status \in {"confirmed", "released", "reconciled_charged"}
  BY <1>1, <1>2 DEF Row, Occupying, RowTypes
<1>4. RowBecomes(t, row)
  BY <1>1, <1>2 DEF resolve_connector_budget_reservation, RowBecomes, RowTypes
<1>5. paid[t] <= reservation[t].amount
  BY <1>1 DEF RowFits, NoRow, Row, Occupying
<1> QED
  BY <1>1, <1>3, <1>4, <1>5, ClosedKept

LEMMA ReportKept ==
  ASSUME RowsInv, NEW x \in Worker, NEW result, Reports(x, result)
  PROVE  (\A u \in Token : Kept(u)) /\ NoneNew
<1>1. RowTypes /\ WorkerFits(x) /\ Live(x)
  BY DEF RowsInv, Reports
<1>2. PICK t \in Token : t = w[x].t
  BY <1>1, RowFacts
<1>3. reservation[t] \in Row
  BY <1>1, <1>2, RowFacts DEF WorkerFits
<1>4. PICK row : row = [reservation[t] EXCEPT !.status = "confirmed", !.actual = paid[t]]
  OBVIOUS
<1>5. /\ row \in Row /\ row.c = reservation[t].c /\ row.month = reservation[t].month
      /\ row.actual = paid[t] /\ row.status \in {"confirmed", "released", "reconciled_charged"}
  BY <1>1, <1>3, <1>4 DEF Row, Occupying, RowTypes
<1>6. RowBecomes(t, row)
  BY <1>1, <1>2, <1>4 DEF Reports, RecordAnyway, RowBecomes, RowTypes
<1>7. Of(t, Active) /\ paid[t] <= reservation[t].amount
  BY <1>2 DEF Reports
<1> QED
  BY <1>3, <1>5, <1>6, <1>7, ClosedKept

LEMMA QuietKept ==
  ASSUME RowsInv, RowsInv', Quiet
  PROVE  (\A u \in Token : Kept(u)) /\ NoneNew
BY SameRowKept DEF Quiet, NoneNew

LEMMA GetKept ==
  ASSUME RowsInv, RowsInv', NEW x \in Worker, get(x)
  PROVE  (\A u \in Token : Kept(u)) /\ NoneNew
BY SameRowKept DEF get, SameRow, NoneNew

-----------------------------------------------------------------------------
(* Where run and reservation fall into one month.                           *)

\* What a worker that goes on takes with it.
LEMMA MonthsAgree ==
  ASSUME RowsInv, OnTime, \A t \in Token : Kept(t), w' \in [Worker -> WorkerState],
         \A y \in Worker : w'[y].pc = "begun" => w'[y].started = month',
         \A y \in Worker : Live(y)' =>
            \/ Live(y) /\ w'[y].t = w[y].t /\ w'[y].started = w[y].started
            \/ reservation'[w'[y].t].month = w'[y].started,
         \A r \in runs' \ runs : r.month = reservation'[r.t].month,
         ChargeInv
  PROVE  OnTime'
<1>1. RowTypes /\ (\A y \in Worker : WorkerFits(y))
  BY DEF RowsInv
<1>2. \A y \in Worker : At(y, "begun")' => w'[y].started = month'
  BY DEF At
<1>3. ASSUME NEW y \in Worker, Live(y)' PROVE reservation'[w'[y].t].month = w'[y].started
  <2>1. CASE Live(y) /\ w'[y].t = w[y].t /\ w'[y].started = w[y].started
    <3>1. w[y].t \in Token /\ reservation[w[y].t] # NoRow /\ reservation[w[y].t].month = w[y].started
      BY <1>1, <2>1, RowFacts DEF OnTime, WorkerFits
    <3>2. reservation'[w[y].t].month = reservation[w[y].t].month
      BY <3>1 DEF Kept
    <3> QED
      BY <2>1, <3>1, <3>2
  <2> QED
    BY <1>3, <2>1
<1>4. ASSUME NEW r \in runs PROVE r.month = reservation'[r.t].month
  <2>1. r.t \in Token /\ reservation[r.t] # NoRow /\ r.month = reservation[r.t].month
    BY DEF ChargeInv, ChargedIsConfirmed, OnTime, Of, NoRow
  <2> QED
    BY <2>1 DEF Kept
<1>5. \A r \in runs' : r.month = reservation'[r.t].month
  BY <1>4
<1> QED
  BY <1>2, <1>3, <1>5 DEF OnTime

LEMMA OnTimeStep ==
  ASSUME ~MonthEndRace, ChargeInv, RowsInv, RowsInv', OnTime, [Next]_vars
  PROVE  OnTime'
<1>0. RowTypes /\ w' \in [Worker -> WorkerState] /\ w \in [Worker -> WorkerState]
  BY DEF RowsInv, RowTypes
<1>b. \A y \in Worker : w[y].pc = "begun" => w[y].started = month
  BY DEF OnTime, At
<1>1. CASE Quiet
  <2>1. \A t \in Token : Kept(t)
    BY <1>1, QuietKept
  <2>2. \A y \in Worker : w'[y].pc = "begun" => w'[y].started = month'
    BY <1>1, <1>b DEF Quiet
  <2>3. \A y \in Worker : Live(y)' => Live(y) /\ w'[y].t = w[y].t /\ w'[y].started = w[y].started
    BY <1>1 DEF Quiet, GoesOn, Idle, Live
  <2>4. runs' = runs
    BY <1>1 DEF Quiet
  <2> QED
    BY <1>0, <2>1, <2>2, <2>3, <2>4, MonthsAgree
<1>2. ASSUME NEW x \in Worker, get(x) PROVE OnTime'
  <2>1. \A t \in Token : Kept(t)
    BY <1>2, GetKept
  <2>2. At(x, "collecting") /\ Live(x) /\ UNCHANGED <<month, runs>>
    BY <1>2 DEF get, At, Live
  <2>3. w[x] \in [pc : {"collecting"}, c : Connector, started : Month, t : Token, got : Nat, attempt : Nat]
    BY <1>0, <2>2, RowFacts
  <2>4. PICK v \in {Answered(x), AttemptFails(x)} : w' = [w EXCEPT ![x] = v]
    BY <1>2, Zenon DEF get
  <2>5. v.pc # "begun" /\ v.t = w[x].t /\ v.started = w[x].started
    <3>1. CASE v = Answered(x)
      BY <2>3, <3>1 DEF Answered
    <3>2. CASE v = [w[x] EXCEPT !.attempt = @ + 1] \/ v = Over(x, "failed")
      BY <2>3, <3>2 DEF Over
    <3> QED
      BY <2>4, <3>1, <3>2 DEF AttemptFails
  <2>6. w'[x] = v /\ \A y \in Worker \ {x} : w'[y] = w[y]
    BY <1>0, <2>4
  <2>7. \A y \in Worker : w'[y].pc = "begun" => w'[y].started = month'
    BY <1>b, <2>2, <2>5, <2>6
  <2>8. \A y \in Worker : Live(y)' => Live(y) /\ w'[y].t = w[y].t /\ w'[y].started = w[y].started
    BY <2>2, <2>5, <2>6 DEF Live
  <2> QED
    BY <1>0, <2>1, <2>2, <2>7, <2>8, MonthsAgree
<1>3. ASSUME NEW x \in Worker, NEW result \in {"healthy", "failed"}, Reports(x, result) PROVE OnTime'
  <2>1. \A t \in Token : Kept(t)
    BY <1>3, ReportKept
  <2>2. PICK v : w' = [w EXCEPT ![x] = v] /\ GoesOn(x, v) /\ v.pc # "begun"
    BY <1>3 DEF Reports
  <2>3. w'[x] = v /\ \A y \in Worker \ {x} : w'[y] = w[y]
    BY <1>0, <2>2
  <2>4. Live(x) /\ UNCHANGED month
    BY <1>3 DEF Reports
  <2>5. \A y \in Worker : w'[y].pc = "begun" => w'[y].started = month'
    BY <1>b, <2>2, <2>3, <2>4
  <2>6. \A y \in Worker : Live(y)' => Live(y) /\ w'[y].t = w[y].t /\ w'[y].started = w[y].started
    BY <2>2, <2>3, <2>4 DEF Live, GoesOn, Idle
  <2>7. ASSUME NEW r \in runs' \ runs PROVE r.month = reservation'[r.t].month
    <3>1. r.t = w[x].t /\ r.month = w[x].started
      BY <1>3, <2>7 DEF Reports, RecordAnyway
    <3>2. w[x].t \in Token /\ reservation[w[x].t] # NoRow /\ reservation[w[x].t].month = w[x].started
      BY <1>0, <2>4, RowFacts DEF OnTime, RowsInv, WorkerFits
    <3>3. reservation'[w[x].t].month = reservation[w[x].t].month
      BY <2>1, <3>2 DEF Kept
    <3> QED
      BY <3>1, <3>2, <3>3
  <2> QED
    BY <1>0, <2>1, <2>5, <2>6, <2>7, MonthsAgree
<1>4. ASSUME NEW x \in Worker, NEW t, NEW row, Reserved(x, t, row) PROVE OnTime'
  <2>1. \A u \in Token : Kept(u)
    <3>1. \A u \in Token \ {t} : Kept(u)
      BY <1>0, <1>4, OthersExpire, SameRowKept
    <3>2. reservation[t] = NoRow
      BY <1>4 DEF Reserved
    <3> QED
      BY <3>1, <3>2 DEF Kept
  <2>2. PICK v : /\ w' = [w EXCEPT ![x] = v]
                 /\ v = [pc |-> "collecting", c |-> w[x].c, started |-> w[x].started, t |-> t,
                         got |-> 0, attempt |-> 1]
    BY <1>4 DEF Reserved
  <2>3. v.pc = "collecting" /\ v.t = t /\ v.started = w[x].started
    BY <2>2
  <2>4. w'[x] = v /\ \A y \in Worker \ {x} : w'[y] = w[y]
    BY <1>0, <2>2
  <2>5. UNCHANGED <<month, runs>> /\ row.month = month /\ w[x].started = month
    BY <1>4, <1>b DEF Reserved, At
  <2>6. reservation'[t] = row
    BY <1>0, <1>4, OthersExpire
  <2>7. \A y \in Worker : w'[y].pc = "begun" => w'[y].started = month'
    BY <1>b, <2>3, <2>4, <2>5
  <2>8. ASSUME NEW y \in Worker, Live(y)'
        PROVE  \/ Live(y) /\ w'[y].t = w[y].t /\ w'[y].started = w[y].started
               \/ reservation'[w'[y].t].month = w'[y].started
    <3>1. CASE y = x
      BY <2>3, <2>4, <2>5, <2>6, <3>1
    <3>2. CASE y # x
      BY <2>4, <2>8, <3>2 DEF Live
    <3> QED
      BY <3>1, <3>2
  <2> QED
    BY <1>0, <2>1, <2>5, <2>7, <2>8, MonthsAgree
<1>5. ASSUME NEW t \in Token, resolve_connector_budget_reservation(t) PROVE OnTime'
  <2>1. \A u \in Token : Kept(u)
    BY <1>5, ResolveKept
  <2>2. UNCHANGED <<month, runs, w>>
    BY <1>5 DEF resolve_connector_budget_reservation
  <2> QED
    BY <1>0, <1>b, <2>1, <2>2, MonthsAgree DEF Live
<1>6. ASSUME NEW x \in Worker, ReserveUnasked(x) PROVE OnTime'
  BY <1>0, <1>4, <1>6, ReserveForm
<1> QED
  BY <1>0, <1>1, <1>2, <1>3, <1>5, <1>6, BudgetForms

-----------------------------------------------------------------------------
(* What is claimed stays within the limits.                                 *)

LEMMA LimitIsNat ==
  ASSUME NEW cs, NEW limit, Limits(cs, limit)
  PROVE  limit \in Nat
BY BudgetAssumption DEF Limits, Family

LEMMA ClaimIsFinite ==
  ASSUME RowsInv, NEW m, NEW cs
  PROVE  /\ IsFiniteSet(TokensOf(m, cs)) /\ TokensOf(m, cs) \subseteq Token
         /\ IsFiniteSet(Claimed(m, cs)) /\ Cardinality(Claimed(m, cs)) \in Nat
<1>1. IsFiniteSet(Token)
  BY FS_Interval, BudgetAssumption DEF Token
<1>2. TokensOf(m, cs) \in SUBSET Token
  BY DEF TokensOf
<1>3. IsFiniteSet(TokensOf(m, cs))
  BY <1>1, <1>2, FS_Subset
<1>4. \A t \in TokensOf(m, cs) : Charge[t] \in Nat
  BY <1>2, ChargeIs
<1> QED
  BY <1>2, <1>3, <1>4, DotsAreFinite DEF Claimed

ClaimsAreFinite ==
    /\ \A t \in Token : Charge[t] \in Nat
    /\ \A m, cs : IsFiniteSet(Claimed(m, cs)) /\ Cardinality(Claimed(m, cs)) \in Nat

LEMMA ClaimsFinite == RowsInv => ClaimsAreFinite
BY ChargeIs, ClaimIsFinite DEF ClaimsAreFinite

\* The same after a step.
LEMMA ClaimsFiniteNext == RowsInv' => ClaimsAreFinite'
BY ClaimsFinite, PTL

\* Fewer claims.
LEMMA ClaimsShrink ==
  ASSUME RowsInv, RowsInv', NEW m, NEW cs,
         \A t \in TokensOf(m, cs)' : reservation[t] # NoRow /\ Kept(t)
  PROVE  Cardinality(Claimed(m, cs)') <= Cardinality(Claimed(m, cs))
<1>1. ASSUME NEW t \in TokensOf(m, cs)'
      PROVE  t \in TokensOf(m, cs) /\ Charge'[t] <= Charge[t] /\ Charge'[t] \in Nat /\ Charge[t] \in Nat
  <2>1. t \in Token /\ reservation[t] # NoRow /\ Kept(t) /\ reservation'[t].month = m /\ reservation'[t].c \in cs
    BY DEF TokensOf
  <2>2. ~Of(t, {"none"})
    BY <2>1, RowFacts DEF RowsInv
  <2>3. Charge[t] \in Nat /\ Charge'[t] \in Nat
    BY <2>1, ClaimsFinite, ClaimsFiniteNext DEF ClaimsAreFinite
  <2> QED
    BY <2>1, <2>2, <2>3 DEF TokensOf, Kept
<1>2. Claimed(m, cs)' \subseteq Claimed(m, cs)
  <2> SUFFICES ASSUME NEW p \in Claimed(m, cs)' PROVE p \in Claimed(m, cs)
    OBVIOUS
  <2>1. p \in TokensOf(m, cs)' \X Nat /\ p[2] < Charge'[p[1]]
    BY DEF Claimed, Dots
  <2>2. p[1] \in TokensOf(m, cs)' /\ p[2] \in Nat /\ p = <<p[1], p[2]>>
    BY <2>1
  <2>3. p[2] < Charge[p[1]] /\ p[1] \in TokensOf(m, cs)
    BY <1>1, <2>1, <2>2
  <2> QED
    BY <2>2, <2>3 DEF Claimed, Dots
<1> QED
  BY <1>2, ClaimIsFinite, FS_Subset

LEMMA ClaimsKept ==
  ASSUME RowsInv, RowsInv', ClaimsFit, \A t \in Token : Kept(t), NoneNew
  PROVE  ClaimsFit'
<1> SUFFICES ASSUME NEW m \in Month, NEW cs, NEW limit, Limits(cs, limit)
             PROVE  Cardinality(Claimed(m, cs)') <= limit
  BY DEF ClaimsFit, Limits, FamilyMembers
<1>1. ASSUME NEW t \in TokensOf(m, cs)' PROVE reservation[t] # NoRow /\ Kept(t)
  <2>1. t \in Token /\ ~Of(t, {"none"})'
    BY DEF TokensOf
  <2>2. reservation'[t] # NoRow
    BY <2>1 DEF Of, NoRow
  <2> QED
    BY <2>1, <2>2 DEF NoneNew
<1>2. Cardinality(Claimed(m, cs)') <= Cardinality(Claimed(m, cs))
  BY <1>1, ClaimsShrink
<1>3. Cardinality(Claimed(m, cs)) <= limit
  BY DEF ClaimsFit
<1>4. Cardinality(Claimed(m, cs)) \in Nat /\ Cardinality(Claimed(m, cs)') \in Nat /\ limit \in Nat
  <2>1. Cardinality(Claimed(m, cs)) \in Nat /\ Cardinality(Claimed(m, cs)') \in Nat
    BY ClaimsFinite, ClaimsFiniteNext DEF ClaimsAreFinite
  <2> QED
    BY <2>1, LimitIsNat
<1> QED
  BY <1>2, <1>3, <1>4

\* What is counted as spent covers what is claimed: a confirmed claim its run,
\* and every other one itself.
LEMMA SpendCovers ==
  ASSUME ChargeInv, RowsInv, OnTime, NEW m, NEW cs
  PROVE  /\ monthly_connector_spend(m, cs) \in Nat
         /\ Cardinality(Claimed(m, cs)) <= monthly_connector_spend(m, cs)
<1> DEFINE R == {r \in runs : r.month = m /\ r.c \in cs}
           T == {t \in Token : Of(t, Occupying) /\ reservation[t].month = m /\ reservation[t].c \in cs}
           C == {t \in TokensOf(m, cs) : Of(t, {"confirmed"})}
           nR == [r \in R |-> r.cost]
           nT == [t \in T |-> Occupied(t)]
           A == Dots(Charge, C)
           B == Dots(nT, T)
           D == Dots(nR, R)
<1>0. RowTypes /\ IsFiniteSet(Token)
  BY FS_Interval, BudgetAssumption DEF RowsInv, Token
<1>1. IsFiniteSet(R) /\ \A r \in R : r.cost \in Nat
  <2>1. IsFiniteSet(runs) /\ runs \subseteq RunRecord
    BY <1>0 DEF RowTypes
  <2> QED
    BY <2>1, FS_Subset DEF RunRecord
<1>2. RunsCost(m, cs) = Cardinality(D)
  <2> HIDE DEF R
  <2>1. MapThenSumSet(LAMBDA r : r.cost, R) = Cardinality(D)
    BY <1>1, CostOfRuns
  <2> QED
    BY <2>1 DEF RunsCost, R
<1>3. IsFiniteSet(T) /\ T \in SUBSET Token
  BY <1>0, FS_Subset
<1>4. ASSUME NEW t \in T PROVE Occupied(t) = Charge[t] /\ Charge[t] \in Nat
  <2>1. t \in Token /\ Charge[t] \in Nat
    BY ChargeIs
  <2>2. Of(t, {"reconciled_charged"}) \/ Of(t, Active)
    BY DEF Of, Occupying, Active
  <2>3. ~(Of(t, {"reconciled_charged"}) /\ Of(t, Active))
    BY DEF Of, Active
  <2>4. CASE Of(t, {"reconciled_charged"})
    <3>1. Of(t, {"confirmed", "reconciled_charged"})
      BY <2>4 DEF Of
    <3> QED
      BY <2>1, <2>4, <3>1, ChargeIs DEF Occupied
  <2>5. CASE Of(t, Active)
    BY <2>1, <2>3, <2>5, ChargeIs DEF Occupied
  <2> QED
    BY <2>1, <2>2, <2>4, <2>5
<1>5. ReservedFor(m, cs, Occupying) = Cardinality(B)
  <2> HIDE DEF T
  <2>1. MapThenSumSet(Occupied, T) = Cardinality(B)
    BY <1>3, <1>4, CostOfReservations
  <2> QED
    BY <2>1 DEF ReservedFor, T
<1>6. IsFiniteSet(D) /\ Cardinality(D) \in Nat
  <2>1. \A r \in R : nR[r] \in Nat
    BY <1>1
  <2> HIDE DEF R, nR
  <2> QED
    BY <1>1, <2>1, DotsAreFinite
<1>7. IsFiniteSet(B) /\ Cardinality(B) \in Nat
  <2>1. \A t \in T : nT[t] \in Nat
    BY <1>4
  <2> HIDE DEF T, nT
  <2> QED
    BY <1>3, <2>1, DotsAreFinite
<1>8. Claimed(m, cs) = A \cup (B \cap Claimed(m, cs))
  <2>1. A \subseteq Claimed(m, cs)
    BY DEF Dots, Claimed
  <2>2. ASSUME NEW p \in Claimed(m, cs), p \notin A PROVE p \in B
    <3>1. p \in TokensOf(m, cs) \X Nat /\ p[2] < Charge[p[1]]
      BY DEF Claimed, Dots
    <3>2. PICK t \in TokensOf(m, cs), i \in Nat : p = <<t, i>> /\ i < Charge[t]
      BY <3>1
    <3>3. t \in Token /\ reservation[t] # NoRow /\ reservation[t].month = m /\ reservation[t].c \in cs
      BY DEF TokensOf, Of, NoRow
    <3>4. Of(t, Active) \/ Of(t, {"confirmed", "reconciled_charged"})
      <4>1. Charge[t] # 0
        BY <3>2
      <4> QED
        BY <3>3, <4>1, ChargeIs
    <3>5. ~Of(t, {"confirmed"})
      BY <2>2, <3>2 DEF Dots
    <3>6. t \in T
      BY <3>3, <3>4, <3>5 DEF Of, Active, Occupying
    <3>7. nT[t] = Charge[t]
      BY <1>4, <3>6
    <3> HIDE DEF T, nT
    <3> QED
      BY <3>2, <3>6, <3>7 DEF Dots
  <2> HIDE DEF A, B
  <2> QED
    BY <2>1, <2>2
<1>9. IsFiniteSet(A) /\ Cardinality(A) <= Cardinality(D)
  <2> DEFINE RunOf(t) == CHOOSE r \in runs : r.t = t
             f == [p \in A |-> <<RunOf(p[1]), p[2]>>]
  <2>1. ASSUME NEW t \in C PROVE RunOf(t) \in R /\ RunOf(t).t = t /\ RunOf(t).cost = Charge[t]
    <3>1. t \in Token /\ Of(t, {"confirmed"}) /\ reservation[t].month = m /\ reservation[t].c \in cs
      BY DEF TokensOf
    <3>2. RunOf(t) \in runs /\ RunOf(t).t = t
      BY <3>1 DEF ChargeInv, ConfirmedIsCharged
    <3> HIDE DEF RunOf
    <3>3. RunOf(t).cost = paid[t] /\ RunOf(t).month = m /\ RunOf(t).c \in cs
      BY <3>1, <3>2 DEF ChargeInv, ChargedIsConfirmed, OnTime, RowsInv
    <3>4. Of(t, {"confirmed", "reconciled_charged"}) /\ RowFits(t)
      BY <3>1 DEF Of, RowsInv
    <3>5. Charge[t] = paid[t]
      BY <3>1, <3>4, ChargeIs DEF RowFits
    <3> QED
      BY <3>2, <3>3, <3>5
  <2> HIDE DEF RunOf, C, R
  <2>2. ASSUME NEW p \in A PROVE p = <<p[1], p[2]>> /\ p[1] \in C /\ p[2] \in Nat /\ p[2] < Charge[p[1]]
    BY DEF Dots
  <2>3. ASSUME NEW p \in A PROVE f[p] \in D
    <3>1. nR[RunOf(p[1])] = Charge[p[1]]
      BY <2>1, <2>2
    <3>2. f[p] = <<RunOf(p[1]), p[2]>> /\ RunOf(p[1]) \in R /\ p[2] \in Nat /\ p[2] < nR[RunOf(p[1])]
      BY <2>1, <2>2, <3>1
    <3> HIDE DEF nR, f
    <3> QED
      BY <3>2 DEF Dots
  <2>4. ASSUME NEW p \in A, NEW q \in A, f[p] = f[q] PROVE p = q
    <3>1. RunOf(p[1]) = RunOf(q[1]) /\ p[2] = q[2]
      BY <2>4
    <3>2. p[1] = q[1]
      BY <2>1, <2>2, <3>1
    <3> QED
      BY <2>2, <3>1, <3>2
  <2> HIDE DEF A, D
  <2>5. f \in [A -> D]
    BY <2>3
  <2> HIDE DEF f
  <2>6. f \in Injection(A, D)
    BY <2>4, <2>5 DEF Injection, IsInjective
  <2> QED
    BY <1>6, <2>6, FS_Injection DEF D
<1> HIDE DEF A, B, D
<1> DEFINE E == B \cap Claimed(m, cs)
<1>10. IsFiniteSet(E) /\ Cardinality(E) <= Cardinality(B)
  BY <1>7, FS_Intersection
<1>11. Claimed(m, cs) = A \cup E
  BY <1>8
<1> HIDE DEF E
<1>12. Cardinality(A \cup E) = Cardinality(A) + Cardinality(E) - Cardinality(A \cap E)
  BY <1>9, <1>10, FS_Union
<1>13. Cardinality(A) \in Nat /\ Cardinality(E) \in Nat /\ Cardinality(A \cap E) \in Nat
  BY <1>9, <1>10, FS_Intersection, FS_CardinalityType
<1>14. monthly_connector_spend(m, cs) = Cardinality(D) + Cardinality(B)
  BY <1>2, <1>5 DEF monthly_connector_spend
<1> QED
  BY <1>6, <1>7, <1>9, <1>10, <1>11, <1>12, <1>13, <1>14

\* A connector is asked for every limit it counts for.
LEMMA FitsEveryLimit ==
  ASSUME NEW c \in Connector, Fits(c), NEW cs, NEW limit, Limits(cs, limit), c \in cs
  PROVE  monthly_connector_spend(month, cs) + _maximum_run_cost(c) <= limit
<1>1. CASE cs = Connector /\ limit = TotalLimit
  BY <1>1 DEF Fits
<1>2. ASSUME NEW d \in Connector, cs = {d}, limit = ConnectorLimit[d]
      PROVE  monthly_connector_spend(month, cs) + _maximum_run_cost(c) <= limit
  BY <1>2 DEF Fits
<1>3. ASSUME NEW d \in Connector, cs = FamilyMembers(d), limit = FamilyLimit[FamilyOf[d]]
      PROVE  monthly_connector_spend(month, cs) + _maximum_run_cost(c) <= limit
  <2>1. FamilyOf[c] = FamilyOf[d] /\ FamilyMembers(c) = FamilyMembers(d)
    BY <1>3 DEF FamilyMembers
  <2> QED
    BY <1>3, <2>1 DEF Fits
<1> QED
  BY <1>1, <1>2, <1>3 DEF Limits

\* A claim more, of as much as was asked for.
LEMMA ClaimsMade ==
  ASSUME ChargeInv, RowsInv, RowsInv', OnTime, ClaimsFit,
         NEW x \in Worker, NEW t, NEW row, Reserved(x, t, row), Fits(w[x].c)
  PROVE  ClaimsFit'
<1> SUFFICES ASSUME NEW m \in Month, NEW cs, NEW limit, Limits(cs, limit)
             PROVE  Cardinality(Claimed(m, cs)') <= limit
  BY DEF ClaimsFit, Limits, FamilyMembers
<1>0. RowTypes
  BY DEF RowsInv
<1>1. /\ t \in Token /\ reservation[t] = NoRow /\ reservation'[t] = row /\ row.month = month /\ row.c = w[x].c
      /\ row.c \in Connector /\ row.status = "reserved" /\ row.amount = _maximum_run_cost(row.c)
  <2>1. reservation'[t] = row
    BY <1>0, OthersExpire
  <2> QED
    BY <2>1 DEF Reserved
<1>2. \A u \in Token \ {t} : Kept(u) /\ (reservation[u] = NoRow => reservation'[u] = NoRow)
  BY <1>0, OthersExpire, SameRowKept
<1>3. ASSUME NEW u \in TokensOf(m, cs)', u # t PROVE reservation[u] # NoRow /\ Kept(u)
  <2>1. u \in Token /\ reservation'[u] # NoRow
    BY DEF TokensOf, Of, NoRow
  <2> QED
    BY <1>2, <1>3, <2>1
<1>4. Cardinality(Claimed(m, cs)) <= limit
  BY DEF ClaimsFit
<1>5. ClaimsAreFinite /\ ClaimsAreFinite' /\ limit \in Nat
  BY ClaimsFinite, ClaimsFiniteNext, LimitIsNat
<1>6. CASE t \notin TokensOf(m, cs)'
  <2>1. \A u \in TokensOf(m, cs)' : reservation[u] # NoRow /\ Kept(u)
    BY <1>3, <1>6
  <2>2. Cardinality(Claimed(m, cs)') <= Cardinality(Claimed(m, cs))
    BY <2>1, ClaimsShrink
  <2>3. Cardinality(Claimed(m, cs)) \in Nat /\ Cardinality(Claimed(m, cs)') \in Nat
    BY <1>5 DEF ClaimsAreFinite
  <2> QED
    BY <1>4, <1>5, <2>2, <2>3
<1>7. CASE t \in TokensOf(m, cs)'
  <2>1. m = month /\ row.c \in cs
    BY <1>1, <1>7 DEF TokensOf
  <2>2. monthly_connector_spend(m, cs) + row.amount <= limit
    BY <1>1, <2>1, FitsEveryLimit
  <2>3. /\ monthly_connector_spend(m, cs) \in Nat
        /\ Cardinality(Claimed(m, cs)) <= monthly_connector_spend(m, cs)
    BY SpendCovers
  <2>4. Charge'[t] = row.amount /\ row.amount \in Nat
    <3>1. Charge'[t] = row.amount
      BY <1>1 DEF Charge, Of, Active
    <3> QED
      BY <1>1, <3>1, RunCostIsNat
  <2> DEFINE one == Dots(Charge', {t})
  <2>5. IsFiniteSet(one) /\ Cardinality(one) = row.amount
    BY <2>4, DotsOfOne
  <2>6. Claimed(m, cs)' \subseteq Claimed(m, cs) \cup one
    <3> SUFFICES ASSUME NEW p \in Claimed(m, cs)' PROVE p \in Claimed(m, cs) \cup one
      OBVIOUS
    <3>1. p \in TokensOf(m, cs)' \X Nat /\ p[2] < Charge'[p[1]]
      BY DEF Claimed, Dots
    <3>2. p[1] \in TokensOf(m, cs)' /\ p[2] \in Nat /\ p = <<p[1], p[2]>>
      BY <3>1
    <3>3. CASE p[1] = t
      BY <3>1, <3>2, <3>3 DEF Dots
    <3>4. CASE p[1] # t
      <4>1. PICK u \in TokensOf(m, cs)' : u = p[1] /\ u # t
        BY <3>2, <3>4
      <4>2. u \in Token /\ reservation[u] # NoRow /\ Kept(u) /\ reservation'[u].month = m /\ reservation'[u].c \in cs
        BY <1>3, <4>1 DEF TokensOf
      <4>3. Charge[u] \in Nat /\ Charge'[u] \in Nat /\ Charge'[u] <= Charge[u]
        BY <1>5, <4>2 DEF ClaimsAreFinite, Kept
      <4>4. u \in TokensOf(m, cs)
        BY <1>0, <4>2, RowFacts DEF TokensOf, Kept
      <4>5. p[2] < Charge[p[1]]
        BY <3>1, <3>2, <4>1, <4>3
      <4> QED
        BY <3>2, <4>1, <4>4, <4>5 DEF Claimed, Dots
    <3> QED
      BY <3>3, <3>4
  <2> HIDE DEF one
  <2>7. IsFiniteSet(Claimed(m, cs)) /\ Cardinality(Claimed(m, cs)) \in Nat /\ Cardinality(Claimed(m, cs)') \in Nat
    BY <1>5 DEF ClaimsAreFinite
  <2>8. /\ IsFiniteSet(Claimed(m, cs) \cup one)
        /\ Cardinality(Claimed(m, cs) \cup one)
             = Cardinality(Claimed(m, cs)) + Cardinality(one) - Cardinality(Claimed(m, cs) \cap one)
    BY <2>5, <2>7, FS_Union
  <2>9. Cardinality(Claimed(m, cs) \cap one) \in Nat /\ Cardinality(Claimed(m, cs) \cup one) \in Nat
    BY <2>5, <2>8, FS_Intersection, FS_CardinalityType
  <2>10. Cardinality(Claimed(m, cs)') <= Cardinality(Claimed(m, cs) \cup one)
    BY <2>6, <2>8, FS_Subset
  <2>11. Cardinality(Claimed(m, cs) \cup one) <= Cardinality(Claimed(m, cs)) + row.amount
    BY <2>4, <2>5, <2>7, <2>8, <2>9
  <2> QED
    BY <1>5, <2>2, <2>3, <2>4, <2>7, <2>9, <2>10, <2>11
<1> QED
  BY <1>6, <1>7

LEMMA LimitInit == Init => LimitInv
<1> SUFFICES ASSUME Init PROVE LimitInv
  OBVIOUS
<1>1. ChargeInv /\ RowsInv /\ OnTime
  BY ChargeInit, RowsInit DEF Init, OnTime, At, Live, Idle
<1>2. ASSUME NEW m \in Month, NEW cs, NEW limit, Limits(cs, limit)
      PROVE  Cardinality(Claimed(m, cs)) <= limit
  <2>1. Claimed(m, cs) = {}
    BY DEF Init, Claimed, Dots, TokensOf, Of, NoRow
  <2>2. Cardinality(Claimed(m, cs)) = 0
    BY <2>1, FS_EmptySet
  <2> QED
    BY <1>2, <2>2, LimitIsNat
<1> QED
  BY <1>1, <1>2 DEF LimitInv, ClaimsFit

LEMMA LimitStep ==
  ASSUME ~MonthEndRace, LimitInv, [Next]_vars
  PROVE  LimitInv'
<1>0. ChargeInv /\ RowsInv /\ OnTime /\ ClaimsFit /\ RowTypes
  BY DEF LimitInv, RowsInv
<1>1. ChargeInv' /\ RowsInv' /\ OnTime'
  BY <1>0, StepCharges, RowsStep, OnTimeStep
<1>2. ASSUME NEW x \in Worker, ReserveUnasked(x), Fits(w[x].c) PROVE ClaimsFit'
  BY <1>0, <1>1, <1>2, ReserveForm, ClaimsMade
<1>3. ClaimsFit'
  BY <1>0, <1>1, <1>2, BudgetForms, QuietKept, GetKept, ReportKept, ResolveKept, ClaimsKept
<1> QED
  BY <1>1, <1>3 DEF LimitInv

\* What is paid is part of what is claimed.
LEMMA PaidIsClaimed ==
  ASSUME RowsInv, NEW m, NEW cs
  PROVE  Paid(m, cs) \in Nat /\ Paid(m, cs) <= Cardinality(Claimed(m, cs))
<1>1. IsFiniteSet(TokensOf(m, cs)) /\ TokensOf(m, cs) \subseteq Token /\ IsFiniteSet(Claimed(m, cs))
  BY ClaimIsFinite
<1>2. \A t \in TokensOf(m, cs) : paid[t] \in Nat /\ Charge[t] \in Nat /\ paid[t] <= Charge[t]
  BY <1>1, ChargeIs
<1>3. Paid(m, cs) = Cardinality(Dots(paid, TokensOf(m, cs)))
  <2>1. MapThenSumSet(LAMBDA t : paid[t], TokensOf(m, cs)) = Cardinality(Dots(paid, TokensOf(m, cs)))
    BY <1>1, <1>2, CostOfRequests
  <2> QED
    BY <2>1 DEF Paid, TokensOf
<1>4. Dots(paid, TokensOf(m, cs)) \subseteq Claimed(m, cs)
  <2> SUFFICES ASSUME NEW p \in Dots(paid, TokensOf(m, cs)) PROVE p \in Claimed(m, cs)
    OBVIOUS
  <2>1. p = <<p[1], p[2]>> /\ p[1] \in TokensOf(m, cs) /\ p[2] \in Nat /\ p[2] < paid[p[1]]
    BY DEF Dots
  <2>2. p[2] < Charge[p[1]]
    BY <1>2, <2>1
  <2> QED
    BY <2>1, <2>2 DEF Claimed, Dots
<1> QED
  BY <1>1, <1>3, <1>4, FS_Subset, FS_CardinalityType

(***************************************************************************)
(* What the provider charges for a month stays within the total, the       *)
(* connector's and the family's limit, as long as no month ends between    *)
(* the start of a run and its reservation: however many workers reserve at *)
(* once, whatever fails, and whatever the operator resolves.               *)
(***************************************************************************)
THEOREM ChargesStayWithinLimits == ~MonthEndRace => (Spec => []WithinLimit)
<1> SUFFICES ASSUME ~MonthEndRace PROVE Spec => []WithinLimit
  OBVIOUS
<1>1. ASSUME LimitInv PROVE WithinLimit
  <2>1. ASSUME NEW m \in Month, NEW cs, NEW limit, Limits(cs, limit) PROVE Paid(m, cs) <= limit
    <3>1. Paid(m, cs) \in Nat /\ Paid(m, cs) <= Cardinality(Claimed(m, cs)) /\ Cardinality(Claimed(m, cs)) \in Nat
      BY <1>1, PaidIsClaimed, ClaimIsFinite DEF LimitInv
    <3>2. Cardinality(Claimed(m, cs)) <= limit /\ limit \in Nat
      BY <1>1, <2>1, LimitIsNat DEF LimitInv, ClaimsFit
    <3> QED
      BY <3>1, <3>2
  <2>2. /\ Limits(Connector, TotalLimit)
        /\ \A c \in Connector : /\ Limits({c}, ConnectorLimit[c])
                                /\ Limits(FamilyMembers(c), FamilyLimit[FamilyOf[c]])
    BY DEF Limits
  <2> QED
    BY <2>1, <2>2 DEF WithinLimit
<1>2. LimitInv /\ [Next]_vars => LimitInv'
  BY LimitStep
<1> QED
  BY <1>1, <1>2, LimitInit, PTL DEF Spec

=============================================================================
