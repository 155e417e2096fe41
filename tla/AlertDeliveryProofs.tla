------------------------ MODULE AlertDeliveryProofs ------------------------
(* Proofs about alert delivery, for any number of workers, messages and     *)
(* rules, any budget and any number of faults.                              *)
EXTENDS AlertDelivery, FiniteSetTheorems, WellFoundedInduction, TLAPS

Fields == {"pc", "queue", "m", "r", "todo", "seen", "retry", "done", "lost"}

Types ==
    /\ alert \in [Key -> Status]
    /\ DOMAIN w = Worker
    /\ \A x \in Worker : DOMAIN w[x] = Fields

-----------------------------------------------------------------------------
(***************************************************************************)
(* Who is about to confirm a webhook has seen the receiver accept it, and  *)
(* recovering an earlier attempt confirms nothing but in_app alerts.       *)
(***************************************************************************)
Accepted(x) ==
    /\ At(x, "confirm") /\ w[x].r \in Webhook => KeyOf(x) \in sent
    /\ At(x, "recover") => w[x].todo \cap Webhook = {}

AcceptedInv == Types /\ DeliveredWasSent /\ \A x \in Worker : Accepted(x)

LEMMA IdleWorker == DOMAIN Idle = Fields /\ Idle.pc = "idle"
BY DEF Idle, Fields

LEMMA AcceptedInit == Init => AcceptedInv
<1> SUFFICES ASSUME Init PROVE AcceptedInv
  OBVIOUS
<1>1. Types
  BY DEF Init, Types, Status, Idle, Fields
<1>2. DeliveredWasSent
  BY DEF Init, DeliveredWasSent, Delivered
<1>3. ASSUME NEW x \in Worker PROVE Accepted(x)
  BY DEF Init, Accepted, At, Idle
<1> QED
  BY <1>1, <1>2, <1>3 DEF AcceptedInv

\* What a step of one worker leaves of the others' conditions.
LEMMA OthersAccept ==
  ASSUME NEW x \in Worker, NEW v, AcceptedInv, w' = [w EXCEPT ![x] = v], sent \subseteq sent'
  PROVE  \A y \in Worker \ {x} : Accepted(y)'
BY DEF AcceptedInv, Accepted, At, KeyOf, Types

\* A step that neither confirms nor posts, and after which its worker does neither.
LEMMA QuietStep ==
  ASSUME NEW x \in Worker, NEW v, AcceptedInv, w' = [w EXCEPT ![x] = v], DOMAIN v = Fields,
         v.pc \notin {"confirm", "recover"}, UNCHANGED sent,
         alert' \in [Key -> Status], \A k \in Key : alert'[k] = "delivered" => alert[k] = "delivered"
  PROVE  AcceptedInv'
<1>1. Types'
  BY DEF AcceptedInv, Types
<1>2. DeliveredWasSent'
  BY DEF AcceptedInv, DeliveredWasSent, Delivered
<1>3. Accepted(x)'
  BY DEF AcceptedInv, Types, Accepted, At
<1> QED
  BY <1>1, <1>2, <1>3, OthersAccept DEF AcceptedInv

\* abort_alert_reservation and GiveBack confirm nothing.
LEMMA AbortListedQuiet ==
  ASSUME NEW x \in Worker, NEW pc \in {"orphans", "cleanup", "drop"}, NEW after \in {"ack", "bury"},
         NEW broken \in {"failed", "idle"}, AcceptedInv, AbortListed(x, pc, after, broken)
  PROVE  AcceptedInv'
<1> USE DEF AcceptedInv, Types, Fields
<1>1. CASE w[x].todo = {} /\ Go(x, after) /\ UNCHANGED alert
  <2>1. w' = [w EXCEPT ![x] = [w[x] EXCEPT !.pc = after]]
    BY <1>1 DEF Go
  <2> QED
    BY <1>1, <2>1, QuietStep DEF AbortListed
<1>2. ASSUME NEW r \in w[x].todo, Abortable(<<w[x].m, r>>),
             abort_alert_reservation(<<w[x].m, r>>), w' = [w EXCEPT ![x].todo = @ \ {r}]
      PROVE  AcceptedInv'
  <2>1. w' = [w EXCEPT ![x] = [w[x] EXCEPT !.todo = @ \ {r}]]
    BY <1>2
  <2>2. w[x].pc = pc
    BY DEF AbortListed, At
  <2>3. alert' \in [Key -> Status] /\ \A k \in Key : alert'[k] = "delivered" => alert[k] = "delivered"
    BY <1>2 DEF abort_alert_reservation, Status
  <2> QED
    BY <2>1, <2>2, <2>3, QuietStep DEF AbortListed
<1>3. CASE UNCHANGED alert /\ w' = [w EXCEPT ![x] = Idle]
  BY <1>3, QuietStep DEF AbortListed, Idle
<1>4. CASE UNCHANGED alert /\ broken = "failed" /\ w' = [w EXCEPT ![x].pc = broken]
  <2>1. w' = [w EXCEPT ![x] = [w[x] EXCEPT !.pc = broken]]
    BY <1>4
  <2> QED
    BY <1>4, <2>1, QuietStep DEF AbortListed
<1> QED
  BY <1>1, <1>2, <1>3, <1>4 DEF AbortListed

\* A step that only moves its worker on to a place where nothing is confirmed.
LEMMA MovesOn ==
  ASSUME NEW x \in Worker, AcceptedInv,
         \/ NextMessage(x) /\ ~w'[x].pc = "recover"
         \/ ReadEvent(x) \/ Ack(x) \/ Failed(x) \/ Bury(x) \/ AckBuried(x) \/ ConfirmFails(x)
         \/ Crash(x) \/ \E claimed \in SUBSET Pending : PickUp(x, claimed)
  PROVE  AcceptedInv'
<1> USE DEF AcceptedInv, Types, Fields
<1>1. UNCHANGED <<alert, sent>> /\ alert' \in [Key -> Status]
  BY DEF NextMessage, ReadEvent, Ack, Failed, Bury, AckBuried, ConfirmFails, Crash, PickUp
<1>2. \E v : /\ w' = [w EXCEPT ![x] = v] /\ DOMAIN v = Fields
             /\ v.pc \notin {"confirm", "recover"}
  <2>0. CASE w' = [w EXCEPT ![x] = Idle]
    BY <2>0, IdleWorker
  <2>1. CASE NextMessage(x) /\ ~w'[x].pc = "recover"
    <3> DEFINE u == [Idle EXCEPT !.pc = "recover", !.queue = w[x].queue \ {Min(w[x].queue)},
                                 !.m = Min(w[x].queue), !.todo = LeftBehind(Min(w[x].queue))]
    <3>1. CASE w' = [w EXCEPT ![x] = u]
      BY <2>1, <3>1 DEF Idle
    <3> HIDE DEF u
    <3>2. w' = [w EXCEPT ![x] = u] \/ w' = [w EXCEPT ![x] = Idle]
      BY <2>1 DEF NextMessage, u
    <3> QED
      BY <2>0, <3>1, <3>2
  <2>2. CASE ReadEvent(x)
    BY <2>2 DEF ReadEvent
  <2>3. CASE Ack(x)
    BY <2>0, <2>3 DEF Ack, Go
  <2>4. CASE Failed(x)
    <3>1. \/ w' = [w EXCEPT ![x] = Idle]
          \/ w' = [w EXCEPT ![x] = [w[x] EXCEPT !.pc = "next"]]
          \/ w' = [w EXCEPT ![x] = [w[x] EXCEPT !.pc = "drop", !.todo = ToAbort(w[x].m)]]
      BY <2>4 DEF Failed
    <3> DEFINE u == [w[x] EXCEPT !.pc = "next"]
               v == [w[x] EXCEPT !.pc = "drop", !.todo = ToAbort(w[x].m)]
    <3>2. DOMAIN u = Fields /\ u.pc = "next" /\ DOMAIN v = Fields /\ v.pc = "drop"
      OBVIOUS
    <3> HIDE DEF u, v
    <3>3. w' = [w EXCEPT ![x] = Idle] \/ w' = [w EXCEPT ![x] = u] \/ w' = [w EXCEPT ![x] = v]
      BY <3>1 DEF u, v
    <3> QED
      BY <2>0, <3>2, <3>3
  <2>5. CASE Bury(x) \/ AckBuried(x) \/ ConfirmFails(x)
    BY <2>5 DEF Bury, AckBuried, ConfirmFails, Go
  <2>6. CASE Crash(x)
    BY <2>0, <2>6 DEF Crash
  <2>7. CASE \E claimed \in SUBSET Pending : PickUp(x, claimed)
    <3>1. PICK batch : w' = [w EXCEPT ![x] = [Idle EXCEPT !.pc = "next", !.queue = batch]]
      BY <2>7 DEF PickUp
    <3>2. DOMAIN [Idle EXCEPT !.pc = "next", !.queue = batch] = Fields
          /\ [Idle EXCEPT !.pc = "next", !.queue = batch].pc = "next"
      BY IdleWorker
    <3> QED
      BY <3>1, <3>2
  <2> QED
    BY <2>1, <2>2, <2>3, <2>4, <2>5, <2>6, <2>7
<1> QED
  BY <1>1, <1>2, QuietStep

\* NextMessage lists the in_app reservations only.
LEMMA RecoversInApp ==
  ASSUME NEW x \in Worker, AcceptedInv, NextMessage(x), w'[x].pc = "recover"
  PROVE  AcceptedInv'
<1> USE DEF AcceptedInv, Types, Fields
<1> DEFINE m == Min(w[x].queue)
<1> DEFINE u == [Idle EXCEPT !.pc = "recover", !.queue = w[x].queue \ {m}, !.m = m, !.todo = LeftBehind(m)]
<1>1. w' = [w EXCEPT ![x] = u]
  <2>1. w' # [w EXCEPT ![x] = Idle]
    BY IdleWorker
  <2> QED
    BY <2>1 DEF NextMessage
<1>u. DOMAIN u = Fields /\ u.pc = "recover" /\ u.todo \cap Webhook = {}
  BY DEF Idle, LeftBehind, ReservationsOf
<1> HIDE DEF u, m
<1>2. Types' /\ DeliveredWasSent'
  BY <1>1, <1>u DEF NextMessage, DeliveredWasSent, Delivered
<1>3. Accepted(x)'
  BY <1>1, <1>u DEF Accepted, At
<1> QED
  BY <1>1, <1>2, <1>3, OthersAccept DEF NextMessage

LEMMA RecoverAccepts ==
  ASSUME NEW x \in Worker, AcceptedInv, Recover(x)
  PROVE  AcceptedInv'
<1> USE DEF AcceptedInv, Types, Fields
<1>1. CASE Go(x, "event") /\ UNCHANGED alert
  <2>1. w' = [w EXCEPT ![x] = [w[x] EXCEPT !.pc = "event"]]
    BY <1>1 DEF Go
  <2> QED
    BY <1>1, <2>1, QuietStep DEF Recover
<1>2. CASE Go(x, "failed") /\ UNCHANGED alert
  <2>1. w' = [w EXCEPT ![x] = [w[x] EXCEPT !.pc = "failed"]]
    BY <1>2 DEF Go
  <2> QED
    BY <1>2, <2>1, QuietStep DEF Recover
<1>3. ASSUME NEW r \in w[x].todo, confirm_alert_delivery(<<w[x].m, r>>),
             w' = [w EXCEPT ![x].todo = @ \ {r}]
      PROVE  AcceptedInv'
  <2>1. w' = [w EXCEPT ![x] = [w[x] EXCEPT !.todo = @ \ {r}]]
    BY <1>3
  <2>2. r \notin Webhook /\ w[x].todo \cap Webhook = {}
    BY DEF Recover, Accepted, At
  <2>3. alert' \in [Key -> Status] /\ UNCHANGED sent
    BY <1>3 DEF Recover, confirm_alert_delivery, Status
  <2>4. Types'
    BY <2>1, <2>3
  <2>5. DeliveredWasSent'
    BY <1>3, <2>2, <2>3 DEF DeliveredWasSent, Delivered, confirm_alert_delivery
  <2>6. Accepted(x)'
    BY <2>1, <2>2 DEF Accepted, At, Recover
  <2> QED
    BY <2>1, <2>3, <2>4, <2>5, <2>6, OthersAccept
<1> QED
  BY <1>1, <1>2, <1>3 DEF Recover

\* An in_app reservation is confirmed at once, a webhook is posted first.
LEMMA LookupAccepts ==
  ASSUME NEW x \in Worker, AcceptedInv, Lookup(x)
  PROVE  AcceptedInv'
<1> USE DEF AcceptedInv, Types, Fields
<1>1. PICK v : w' = [w EXCEPT ![x] = v] /\ DOMAIN v = Fields /\ v.pc # "recover"
              /\ (v.pc = "confirm" => v.r \notin Webhook)
  BY DEF Lookup, NextRule
<1>2. Types' /\ DeliveredWasSent'
  BY <1>1 DEF Lookup, DeliveredWasSent, Delivered
<1>3. Accepted(x)'
  BY <1>1 DEF Accepted, At
<1> QED
  BY <1>1, <1>2, <1>3, OthersAccept DEF Lookup

LEMMA ReserveAccepts ==
  ASSUME NEW x \in Worker, AcceptedInv, Reserve(x)
  PROVE  AcceptedInv'
<1> USE DEF AcceptedInv, Types, Fields
<1>1. PICK v : w' = [w EXCEPT ![x] = v] /\ DOMAIN v = Fields /\ v.pc # "recover"
              /\ (v.pc = "confirm" => v.r \notin Webhook)
  BY DEF Reserve, NextRule, Go
<1>2. Types' /\ DeliveredWasSent'
  BY <1>1 DEF Reserve, DeliveredWasSent, Delivered, Status
<1>3. Accepted(x)'
  BY <1>1 DEF Accepted, At
<1> QED
  BY <1>1, <1>2, <1>3, OthersAccept DEF Reserve

LEMMA PostAccepts ==
  ASSUME NEW x \in Worker, AcceptedInv, Post(x)
  PROVE  AcceptedInv'
<1> USE DEF AcceptedInv, Types, Fields
<1>1. PICK v : w' = [w EXCEPT ![x] = v] /\ DOMAIN v = Fields /\ v.pc \in {"confirm", "failed"}
              /\ v.m = w[x].m /\ v.r = w[x].r /\ (v.pc = "confirm" => KeyOf(x) \in sent')
  BY DEF Post, Go
<1>2. sent \subseteq sent' /\ alert' \in [Key -> Status]
  BY DEF Post, GiveBack, Status
<1>3. \A k \in Key : alert'[k] = "delivered" => alert[k] = "delivered"
  BY DEF Post, GiveBack
<1>4. Types' /\ DeliveredWasSent'
  BY <1>1, <1>2, <1>3 DEF DeliveredWasSent, Delivered
<1>5. Accepted(x)'
  BY <1>1 DEF Accepted, At, KeyOf
<1> QED
  BY <1>1, <1>2, <1>4, <1>5, OthersAccept

LEMMA ConfirmAccepts ==
  ASSUME NEW x \in Worker, AcceptedInv, Confirm(x)
  PROVE  AcceptedInv'
<1> USE DEF AcceptedInv, Types, Fields
<1>1. PICK v : w' = [w EXCEPT ![x] = v] /\ DOMAIN v = Fields /\ v.pc \in {"rule", "failed"}
  BY DEF Confirm, Go
<1>2. UNCHANGED sent /\ alert' \in [Key -> Status]
  BY DEF Confirm, confirm_alert_delivery, Status
<1>3. Types'
  BY <1>1, <1>2
<1>4. KeyOf(x)[2] \in Webhook => KeyOf(x) \in sent
  BY DEF Confirm, Accepted, KeyOf
<1>5. DeliveredWasSent'
  BY <1>2, <1>4 DEF Confirm, confirm_alert_delivery, DeliveredWasSent, Delivered
<1>6. Accepted(x)'
  BY <1>1 DEF Accepted, At
<1> QED
  BY <1>1, <1>2, <1>3, <1>5, <1>6, OthersAccept

LEMMA LeaseLostAccepts ==
  ASSUME NEW x \in Worker, AcceptedInv, LeaseLost(x)
  PROVE  AcceptedInv'
<1> USE DEF AcceptedInv, Types, Fields
<1>1. w' = [w EXCEPT ![x] = [w[x] EXCEPT !.lost = TRUE]] /\ UNCHANGED <<alert, sent>>
  BY DEF LeaseLost
<1>2. Types' /\ DeliveredWasSent'
  BY <1>1 DEF DeliveredWasSent, Delivered
<1>3. Accepted(x)'
  BY <1>1 DEF Accepted, At, KeyOf
<1> QED
  BY <1>1, <1>2, <1>3, OthersAccept

LEMMA QuarterHourAccepts ==
  ASSUME AcceptedInv, QuarterHour
  PROVE  AcceptedInv'
<1> USE DEF AcceptedInv, Types, Fields
<1>1. Types'
  BY DEF QuarterHour, Status
<1>2. DeliveredWasSent'
  BY DEF QuarterHour, DeliveredWasSent, Delivered
<1> QED
  BY <1>1, <1>2 DEF QuarterHour, Accepted, At, KeyOf

LEMMA StepAccepts ==
  ASSUME AcceptedInv, [Next]_vars
  PROVE  AcceptedInv'
<1>1. CASE UNCHANGED vars
  BY <1>1 DEF vars, AcceptedInv, Types, DeliveredWasSent, Delivered, Accepted, At, KeyOf
<1>2. CASE QuarterHour
  BY <1>2, QuarterHourAccepts
<1>3. ASSUME NEW x \in Worker, NextMessage(x)
      PROVE  AcceptedInv'
  BY <1>3, MovesOn, RecoversInApp
<1>4. ASSUME NEW x \in Worker,
             \/ ReadEvent(x) \/ Ack(x) \/ Failed(x) \/ Bury(x) \/ AckBuried(x) \/ ConfirmFails(x)
             \/ Crash(x) \/ \E claimed \in SUBSET Pending : PickUp(x, claimed)
      PROVE  AcceptedInv'
  BY <1>4, MovesOn
<1>5. ASSUME NEW x \in Worker, AbortOrphans(x) \/ Cleanup(x) \/ Drop(x)
      PROVE  AcceptedInv'
  BY <1>5, AbortListedQuiet DEF AbortOrphans, Cleanup, Drop
<1>6. ASSUME NEW x \in Worker,
             Recover(x) \/ Lookup(x) \/ Reserve(x) \/ Post(x) \/ Confirm(x) \/ LeaseLost(x)
      PROVE  AcceptedInv'
  BY <1>6, RecoverAccepts, LookupAccepts, ReserveAccepts, PostAccepts, ConfirmAccepts, LeaseLostAccepts
<1> QED
  BY <1>1, <1>2, <1>3, <1>4, <1>5, <1>6 DEF Next, Step

(***************************************************************************)
(* A webhook alert is called delivered only after its receiver accepted    *)
(* it, whatever workers crash, lose their lease or take each other's       *)
(* messages over.                                                          *)
(***************************************************************************)
THEOREM DeliveredWasAccepted == Spec => []DeliveredWasSent
<1>1. AcceptedInv => DeliveredWasSent
  BY DEF AcceptedInv
<1> QED
  BY <1>1, AcceptedInit, StepAccepts, PTL DEF Spec

-----------------------------------------------------------------------------
(***************************************************************************)
(* While no reservation ages, what is reserved counts as long as it may    *)
(* still be confirmed: only reserving adds to the count, and it looks.     *)
(***************************************************************************)
CountedIn(d) == {k \in Counted : DomainOf[EventOf[k[1]]] = d}
Domains == {DomainOf[EventOf[m]] : m \in Message}

BudgetInv ==
    /\ alert \in [Key -> Status \ {"stale"}]
    /\ Cardinality(Counted) <= WorkspaceLimit
    /\ \A d \in Domains : Cardinality(CountedIn(d)) <= DomainLimit

LEMMA KeysAreFinite == IsFiniteSet(Key)
<1>1. IsFiniteSet(Message) /\ IsFiniteSet(Rule)
  BY AlertAssumption, FS_Interval DEF AlertAssumption, Message, Rule
<1> QED
  BY <1>1, FS_Product DEF Key

\* A smaller set of rows fits where a larger one did.
LEMMA FewerFit ==
  ASSUME BudgetInv, alert' \in [Key -> Status \ {"stale"}], Counted' \subseteq Counted
  PROVE  BudgetInv'
<1>1. IsFiniteSet(Counted) /\ \A d : IsFiniteSet(CountedIn(d))
  BY KeysAreFinite, FS_Subset DEF Counted, CountedIn
<1>2. \A d : CountedIn(d)' \subseteq CountedIn(d)
  BY DEF CountedIn
<1>3. Cardinality(Counted') <= Cardinality(Counted)
      /\ \A d : Cardinality(CountedIn(d)') <= Cardinality(CountedIn(d))
  BY <1>1, <1>2, FS_Subset
<1>4. Cardinality(Counted) \in Nat /\ Cardinality(Counted') \in Nat
      /\ \A d : Cardinality(CountedIn(d)) \in Nat /\ Cardinality(CountedIn(d)') \in Nat
  BY <1>1, <1>2, FS_Subset, FS_CardinalityType
<1> QED
  BY <1>3, <1>4, AlertAssumption DEF AlertAssumption, BudgetInv, Domains

LEMMA BudgetInit == Init => BudgetInv
<1> SUFFICES ASSUME Init PROVE BudgetInv
  OBVIOUS
<1>1. Counted = {} /\ \A d : CountedIn(d) = {}
  BY DEF Init, Counted, CountedIn
<1> QED
  BY <1>1, FS_EmptySet, AlertAssumption DEF Init, BudgetInv, Status, AlertAssumption

LEMMA OneMore ==
  ASSUME NEW S, IsFiniteSet(S), NEW k, NEW n \in Nat, Cardinality(S) < n, NEW T \in SUBSET (S \cup {k})
  PROVE  Cardinality(T) <= n
<1>1. Cardinality(S) \in Nat
  BY FS_CardinalityType
<1>2. IsFiniteSet(S \cup {k}) /\ Cardinality(S \cup {k}) <= Cardinality(S) + 1
  <2>1. IsFiniteSet(S \cup {k})
        /\ Cardinality(S \cup {k}) = IF k \in S THEN Cardinality(S) ELSE Cardinality(S) + 1
    BY FS_AddElement
  <2> QED
    BY <1>1, <2>1
<1>3. Cardinality(T) <= Cardinality(S \cup {k}) /\ IsFiniteSet(T)
  BY <1>2, FS_Subset
<1>4. Cardinality(T) \in Nat /\ Cardinality(S \cup {k}) \in Nat
  BY <1>2, <1>3, FS_CardinalityType
<1> QED
  BY <1>1, <1>2, <1>3, <1>4

\* The one step that counts more rows, one more, and has counted them before.
LEMMA ReserveFits ==
  ASSUME NEW x \in Worker, BudgetInv, Reserve(x), ~UNCHANGED alert
  PROVE  BudgetInv'
<1> DEFINE k == KeyOf(x)
           e == DomainOf[EventOf[w[x].m]]
<1>1. /\ alert' = [alert EXCEPT ![k] = "reserved"]
      /\ Cardinality(Counted) < WorkspaceLimit /\ Cardinality(CountedIn(e)) < DomainLimit
  BY DEF Reserve, StillAdmits, Admits, CountedIn
<1>2. alert' \in [Key -> Status \ {"stale"}]
  BY <1>1 DEF BudgetInv, Status
<1>3. IsFiniteSet(Counted) /\ \A d : IsFiniteSet(CountedIn(d))
  BY KeysAreFinite, FS_Subset DEF Counted, CountedIn
<1>4. Counted' \subseteq Counted \cup {k}
  BY <1>1 DEF Counted
<1>5. Cardinality(Counted') <= WorkspaceLimit
  BY <1>1, <1>3, <1>4, OneMore, AlertAssumption DEF AlertAssumption
<1>6. ASSUME NEW d \in Domains PROVE Cardinality(CountedIn(d)') <= DomainLimit
  <2>1. CASE d = e
    <3>1. CountedIn(d)' \subseteq CountedIn(d) \cup {k}
      BY <1>4 DEF CountedIn
    <3> QED
      BY <1>1, <1>3, <2>1, <3>1, OneMore, AlertAssumption DEF AlertAssumption
  <2>2. CASE d # e
    <3>1. CountedIn(d)' \subseteq CountedIn(d)
      BY <1>4, <2>2 DEF CountedIn, KeyOf
    <3>2. Cardinality(CountedIn(d)') <= Cardinality(CountedIn(d))
      BY <1>3, <3>1, FS_Subset
    <3> QED
      BY <1>3, <3>1, <3>2, FS_CardinalityType, FS_Subset, AlertAssumption DEF AlertAssumption, BudgetInv
  <2> QED
    BY <2>1, <2>2
<1> QED
  BY <1>2, <1>5, <1>6 DEF BudgetInv, Domains

\* Every other step counts no more rows.
LEMMA OthersFit ==
  ASSUME NEW x \in Worker, BudgetInv,
         \/ Recover(x) \/ AbortOrphans(x) \/ Cleanup(x) \/ Drop(x) \/ Post(x) \/ Confirm(x)
  PROVE  BudgetInv'
<1>1. ASSUME NEW k, alert[k] \in Reserved \cup {"delivered"}, alert' = [alert EXCEPT ![k] = "delivered"]
      PROVE  BudgetInv'
  <2>1. alert' \in [Key -> Status \ {"stale"}] /\ Counted' \subseteq Counted
    BY <1>1 DEF BudgetInv, Status, Counted, Reserved
  <2> QED
    BY <2>1, FewerFit
<1>2. ASSUME NEW k, NEW s \in {"none", "aborted"}, alert' = [alert EXCEPT ![k] = s]
      PROVE  BudgetInv'
  <2>1. alert' \in [Key -> Status \ {"stale"}] /\ Counted' \subseteq Counted
    BY <1>2 DEF BudgetInv, Status, Counted
  <2> QED
    BY <2>1, FewerFit
<1>3. CASE UNCHANGED alert
  <2>1. alert' \in [Key -> Status \ {"stale"}] /\ Counted' \subseteq Counted
    BY <1>3 DEF BudgetInv, Counted
  <2> QED
    BY <2>1, FewerFit
<1>4. CASE Recover(x) \/ Confirm(x)
  BY <1>1, <1>3, <1>4 DEF Recover, Confirm, confirm_alert_delivery
<1>5. CASE AbortOrphans(x) \/ Cleanup(x) \/ Drop(x)
  BY <1>2, <1>3, <1>5 DEF AbortOrphans, Cleanup, Drop, AbortListed, abort_alert_reservation
<1>6. CASE Post(x)
  <2>1. CASE GiveBack(KeyOf(x))
    <3>1. alert' \in [Key -> Status \ {"stale"}] /\ Counted' \subseteq Counted
      BY <2>1 DEF GiveBack, BudgetInv, Status, Counted
    <3> QED
      BY <3>1, FewerFit
  <2> QED
    BY <1>3, <1>6, <2>1 DEF Post
<1> QED
  BY <1>4, <1>5, <1>6

LEMMA StepFits ==
  ASSUME ~Aging, BudgetInv, [Next]_vars
  PROVE  BudgetInv'
<1>1. CASE UNCHANGED alert
  <2>1. alert' \in [Key -> Status \ {"stale"}] /\ Counted' \subseteq Counted
    BY <1>1 DEF BudgetInv, Counted
  <2> QED
    BY <2>1, FewerFit
<1>2. ~QuarterHour
  BY DEF QuarterHour
<1>3. ASSUME NEW x \in Worker, Step(x)
      PROVE  BudgetInv'
  <2>1. CASE NextMessage(x) \/ ReadEvent(x) \/ Lookup(x) \/ Ack(x) \/ Failed(x) \/ Bury(x) \/ AckBuried(x)
    BY <1>1, <2>1 DEF NextMessage, ReadEvent, Lookup, Ack, Failed, Bury, AckBuried
  <2>2. CASE Reserve(x)
    BY <1>1, <2>2, ReserveFits
  <2> QED
    BY <1>3, <2>1, <2>2, OthersFit DEF Step
<1>4. ASSUME NEW x \in Worker,
             (\E claimed \in SUBSET Pending : PickUp(x, claimed)) \/ ConfirmFails(x) \/ Crash(x) \/ LeaseLost(x)
      PROVE  BudgetInv'
  BY <1>1, <1>4 DEF PickUp, ConfirmFails, Crash, LeaseLost
<1>5. CASE UNCHANGED vars
  BY <1>1, <1>5 DEF vars
<1> QED
  BY <1>2, <1>3, <1>4, <1>5 DEF Next

(***************************************************************************)
(* However many workers serve a workspace and whatever faults they have,   *)
(* what is delivered stays within both budgets, as long as no reservation  *)
(* outlives its fifteen minutes: the counts of reserve_alert_delivery      *)
(* include what others have reserved and not yet delivered.                *)
(***************************************************************************)
THEOREM BudgetHolds == ~Aging => (Spec => []BudgetKept)
<1> SUFFICES ASSUME ~Aging PROVE Spec => []BudgetKept
  OBVIOUS
<1>1. BudgetInv => BudgetKept
  <2> SUFFICES ASSUME BudgetInv PROVE BudgetKept
    OBVIOUS
  <2>1. IsFiniteSet(Counted) /\ \A d : IsFiniteSet(CountedIn(d))
    BY KeysAreFinite, FS_Subset DEF Counted, CountedIn
  <2>2. Delivered \subseteq Counted
    BY DEF Delivered, Counted
  <2>3. Cardinality(Delivered) <= WorkspaceLimit
    BY <2>1, <2>2, FS_Subset, FS_CardinalityType, AlertAssumption DEF BudgetInv, AlertAssumption
  <2>4. ASSUME NEW d \in Domains
        PROVE  Cardinality({k \in Delivered : DomainOf[EventOf[k[1]]] = d}) <= DomainLimit
    <3>1. {k \in Delivered : DomainOf[EventOf[k[1]]] = d} \subseteq CountedIn(d)
      BY <2>2 DEF CountedIn
    <3> QED
      BY <2>1, <3>1, FS_Subset, FS_CardinalityType, AlertAssumption DEF BudgetInv, AlertAssumption
  <2> QED
    BY <2>3, <2>4 DEF BudgetKept, Domains
<1>2. BudgetInv /\ [Next]_vars => BudgetInv'
  BY StepFits
<1> QED
  BY <1>1, <1>2, BudgetInit, PTL DEF Spec

-----------------------------------------------------------------------------
(***************************************************************************)
(* One worker: what is acknowledged has no reservation left, since every   *)
(* way to an acknowledgement lists the reservations of the message and     *)
(* aborts them, and nobody else reserves for it meanwhile.                 *)
(***************************************************************************)
OneWorker == \A x, y \in Worker : x = y

StrandTypes ==
    /\ msg \in [Message -> {"new", "pending", "acked"}]
    /\ alert \in [Key -> Status]
    /\ DOMAIN w = Worker
    /\ \A x \in Worker : DOMAIN w[x] = Fields /\ w[x].queue \subseteq Message

NoneLeft(m) == \A r \in Rule : alert[<<m, r>>] \notin Reserved

\* The worker has taken its message from the queue and not settled it yet.
InHand(x) == w[x].pc \notin {"idle", "next"}

Settling(x) ==
    /\ \A m \in w[x].queue : msg[m] = "pending"
    /\ InHand(x) => w[x].m \in Message \ w[x].queue /\ msg[w[x].m] = "pending"
    /\ w[x].pc \in {"orphans", "cleanup", "drop"} => ReservationsOf(w[x].m, Rule) \subseteq w[x].todo
    /\ w[x].pc \in {"ack", "bury", "buried"} => NoneLeft(w[x].m)

StrandInv ==
    /\ StrandTypes
    /\ \A m \in Message : msg[m] = "acked" => NoneLeft(m)
    /\ \A x \in Worker : Settling(x)

LEMMA StrandInit == Init => StrandInv
<1> SUFFICES ASSUME Init PROVE StrandInv
  OBVIOUS
<1>1. StrandTypes
  BY DEF Init, StrandTypes, Status, Idle, Fields
<1>2. \A x \in Worker : Settling(x)
  BY DEF Init, Settling, InHand, Idle
<1> QED
  BY <1>1, <1>2 DEF Init, StrandInv

\* A step of the worker is a step of all of them.
LEMMA TheOneSettles ==
  ASSUME OneWorker, StrandTypes, NEW x \in Worker, NEW v, w' = [w EXCEPT ![x] = v],
         DOMAIN v = Fields, v.queue \subseteq Message,
         msg' \in [Message -> {"new", "pending", "acked"}], alert' \in [Key -> Status],
         \A m \in Message : msg'[m] = "acked" => NoneLeft(m)', Settling(x)'
  PROVE  StrandInv'
<1>1. Worker = {x}
  BY DEF OneWorker
<1>2. StrandTypes'
  BY <1>1 DEF StrandTypes
<1> QED
  BY <1>1, <1>2 DEF StrandInv

\* With a message in hand, the worker changes the rows of this message only.
LEMMA InHandStep ==
  ASSUME OneWorker, StrandInv, NEW x \in Worker, InHand(x), NEW v, w' = [w EXCEPT ![x] = v],
         DOMAIN v = Fields, v.queue = w[x].queue, v.m = w[x].m, UNCHANGED msg,
         alert' \in [Key -> Status], \A k \in Key : k[1] # w[x].m => alert'[k] = alert[k],
         v.pc \in {"orphans", "cleanup", "drop"} =>
             \A r \in Rule : alert'[<<w[x].m, r>>] \in Reserved => r \in v.todo,
         v.pc \in {"ack", "bury", "buried"} => \A r \in Rule : alert'[<<w[x].m, r>>] \notin Reserved
  PROVE  StrandInv'
<1>1. w'[x] = v
  BY DEF StrandInv, StrandTypes
<1>2. Settling(x)'
  BY <1>1 DEF StrandInv, Settling, InHand, NoneLeft, ReservationsOf
<1>3. ASSUME NEW m \in Message, msg'[m] = "acked" PROVE NoneLeft(m)'
  <2>1. m # w[x].m /\ NoneLeft(m)
    BY <1>3 DEF StrandInv, Settling
  <2> QED
    BY <2>1 DEF NoneLeft, Key
<1> QED
  BY <1>2, <1>3, TheOneSettles DEF StrandInv, StrandTypes

\* A worker that gives its batch up, with no new reservation.
LEMMA GiveUp ==
  ASSUME OneWorker, StrandInv, NEW x \in Worker, w' = [w EXCEPT ![x] = Idle], UNCHANGED <<msg, alert>>
  PROVE  StrandInv'
<1>1. w'[x] = Idle
  BY DEF StrandInv, StrandTypes
<1>2. Settling(x)'
  BY <1>1 DEF Settling, InHand, Idle
<1>3. DOMAIN Idle = Fields /\ Idle.queue \subseteq Message
  BY DEF Idle, Fields
<1>4. \A m \in Message : msg'[m] = "acked" => NoneLeft(m)'
  BY DEF StrandInv, NoneLeft
<1> QED
  BY <1>2, <1>3, <1>4, TheOneSettles DEF StrandInv, StrandTypes

LEMMA PickUpSettles ==
  ASSUME OneWorker, StrandInv, NEW x \in Worker, NEW claimed \in SUBSET Pending, PickUp(x, claimed)
  PROVE  StrandInv'
<1> USE DEF StrandInv, StrandTypes
<1>1. PICK batch : /\ batch = claimed \cup Fresh
                   /\ msg' = [m \in Message |-> IF m \in batch THEN "pending" ELSE msg[m]]
                   /\ w' = [w EXCEPT ![x] = [Idle EXCEPT !.pc = "next", !.queue = batch]]
                   /\ UNCHANGED alert
  BY DEF PickUp
<1>2. PICK v : v = [Idle EXCEPT !.pc = "next", !.queue = batch]
  OBVIOUS
<1>3. DOMAIN v = Fields /\ v.pc = "next" /\ v.queue = batch /\ batch \subseteq Message
  BY <1>1, <1>2 DEF Idle, Fields, Pending, Fresh
<1>4. w'[x] = v
  BY <1>1, <1>2
<1>5. Settling(x)'
  BY <1>1, <1>3, <1>4 DEF Settling, InHand
<1>6. \A m \in Message : msg'[m] = "acked" => NoneLeft(m)'
  BY <1>1 DEF NoneLeft
<1>7. msg' \in [Message -> {"new", "pending", "acked"}] /\ alert' \in [Key -> Status]
  BY <1>1
<1> QED
  BY <1>1, <1>2, <1>3, <1>5, <1>6, <1>7, TheOneSettles

\* The least number of a set, by the well-founded order of the finite sets 0..m.
LEMMA StrictPair ==
  ASSUME NEW A \in SUBSET Nat, NEW B \in SUBSET Nat, A \subseteq B, A # B
  PROVE  <<A, B>> \in StrictSubsetOrdering(Nat)
  BY DEF StrictSubsetOrdering

LEMMA LeastExists ==
  ASSUME NEW S \in SUBSET Nat, S # {}
  PROVE  \E m \in S : \A k \in S : m <= k
<1> DEFINE T == {0..m : m \in S}
<1>1. T \subseteq FiniteSubsetsOf(Nat) /\ T # {}
  <2>1. ASSUME NEW m \in S PROVE IsFiniteSet(0..m) /\ 0..m \in SUBSET Nat
    BY FS_Interval
  <2> QED
    BY <2>1 DEF FiniteSubsetsOf
<1>2. PICK U \in T : \A V \in T : <<V, U>> \notin StrictSubsetOrdering(Nat)
  <2> HIDE DEF T
  <2> QED
    BY <1>1, WFMin, FS_StrictSubsetOrderingWellFounded
<1>3. PICK m \in S : U = 0..m
  OBVIOUS
<1>4. ASSUME NEW k \in S, k < m PROVE FALSE
  <2>1. /\ 0..k \in SUBSET Nat /\ 0..m \in SUBSET Nat /\ 0..k \subseteq 0..m
        /\ m \in 0..m /\ m \notin 0..k
    BY <1>4
  <2>2. 0..k # 0..m
    BY <2>1
  <2>3. <<0..k, 0..m>> \in StrictSubsetOrdering(Nat)
    BY <2>1, <2>2, StrictPair
  <2>4. 0..k \in T
    BY <1>4
  <2> HIDE DEF T
  <2>5. <<0..k, U>> \notin StrictSubsetOrdering(Nat)
    BY <1>2, <2>4, Zenon
  <2> QED
    BY <1>3, <2>3, <2>5, Zenon
<1> QED
  BY <1>4

LEMMA MinIsIn ==
  ASSUME NEW S \in SUBSET Message, S # {}
  PROVE  Min(S) \in S
<1>1. S \in SUBSET Nat
  BY AlertAssumption DEF AlertAssumption, Message
<1> QED
  BY <1>1, LeastExists DEF Min

LEMMA NextMessageSettles ==
  ASSUME OneWorker, StrandInv, NEW x \in Worker, NextMessage(x)
  PROVE  StrandInv'
<1> USE DEF StrandInv, StrandTypes
<1>1. CASE w[x].queue # {} /\ w' # [w EXCEPT ![x] = Idle]
  <2>1. PICK m : m = Min(w[x].queue)
    OBVIOUS
  <2>2. m \in w[x].queue /\ m \in Message /\ msg[m] = "pending"
    BY <1>1, <2>1, MinIsIn DEF Settling
  <2>3. PICK v : v = [Idle EXCEPT !.pc = "recover", !.queue = w[x].queue \ {m}, !.m = m,
                                  !.todo = LeftBehind(m)]
    OBVIOUS
  <2>4. DOMAIN v = Fields /\ v.pc = "recover" /\ v.queue = w[x].queue \ {m} /\ v.m = m
    BY <2>3 DEF Idle, Fields
  <2>5. w' = [w EXCEPT ![x] = v] /\ UNCHANGED <<msg, alert>>
    BY <1>1, <2>1, <2>3 DEF NextMessage, queueVars
  <2>6. w'[x] = v
    BY <2>5
  <2>7. Settling(x)'
    BY <2>2, <2>4, <2>5, <2>6 DEF Settling, InHand
  <2>8. \A n \in Message : msg'[n] = "acked" => NoneLeft(n)'
    BY <2>5 DEF NoneLeft
  <2> QED
    BY <2>4, <2>5, <2>7, <2>8, TheOneSettles
<1>2. CASE w' = [w EXCEPT ![x] = Idle]
  BY <1>2, GiveUp DEF NextMessage, queueVars
<1> QED
  BY <1>1, <1>2 DEF NextMessage

\* A step with a message in hand that lists nothing and settles nothing.
LEMMA WorkingStep ==
  ASSUME OneWorker, StrandInv, NEW x \in Worker,
         \/ Recover(x) \/ Reserve(x) \/ Post(x) \/ Confirm(x) \/ ConfirmFails(x)
  PROVE  StrandInv'
<1>0. DOMAIN w = Worker /\ DOMAIN w[x] = Fields /\ alert \in [Key -> Status]
  BY DEF StrandInv, StrandTypes
<1>1. InHand(x) /\ UNCHANGED msg
  BY DEF InHand, At, Recover, Reserve, Post, Confirm, ConfirmFails, queueVars
<1>2. PICK v : /\ w' = [w EXCEPT ![x] = v] /\ DOMAIN v = Fields /\ v.queue = w[x].queue /\ v.m = w[x].m
               /\ v.pc \notin {"orphans", "cleanup", "drop", "ack", "bury", "buried"}
  <2>1. CASE Recover(x)
    <3>1. CASE \E pc \in {"event", "failed"} : w' = [w EXCEPT ![x].pc = pc]
      <4>1. PICK pc \in {"event", "failed"} : w' = [w EXCEPT ![x].pc = pc]
        BY <3>1
      <4>2. PICK v : w' = [w EXCEPT ![x] = v] /\ v = [w[x] EXCEPT !.pc = pc]
        BY <4>1
      <4>3. DOMAIN v = Fields /\ v.queue = w[x].queue /\ v.m = w[x].m /\ v.pc = pc
        BY <1>0, <4>2 DEF Fields
      <4> QED
        BY <4>2, <4>3, <4>1
    <3>2. CASE \E r : w' = [w EXCEPT ![x].todo = @ \ {r}]
      <4>1. PICK r, v : w' = [w EXCEPT ![x] = v] /\ v = [w[x] EXCEPT !.todo = @ \ {r}]
        BY <3>2
      <4>2. /\ DOMAIN v = Fields /\ v.queue = w[x].queue /\ v.m = w[x].m
            /\ v.pc = "recover"
        BY <1>0, <2>1, <4>1 DEF Fields, Recover, At
      <4> QED
        BY <4>1, <4>2
    <3> QED
      BY <2>1, <3>1, <3>2 DEF Recover, Go
  <2>2. CASE Reserve(x)
    BY <1>0, <2>2 DEF Reserve, NextRule, Go, Fields
  <2>3. CASE Post(x)
    BY <1>0, <2>3 DEF Post, Go, Fields
  <2>4. CASE Confirm(x)
    BY <1>0, <2>4 DEF Confirm, Go, Fields
  <2>5. CASE ConfirmFails(x)
    <3>1. w' = [w EXCEPT ![x].pc = "failed"]
      BY <2>5 DEF ConfirmFails, Go
    <3>2. PICK v : w' = [w EXCEPT ![x] = v] /\ v = [w[x] EXCEPT !.pc = "failed"]
      BY <3>1
    <3>3. DOMAIN v = Fields /\ v.queue = w[x].queue /\ v.m = w[x].m /\ v.pc = "failed"
      BY <1>0, <3>2 DEF Fields
    <3> QED
      BY <3>2, <3>3
  <2> QED
    BY <2>1, <2>2, <2>3, <2>4, <2>5
<1>3. UNCHANGED alert \/ \E r, s : s \in Status /\ alert' = [alert EXCEPT ![<<w[x].m, r>>] = s]
  <2>1. CASE Recover(x) \/ Confirm(x)
    BY <2>1 DEF Recover, Confirm, confirm_alert_delivery, KeyOf, Status
  <2>2. CASE Reserve(x) \/ ConfirmFails(x)
    BY <2>2 DEF Reserve, ConfirmFails, KeyOf, Status
  <2>3. CASE Post(x) /\ ~UNCHANGED alert
    <3>1. GiveBack(KeyOf(x))
      BY <2>3 DEF Post
    <3>2. KeyOf(x) \in Key
      BY <1>0, <2>3, <3>1 DEF GiveBack
    <3>3. alert[KeyOf(x)] \in Status
      BY <1>0, <3>2
    <3> QED
      BY <3>1, <3>3 DEF GiveBack, KeyOf, Status
  <2> QED
    BY <2>1, <2>2, <2>3
<1>4. alert' \in [Key -> Status] /\ \A k \in Key : k[1] # w[x].m => alert'[k] = alert[k]
  <2>1. ASSUME NEW r, NEW s \in Status, alert' = [alert EXCEPT ![<<w[x].m, r>>] = s],
               NEW k \in Key, k[1] # w[x].m
        PROVE  alert'[k] = alert[k]
    <3>1. k # <<w[x].m, r>>
      BY <2>1
    <3> QED
      BY <1>0, <2>1, <3>1
  <2>2. ASSUME NEW r, NEW s \in Status, alert' = [alert EXCEPT ![<<w[x].m, r>>] = s]
        PROVE  alert' \in [Key -> Status]
    BY <1>0, <2>2
  <2> QED
    BY <1>0, <1>3, <2>1, <2>2
<1> QED
  BY <1>0, <1>1, <1>2, <1>4, InHandStep

\* The reservations of the message are listed: the event or the rules are over, or it is given up.
LEMMA ListingStep ==
  ASSUME OneWorker, StrandInv, NEW x \in Worker, ReadEvent(x) \/ Lookup(x) \/ Failed(x)
  PROVE  StrandInv'
<1>0. DOMAIN w = Worker /\ DOMAIN w[x] = Fields /\ alert \in [Key -> Status]
  BY DEF StrandInv, StrandTypes
<1>1. InHand(x) /\ UNCHANGED <<msg, alert>>
  BY DEF InHand, At, ReadEvent, Lookup, Failed, queueVars
<1>2. CASE w' = [w EXCEPT ![x] = Idle]
  BY <1>1, <1>2, GiveUp
<1>3. CASE w' # [w EXCEPT ![x] = Idle]
  <2>1. PICK v : /\ w' = [w EXCEPT ![x] = v] /\ DOMAIN v = Fields /\ v.queue = w[x].queue /\ v.m = w[x].m
                 /\ v.pc \notin {"ack", "bury", "buried"}
                 /\ (v.pc \in {"orphans", "cleanup", "drop"} => v.todo = ReservationsOf(w[x].m, Rule))
    <3>1. CASE ReadEvent(x)
      BY <1>0, <3>1 DEF ReadEvent, Fields
    <3>2. CASE Lookup(x)
      BY <1>0, <3>2 DEF Lookup, NextRule, Fields
    <3>3. CASE Failed(x)
      <4>1. CASE w' = [w EXCEPT ![x].pc = "next"]
        <5>1. PICK v : w' = [w EXCEPT ![x] = v] /\ v = [w[x] EXCEPT !.pc = "next"]
          BY <4>1
        <5>2. DOMAIN v = Fields /\ v.queue = w[x].queue /\ v.m = w[x].m /\ v.pc = "next"
          BY <1>0, <5>1 DEF Fields
        <5> QED
          BY <5>1, <5>2
      <4>2. CASE w' = [w EXCEPT ![x].pc = "drop", ![x].todo = ToAbort(w[x].m)]
        <5>1. PICK v : w' = [w EXCEPT ![x] = v] /\ v = [w[x] EXCEPT !.pc = "drop", !.todo = ToAbort(w[x].m)]
          BY <4>2
        <5>2. /\ DOMAIN v = Fields /\ v.queue = w[x].queue /\ v.m = w[x].m
              /\ v.pc = "drop" /\ v.todo = ReservationsOf(w[x].m, Rule)
          BY <1>0, <5>1 DEF Fields, ToAbort
        <5> QED
          BY <5>1, <5>2
      <4> QED
        BY <1>3, <3>3, <4>1, <4>2 DEF Failed
    <3> QED
      BY <3>1, <3>2, <3>3
  <2>2. v.pc \in {"orphans", "cleanup", "drop"} =>
            \A r \in Rule : alert'[<<w[x].m, r>>] \in Reserved => r \in v.todo
    BY <1>1, <2>1 DEF ReservationsOf
  <2> QED
    BY <1>0, <1>1, <2>1, <2>2, InHandStep
<1> QED
  BY <1>2, <1>3

\* Every listed reservation is aborted before the worker goes on to settle the message.
LEMMA AbortingStep ==
  ASSUME OneWorker, StrandInv, NEW x \in Worker, NEW pc \in {"orphans", "cleanup", "drop"},
         NEW after \in {"ack", "bury"}, NEW broken \in {"failed", "idle"},
         AbortListed(x, pc, after, broken)
  PROVE  StrandInv'
<1> USE DEF StrandInv, StrandTypes, Fields
<1>1. w[x].pc = pc /\ InHand(x) /\ UNCHANGED msg /\ ReservationsOf(w[x].m, Rule) \subseteq w[x].todo
  BY DEF InHand, At, AbortListed, queueVars, Settling
<1>2. CASE w[x].todo = {} /\ Go(x, after) /\ UNCHANGED alert
  <2>1. PICK v : w' = [w EXCEPT ![x] = v] /\ v = [w[x] EXCEPT !.pc = after]
    BY <1>2 DEF Go
  <2>2. \A r \in Rule : alert'[<<w[x].m, r>>] \notin Reserved
    BY <1>1, <1>2 DEF ReservationsOf
  <2> QED
    BY <1>1, <1>2, <2>1, <2>2, InHandStep
<1>3. ASSUME NEW r \in w[x].todo, abort_alert_reservation(<<w[x].m, r>>), w' = [w EXCEPT ![x].todo = @ \ {r}]
      PROVE  StrandInv'
  <2>1. PICK v : w' = [w EXCEPT ![x] = v] /\ v = [w[x] EXCEPT !.todo = @ \ {r}]
    BY <1>3
  <2>2. alert' = [alert EXCEPT ![<<w[x].m, r>>] = "aborted"]
    BY <1>3 DEF abort_alert_reservation
  <2>3. alert' \in [Key -> Status] /\ \A k \in Key : k[1] # w[x].m => alert'[k] = alert[k]
    <3>1. alert \in [Key -> Status]
      OBVIOUS
    <3>2. alert' \in [Key -> Status]
      BY <2>2, <3>1 DEF Status
    <3>3. ASSUME NEW k \in Key, k[1] # w[x].m PROVE alert'[k] = alert[k]
      <4>1. k # <<w[x].m, r>>
        BY <3>3
      <4> QED
        BY <2>2, <3>1, <4>1
    <3> QED
      BY <3>2, <3>3
  <2>4. w[x].m \in Message
    BY <1>1 DEF Settling
  <2>5. ASSUME NEW q \in Rule, alert'[<<w[x].m, q>>] \in Reserved PROVE q \in w[x].todo \ {r}
    <3>1. <<w[x].m, q>> \in Key
      BY <2>4 DEF Key
    <3>2. CASE q = r
      BY <2>2, <2>5, <3>1, <3>2 DEF Reserved
    <3>3. CASE q # r
      <4>1. alert'[<<w[x].m, q>>] = alert[<<w[x].m, q>>]
        BY <2>2, <3>1, <3>3
      <4> QED
        BY <1>1, <2>5, <3>3, <4>1 DEF ReservationsOf
    <3> QED
      BY <3>2, <3>3
  <2>6. DOMAIN v = Fields /\ v.queue = w[x].queue /\ v.m = w[x].m /\ v.todo = w[x].todo \ {r} /\ v.pc = pc
    BY <1>1, <2>1
  <2> QED
    BY <1>1, <2>1, <2>3, <2>5, <2>6, InHandStep
<1>4. CASE UNCHANGED alert /\ w' = [w EXCEPT ![x] = Idle]
  BY <1>1, <1>4, GiveUp
<1>5. CASE UNCHANGED alert /\ broken = "failed" /\ w' = [w EXCEPT ![x].pc = broken]
  <2>1. PICK v : w' = [w EXCEPT ![x] = v] /\ v = [w[x] EXCEPT !.pc = "failed"]
    BY <1>5
  <2> QED
    BY <1>1, <1>5, <2>1, InHandStep
<1> QED
  BY <1>2, <1>3, <1>4, <1>5 DEF AbortListed

LEMMA BurySettles ==
  ASSUME OneWorker, StrandInv, NEW x \in Worker, Bury(x)
  PROVE  StrandInv'
<1> USE DEF StrandInv, StrandTypes, Fields
<1>1. w[x].pc = "bury" /\ InHand(x) /\ UNCHANGED <<msg, alert>> /\ NoneLeft(w[x].m)
  BY DEF InHand, At, Bury, Settling
<1>2. PICK v : w' = [w EXCEPT ![x] = v] /\ v = [w[x] EXCEPT !.pc = "buried"]
  BY DEF Bury, Go
<1>3. \A r \in Rule : alert'[<<w[x].m, r>>] \notin Reserved
  BY <1>1 DEF NoneLeft
<1> QED
  BY <1>1, <1>2, <1>3, InHandStep

\* The message leaves the pending list when nothing of it is reserved any more.
LEMMA AckSettles ==
  ASSUME OneWorker, StrandInv, NEW x \in Worker, Ack(x) \/ AckBuried(x)
  PROVE  StrandInv'
<1> USE DEF StrandInv, StrandTypes, Fields
<1>1. CASE w' = [w EXCEPT ![x] = Idle] /\ UNCHANGED msg
  BY <1>1, GiveUp DEF Ack, AckBuried
<1>2. CASE msg' = [msg EXCEPT ![w[x].m] = "acked"] /\ Go(x, "next")
  <2>1. PICK v : w' = [w EXCEPT ![x] = v] /\ v = [w[x] EXCEPT !.pc = "next"]
    BY <1>2 DEF Go
  <2>2. InHand(x) /\ NoneLeft(w[x].m) /\ UNCHANGED alert /\ w[x].m \in Message \ w[x].queue
    BY DEF Ack, AckBuried, At, InHand, Settling
  <2>3. DOMAIN v = Fields /\ v.queue = w[x].queue /\ v.pc = "next" /\ w'[x] = v
    BY <2>1
  <2>4. msg' \in [Message -> {"new", "pending", "acked"}]
    BY <1>2
  <2>5. Settling(x)'
    BY <1>2, <2>2, <2>3 DEF Settling, InHand
  <2>6. \A m \in Message : msg'[m] = "acked" => NoneLeft(m)'
    BY <1>2, <2>2 DEF NoneLeft
  <2> QED
    BY <2>1, <2>2, <2>3, <2>4, <2>5, <2>6, TheOneSettles
<1> QED
  BY <1>1, <1>2 DEF Ack, AckBuried

LEMMA LeaseLostSettles ==
  ASSUME OneWorker, StrandInv, NEW x \in Worker, LeaseLost(x)
  PROVE  StrandInv'
<1> USE DEF StrandInv, StrandTypes, Fields
<1>1. PICK v : w' = [w EXCEPT ![x] = v] /\ v = [w[x] EXCEPT !.lost = TRUE]
  BY DEF LeaseLost
<1>2. /\ DOMAIN v = Fields /\ v.queue = w[x].queue /\ v.m = w[x].m /\ v.pc = w[x].pc
      /\ v.todo = w[x].todo /\ w'[x] = v
  BY <1>1
<1>3. UNCHANGED <<msg, alert>>
  BY DEF LeaseLost, queueVars
<1>4. Settling(x)'
  BY <1>2, <1>3 DEF Settling, InHand, ReservationsOf, NoneLeft
<1>5. \A m \in Message : msg'[m] = "acked" => NoneLeft(m)'
  BY <1>3 DEF NoneLeft
<1> QED
  BY <1>1, <1>2, <1>3, <1>4, <1>5, TheOneSettles

\* Fifteen minutes change how a reservation counts, not that it is one.
LEMMA QuarterHourSettles ==
  ASSUME StrandInv, QuarterHour
  PROVE  StrandInv'
<1>1. UNCHANGED <<msg, w>> /\ alert' \in [Key -> Status]
  BY DEF QuarterHour, queueVars, StrandInv, StrandTypes, Status
<1>2. \A k \in Key : alert'[k] \in Reserved <=> alert[k] \in Reserved
  BY DEF QuarterHour, Reserved
<1>3. ASSUME NEW m \in Message PROVE NoneLeft(m)' <=> NoneLeft(m)
  BY <1>2 DEF NoneLeft, Key
<1>4. ASSUME NEW m \in Message PROVE ReservationsOf(m, Rule)' = ReservationsOf(m, Rule)
  BY <1>2 DEF ReservationsOf, Key
<1>5. ASSUME NEW x \in Worker PROVE Settling(x)'
  <2>1. Settling(x)
    BY DEF StrandInv
  <2>2. CASE w[x].pc \in {"idle", "next"}
    BY <1>1, <2>1, <2>2 DEF Settling, InHand
  <2>3. CASE InHand(x)
    <3>1. w[x].m \in Message
      BY <2>1, <2>3 DEF Settling
    <3>2. NoneLeft(w[x].m)' <=> NoneLeft(w[x].m)
      BY <1>1, <1>2, <3>1 DEF NoneLeft, Key
    <3>3. ReservationsOf(w[x].m, Rule)' = ReservationsOf(w[x].m, Rule)
      BY <1>1, <1>2, <3>1 DEF ReservationsOf, Key
    <3> QED
      BY <1>1, <2>1, <3>2, <3>3 DEF Settling, InHand
  <2> QED
    BY <2>2, <2>3 DEF InHand
<1> QED
  BY <1>1, <1>3, <1>5 DEF StrandInv, StrandTypes

LEMMA StepSettles ==
  ASSUME OneWorker, StrandInv, [Next]_vars
  PROVE  StrandInv'
<1>1. CASE UNCHANGED vars
  BY <1>1 DEF vars, StrandInv, StrandTypes, NoneLeft, Settling, InHand, ReservationsOf
<1>2. CASE QuarterHour
  BY <1>2, QuarterHourSettles
<1>3. ASSUME NEW x \in Worker, NEW claimed \in SUBSET Pending, PickUp(x, claimed)
      PROVE  StrandInv'
  BY <1>3, PickUpSettles
<1>4. ASSUME NEW x \in Worker, AbortOrphans(x) \/ Cleanup(x) \/ Drop(x)
      PROVE  StrandInv'
  BY <1>4, AbortingStep DEF AbortOrphans, Cleanup, Drop
<1>5. ASSUME NEW x \in Worker,
             \/ NextMessage(x) \/ Recover(x) \/ Reserve(x) \/ Post(x) \/ Confirm(x) \/ ConfirmFails(x)
             \/ ReadEvent(x) \/ Lookup(x) \/ Failed(x)
      PROVE  StrandInv'
  BY <1>5, NextMessageSettles, WorkingStep, ListingStep
<1>6. ASSUME NEW x \in Worker, Bury(x) \/ Ack(x) \/ AckBuried(x) \/ LeaseLost(x) \/ Crash(x)
      PROVE  StrandInv'
  <2>1. CASE Crash(x)
    BY <2>1, GiveUp DEF Crash, queueVars
  <2> QED
    BY <1>6, <2>1, BurySettles, AckSettles, LeaseLostSettles
<1> QED
  BY <1>1, <1>2, <1>3, <1>4, <1>5, <1>6 DEF Next, Step

(***************************************************************************)
(* With one worker an acknowledged message has no reservation left, for    *)
(* any number of messages and rules, ageing reservations and any number of *)
(* crashes, lost leases and failed confirmations.                          *)
(***************************************************************************)
THEOREM NothingIsStranded == OneWorker => (Spec => []NoReservationIsStranded)
<1> SUFFICES ASSUME OneWorker PROVE Spec => []NoReservationIsStranded
  OBVIOUS
<1>1. StrandInv => NoReservationIsStranded
  BY DEF StrandInv, NoReservationIsStranded, NoneLeft, Key
<1>2. StrandInv /\ [Next]_vars => StrandInv'
  BY StepSettles
<1> QED
  BY <1>1, <1>2, StrandInit, PTL DEF Spec

=============================================================================
