--------------------------- MODULE AlertDelivery ---------------------------
(***************************************************************************)
(* Alert delivery: RedisAlertWorker.run_once and AlertDispatcher of        *)
(* radar/alert_worker.py over the alert_deliveries table of                *)
(* radar/storage.py.  Several workers of one consumer group serve one      *)
(* workspace.  Messages are score.created entries in Stream order; the row *)
(* of alert_deliveries for a message and a rule is keyed by its            *)
(* idempotency key workspace:rule:event:token, here the pair <<m, r>>.     *)
(* Each repository call is a transaction of its own, hence a step.         *)
(*                                                                         *)
(* Everything happens within one UTC day and one cooldown of four hours.   *)
(* Whether a rule matches, the evidence suffices and the state was         *)
(* upgraded is read from an event that changes meanwhile: a free choice.   *)
(***************************************************************************)
EXTENDS Integers, FiniteSets, FiniteSetsExt

CONSTANTS
    Worker,
    Messages,        \* how many score.created messages there are
    Rules,           \* how many alert rules the workspace has
    Webhook,         \* the rules with a webhook_url; the others are in_app
    EventOf,         \* the event of a message
    DomainOf,        \* the event type of an event
    WorkspaceLimit, DomainLimit,
    MaxDeliveries,   \* ALERT_MAX_DELIVERIES
    Aging,           \* whether reservations may get older than 15 minutes
    MaxFaults        \* bound: crashes, lost leases, failed confirmations

Message == 1..Messages
Rule == 1..Rules
Key == Message \X Rule

ASSUME AlertAssumption ==
    /\ Messages \in Nat /\ Rules \in Nat /\ Webhook \subseteq Rule
    /\ DOMAIN EventOf = Message
    /\ \A m \in Message : EventOf[m] \in DOMAIN DomainOf
    /\ WorkspaceLimit \in Nat /\ DomainLimit \in Nat
    /\ MaxDeliveries \in Nat \ {0} /\ MaxFaults \in Nat /\ Aging \in BOOLEAN

VARIABLES
    msg,     \* consumer group: "new", "pending" or "acked"
    tries,   \* times_delivered of a pending message, saturating at MaxDeliveries
    dlq,     \* messages copied to the dead letter stream
    alert,   \* alert_deliveries: status of each key
    sent,    \* keys whose webhook the receiver accepted at least once
    w,       \* each worker: pc and its local variables
    faults   \* history: how many faults happened

vars == <<msg, tries, dlq, alert, sent, w, faults>>
queueVars == <<msg, tries, dlq>>

\* "stale" is a reserved row older than 15 minutes; "none" is no row.
Status == {"none", "reserved", "stale", "delivered", "aborted"}
Reserved == {"reserved", "stale"}

Idle == [pc |-> "idle", queue |-> {}, m |-> 0, r |-> 0, todo |-> {},
         seen |-> {}, retry |-> FALSE, done |-> FALSE, lost |-> FALSE]

TypeOK ==
    /\ msg \in [Message -> {"new", "pending", "acked"}]
    /\ tries \in [Message -> 0..MaxDeliveries]
    /\ dlq \subseteq Message
    /\ alert \in [Key -> Status]
    /\ sent \subseteq Key
    /\ w \in [Worker ->
         [pc : {"idle", "next", "recover", "event", "orphans", "rule", "reserve", "post",
                "confirm", "cleanup", "ack", "failed", "drop", "bury", "buried"},
          queue : SUBSET Message, m : 0..Messages, r : 0..(Rules + 1), todo : SUBSET Rule,
          seen : SUBSET Key, retry : BOOLEAN, done : BOOLEAN, lost : BOOLEAN]]
    /\ faults \in 0..MaxFaults

Init ==
    /\ msg = [m \in Message |-> "new"]
    /\ tries = [m \in Message |-> 0]
    /\ dlq = {}
    /\ alert = [k \in Key |-> "none"]
    /\ sent = {}
    /\ w = [x \in Worker |-> Idle]
    /\ faults = 0

Fault == faults < MaxFaults /\ faults' = faults + 1

Go(x, pc) == w' = [w EXCEPT ![x].pc = pc]
At(x, pc) == w[x].pc = pc
KeyOf(x) == <<w[x].m, w[x].r>>
NextRule(x) == w' = [w EXCEPT ![x].pc = "rule", ![x].r = @ + 1]

\* list_alert_reservations_for_message, for the rules of a channel.
ReservationsOf(m, rules) == {r \in rules : alert[<<m, r>>] \in Reserved}

\* What budgets and cooldowns count.
Counted == {k \in Key : alert[k] \in {"reserved", "delivered"}}

\* AlertPolicyEngine.evaluate and reserve_alert_delivery ask the same of the rows.
Admits(rows, m, upgraded) ==
    /\ Cardinality(rows) < WorkspaceLimit
    /\ Cardinality({k \in rows : DomainOf[EventOf[k[1]]] = DomainOf[EventOf[m]]}) < DomainLimit
    /\ upgraded \/ \A k \in rows : EventOf[k[1]] # EventOf[m]

-----------------------------------------------------------------------------
(* run_once: XAUTOCLAIM, XREADGROUP, then message by message.              *)

Pending == {m \in Message : msg[m] = "pending"}
Fresh == {m \in Message : msg[m] = "new"}

\* claimed: the pending messages that were idle long enough, whoever read them.
PickUp(x, claimed) ==
    /\ At(x, "idle")
    /\ LET batch == claimed \cup Fresh IN
       /\ batch # {}
       /\ msg' = [m \in Message |-> IF m \in batch THEN "pending" ELSE msg[m]]
       /\ tries' = [m \in Message |->
                      IF m \in batch /\ tries[m] < MaxDeliveries THEN tries[m] + 1 ELSE tries[m]]
       /\ w' = [w EXCEPT ![x] = [Idle EXCEPT !.pc = "next", !.queue = batch]]
    /\ UNCHANGED <<dlq, alert, sent, faults>>

\* A webhook is taken for delivered because it was reserved.
EveryChannel(m) == ReservationsOf(m, Rule)

\* The in_app reservations of an earlier attempt at this message.
LeftBehind(m) == ReservationsOf(m, Rule \ Webhook)

\* renew_stream_participant guards each message; then dispatch_event starts
\* with the in_app reservations that an earlier attempt left behind.
NextMessage(x) ==
    /\ At(x, "next")
    /\ IF w[x].lost \/ w[x].queue = {}
       THEN w' = [w EXCEPT ![x] = Idle]
       ELSE LET m == Min(w[x].queue) IN
            w' = [w EXCEPT ![x] = [Idle EXCEPT !.pc = "recover", !.queue = w[x].queue \ {m}, !.m = m,
                                               !.todo = LeftBehind(m)]]
    /\ UNCHANGED <<queueVars, alert, sent, faults>>

\* confirm_alert_delivery, which a delivered row satisfies too.
confirm_alert_delivery(k) ==
    /\ alert[k] \in Reserved \cup {"delivered"}
    /\ alert' = [alert EXCEPT ![k] = "delivered"]

\* abort_alert_reservation, which an aborted row satisfies too.
abort_alert_reservation(k) ==
    /\ alert[k] \in Reserved \cup {"aborted"}
    /\ alert' = [alert EXCEPT ![k] = "aborted"]

Confirmable(k) == alert[k] \in Reserved \cup {"delivered"}
Abortable(k) == alert[k] \in Reserved \cup {"aborted"}

Recover(x) ==
    /\ At(x, "recover")
    /\ \/ w[x].todo = {} /\ Go(x, "event") /\ UNCHANGED alert
       \/ \E r \in w[x].todo :
            IF Confirmable(<<w[x].m, r>>)
            THEN confirm_alert_delivery(<<w[x].m, r>>) /\ w' = [w EXCEPT ![x].todo = @ \ {r}]
            ELSE Go(x, "failed") /\ UNCHANGED alert
    /\ UNCHANGED <<queueVars, sent, faults>>

\* get_event: it may be gone.  Otherwise the policy sees the history as of now.
ReadEvent(x) ==
    /\ At(x, "event")
    /\ \/ w' = [w EXCEPT ![x].pc = "orphans", ![x].todo = ReservationsOf(w[x].m, Rule)]
       \/ w' = [w EXCEPT ![x].pc = "rule", ![x].r = 1, ![x].seen = Counted]
    /\ UNCHANGED <<queueVars, alert, sent, faults>>

\* get_alert_delivery_by_idempotency for the next rule, or the end of the rules.
Lookup(x) ==
    /\ At(x, "rule")
    /\ IF w[x].r > Rules
       THEN w' = [w EXCEPT ![x].pc = "cleanup", ![x].todo = ReservationsOf(w[x].m, Rule)]
       ELSE CASE alert[KeyOf(x)] \in {"delivered", "aborted"} -> NextRule(x)
              [] alert[KeyOf(x)] \in Reserved ->
                   w' = [w EXCEPT ![x].retry = TRUE,
                                  ![x].pc = IF w[x].r \in Webhook THEN "post" ELSE "confirm"]
              [] OTHER -> w' = [w EXCEPT ![x].pc = "reserve", ![x].retry = FALSE]
    /\ UNCHANGED <<queueVars, alert, sent, faults>>

\* The policy's snapshot is trusted and the rows are not counted again.
TrustSnapshot(m, upgraded) == TRUE

\* reserve_alert_delivery counts the rows again, under the advisory lock.
StillAdmits(m, upgraded) == Admits(Counted, m, upgraded)

\* The rule does not match or the event is not strong enough; or the policy
\* refuses on its snapshot, or the reserving transaction on the current rows.
\* After a first delivery of this event there is no news for a further rule.
Reserve(x) ==
    /\ At(x, "reserve")
    /\ \/ NextRule(x) /\ UNCHANGED alert
       \/ /\ ~w[x].done
          /\ alert[KeyOf(x)] = "none"
          /\ \E upgraded \in BOOLEAN :
               Admits(w[x].seen, w[x].m, upgraded) /\ StillAdmits(w[x].m, upgraded)
          /\ alert' = [alert EXCEPT ![KeyOf(x)] = "reserved"]
          /\ Go(x, IF w[x].r \in Webhook THEN "post" ELSE "confirm")
    /\ UNCHANGED <<queueVars, sent, faults>>

\* A failed first attempt gives its reservation back, if it is still one.
GiveBack(k) == alert' = [alert EXCEPT ![k] = IF @ \in Reserved THEN "none" ELSE @]

\* deliver_webhook.  The receiver may have accepted what the sender calls failed.
Post(x) ==
    /\ At(x, "post")
    /\ \/ sent' = sent \cup {KeyOf(x)} /\ Go(x, "confirm") /\ UNCHANGED alert
       \/ /\ sent' \in {sent, sent \cup {KeyOf(x)}}
          /\ Go(x, "failed")
          /\ IF w[x].retry THEN UNCHANGED alert ELSE GiveBack(KeyOf(x))
    /\ UNCHANGED <<queueVars, faults>>

Confirm(x) ==
    /\ At(x, "confirm")
    /\ IF Confirmable(KeyOf(x))
       THEN /\ confirm_alert_delivery(KeyOf(x))
            /\ w' = [w EXCEPT ![x].pc = "rule", ![x].r = @ + 1, ![x].seen = @ \cup {KeyOf(x)},
                              ![x].done = @ \/ ~w[x].retry]
       ELSE Go(x, "failed") /\ UNCHANGED alert
    /\ UNCHANGED <<queueVars, sent, faults>>

\* The database refuses or cannot be reached: the row stays reserved.
ConfirmFails(x) ==
    /\ At(x, "confirm")
    /\ Fault
    /\ Go(x, "failed")
    /\ UNCHANGED <<queueVars, alert, sent>>

\* Abort the listed reservations one by one, then go on; raise when one was
\* confirmed or deleted since it was listed.
AbortListed(x, pc, after, broken) ==
    /\ At(x, pc)
    /\ \/ w[x].todo = {} /\ Go(x, after) /\ UNCHANGED alert
       \/ \E r \in w[x].todo :
            IF Abortable(<<w[x].m, r>>)
            THEN abort_alert_reservation(<<w[x].m, r>>) /\ w' = [w EXCEPT ![x].todo = @ \ {r}]
            ELSE /\ w' = IF broken = "idle" THEN [w EXCEPT ![x] = Idle] ELSE [w EXCEPT ![x].pc = broken]
                 /\ UNCHANGED alert
    /\ UNCHANGED <<queueVars, sent, faults>>

AbortOrphans(x) == AbortListed(x, "orphans", "ack", "failed")  \* the event is gone
Cleanup(x) == AbortListed(x, "cleanup", "ack", "failed")       \* the rule is gone

\* XACK, unless the heartbeat has noticed that the lease is gone.
Ack(x) ==
    /\ At(x, "ack")
    /\ IF w[x].lost THEN w' = [w EXCEPT ![x] = Idle] /\ UNCHANGED msg
                    ELSE Go(x, "next") /\ msg' = [msg EXCEPT ![w[x].m] = "acked"]
    /\ UNCHANGED <<tries, dlq, alert, sent, faults>>

\* The number of deliveries is never looked at.
NeverTooOften(m) == FALSE
\* The reservations of a buried message are left alone.
KeepReservations(m) == {}

\* XPENDING knows nothing of a message that another worker acknowledged: then 1.
TooOften(m) == (IF msg[m] = "pending" THEN tries[m] ELSE 1) >= MaxDeliveries
ToAbort(m) == ReservationsOf(m, Rule)

\* The exception handler of run_once: leave the message pending, or bury it.
Failed(x) ==
    /\ At(x, "failed")
    /\ w' = CASE w[x].lost -> [w EXCEPT ![x] = Idle]
              [] ~w[x].lost /\ ~TooOften(w[x].m) -> [w EXCEPT ![x].pc = "next"]
              [] OTHER -> [w EXCEPT ![x].pc = "drop", ![x].todo = ToAbort(w[x].m)]
    /\ UNCHANGED <<queueVars, alert, sent, faults>>

Drop(x) == AbortListed(x, "drop", "bury", "idle")   \* abort_message_reservations

Bury(x) ==
    /\ At(x, "bury")
    /\ dlq' = dlq \cup {w[x].m}
    /\ Go(x, "buried")
    /\ UNCHANGED <<msg, tries, alert, sent, faults>>

AckBuried(x) ==
    /\ At(x, "buried")
    /\ msg' = [msg EXCEPT ![w[x].m] = "acked"]
    /\ Go(x, "next")
    /\ UNCHANGED <<tries, dlq, alert, sent, faults>>

-----------------------------------------------------------------------------
Crash(x) ==
    /\ ~At(x, "idle")
    /\ Fault
    /\ w' = [w EXCEPT ![x] = Idle]
    /\ UNCHANGED <<queueVars, alert, sent>>

\* The lease heartbeat gives up.
LeaseLost(x) ==
    /\ ~At(x, "idle") /\ ~w[x].lost
    /\ Fault
    /\ w' = [w EXCEPT ![x].lost = TRUE]
    /\ UNCHANGED <<queueVars, alert, sent>>

QuarterHour ==
    /\ Aging
    /\ \E k \in Key : alert[k] = "reserved"
    /\ alert' = [k \in Key |-> IF alert[k] = "reserved" THEN "stale" ELSE alert[k]]
    /\ UNCHANGED <<queueVars, sent, w, faults>>

Step(x) ==
    \/ NextMessage(x) \/ Recover(x) \/ ReadEvent(x) \/ AbortOrphans(x)
    \/ Lookup(x) \/ Reserve(x) \/ Post(x) \/ Confirm(x) \/ Cleanup(x)
    \/ Ack(x) \/ Failed(x) \/ Drop(x) \/ Bury(x) \/ AckBuried(x)

Next ==
    \/ \E x \in Worker :
         \/ \E claimed \in SUBSET Pending : PickUp(x, claimed)
         \/ Step(x) \/ ConfirmFails(x) \/ Crash(x) \/ LeaseLost(x)
    \/ QuarterHour

Spec == Init /\ [][Next]_vars

\* The worker loop runs on, and an abandoned message becomes idle enough to claim.
FairSpec ==
    /\ Spec
    /\ \A x \in Worker : WF_vars(Step(x)) /\ SF_vars(PickUp(x, Pending))

-----------------------------------------------------------------------------
Delivered == {k \in Key : alert[k] = "delivered"}

(***************************************************************************)
(* The daily budgets hold for what is delivered, however the workers       *)
(* interleave and crash (README: alert budget, cooldown and idempotency    *)
(* key are checked atomically in the reserving transaction).               *)
(***************************************************************************)
BudgetKept ==
    /\ Cardinality(Delivered) <= WorkspaceLimit
    /\ \A d \in {DomainOf[EventOf[m]] : m \in Message} :
         Cardinality({k \in Delivered : DomainOf[EventOf[k[1]]] = d}) <= DomainLimit

(***************************************************************************)
(* No webhook alert is called delivered unless the receiver accepted it,   *)
(* through crashes, retries and redelivery to another worker.              *)
(***************************************************************************)
DeliveredWasSent == \A k \in Delivered : k[2] \in Webhook => k \in sent

(***************************************************************************)
(* A message that is acknowledged and no longer in the hands of a worker   *)
(* leaves no reservation behind: nobody would ever come back for it.       *)
(***************************************************************************)
NoReservationIsStranded ==
    \A k \in Key :
        msg[k[1]] = "acked" /\ (\A x \in Worker : w[x].m # k[1] /\ k[1] \notin w[x].queue)
            => alert[k] \notin Reserved

(***************************************************************************)
(* Every message is acknowledged in the end, one that never can be         *)
(* handled by way of the dead letter stream.                               *)
(***************************************************************************)
EveryMessageIsSettled == \A m \in Message : <>(msg[m] = "acked")

=============================================================================
