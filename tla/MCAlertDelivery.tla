-------------------------- MODULE MCAlertDelivery --------------------------
(* AlertDelivery on small instances: every message is about an event of its *)
(* own, and all events are of one type.                                     *)
EXTENDS AlertDelivery, TLC

MCEventOf == [m \in Message |-> m]
MCDomainOf == [e \in Message |-> "model release"]

\* Workers of one consumer group are interchangeable; only safety uses it.
WorkerSymmetry == Permutations(Worker)
=============================================================================
