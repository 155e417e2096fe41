--------------------------- MODULE MCOutboxRelay ---------------------------
(* OutboxRelay on small instances. *)
EXTENDS OutboxRelay, TLC

\* Publishers are interchangeable, and so are replay runs: their tokens are random.
\* Only safety is checked with it.
RelaySymmetry == Permutations(Publisher) \cup Permutations(Replayer)
=============================================================================
