-------------------------- MODULE MCStreamRetention --------------------------
(* StreamRetention on small instances. *)
EXTENDS StreamRetention, TLC

\* Rows differ only in the order in which they are sent.
RowSymmetry == Permutations(Row)
==============================================================================
