---------------------------- MODULE MCAcceptance ----------------------------
(***************************************************************************)
(* AcceptanceMonitor for TLC.  A moment is five minutes.                   *)
(***************************************************************************)
EXTENDS AcceptanceMonitor

MCDuty == 0..MaxTime
MCSymmetry == Permutations(Reviewer)
=============================================================================
