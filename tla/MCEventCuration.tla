--------------------------- MODULE MCEventCuration ---------------------------
(* Two observations of two sources, each with an event id of its own. *)
EXTENDS EventCuration, TLC

CONSTANTS o1, o2, s1, s2, e1, e2

MCSourceOf == (o1 :> s1) @@ (o2 :> s2)
MCEventOf == (o1 :> e1) @@ (o2 :> e2)
=============================================================================
