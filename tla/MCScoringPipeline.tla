-------------------------- MODULE MCScoringPipeline --------------------------
(* ScoringPipeline on small instances.  A task is <<process, name>>; event    *)
(* ids are the observations' own.  The runs evaluate ScoringCases too: what a  *)
(* score is.                                                                  *)
EXTENDS ScoringPipeline, ScoringCases

OneProcess == {<<"p", "github">>, <<"p", "news">>, <<"p", "retry">>}
TwoProcesses == {<<"p", "github">>, <<"q", "retry">>}
Retriers == {t \in Task : t[2] = "retry"}
MCProcessOf == [t \in Task |-> t[1]]

MCEventOf == [o \in Observation |-> o]
OneTopic == [e \in Event |-> "model release"]
==============================================================================
