-------------------------- MODULE MCServerLifecycle --------------------------
(* ServerLifecycle with three requests: one can be done, one under way and *)
(* one yet to come when the signal arrives.                                *)
EXTENDS ServerLifecycle, TLC

CONSTANTS q1, q2, q3

MCRequests == {q1, q2, q3}
=============================================================================
