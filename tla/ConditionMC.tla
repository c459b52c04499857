---------------------------- MODULE ConditionMC ----------------------------
(***************************************************************************)
(* Condition on a small instance.                                          *)
(***************************************************************************)
EXTENDS Condition

CONSTANTS w1, w2, n1, n2

MCWaiters == {w1, w2}
MCNotifiers == {n1, n2}
=============================================================================
