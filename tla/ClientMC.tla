------------------------------ MODULE ClientMC ------------------------------
(***************************************************************************)
(* Client on a small instance.                                             *)
(***************************************************************************)
EXTENDS Client

CONSTANTS a1, s1, s2, f1, f2

MCAddrs == {a1}
MCSocks == {s1, s2}
MCFiles == {f1, f2}
=============================================================================
