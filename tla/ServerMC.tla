------------------------------ MODULE ServerMC ------------------------------
(***************************************************************************)
(* Server with three connections that differ in nothing.                   *)
(***************************************************************************)
EXTENDS Server, TLC

CONSTANTS c1, c2, c3

MCConns == {c1, c2, c3}
MCOneConn == {c1}
=============================================================================
