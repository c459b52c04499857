----------------------------- MODULE ThreadsMC -----------------------------
(***************************************************************************)
(* Threads on a small instance: both builds, two users of one object.      *)
(***************************************************************************)
EXTENDS Threads

CONSTANTS main, other

MCCallers == {main, other}
=============================================================================
