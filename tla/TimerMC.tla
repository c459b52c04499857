------------------------------ MODULE TimerMC ------------------------------
(***************************************************************************)
(* Timer on small instances.  Safety: three tasks, two of them of one      *)
(* name; delays that are overdue and in the future.  Liveness and the      *)
(* promise: two tasks, one named.                                          *)
(***************************************************************************)
EXTENDS Timer

CONSTANTS a, b, c, n, none, p

MCTasks == {a, b, c}
MCNameOf == [t \in MCTasks |-> IF t \in {a, b} THEN n ELSE none]
MCTwoTasks == {a, c}
MCTwoNames == [t \in MCTwoTasks |-> IF t = a THEN n ELSE none]
MCNames == {n}
MCCallers == {p}
MCThrowing == {c}
MCNothing == {}
MCDelays == {-1, 1}
MCFutureDelays == {0, 1}
MCPeriods == {0, 1}

\* a and b differ in nothing but their address.
NamedTwice == Permutations({a, b})
=============================================================================
