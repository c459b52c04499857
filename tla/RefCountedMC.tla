---------------------------- MODULE RefCountedMC ----------------------------
(***************************************************************************)
(* RefCounted on a small instance: two threads, both builds.               *)
(***************************************************************************)
EXTENDS RefCounted

CONSTANTS o1, o2, p1, p2, p3, t1, t2

MCObjects == {o1, o2}
MCPointers == {p1, p2, p3}
MCThreads == {t1, t2}
Symmetric == Permutations(MCObjects) \cup Permutations(MCPointers) \cup Permutations(MCThreads)
=============================================================================
