----------------------------- MODULE TransferMC -----------------------------
(***************************************************************************)
(* Transfer on small instances: packages of two bytes; files of no byte,   *)
(* of less, as much, more and twice as much as a package; tags of two      *)
(* bytes.                                                                  *)
(***************************************************************************)
EXTENDS Transfer

CONSTANTS c1, c2, c3, p1, p2, empty, short, exact, long, double, locked

MCOneConn == {c1}
MCOneClient == {p1}
MCOneClientOf == [c \in MCOneConn |-> p1]
MCTwoClients == {p1, p2}

\* The first client has two connections, which are alike.
MCThreeConns == {c1, c2, c3}
MCTwoClientsOf == (c1 :> p1) @@ (c2 :> p1) @@ (c3 :> p2)
MCSymmetry == Permutations({c1, c2})

MCSize == (empty :> 0) @@ (short :> 1) @@ (exact :> 2) @@ (long :> 3)
          @@ (double :> 4) @@ (locked :> 1)
MCThreeFiles == {empty, double, locked}
MCTwoFiles == {short, exact}
MCTwoLengths == {short, long}
MCThreeSizes == [f \in MCThreeFiles |-> MCSize[f]]
MCTwoSizes == [f \in MCTwoFiles |-> MCSize[f]]
MCShortLong == [f \in MCTwoLengths |-> MCSize[f]]
MCLocked == {locked}
MCNone == {}

\* A connection that is used for no file is neither closed nor broken.
IdleStand == \A c \in Conns : c \in {a[1] : a \in assigned} \/ link[c] = "up"
=============================================================================
