--------------------------- MODULE MCTmpfsCache ---------------------------
(* Three workers of one node.                                              *)
EXTENDS TmpfsCache, TLC

CONSTANTS w1, w2, w3, f1, f2

U(f, last) == [file |-> f, last |-> last]

Workers == {w1, w2, w3}

\* Neighbouring frequencies that match the same channels of two data sets: two
\* workers need the first file, all of them the second.
SharedUnits ==
    w1 :> <<U(f1, FALSE), U(f2, TRUE)>> @@
    w2 :> <<U(f1, FALSE), U(f2, TRUE)>> @@
    w3 :> <<U(f2, TRUE)>>
=============================================================================
