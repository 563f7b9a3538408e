--------------------------- MODULE MCNEReduction ---------------------------
(* Six workers, in one tree of three levels or in two of two levels.       *)
EXTENDS NEReduction
=============================================================================
