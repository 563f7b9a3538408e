---------------------------- MODULE MCMajorCycle ----------------------------
(* Three workers, one with a single unit; a first and a second unit may    *)
(* fail.                                                                   *)
EXTENDS MajorCycle, TLC

CONSTANTS w1, w2, w3

Workers == {w1, w2, w3}
Counts == w1 :> 2 @@ w2 :> 1 @@ w3 :> 2
SomeFail == w1 :> {2} @@ w2 :> {} @@ w3 :> {1}
=============================================================================
