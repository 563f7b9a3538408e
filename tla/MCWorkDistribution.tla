------------------------- MODULE MCWorkDistribution -------------------------
(* A small imager: three workers with uneven allocations.                  *)
EXTENDS WorkDistribution, TLC

CONSTANTS w1, w2, w3

Workers == {w1, w2, w3}
Counts == w1 :> 1 @@ w2 :> 2 @@ w3 :> 1
=============================================================================
