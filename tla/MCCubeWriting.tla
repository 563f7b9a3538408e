--------------------------- MODULE MCCubeWriting ---------------------------
(* A small spectral line job: four workers and two writers on one cube.    *)
(* Writer 1 has two clients, writer 4 none; some units match no data and   *)
(* one channel is observed in two epochs.                                  *)
EXTENDS CubeWriting, TLC

CONSTANTS c1, c2, c3, c4, c5, c6, c7

TwoWriters == 1 :> 1 @@ 2 :> 1 @@ 3 :> 1 @@ 4 :> 4
SomeEpochs == 1 :> <<c1, c1, c2, c3>> @@ 2 :> <<c4, c5>> @@ 3 :> <<c6, NA>> @@ 4 :> <<NA, c7>>

\* Every step may throw, except that calcNE gets past the first epoch.
Tolerable == [c \in {c1, c2, c3, c4, c5, c6, c7} |->
    IF c = c1 THEN {"solveNE", "write"} ELSE {"calcNE", "solveNE", "write"}]

EpochFails == [c \in {c1, c2, c3, c4, c5, c6, c7} |-> {"calcNE"}]
=============================================================================
