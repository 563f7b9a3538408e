---------------------------- MODULE MCCubeTurns ----------------------------
(* Up to four ranks and seven channels: evenly divided or not, and fewer   *)
(* channels than ranks.                                                    *)
EXTENDS CubeTurns

Deconvolutions ==
    [app : {"deconvolver"}, contiguous : {FALSE}, ranks : 1..4, channels : 1..7, mosaics : {1}]

Mosaics ==
    [app : {"linmos"}, contiguous : BOOLEAN, ranks : 1..3, channels : 1..5, mosaics : {1, 2}]

SomeJobs == Deconvolutions \cup Mosaics
OneMosaic == {j \in Mosaics : j.ranks = 2 /\ j.channels = 4 /\ j.mosaics = 1}
=============================================================================
