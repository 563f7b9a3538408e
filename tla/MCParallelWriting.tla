------------------------- MODULE MCParallelWriting -------------------------
(* Three workers; measurement sets of up to three chunks, among them one    *)
(* with too few channels, and one whose number of channels changes.         *)
EXTENDS ParallelWriting

Sets == {<<>>, <<2>>, <<4, 4, 4>>, <<5, 5>>, <<3, 4>>}

\* Slices of n channels as even as can be.
Even == [n \in 0..5 |-> [w \in 1..(NWorkers + 1) |-> ((w - 1) * n) \div NWorkers]]

Extensions == {{}, {"READ"}, {"SYNCFLAG"}, {"READ", "SYNCFLAG"}, {"SYNCFLAG", "SYNCNOISE"}}
=============================================================================
