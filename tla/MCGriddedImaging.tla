-------------------------- MODULE MCGriddedImaging --------------------------
(* One worker on its own; two groups with up to three images, of which the *)
(* last group has two; and more groups than images.                        *)
EXTENDS GriddedImaging

Job(groups, perGroup, images, cycles, chunks, reuse) ==
    [groups |-> groups, perGroup |-> perGroup, images |-> images, cycles |-> cycles,
     chunks |-> chunks, reuse |-> reuse]

SomeJobs ==
    {Job(1, 2, 2, 2, <<2, 1>>, FALSE), Job(2, 1, 3, 2, <<2>>, TRUE),
     Job(2, 2, 2, 1, <<2, 1>>, TRUE), Job(2, 1, 2, 0, <<1>>, TRUE),
     Job(2, 1, 1, 1, <<1>>, FALSE)}
=============================================================================
