-------------------------- MODULE MCWorkAllocation --------------------------
(* All jobs of a few ranks, frequencies and data sets.                     *)
EXTENDS WorkAllocation

Data(freqs, sets) == (SUBSET ((0..(freqs - 1)) \X (1..sets))) \ {{}}

JobsWith(ranks, groups, freqs, sets, local) ==
    {[ranks |-> ranks, groups |-> groups, freqs |-> freqs, perCore |-> 2,
      writers |-> writers, sets |-> sets, matched |-> data,
      localSolver |-> local, single |-> single] :
        writers \in 1..ranks, data \in Data(freqs, sets), single \in {local, FALSE}}

\* Spectral line jobs: up to four ranks, one or two frequencies each, data
\* in one or two epochs; the frequencies divide evenly.
SpectralJobs ==
    JobsWith(1, 1, 2, 2, TRUE) \cup JobsWith(2, 1, 4, 2, TRUE) \cup
    JobsWith(3, 1, 3, 2, TRUE) \cup JobsWith(4, 1, 4, 1, TRUE)

\* Continuum jobs with one to three groups of workers.
ContinuumJobs ==
    JobsWith(2, 1, 2, 2, FALSE) \cup JobsWith(4, 2, 4, 1, FALSE) \cup
    JobsWith(6, 3, 2, 2, FALSE) \cup JobsWith(6, 2, 3, 1, FALSE)

EvenJobs == SpectralJobs \cup ContinuumJobs

UnevenFrequencies == JobsWith(2, 1, 3, 1, TRUE)
=============================================================================
