--------------------------- MODULE SerialWriting ---------------------------
(***************************************************************************)
(* What the parallel write iterator promises: the loop of one process that *)
(* has the measurement set for itself (ccalapply without distribute).  It  *)
(* updates the chunks in order, each as a whole and by its own solutions,  *)
(* and may stop early: what it has not come to is as it was.               *)
(***************************************************************************)
EXTENDS Visibilities, Sequences

VARIABLES
    channels,   \* how many channels each chunk has
    mode,       \* what is read and written besides the visibilities
    data,       \* the visibilities and flags of every chunk
    at,         \* the chunk the iterator is at
    stopped     \* whether the job has failed

serialVars == <<channels, mode, data, at, stopped>>

SerialInit ==
    /\ data = [k \in DOMAIN channels |-> Untouched(k, 0..(channels[k] - 1))]
    /\ at = 1
    /\ stopped = FALSE

Update ==
    /\ ~stopped /\ at <= Len(channels)
    /\ data' = [data EXCEPT ![at] = Updated(at, 0..(channels[at] - 1), mode)]
    /\ at' = at + 1
    /\ UNCHANGED <<channels, mode, stopped>>

Stop ==
    /\ ~stopped
    /\ stopped' = TRUE
    /\ UNCHANGED <<channels, mode, data, at>>

Serial == SerialInit /\ [][Update \/ Stop]_serialVars /\ WF_serialVars(Update)
=============================================================================
