--------------------------- MODULE SerialImaging ---------------------------
(***************************************************************************)
(* Imaging on one processor: normal equations of all the data with the     *)
(* current model, a solution of them which is the next model, and at the   *)
(* end the residuals of the last model.  The distributed imager promises   *)
(* to do the same, but that it leaves out data it fails on.                *)
(***************************************************************************)
EXTENDS Naturals

CONSTANTS Datum,     \* the units of data
          Doubtful,  \* those which may be left out
          NCycles    \* how often to solve at most

VARIABLES version,   \* how many solutions have gone into the model
          used,      \* with which models each datum was last compared
          reached,   \* the peak residual is below the threshold
          imaged     \* the residuals of the final model are there

serialVars == <<version, used, reached, imaged>>

WithModel(v) ==
    {u \in [Datum -> {{}, {v}}] : \A d \in Datum \ Doubtful : u[d] = {v}}

SerialInit ==
    /\ version = 0
    /\ used = [d \in Datum |-> {}]
    /\ reached = FALSE
    /\ imaged = FALSE

SolveAll ==
    /\ version < NCycles /\ ~reached /\ ~imaged
    /\ used' \in WithModel(version)
    /\ version' = version + 1
    /\ reached' \in BOOLEAN
    /\ UNCHANGED imaged

FinalResiduals ==
    /\ version = NCycles \/ reached
    /\ ~imaged
    /\ used' \in WithModel(version)
    /\ imaged' = TRUE
    /\ UNCHANGED <<version, reached>>

Serial == SerialInit /\ [][SolveAll \/ FinalResiduals]_serialVars
=============================================================================
