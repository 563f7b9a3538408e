------------------------------ MODULE Solving ------------------------------
(***************************************************************************)
(* Calibration by one process that sees all the data: for one solution     *)
(* interval after the other, the solutions are refined NCycles times, each *)
(* time from all the data of the interval, and written.                    *)
(***************************************************************************)
EXTENDS Naturals, Sequences

CONSTANTS Part,     \* the parts the data come in
          NCycles   \* how often the solutions are refined

VARIABLES
    interval, cycle,  \* the interval, and how often it has been solved for
    used,             \* for each part: of which interval it was last used,
                      \* and against which version of the solutions
    solutions         \* what each written solution has been made of

solvingVars == <<interval, cycle, used, solutions>>

NotUsed == [p \in Part |-> <<>>]
All(k, c) == [p \in Part |-> [of |-> k, with |-> <<k, c>>]]

SolvingInit ==
    /\ interval = 1 /\ cycle = 0
    /\ used = NotUsed /\ solutions = <<>>

Refine ==
    /\ cycle < NCycles
    /\ used' = All(interval, cycle)
    /\ cycle' = cycle + 1
    /\ UNCHANGED <<interval, solutions>>

WriteSolution ==
    /\ cycle = NCycles
    /\ Len(solutions) < interval
    /\ solutions' = Append(solutions, used)
    /\ UNCHANGED <<interval, cycle, used>>

NextInterval ==
    /\ Len(solutions) = interval
    /\ interval' = interval + 1 /\ cycle' = 0
    /\ UNCHANGED <<used, solutions>>

Solves == SolvingInit /\ [][Refine \/ WriteSolution \/ NextInterval]_solvingVars
=============================================================================
