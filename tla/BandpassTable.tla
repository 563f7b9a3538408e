--------------------------- MODULE BandpassTable ---------------------------
(***************************************************************************)
(* What the bandpass calibrator promises: in any order, each solution that *)
(* can be had is written once, at its beam and channel and from the data   *)
(* of these alone; and when the table is closed they are all there.        *)
(***************************************************************************)
VARIABLES solvable,  \* the beams and channels with a solution
          table,     \* the solutions written, by beam and channel, and the
                     \* data each was made of
          closed

tableVars == <<solvable, table, closed>>

Element(u) == [at |-> u, of |-> u]

TableInit == table = {} /\ closed = FALSE

WriteElement ==
    /\ ~closed
    /\ \E u \in solvable :
        /\ \A e \in table : e.at # u
        /\ table' = table \cup {Element(u)}
    /\ UNCHANGED <<solvable, closed>>

Close ==
    /\ table = {Element(u) : u \in solvable}
    /\ closed' = TRUE
    /\ UNCHANGED <<solvable, table>>

Solved == TableInit /\ [][WriteElement \/ Close]_tableVars
=============================================================================
