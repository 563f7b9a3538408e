---------------------------- MODULE WorkDelivery ----------------------------
(***************************************************************************)
(* What the distribution of work promises, without the messages: each      *)
(* worker is handed the units of its own allocation one by one, from the   *)
(* last to the first, keeps each of them in front of the ones it has or    *)
(* drops it, and its list is closed when nothing is left to hand out; the  *)
(* workers are released together.                                          *)
(***************************************************************************)
EXTENDS Naturals, Sequences

CONSTANTS Worker, UnitCount

VARIABLES left,      \* how many units are still to be handed to each worker
          kept,      \* the units each worker keeps
          closed,    \* the workers whose list is complete
          released   \* all the workers go on

deliveryVars == <<left, kept, closed, released>>

DeliveryInit ==
    /\ left = UnitCount
    /\ kept = [w \in Worker |-> <<>>]
    /\ closed = {}
    /\ released = FALSE

Keep(w) ==
    /\ left[w] > 0
    /\ kept' = [kept EXCEPT ![w] = <<left[w]>> \o @]
    /\ left' = [left EXCEPT ![w] = @ - 1]
    /\ UNCHANGED <<closed, released>>

Drop(w) ==
    /\ left[w] > 0
    /\ left' = [left EXCEPT ![w] = @ - 1]
    /\ UNCHANGED <<kept, closed, released>>

Close(w) ==
    /\ left[w] = 0 /\ w \notin closed
    /\ closed' = closed \cup {w}
    /\ UNCHANGED <<left, kept, released>>

\* Nobody goes on before every list is complete, and nobody without work.
Release ==
    /\ closed = Worker /\ ~released
    /\ \A w \in Worker : kept[w] # <<>>
    /\ released' = TRUE
    /\ UNCHANGED <<left, kept, closed>>

DeliveryNext ==
    \/ \E w \in Worker : Keep(w) \/ Drop(w) \/ Close(w)
    \/ Release

Delivery == DeliveryInit /\ [][DeliveryNext]_deliveryVars
=============================================================================
