----------------------------- MODULE Gathering -----------------------------
(***************************************************************************)
(* What collecting the normal equations promises, without the tree: the    *)
(* master asks for a sum, every worker gives its part once, and the result *)
(* is the part of every worker, each of them once and of this very sum.    *)
(***************************************************************************)
EXTENDS Naturals, Bags

CONSTANT Worker

VARIABLES asked,    \* how many sums were asked for
          given,    \* how many parts each worker has given
          result    \* the sum, when it is complete

gatheringVars == <<asked, given, result>>

GatheringInit ==
    /\ asked = 0
    /\ given = [w \in Worker |-> 0]
    /\ result = EmptyBag

Ask ==
    /\ asked = 0 \/ result # EmptyBag
    /\ asked' = asked + 1
    /\ result' = EmptyBag
    /\ UNCHANGED given

Give(w) ==
    /\ given[w] < asked
    /\ given' = [given EXCEPT ![w] = asked]
    /\ UNCHANGED <<asked, result>>

Gather ==
    /\ asked > 0 /\ result = EmptyBag
    /\ \A w \in Worker : given[w] = asked
    /\ result' = SetToBag({<<w, asked>> : w \in Worker})
    /\ UNCHANGED <<asked, given>>

Gathered == GatheringInit /\ [][Ask \/ Gather \/ \E w \in Worker : Give(w)]_gatheringVars
=============================================================================
