---------------------------- MODULE CubeAssembly ----------------------------
(***************************************************************************)
(* What the writing of a spectral cube promises, without writers, clients  *)
(* or counts: every channel is settled once, good channels as the image    *)
(* made of them and bad ones as something else, and the cube is closed     *)
(* only when every channel is settled.                                     *)
(***************************************************************************)
CONSTANT Channel

VARIABLES fate,     \* what became of each channel
          bad,      \* the channels whose processing failed
          closed    \* the workers have passed the final barrier

assemblyVars == <<fate, bad, closed>>

AssemblyInit ==
    /\ fate = [c \in Channel |-> "open"]
    /\ bad = {}
    /\ closed = FALSE

Fail(c) ==
    /\ fate[c] = "open" /\ c \notin bad
    /\ bad' = bad \cup {c}
    /\ UNCHANGED <<fate, closed>>

Settle(c, f) ==
    /\ fate[c] = "open"
    /\ fate' = [fate EXCEPT ![c] = f]
    /\ UNCHANGED <<bad, closed>>

\* Processing can fail at the moment the channel is settled.
FailAndSettle(c) ==
    /\ fate[c] = "open"
    /\ fate' = [fate EXCEPT ![c] = "missing"]
    /\ bad' = bad \cup {c}
    /\ UNCHANGED closed

Close ==
    /\ \A c \in Channel : fate[c] # "open"
    /\ ~closed
    /\ closed' = TRUE
    /\ UNCHANGED <<fate, bad>>

AssemblyNext ==
    \/ \E c \in Channel :
        \/ Fail(c) \/ FailAndSettle(c)
        \/ c \notin bad /\ Settle(c, "image")
        \/ c \in bad /\ \E f \in {"blank", "missing"} : Settle(c, f)
    \/ Close

Assembly == AssemblyInit /\ [][AssemblyNext]_assemblyVars
=============================================================================
