----------------------------- MODULE TmpfsCache -----------------------------
(***************************************************************************)
(* With usetmpfs a worker copies the channel it is about to image to a     *)
(* memory file system and reads the copy (ContinuumWorker::cacheWorkUnit   *)
(* and clearWorkUnitCache as the spectral line loop calls them, and        *)
(* MSSplitter::split).  The workers of a node share the file system; a     *)
(* flag file says that somebody writes the copy.  Every stat, open and     *)
(* unlink is a step of its own.                                            *)
(*                                                                         *)
(* A file is named by data set, local channel and beam.  Two workers need  *)
(* the same file when two requested frequencies match one channel of a     *)
(* data set.  The spectral line imager has one group of workers, so the    *)
(* branch of the other groups and the barrier between groups do not occur. *)
(*                                                                         *)
(* A channel that fails is left where the exception meets it: the loop     *)
(* goes on to the unit after, or comes back to the same one if it had not  *)
(* been read yet, and the copies stay for the next clearing.               *)
(***************************************************************************)
EXTENDS Naturals, Sequences

CONSTANTS Worker,
          Units,       \* the units of each worker: their file, and whether
                       \* they are the last epoch of their channel
          CanFail      \* which steps may throw: "split", "image"

ASSUME CacheAssumption ==
    /\ CanFail \subseteq {"split", "image"}
    /\ {"none", "whole"} \cap Worker = {}
    /\ \A w \in Worker : Len(Units[w]) \in Nat \ {0} /\ Units[w][Len(Units[w])].last

File == UNION {{Units[w][i].file : i \in 1..Len(Units[w])} : w \in Worker}

VARIABLES
    flags,     \* the files for which there is a flag file
    copy,      \* the copies: none, whole, or who is to complete it
    pc, at,    \* place of each worker, and the unit it is at
    first,     \* the first unit of its channel: workUnitCount
    cached,    \* cached_files, which is never emptied
    todo,      \* what clearWorkUnitCache has yet to remove
    failing    \* history: the workers whose last channel failed

places == <<at, first, failing>>
vars == <<flags, copy, pc, cached, todo, places>>

Init ==
    /\ flags = {}
    /\ copy = [f \in File |-> "none"]
    /\ pc = [w \in Worker |-> "next"]
    /\ at = [w \in Worker |-> 1] /\ first = [w \in Worker |-> 1]
    /\ cached = [w \in Worker |-> {}]
    /\ todo = [w \in Worker |-> {}]
    /\ failing = {}

Goto(w, place) == pc' = [pc EXCEPT ![w] = place]
Outms(w) == Units[w][at[w]].file
Branch(w, test, yes, no) == Goto(w, IF test THEN yes ELSE no)
-----------------------------------------------------------------------------
(* cacheWorkUnit.                                                          *)

Enter(w) ==
    /\ pc[w] = "next" /\ at[w] <= Len(Units[w])
    /\ Goto(w, "wait")
    /\ UNCHANGED <<flags, copy, cached, todo, places>>

\* Sleep while there is a flag file.
Wait(w) ==
    /\ pc[w] = "wait" /\ Outms(w) \notin flags
    /\ Goto(w, "look")
    /\ UNCHANGED <<flags, copy, cached, todo, places>>

Look(w) ==
    /\ pc[w] = "look"
    /\ Branch(w, copy[Outms(w)] # "none", "read", "lookAgain")
    /\ UNCHANGED <<flags, copy, cached, todo, places>>

\* Two more stats: if either file has turned up the worker goes on without.
LookAgain(w) ==
    /\ pc[w] = "lookAgain"
    /\ Branch(w, copy[Outms(w)] = "none", "lookFlag", "read")
    /\ UNCHANGED <<flags, copy, cached, todo, places>>

LookFlag(w) ==
    /\ pc[w] = "lookFlag"
    /\ Branch(w, Outms(w) \notin flags, "drop", "read")
    /\ UNCHANGED <<flags, copy, cached, todo, places>>

DropFlag(w) ==
    /\ pc[w] = "drop"
    /\ flags' = flags \cup {Outms(w)}
    /\ Goto(w, "split")
    /\ UNCHANGED <<copy, cached, todo, places>>

\* split gives up, with a return code nobody looks at, if the copy exists.
SplitChecks(w) ==
    /\ pc[w] = "split"
    /\ Branch(w, copy[Outms(w)] = "none", "create", "unflag")
    /\ UNCHANGED <<flags, copy, cached, todo, places>>

\* Table::New replaces what is there, an unfinished copy too.
SplitCreates(w) ==
    /\ pc[w] = "create"
    /\ copy' = [copy EXCEPT ![Outms(w)] = w]
    /\ Goto(w, "splitting")
    /\ UNCHANGED <<flags, cached, todo, places>>

SplitEnds(w) ==
    /\ pc[w] = "splitting"
    /\ copy' = [copy EXCEPT ![Outms(w)] = IF @ = w THEN "whole" ELSE @]
    /\ Goto(w, "unflag")
    /\ UNCHANGED <<flags, cached, todo, places>>

\* Mutant: the failed unit is counted, as it is when calcNE fails.
RetriedUnit_Next(w) == at[w] + 1

\* workUnitCount is only raised in the handlers further on.
RetriedUnit(w) == at[w]

\* An exception of split: the flag file stays, the loop comes back to the unit.
\* (Only for the first unit of a channel; the others begin the channel anew
\* with units that already name their copies.)
SplitFails(w) ==
    /\ pc[w] \in {"split", "splitting"} /\ "split" \in CanFail
    /\ at[w] = first[w]
    /\ at' = [at EXCEPT ![w] = RetriedUnit(w)]
    /\ failing' = failing \cup {w}
    /\ Goto(w, "next")
    /\ UNCHANGED <<flags, copy, first, cached, todo>>

\* Mutant: the flag file stays.
Unflagged_Not(w) == flags

Unflagged(w) == flags \ {Outms(w)}

\* Mutant: the new copy is not remembered.
Remembered_Not(w) == cached[w]

Remembered(w) == cached[w] \cup {Outms(w)}

Unflag(w) ==
    /\ pc[w] = "unflag"
    /\ flags' = Unflagged(w)
    /\ cached' = [cached EXCEPT ![w] = Remembered(w)]
    /\ Goto(w, "read")
    /\ UNCHANGED <<copy, todo, places>>

-----------------------------------------------------------------------------
(* The channel loop.                                                       *)

Open(w) ==
    /\ pc[w] = "read"
    /\ Goto(w, "reading")
    /\ UNCHANGED <<flags, copy, cached, todo, places>>

NextUnit(w) == at[w] + 1
IsLast(w) == Units[w][at[w]].last

\* The other epochs of the channel, one by one.
NextEpoch(w) ==
    /\ pc[w] = "reading" /\ ~IsLast(w)
    /\ at' = [at EXCEPT ![w] = NextUnit(w)]
    /\ Goto(w, "next")
    /\ UNCHANGED <<flags, copy, cached, todo, first, failing>>

\* The last epoch of a channel is followed by clearWorkUnitCache.
Imaged(w) ==
    /\ pc[w] = "reading" /\ IsLast(w)
    /\ todo' = [todo EXCEPT ![w] = cached[w]]
    /\ at' = [at EXCEPT ![w] = NextUnit(w)]
    /\ first' = [first EXCEPT ![w] = NextUnit(w)]
    /\ failing' = failing \ {w}
    /\ Goto(w, "clear")
    /\ UNCHANGED <<flags, copy, cached>>

\* calcNE of the first unit throws, or what follows the last one: the loop is
\* past the unit, and nothing is cleared.
ImagingFails(w) ==
    /\ pc[w] = "reading" /\ "image" \in CanFail
    /\ at[w] = first[w] \/ IsLast(w)
    /\ at' = [at EXCEPT ![w] = NextUnit(w)]
    /\ first' = [first EXCEPT ![w] = NextUnit(w)]
    /\ failing' = failing \cup {w}
    /\ Goto(w, "next")
    /\ UNCHANGED <<flags, copy, cached, todo>>

Remove(w) ==
    /\ pc[w] = "clear"
    /\ \E f \in todo[w] :
        /\ copy' = [copy EXCEPT ![f] = "none"]
        /\ todo' = [todo EXCEPT ![w] = @ \ {f}]
    /\ UNCHANGED <<flags, pc, cached, places>>

Cleared(w) ==
    /\ pc[w] = "clear" /\ todo[w] = {}
    /\ Goto(w, "next")
    /\ UNCHANGED <<flags, copy, cached, todo, places>>

WorkerStep(w) ==
    \/ Enter(w) \/ Wait(w) \/ Look(w) \/ LookAgain(w) \/ LookFlag(w) \/ DropFlag(w)
    \/ SplitChecks(w) \/ SplitCreates(w) \/ SplitEnds(w)
    \/ SplitFails(w) \/ Unflag(w)
    \/ Open(w) \/ NextEpoch(w) \/ Imaged(w) \/ ImagingFails(w) \/ Remove(w) \/ Cleared(w)

Done(w) == pc[w] = "next" /\ at[w] > Len(Units[w])
Over == \A w \in Worker : Done(w)

Next == (\E w \in Worker : WorkerStep(w)) \/ (Over /\ UNCHANGED vars)

\* Every worker keeps running.
Fairness == \A w \in Worker : WF_vars(WorkerStep(w))

Spec == Init /\ [][Next]_vars
FairSpec == Spec /\ Fairness
-----------------------------------------------------------------------------
(* Properties.                                                             *)

TypeOK ==
    /\ flags \subseteq File
    /\ copy \in [File -> {"none", "whole"} \cup Worker]
    /\ pc \in [Worker -> {"next", "wait", "look", "lookAgain", "lookFlag", "drop", "split", "create",
                          "splitting", "unflag", "read", "reading", "clear"}]
    /\ \A w \in Worker : at[w] \in 1..(Len(Units[w]) + 1)
    /\ \A w \in Worker : first[w] \in 1..at[w]
    /\ failing \subseteq Worker
    /\ cached \in [Worker -> SUBSET File] /\ todo \in [Worker -> SUBSET File]

\* When the workers are done no flag file is left to the next job, and of the
\* whole copies only those of a worker whose last channel failed, since every
\* worker clears whatever it ever cached (ContinuumWorker.cc:305-321, 1234-1238).
\* Half a copy may be left: whoever failed to write it does not remember it.
NothingLeftBehind ==
    Over =>
        /\ flags = {}
        /\ \A f \in File : copy[f] = "whole" => \E w \in failing : f \in cached[w]

Writing(w) == pc[w] \in {"split", "create", "splitting", "unflag"}

Stale(f) == f \in flags /\ ~\E w \in Worker : Writing(w) /\ Outms(w) = f

\* A worker whose split failed and who is back at the same unit.
Blocked(w, f) == w \in failing /\ at[w] <= Len(Units[w]) /\ Outms(w) = f

\* Nobody sleeps forever on a flag file that somebody writes under
\* (ContinuumWorker.cc:347): if the workers do not all come to their end, a
\* split has failed and left its flag file.
Terminates == <>(Over \/ \E f \in File : Stale(f) /\ \E w \in Worker : Blocked(w, f))

\* A flag file that nobody is going to remove stops at least a worker that
\* failed to write the copy, which comes back to the same unit: no job ends
\* with a stale flag for the next one (ContinuumWorker.cc:347-351, 802-806).
StaleFlagStopsItsOwner ==
    \A f \in File : Stale(f) => \E w \in Worker : Blocked(w, f)

\* A flag file is never nobody's: it is being written under, or stops whoever
\* failed to (ContinuumWorker.cc:343-367).
FlagsHaveOwners == TypeOK /\ StaleFlagStopsItsOwner

\* ContinuumWorker.cc:348: while the flag file exists "someone is writing", and
\* the worker waits; so what it reads afterwards is a whole copy.
ReadsWholeCopies ==
    \A w \in Worker : pc[w] = "reading" => copy[Outms(w)] = "whole"
=============================================================================
