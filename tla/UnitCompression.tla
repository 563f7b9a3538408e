-------------------------- MODULE UnitCompression --------------------------
(***************************************************************************)
(* In continuum mode with combinechannels a worker replaces the list of    *)
(* its units by one with fewer and wider units: runs of consecutive        *)
(* channels of one data set become one unit each, which saves transforms   *)
(* (ContinuumWorker::compressWorkUnits).  A list that does not come down   *)
(* to a single unit is refused in the end.                                 *)
(*                                                                         *)
(* A unit is the data set and the local channel it begins with, and how    *)
(* many channels it has; data set NoData and channel -1 are the NA unit.   *)
(***************************************************************************)
EXTENDS Integers, Sequences

CONSTANTS DataSet,
          NoData,
          UnitLists    \* the lists that a worker may have been given

\* The allocation makes units of one channel, and a worker has at least one.
AllocatedUnit == [set : DataSet \cup {NoData}, chan : Nat \cup {-1}, nchan : {1}]

ASSUME ListsAssumption == UnitLists \subseteq Seq(AllocatedUnit) \ {<<>>}

VARIABLES
    units,        \* workUnits when the function is called
    outcome,
    count,        \* units looked at so far
    startUnit,    \* the unit that grows
    contiguous,   \* contiguousCount
    compressed    \* compressedList

compressionVars == <<units, outcome, count, startUnit, contiguous, compressed>>

CompressionInit ==
    /\ units \in UnitLists
    /\ outcome = "loop" /\ count = 1
    /\ startUnit = units[1]
    /\ contiguous = 1
    /\ compressed = <<>>

nextUnit == units[count + 1]

\* Mutant: the data set is not compared.
Extends_AnySet ==
    nextUnit.chan = startUnit.chan + contiguous

Extends ==
    /\ nextUnit.set = startUnit.set
    /\ nextUnit.chan = startUnit.chan + contiguous

\* Mutant: the unit is widened before the channel is counted.
Wider_BeforeCount == [startUnit EXCEPT !.nchan = contiguous]

Wider == [startUnit EXCEPT !.nchan = contiguous + 1]

\* The next channel of the same data set joins the unit; at the end of the
\* list the unit is added to the new one.
Extend ==
    /\ outcome = "loop" /\ count < Len(units) /\ Extends
    /\ contiguous' = contiguous + 1
    /\ IF count = Len(units) - 1
       THEN compressed' = Append(compressed, Wider) /\ startUnit' = nextUnit
       ELSE startUnit' = Wider /\ UNCHANGED compressed
    /\ count' = count + 1
    /\ UNCHANGED <<units, outcome>>

Added == Append(compressed, startUnit)

\* Anything else ends the unit and begins the next, counting from zero.
Restart ==
    /\ outcome = "loop" /\ count < Len(units) /\ ~Extends
    /\ contiguous' = 0
    /\ compressed' = Added
    /\ startUnit' = nextUnit
    /\ count' = count + 1
    /\ UNCHANGED <<units, outcome>>

\* ASKAPCHECK(compressedList.size() < 2), after the list was replaced.
Single == Len(compressed) < 2

Replace ==
    /\ outcome = "loop" /\ count = Len(units)
    /\ outcome' = IF Single THEN "compressed" ELSE "refused"
    /\ UNCHANGED <<units, count, startUnit, contiguous, compressed>>

CompressionNext ==
    \/ Extend \/ Restart \/ Replace
    \/ outcome # "loop" /\ UNCHANGED compressionVars

Compression == CompressionInit /\ [][CompressionNext]_compressionVars
-----------------------------------------------------------------------------
(* Properties.                                                             *)

\* What processChannels goes through afterwards.
workUnits == IF compressed = <<>> THEN units ELSE compressed

Channels(unit) == {[set |-> unit.set, chan |-> unit.chan + k, nchan |-> 1] : k \in 0..(unit.nchan - 1)}
Covered(list) == UNION {Channels(list[i]) : i \in 1..Len(list)}
OneRun(list) ==
    \A i \in 1..Len(list) : list[i].set = list[1].set /\ list[i].chan = list[1].chan + i - 1

\* Up to the end of the loop every unit looked at is in the new list or in
\* the unit that grows, and nothing else is (ContinuumWorker.cc:414-449).
KeptSoFar ==
    outcome = "loop" =>
        Covered(compressed) \cup Channels(startUnit) = Covered(SubSeq(units, 1, count))

\* A list that is a single run becomes the one unit that has all of it, and a
\* list that is refused was not a single run (ContinuumWorker.cc:424-449).
RunBecomesUnit ==
    OneRun(units) =>
        /\ outcome # "refused"
        /\ outcome = "compressed" =>
            workUnits = <<[units[1] EXCEPT !.nchan = Len(units)]>>

\* ContinuumWorker.cc:399-400: the new list "contains a single workunit for
\* each contiguous group of channels", so the units of an accepted list have
\* all the channels of the old one.
EveryUnitCovered == outcome = "compressed" => Covered(workUnits) = Covered(units)
=============================================================================
