# Verification of the yandasoft imagers and calibrators

yandasoft is the ASKAP imaging and calibration software. This directory holds
TLA+ models of the part of it in which many processes have to agree: the
distributed imager (`imager`, `src/askap/distributedimager`), the imager with
groups of workers (`cimager`), the calibrators (`ccalibrator`, `cbpcalibrator`,
`ccalapply`), the programs that write cubes from many ranks
(`cdeconvolver-mpi`, `linmos-mpi`), and the parallel base classes and messages
below them. `PROJECT.json` maps every definition that models code to the lines
it stands for and lists the runs, mutants, hazards and theorems.

To repeat a check: `tlc -workers 2 -config MCX.cfg MCX` for a run,
`tlapm M.tla` for the proofs of one of the eight modules `..._proofs`.

## 1. The system

### Parts, their state, their operations

| part | state it keeps | operations | correct when |
|---|---|---|---|
| `ContinuumMaster` | `remainingWorkers`, the advice's `itsWorkUnitCount`, model, normal equations | answer requests for work; broadcast model, receive normal equations, solve, until the cycles or the residual run out; write images | hands out every unit, leaves the loop when all were told DONE, stops in the cycle in which the workers stop |
| `ContinuumWorker` | `workUnits`, `workUnitCount`, `majorCycleNumber`, root normal equations, `cached_files`, image cubes | ask for work, preprocess, compress; image channels or continuum cycles; write cubes, send and receive slices; cache data | keeps its allocation in order; delivers every channel once; uses each unit once per cycle; leaves nobody waiting |
| `AdviseDI`, `MSGroupInfo` | `itsAllocatedFrequencies`, `itsAllocatedWork`, barycentre frequencies | `prepare`, `getAllocation`, `updateComms` | each frequency goes to one worker; writers take part; the counts are the channels |
| `CubeComms` | `writerMap`, `workerMap`, `clientMap`, cube creators | `addWriter`, `addWorker`, `addChannelToWriter/Worker`, `removeChannelFrom...`, `isWriter`, `getOutstanding`, `getClients`, `setSingleSink`, `setMultiSink` | what is left to write is what somebody still has |
| messages (`ContinuumWorkRequest`, `ContinuumWorkUnit`) | none | send and receive as size and bytes, one tag | halves are never mixed up |
| `MEParallel`, `SynParallel`, `ImagerParallel` | `itsNe`, `itsModel` | tree reduction of normal equations, broadcast and receive of a model, calcNE, solveNE | the master's sum has every part once |
| `CalcCore`, `ContinuumImager` | gridder, normal equations, parameters | calcNE, solveNE, restore, reset | numeric; what matters here is which unit went into which normal equations, with which model |
| `MSSplitter` with `cacheWorkUnit` | files on the memory file system: copies, flag files | wait for flag, create flag, split, remove flag, clear | one writer per copy, readers see whole copies, nothing is left behind |
| `CubeBuilder` | image cubes on disk | create, open, write slice | input and output |
| `ParallelWriteIterator`, `ParallelAccessor`, `ParallelIteratorStatus` | chunk of visibilities on master and workers, `itsChanOffset`, flags of what is synchronised | `masterIteration`: read, scatter, gather, write; `advance`; `CalibrationApplicatorME::correct` between | chunks stay in step, each slice comes back to its place, corrected by its own solutions |
| `CalibratorParallel`, `PreAvgCalMEBase`, `CalibrationIterator` | model, normal equations with metadata, pre-averaged equation, time chunk of the adapter | broadcast, `calcNE`, `solveNE`, `writeModel`, `init`, `getNextChunkFlag` | a solution is made of its own interval, of all workers, with the last model |
| `BPCalibratorParallel` | unit iterator, model with beam, channel and validity; solution table | `calcNE`, `solveNE`, notify and send, `receiveModelFromWorker`, `writeModel` | each valid solution is written once and where it belongs |
| `cimager` with `ImagerParallel`, `SynParallel`, `ImageFFTEquation`, `GroupVisAggregator` | model dealt out to groups, equation, model visibilities, peak residual | `broadcastModelImpl`, `calcNE`, `update`, `aggregateFlag`, `solveNE`; SIGUSR1 | groups subtract the whole model; collective calls match; all stop in the same cycle |
| `cdeconvolver-mpi`, `linmos-mpi` | channels of a rank, the turn | divide channels, create cubes, wait for the turn, write, pass it on | each channel once; the cube exists; nobody waits for ever |
| `ContSubtractParallel`, `SimParallel`, `AdviseParallel`, `DDCalibratorParallel` | models, normal equations | master and worker loops over the same base classes | collective calls match |
| measurement equations, gridding, deconvolution, simulation, opcal, utilities | arrays, caches | numeric work on one process | floating point |

### How they interact

The processes are MPI ranks; rank 0 is the master, the others workers, in
`nworkergroups` groups. They share nothing except files. Within one process the
code is sequential: the hard behaviour is between ranks.

1. Every rank runs `AdviseDI::prepare` on the same data and computes the same
   allocation.
2. Worker and master exchange requests and units until each worker gets DONE
   (point to point, receive from any source).
3. Workers meet at a barrier. Then one of two loops runs:
   - spectral line (`solverpercore = true`): the master is done; workers image
     their channels and hand the slices to writers, point to point, by counts
     alone (`CubeComms`);
   - continuum: master broadcasts a model, workers compute, a tree reduction
     brings the normal equations to the master, which solves; a barrier of the
     workers closes each cycle.
4. In both, units may be cached on a memory file system that several workers
   of a node share, with flag files as the only synchronisation.

The other programs have loops of their own over the same messages:

5. `ccalapply` and `csimulator`: the master iterates over one measurement set,
   broadcasts status and metadata of each chunk, scatters its channels, gathers
   and writes them.
6. `ccalibrator`: per solution interval and cycle, broadcast, normal
   equations, solution; each process decides by a flag among its own metadata
   whether there is another interval. `cbpcalibrator`: workers solve for their
   beams and channels and send each model after a notification, in any order.
7. `cimager`: the master deals the images of the model out to groups of
   workers; the workers that share data, one of each group, add up what they
   predict in an all-reduce of their own communicator, for every chunk.
8. `cdeconvolver-mpi` and `linmos-mpi`: a turn to write goes from rank to rank
   as a message; in the first it comes round again.

### What is hard

No message says "I am done" or "I stop": every rank works that out from
counters of its own. One tag serves requests for work and slices, size and
body. Errors of one unit are caught and the loops go on, with their counters
wherever the error left them. Receives and sends block. Flag files are tested
and created in separate calls. Whether to enter a collective call, or to go on
for another interval or cycle, is decided by each rank on its own. `hazards`
in `PROJECT.json` lists forty such places by line.

## 2. Modules

| module | what it is | source |
|---|---|---|
| `WorkDistribution` | step 2: requests, units, preprocessing, check for work, barrier | `ContinuumMaster::run` and `ContinuumWorker::run` (first halves), `preProcessWorkUnit`, `AdviseDI::getAllocation`, the two message classes |
| `WorkDelivery` | abstract: each worker is handed its units from the last to the first, released together | promise of the above |
| `WorkDistribution_proofs` | theorems: safety; that it implements `WorkDelivery`; what the allocation of `WorkAllocation` gives | |
| `WorkAllocation` | step 1: sharing, matching, writers, groups, `updateComms`, cube size | `AdviseDI`, `CubeComms`, `ContinuumWorker::run` |
| `CubeWriting` | step 3, spectral line loop | `ContinuumWorker::processChannels`, `CubeComms` |
| `CubeAssembly` | abstract: a channel gets its image, or after a failure a blank or nothing, once; then the job is closed | promise of the above |
| `CubeWriting_proofs` | theorems: counts, nobody is left behind, each channel settles once; that it implements `CubeAssembly`; the turns of `CubeTurns` | |
| `MajorCycle` | step 3, continuum loop | `ContinuumMaster::run`, `processChannels`, `CalcCore`, `ImagerParallel` |
| `SerialImaging` | abstract: one processor that uses all the data, but for units that fail, with the current model, solves, repeats | promise of the above |
| `MajorCycle_proofs` | theorems: all are in the same cycle; that it implements `SerialImaging`; that the trees of `NEReduction` are a sum, as `Gathering` says | |
| `NEReduction` | one reduction after the other over the trees of all groups | `MEParallel` |
| `Gathering` | abstract: everybody gives a part, the result is the bag of the parts | promise of the above |
| `UnitCompression` | `compressWorkUnits`, one turn of its loop per step | `ContinuumWorker` |
| `TmpfsCache` | step 4, processes that share files | `cacheWorkUnit`, `clearWorkUnitCache`, `MSSplitter::split` |
| `ContinuumWorker_proofs` | theorems on the two: what the loop of `compressWorkUnits` keeps, what a single run becomes; flag files have owners, nothing is left behind | |
| `ParallelWriting` | step 5, master and workers over the chunks of a measurement set | `ParallelWriteIterator`, loops of `ccalapply` and `csimulator` |
| `Visibilities` | what a chunk of data may hold | |
| `SerialWriting` | abstract: one process updates chunk after chunk, or stops early | promise of the above |
| `ParallelWriting_proofs` | theorems: all are at the same chunk; that its steps are those of `SerialWriting` | |
| `Calibration` | step 6, intervals and cycles of `ccalibrator` | `ccalibrator`, `CalibratorParallel`, `PreAvgCalMEBase`, `Params::merge` |
| `Solving` | abstract: one process that has all the data solves interval after interval | promise of the above |
| `Calibration_proofs` | theorems: the inductive invariant; that it implements `Solving` | |
| `BandpassCalibration` | step 6, units of `cbpcalibrator` | `BPCalibratorParallel` |
| `BandpassTable` | abstract: valid solutions are written once, in any order, then the table is closed | promise of the above |
| `BandpassCalibration_proofs` | theorems: models are what was announced; that it implements `BandpassTable` | |
| `GriddedImaging` | step 7 | `cimager`, `SynParallel`, `ImagerParallel`, `ImageFFTEquation`, `GroupVisAggregator` |
| `Cleaning` | abstract: major cycles on one processor that has the whole model and all data | promise of the above |
| `GriddedImaging_proofs` | theorems: collective calls match; that it implements `Cleaning` | |
| `CubeTurns` | step 8 | `cdeconvolver-mpi`, `linmos-mpi` |
| `MC...` | small instances for TLC | |

How the modules lean on one another. `WorkAllocation` shows what the
assumptions of the others say of an allocation (`WritersTakePart`,
`AllocationIsComplete` (both part of `FitToDistribute`) and `CountsAreChannels` are `CubeAssumption` and the
counts `CubeWriting` starts from; `EveryoneHasUnits` is why nobody
aborts). `WorkDistribution` shows that a message of two halves is one message
and that nothing of it is left at the barrier; `CubeWriting` starts from there
and sends a slice as one message. `NEReduction` shows that a reduction is a sum
of one part per worker; `MajorCycle`, `GriddedImaging` and `Calibration` take it
as one step, which is a theorem for any number of workers. Work units are
atoms: what is computed from one is not modelled, only where it went.

### State and actions against the code

**WorkDistribution.** `mpc` is the master's place in the loop at
`ContinuumMaster.cc:150-167`: `loop`, between the two receives (`body`),
before each of the two sends (`unitSize`, `unitBody`), `left`. `allocated[w]` is
the length of the stack `itsAllocatedWork[w]`, of which only the back is ever
popped; `unitsLeft` is `itsWorkUnitCount > 0`, all that the loop asks.
`requests` and `replies` are the MPI channels. `pc` is the worker's place,
`header` the size that it has received, `workUnits` the list that
`preProcessWorkUnit` fills from the front, `dropped` (history) what it failed
on. `GetAllocation` belongs to the receive of the body. `CheckHasWork` is the
`ASKAPCHECK` whose failure ends in `MPI_Abort`.

**WorkAllocation.** One action per turn of each loop: `AdjustPerCore`;
`ShareFrequency`, one frequency; `MatchSet`, one data set searched for it,
`NextFrequency` and `NextWorker` around that; `AssignWriter`, one worker;
`CopyGroups`; then `updateComms`, with `AddWorker` for a worker and `CountUnit`
for a unit, and `SetSink`. `stage` is the place in the code and `turn`, `item` and
`set` are the loop indices; `NChanCube` and `BaseChannel` are the cube a writer
then makes. `undefined` is a `push_back` beyond
the end of a vector, `refused` a failed check. The job (ranks, groups,
frequencies, which data set has which frequency) is a variable that never
changes, so that one run goes through all jobs of a size.

**CubeWriting.** `done` is `workUnitCount`, `outstanding` the count of
`CubeComms::writerMap`, `target` the local `targetOutstanding`, `mail` the
slices under way, `created` the cubes, `cube` their content per channel;
`settled` and `failed` are history. One channel is one step: the spin for a
unit with data, its epochs, the minor and major cycles. Its failures are those
the handler at 1321-1378 sees: the first `calcNE` (the counter is past one
unit), a later step (past the channel), and writing.

**MajorCycle.** Normal equations are functions from unit and model version to
how often they went in. `below` is the outcome of the residual test, free at
each solution; master and workers evaluate it on the same number. `cycle` and
`stopping` are the workers' own. The NE reset of 1143-1177 is `Restarted`.

**NEReduction.** `level` and `at` are the place in the loop over the levels,
`log2` is how often a number can be halved, parents and children are computed as
the code does, in group ranks that become true ranks for messages. `merged` is
what a rank has merged so far; `Places` are where normal equations can be: in
the master, in a rank, in a message.

**UnitCompression.** One action per outcome of the loop body at 409-459: the
run goes on, breaks, ends.

**TmpfsCache.** Each `stat`, the creation and the removal of the flag, the check for the output
inside `split`, its creation and its end, and each removal of a file are
separate steps, since other processes act between them.

**ParallelWriting.** `at` is the chunk of the master's iterator, `mpc` its
place in `masterIteration` (status, metadata, scatter, gather), `turn` the
worker of its send and receive loops. `cast`, `slices`, `results` are
broadcasts, scattered and returned slices on their way. A worker's place `wpc`
goes through `advance()`: status, metadata, slice, then `correct()`, then
`next()`, which sends back before it asks for more. A visibility or flag is a
cell that says which chunk and channel it is of and which solutions were
applied to it, so that a slice in the wrong place or corrected with another
channel's solutions can be told. `Start` and `RefuseChunk` are the checks that
throw; a worker may throw in `correct()`.

**Calibration.** A model is the interval it is for and how often it was
solved; normal equations are the chunk and the model they are made from.
`metadata` has the flag and the time; `Merge` is `Params::merge`, which adds
what is missing and leaves what is there. `CreateEquation` (first cycle of an
interval) accumulates a chunk, moves the adapter on and sets the flag,
`ReuseEquation` only takes the new model. `NextInterval` and `NextCycle` are the
ends of the loops of master and worker in `ccalibrator.cc`, with `init()`.

**BandpassCalibration.** `quality` is how many cycles the data of a unit allow,
-1 without any. `StartUnit`, `SolveUnit`, `Notify`, `SendModel`, `NextUnit` are the
body of the worker's loop; the master takes a notification from any worker and
then the model from that one. `valid` is the absence of the mark that
`solveNE` puts on the model and `reset()` removes. `Debug` is whether
`ASKAPDEBUGASSERT` is compiled in: then `StartUnit` fails for a feed that is not
less than the number of beams (`AssertionFails`; section 5). The assertion in
the master is no step of its own, since the worker of the model has passed it.

**GriddedImaging.** An image is a number, its content whether it has any.
`BroadcastModel` is one group's share; `StartEquations` is `calcOne` and the
head of `calcImagingEquations`, `AggregateFlag` and `Update` the two
all-reduces, taken by all ranks of a communicator together, `Predict` and
`Grid` the two passes over a chunk. `subtracted` remembers what was subtracted from
each chunk: that is what tells a complete model from a partial one. `Signal` is
SIGUSR1; the master looks at it after a solution.

**CubeTurns.** The channels of a rank are those the two programs compute.
`TakeTurn`, `WritePlane` and `PassTurn` are one turn; a message is a count per rank,
since it has no content. A channel is one plane.

## 3. Runs

Each run is one question: is what the component does what its abstract
specification says, do its processes come to their end, and what has to be true
in between for that.

| run | instance | what it shows |
|---|---|---|
| `distribution` | 3 workers with 1, 2, 1 units | no unit is lost, doubled, reordered; halves match; the barrier means that nothing is left; the exchange ends and implements `WorkDelivery`; the invariant of the proof |
| `allocation` | all jobs of 1-4 ranks (6 in groups), 2-4 frequencies, 1-2 data sets, every way data can match | `FitToDistribute`: complete, everybody has units, writers take part; counts are channels, slices fit |
| `cube_writing` | two writers on one cube; writer 1 with three channels, one of them in two epochs, and two clients; units without data; all failures, except `calcNE` on the channel with epochs | `WritersKnow`: counts stay true, no writer sends, the cube exists before it is written; nobody is left behind; the loop ends and implements `CubeAssembly` |
| `major_cycle` | 3 workers, 2 cycles, one first and one second unit may fail | `SameCycle`: no contribution stale or doubled, both sides stop together; it ends, implements `SerialImaging` |
| `reduction` | 6 workers in one group or in two of 3, 2 sums | `ReductionsApart`: parts are in one place, sums whole, rounds do not mix; it ends, implements `Gathering` |
| `compression` | all lists of up to 5 channels of 2 data sets | what the loop has kept so far; a single run becomes a single unit |
| `tmpfs_cache` | 3 workers, 2 shared files, failing splits and channels | what is left behind when all end; a stale flag stops its owner, and is the only thing that stops anybody |
| `parallel_writing` | 3 workers; sets of no chunk, of one with too few channels, of equal chunks of 4 and 5 channels, of changing ones; all four modes and the one that is refused | `InStep`: slices between processes are of the present chunk, nothing is left when it is over; it ends, implements `SerialWriting` |
| `calibration` | 3 workers, 2 cycles, 1 to 3 intervals each, equally many or not; both kinds of matrix | whatever is on its way is of the present interval and cycle (`IInv`); it ends if the numbers of intervals agree; implements `Solving` |
| `bandpass` | with debug assertions; 2 beams in the other order of feeds, 2 channels, 2 cycles, 3 workers with 2, 1, 1 units of all qualities | notifications and models stay in step; the table gets each valid solution once; it ends unless a worker fails |
| `cube_turns` | deconvolver with 1-4 ranks, 1-7 channels; linmos with 1-3 ranks, 1-5 channels in both divisions, 1-2 mosaics | turns are orderly, each channel is written once, all come to the end |
| `gridded_imaging` | one group of 2 workers; 2 groups of 1 or 2 with up to 3 images and uneven chunks; no cycle at all; more groups than images | collective calls match; it ends unless it is refused or interrupted; implements `Cleaning` |

Each property comes with a mutant in the module (`Name_What`), a plausible slip
in that piece of code that makes TLC find the property violated.

Some properties hold under a condition that the property itself names, since
without it the code does wait for ever (section 5): `Terminates` of
`Calibration` (`Regular`: equally many intervals, one with a parallel matrix) and
of `GriddedImaging` (no signal was acted upon), `TurnsEnd` of `CubeTurns` (each
rank of linmos has a channel); `ChannelsOnce` (the deconvolver's division is even). The
instances include the other cases, for the remaining properties hold there
too.

Deadlock is not checked in `tmpfs_cache` (a worker may sleep for ever on the
flag of its own failed split), `calibration`, `cube_turns` and
`gridded_imaging` (the cases just named).

### Bounds, and why they suffice

- Three workers: the processes interact only pairwise with the master, a
  writer or a parent, and through counters; two give all orders of a pair, the
  third makes "any source" and "somebody else is still at it" happen. The
  safety of all parts in section 4 is proved for any number.
- Six workers in the tree: three levels and a parent with a left child only in
  one group; ranks in a group that differ from true ranks in two.
- Two groups of two: the last group, which gets what is left of the images, is not
  the first; two communicators with data of different length. Further groups
  would be like the first.
- Two sums, two cycles: the second shows what the first left behind; two
  cycles allow a stop by the residual and one by the count. Three intervals: a
  first, a middle and a last one. Three chunks likewise.
- One or two units per worker: first, further and last unit differ in the
  code, a middle one does not. Three where the writing has to interleave own
  and foreign slices.
- Four ranks and seven channels: all remainders of the division, fewer channels
  than ranks, and a ring whose turn comes round while ranks have different
  numbers of channels left.
- Two files, two of three workers on both: sharing, and order of two locks.
- `NCycles`, `Rounds`, `Jobs` and the lists of units and chunks are the
  program's own bounds or the length of a job; no other counter is capped.

### Fairness

Weak fairness of each process (and of each collective call once all are
there): a rank that can go on does so, messages arrive, barriers complete. That
is what MPI promises of ranks that run. A blocking send may return at once,
when MPI buffers the message, or only when it was received, and a broadcast
likewise. The actions allow both: the step after a send is possible at once, so
the safety properties hold for any buffering; but fairness only asks for it
when nothing the process sent is still under way, so the liveness properties do
not depend on a buffer. The exception is `CubeTurns`, whose messages of a few
bytes are taken to be sent without waiting: the last message of the ring is
never received, so the program depends on it. Nothing is assumed of the order in
which a receive from any source picks, except that each rank's own messages
stay in order. A sleep on a flag file is a step that is not enabled while the
flag exists. Failures and the signal have no fairness: they may happen, and
need not.

A rank that dies takes the job with it (`MPI_Abort` or `exit`), and nothing is
restarted or persisted; so there is no recovery to model.

## 4. Proofs

`WorkDistribution_proofs` proves, for every finite set of workers, every allocation
and any buffering of sends (assumption `ConstantsAssumption`):

| theorem | |
|---|---|
| `Invariance` | `Spec => []IInv` |
| `TypeCorrect` | `TypeOK` |
| `NoUnitIsLost` | `NothingLost` |
| `KeepsOrder` | `AllocationOrder` |
| `MessagesStayWhole` | `FramesMatch` |
| `BarrierMeansDistributed` | `PassedMeansDistributed` |
| `MasterServesAll` | `LeavesServed` |
| `AbortIsJustified` | `AbortsOnlyWithoutWork` |

None of the properties is inductive alone. `NothingLost`, say, does not rule
out a state in which two answers are under way. `IInv` adds:

- `Exchange(w)`: the seven ways in which the master, the two queues and worker
  `w` can be together. From it every receive is known to find the right half.
- `Accounted(w)`: the unit underway is the one above the top of the stack;
  what the worker has or dropped is everything above that. It ties the three
  places of a unit to one number.
- `Counted`: `unitsLeft` and `remainingWorkers` are what they stand for,
  the latter the number of workers that have no DONE, on hand or on its way.
  Without it nothing is known when the master leaves.
- `TogetherPast`: the barrier lets all through at once.

The proof goes action by action; each action's effect on `Exchange` and
`Accounted` of the worker concerned, and of the others (which it does not
touch), is a step, and facts about short sequences and cardinalities are
lemmas. The seven safety theorems then follow from `IInv` alone.

The next part proves `DeliveryImplemented`, `Spec => ImplementsDelivery`, under
the same assumption. The abstract state is what is left to
hand to each worker (`Left`: its stack and the unit underway), its list,
which lists are complete, and whether the barrier opened. Only three kinds of
step change it: a worker preprocesses a unit (`Keep` or `Drop`), reads DONE
(`Close`), or everyone passes the barrier (`Release`); `MasterLeft` and
`WorkerLeft` show that all the others leave `Left` alone. `IInv` says that the
unit a worker preprocesses is the one left on top and that DONE means nothing
is left; beside it only `BarrierHasWork` is needed, that a worker past the
check has a unit.

Its last part proves of `WorkAllocation`, for any jobs (`JobsAssumption`: the groups
divide the ranks, only data sets that there are have a frequency, and the checks
at the beginning of `prepare` hold):

| theorem | |
|---|---|
| `AllocationInvariance` | `Allocation => []AllocationInvariant` |
| `AllocationFits` | `FitToDistribute` |
| `WritersKnowTheirChannels` | `CountsAreChannels` |
| `CubesAreLargeEnough` | `SlicesFitTheCube` |

The invariant says of each loop what it has done wherever it is. The shares are
runs of `perCore` frequencies, filled one after the other (`InRuns`), so a
frequency's place is known from the loop indices (`LoopPlace`): that is why
`globalChannel`, which is only counted up, is the frequency. A worker then has
exactly the units that are `Due` to it, in order, up to the data set that is being searched
(`Matched`). `Assigned` is the writers, of which only whether a worker has data
matters; that a writer writes for itself is `WriterOf`: the first worker of a
block is the first of its own. `Tallied` is the maps of `CubeComms`: each count
is a number of different frequencies read so far, which rests on the order of
units, since `lastFreq` remembers only one frequency (`CountsNew`), and on no two workers of a group
having one frequency. That the cubes are large enough needs `Even`: the
matching is reached only if `nchanpercore` times the workers is the number of
frequencies, for otherwise an index was past the end (section 5).

`ContinuumWorker_proofs` is about two parts of that class. It proves of
`compressWorkUnits`, for lists of any length and any data sets
(`ListsAssumption`: a list is not empty and its units have one channel each):

| theorem | |
|---|---|
| `LoopKeepsEveryUnit` | `KeptSoFar` |
| `SingleRunBecomesUnit` | `RunBecomesUnit` |

`KeptSoFar` needs `CountFits`: `contiguousCount` is the width of the unit that
grows, or zero just after a unit was begun. The zero is harmless only because
the unit that follows then has to be the same channel again, which adds
nothing. It fails after the last turn of the loop, where the theorem says no more;
`EveryUnitCovered` in section 5 is what happens there. `RunSoFar` says that a single run never
leaves the first branch.

and of the cache, for any workers, any units and whatever fails
(`CacheAssumption`: each worker has a unit, and its last one ends a channel):

| theorem | |
|---|---|
| `FlagsAlwaysHaveOwners` | `FlagsHaveOwners` |
| `NothingIsLeftBehind` | `NothingLeftBehind` |

Several workers may write one copy at a time, each dropping the flag file and
each unlinking it, so neither property is a matter of counting. What is
inductive is that each flag file and each whole copy has somebody who accounts
for it, not who it is. `Owns`: a worker writes under the flag file, or failed to
and is back at the same unit, where the flag file itself keeps it. `Keeps`: a
worker is about to remember the copy, or remembers it and has a unit to go, is
clearing and has not come to it, or failed last. `AtUnit` with the
assumption says that a worker in the middle of a channel has a unit to go,
since the last unit ends a channel; without it a copy could be remembered by a
worker that will never clear again. `OwnStep` reduces a step to what its own
worker owns and keeps. That the copy somebody reads is whole is not among them:
`ReadsWholeCopies` in section 5 fails.

`Calibration_proofs` proves, for any number of workers, cycles and intervals and
both kinds of matrix (`JobAssumption`), also when the workers have different
numbers of intervals:

| theorem | |
|---|---|
| `Initially`, `Invariance` | `Spec => []IInv` |
| `SolvingImplemented` | `Spec => ImplementsSolving` |

The invariant has three parts beside the types:

- `InStep(w)`: the six ways in which the master, the two queues and worker `w`
  can be together. The interval and the cycle a worker is in are `Stage`, which
  is read off the chunk of its equation, or of the adapter where it has none.
- `AdapterAhead(w)`: the adapter is one chunk ahead of the equation as long as
  there is one, and the flag says whether there is. Without it `Stage` would
  not be known after `init()`, when only the adapter is left to tell it.
- `WrittenSoFar`: how many solutions there are, which the refinement needs to
  tell writing from moving on.

A worker that has run out of data is in none of the first five ways: the sixth
lets it be over with anything the others may see of it. That is why nothing
need be assumed of the numbers of intervals; such jobs stop, but mix nothing.
The refinement then has three steps that do not stutter, `SolveNE`,
`WriteModel` and `NextInterval` of the master; `CalculatesThisCycle` says that
what it receives is of this very cycle.

`MajorCycle_proofs` proves, for any workers, numbers of units and cycles, and any
choice of the units that may fail (`CycleAssumption`):

| theorem | |
|---|---|
| `Invariance` | `Spec => []IInv` |
| `StaysInCycle` | `SameCycle` |
| `SerialImplemented` | `Spec => ImplementsSerial` |

No message numbers a cycle: master and workers count on their own and test the
residual on their own. `InStep(w)` lists the eight places where master and worker
can be at a time, each with the relation of its counters: the version of the
model, the worker's cycle, and whether that is the last. `Computed(w)` says what is
in the normal equations on the way: each unit once with the model of the cycle,
or not at all if it failed. `MasterInStep` is needed for the residual, of which
nothing is known before the first solution. The refinement then is one step,
`SolveNE`; all else stutters.

Its last part proves of `NEReduction`, for any number of workers and sums in a
row, and any number of groups that divides the workers (`ReductionAssumption`):

| theorem | |
|---|---|
| `ReductionInvariance` | `Reduction => []ReductionInvariant` |
| `ReductionsStayApart` | `ReductionsApart` |
| `GatheringImplemented` | `Reduction => ImplementsGathering` |

The invariant speaks of a rank and its children, never of what is below them.
`RankInv`: a rank is at most one sum behind; it holds normal equations from
`calcNE` until it sends; it has sent one message at most, to its parent; and
when it comes to the level of its own depth, each child has sent and was received from
(`Got`). `InOneSlot`: the part of a rank that has computed it is in one place,
with count one. A step that merges or sends moves all that is in one place to another
(`PartsMove`), whatever that is, so no induction over trees is needed there.
That the sum is whole is an argument from the root down: the master has
received from each root (`MasterInv`), and of the ranks that it would not have got
the one with the smallest place in its group has a parent that it has (`AllGot`).
So a rank that begins the next sum finds nothing of the last.

Of the tree it takes that every place but the first is the child of one other,
which comes before it (`ParentPlace`, `ChildPlace`, `ChildExists`), that ranks
in a group and true ranks are one to one (`PlaceInTree`, `RankOfPlace`), and
that nobody is deeper than `Height`, where nobody has children (`DepthInTree`,
the first half of which is the `ASKAPCHECK` at `MEParallel.cc:229`). The last
needs only that `log2` grows and that doubling adds to it; that the recursive
definition defines a function at all is proved by a smallest number for which it
would not (`HalvesExists`, `Log2Def`).

`BandpassCalibration_proofs` proves, for any number of workers, any division of
beams and channels in order, any feeds, and with and without debug assertions
(`ShareAssumption`):

| theorem | |
|---|---|
| `Invariance` | `Spec => []IInv` |
| `EveryModelAnnounced` | `ModelsAnnounced` |
| `FailsForLackOfData` | `FailsOnlyWithoutData`, without debug assertions or with all feeds less than the number of beams |
| `TableImplemented` | `Spec => ImplementsTable` |

What is under way from a worker are the results of the units it went through
last, in order, and the notifications are ahead of them by the one being sent
(`InTransit`); so what the master has of each worker is an interval of its
share, and its counter is the cardinality of their union (`Written`). That a
share ends where the next begins keeps the intervals apart, that `BeamIndex` is
one to one keeps their names apart: without either the count would be reached
while solutions are missing.

`CubeWriting_proofs` proves, for any finite set of workers, any writers and
clients, one sink or many, and units with or without data (`CubeAssumption`):

| theorem | |
|---|---|
| `Invariance` | `Spec => []IInv` |
| `WritersAlwaysKnow` | `WritersKnow` |
| `NobodyLeftBehind` | `NothingLeftBehind` |
| `ChannelsSettleOnce` | `SettledOnce` |
| `AssemblyImplemented` | `Spec => ImplementsAssembly` |

A channel is in one place: ahead of its worker, in its hands, in one message,
or settled (`Apart`); what has become of it (`Known`) follows from its place. The
count of a writer is the cardinality of what its members have in the first
three (`Counted`), whence it is zero only when nobody has anything for it. All
five have the hypothesis `FirstEpochsSucceed`: the first `calcNE` does not fail on a
channel that has several epochs. It is needed, and the first row of section 5
shows what happens without it; it holds of every job with one epoch per
channel, where anything else may fail, and of the instance that TLC checks. Only
`Opened` uses the first barrier: before it all are opening cubes, after it all
cubes exist.

Its last part proves of `CubeTurns`, for either application and any numbers of
ranks, channels and mosaics (`JobsAssumption`):

| theorem | |
|---|---|
| `TurnsInvariance` | `TakingTurns => []TurnsInv` |
| `TurnsAreOrderly` | `OrderlyTurns` |
| `EachChannelOnce` | `ChannelsOnce` |

A rank knows only its own counter and that a message waits. `Chained` ties the
counters of neighbours: the turns passed on to a rank, over all mosaics, are
those it has had and those that wait for it. `OneTurn` says that the turn of
the ring is in one place, which needs that the master has a channel to begin
with. That the rank before is ahead, and has the image created, follows where
neighbours had as many channels in the mosaics before (`SameBefore`): an even
division, or one mosaic; otherwise turns are left over. `WrittenSoFar` gives the
channels by how many the rank has below them, and that each is met is an
argument on the orders of finite sets (`NthExists`, `NthOnce`). That the shares
are disjoint and cover the cube is arithmetic on the two divisions (`OneOwner`,
`EveryChannelGiven`); for the deconvolver it holds only of an even one.

`GriddedImaging_proofs` proves, for any numbers of groups, workers per group,
images, chunks and cycles (`JobsAssumption`):

| theorem | |
|---|---|
| `Invariance` | `Spec => []IInv` |
| `CollectivesAlwaysMatch` | `CollectivesMatch` |
| `CleaningImplemented` | `Spec => ImplementsCleaning` |

A worker awaits the present model, works on its part of it, or has answered
(`InStep`). Peers see each other only in the all-reduces, and what agrees between
them is the number of those each has been through for the present model
(`Passed`, `PeersMatch`), zero for all or for none once the flag was added up. It
agrees because the flag is the same for all who added it up: whether the whole
model has any content, not just the part of the group. The refinement needs
that each image is dealt to one group, so that the answers put together are the
residuals of all images; that is an argument on the division of images, which
gives what is left over to the last group.

`ParallelWriting_proofs` proves, for any number of workers, sets of chunks, modes
and divisions of channels (`PartitionAssumption`):

| theorem | |
|---|---|
| `Invariance` | `Spec => []IInv` |
| `AlwaysInStep` | `InStep` |
| `SerialSteps` | `Spec => Alone!SerialInit /\ [][Alone!Update \/ Alone!Stop]_(Alone!serialVars)` |

A worker comes to the chunk of the master (`Comes`, with what is still in the
two queues before it), works on its slice, has answered, rests between chunks
or ends. `DataInStep` says what is in the measurement set while results are
received: the channels below the start of the slice whose turn it is are new,
the others as they were. That the whole chunk is new after the last result
rests on slices without gaps, that nothing else is written on `Bounds`, that no
slice goes beyond the last channel. `SetUp` is what makes the solutions right that
`correct` applies, since a worker sets them up once, with the offset of the
first status: the number of channels may not change. `SerialSteps` is
`ImplementsSerial` without its fairness.

Assumptions on constants are what the code gives: shares and slices are
contiguous and in order (`RangePartition`, `SynParallel` and
`BPCalibratorParallel` divide so), a worker has a unit (`EveryoneHasUnits` of
`WorkAllocation`), a channel belongs to one worker (`AllocationIsComplete`). Both are proved above,
so that what `CubeWriting` and `TmpfsCache` assume of a worker's units rests on
the allocation. TLC evaluates each on the instance of the run.

Only model-checked is liveness, in every module, and with it the fairness in
`ImplementsSerial` of `ParallelWriting`: the prover has no fairness. All other
properties of the runs are theorems.

## 5. Disagreements between the code and what is said of it

Places where the code does something other than its own comments or checks
say. The first group is stated as a property of its module which TLC
finds violated when it is put into the configuration, with the change named.

| property | source | what happens |
|---|---|---|
| `SettledOnce` of `CubeWriting`, `CanFail <- EpochFails` | `ContinuumWorker.cc:885` | 744-748 counts on to the next frequency to have all units of a channel; when the first `calcNE` of a channel with several epochs fails, the next epoch is taken for a channel of its own and the writer's count is lowered twice |
| `EveryUnitOnce` of `MajorCycle` | `ContinuumWorker.cc:1020` | in continuum mode a unit that throws is left out of the sum; the comment at 994-996 says the exception goes up the tree |
| `EveryFrequencyHasAWorker` of `WorkAllocation`, `Jobs <- UnevenFrequencies` | `AdviseDI.cc:507` | frequencies that do not divide by the workers pass the check at 497 and index past the end of the allocation |
| `EveryUnitCovered` of `UnitCompression` | `ContinuumWorker.cc:442` | `compressWorkUnits` can drop the last unit; 399-400 promises one unit per contiguous group |
| `ReadsWholeCopies` of `TmpfsCache`, `CanFail = {}` | `ContinuumWorker.cc:352` | a worker can read a copy that is being written, although 348 has it wait while someone is |
| `TaggedByItsTime` of `Calibration` | `CalibratorParallel.cc:970` | the solutions of the second interval are tagged with the time of the first: `Params::merge` does not change the `min_time` that was carried over; 961-963 says the earliest time of the data used |
| `OneProcessAtATime` of `CubeTurns`, `Jobs <- OneMosaic` | `linmos-mpi.cc:664-697` | 77 says images have to be written one process at a time; the master goes on with its next channel once it has passed the turn on, and never waits for it |
| `FailsOnlyWithoutData` of `BandpassCalibration`, `BeamIndex <- SparseFeeds` | `BPCalibratorParallel.cc:359` | `BPCalibratorParallel.h:262-264` says that a sparse subset of beams can be solved for; the assertion (and the one at 350, in the master) compares the feed, after the conversion, with the number of beams, so a build with debug assertions fails at a feed beyond it. A build without them writes each solution under its feed |

Those in which processes wait for ever, which `Terminates` and `TurnsEnd` leave out:

- `cimager.cc:178-183`: on SIGUSR1 the master leaves the loop and waits for the
  last normal equations while the workers wait for a model; 142-144 promise to
  exit after the major cycle.
- `ccalibrator.cc:96-106`: measurement sets with different numbers of solution
  intervals; and a parallel matrix with several intervals, where the metadata
  with the flag never reach the master.
- `linmos-mpi.cc:167-170`, `206-209`: a rank without channels returns and the
  others wait for it in the barrier at 700.

Seen on the way, without a property of their own:

- `cdeconvolver-mpi.cc:118-125`: if the ranks do not divide the channels, the
  first channels of the ranks are wrong: some are written twice, some never.
- The last turn of the ring of `cdeconvolver-mpi` is never received; with an
  uneven division, contiguous or distributed, and several mosaics `linmos-mpi` leaves turns over
  that the next mosaic takes for its own.
- `BPCalibratorParallel.cc:429`: with a data set per beam the feed is the index
  into the data sets, of which there are as many as beams (185); 427 asserts it
  in a debug build. A sparse subset has feeds beyond that list.
- `ParallelWriteIterator.cc:420`: the check of the version of a result always
  holds, by the precedence of its operators.
- With fewer frequencies than workers the check at `AdviseDI.cc:497` refuses
  the job, where the comment at 476 allows empty nodes.
- `isWriter()` (`CubeComms.cc:135`) is the count of what is left, not the role
  that `CubeComms.h:52` documents, which the loop survives (`WritersKnow`).
- A split that throws leaves its flag file (`ContinuumWorker.cc:363`); two
  workers can write one copy (354); the barrier between groups (371) is in the
  branch of one group.

## 6. What is not modelled, and why

Most of the source is numeric work or input and output of one process:
gridders, deconvolvers, measurement equations, simulation, image and table
utilities. It is floating point in sequence, without states that TLC could
tell apart or an order that could go wrong; so the mapped lines are a small
part of all lines, and most of those on which several processes have to agree.

- Numbers: gridding, deconvolution, restoring, frequency frames, tolerances,
  rows, polarisations, antennas, noise.
- Input and output: measurement sets, cubes; a write succeeds or throws.
  `CubeWriting` takes what a write throws to be an `AskapError`. Of another type
  it would leave the loop that receives slices (`ContinuumWorker.cc:1286-1297`)
  for the handler at 1355, and in the clean-up the channel loop.
- `CubeWriting`: exceptions in the set-up of a unit (806), after which the same
  unit is tried again; with the first unit the handler reads `workUnits[-1]`.
  The spin past the end of the list (760) is taken to stop, which it does as
  built. `updatedirection` mode builds its images per unit, with the same
  counters. Jobs without any data (`setSingleSink` on an empty map).
- `TmpfsCache`: caching from `preProcessWorkUnit`; the barrier between groups that
  belongs to it; a unit that is tried again and already names its copy as its data set; a
  split that fails at a later epoch of a channel; the error that `split` returns,
  rather than throws, for a channel its data set does not have
  (`MSSplitter.cc:757-762`), which the worker does not look at.
- Calibrators: `DDCalibratorParallel`, whose loop is that of the calibrator
  with directions for beams; serial runs; which parameters have data, phase
  referencing; data sets per beam in the bandpass calibrator.
- `cimager`: serial runs, models read from disk, equations for extended fields
  and for components, restoring.
- `ContSubtractParallel`, `SimParallel`, `AdviseParallel`: one broadcast or one
  merge around sequential work; the writing of `csimulator` is a mode of
  `ParallelWriting`.
- Collective writing and `linmos-mpi` without `serialWrite`, where ranks do not
  wait for each other.
- `CubeComms::buildWriterIndex`, `initWriters`, `anyWork`: nobody calls them.
- `SpectralLineWorkRequest/Unit`: older messages nobody sends.

## 7. Plan

The order is by what is hard and shared by most of the program. Done are the
distributed imager with its allocation, distribution, channel loop, continuum
cycles, reduction, compression and cache; parallel writing; both calibrators;
`cimager` with its groups; the turns of the cube writers; the proofs of
section 4. What is left:

1. `DDCalibratorParallel` as jobs of `Calibration`; the merge of
   `AdviseParallel`; the model broadcast of `ContSubtractParallel`.
2. `TmpfsCache` in continuum mode, with the barrier between groups.
3. Sequential logic: scan bookkeeping of `OpCalImpl`, the fill of
   `PreAvgCalBuffer`, when `DeconvolverControl` stops.
4. Proofs: every invariant and refinement of the runs has its theorem. The
   parts added by 1 to 3 would want theirs.
