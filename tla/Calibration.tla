---------------------------- MODULE Calibration ----------------------------
(***************************************************************************)
(* The calibrator: for every solution interval and cycle the master sends  *)
(* its model, each worker compares its measurement set with it and sends   *)
(* normal equations, and the master solves them (the loop of ccalibrator   *)
(* with CalibratorParallel and PreAvgCalMEBase).  With a parallel matrix   *)
(* the workers solve for their own parameters and the master puts them     *)
(* together.  Each process decides by a flag among the metadata of its own *)
(* normal equations whether there is another interval.                     *)
(*                                                                         *)
(* A model is known by the interval it is for and how often it has been    *)
(* solved; normal equations by the data and the model they are made from.  *)
(* Their sum is taken as a whole, as are the parts of a parallel matrix.   *)
(* Which parameters have data, and phase referencing, are left out.        *)
(***************************************************************************)
EXTENDS Naturals, Sequences

CONSTANTS NWorkers,   \* nProcs() - 1
          NCycles,    \* ncycles
          Jobs        \* the measurement sets and the kind of matrix

Worker == 1..NWorkers

ASSUME JobAssumption ==
    /\ NWorkers \in Nat \ {0} /\ NCycles \in Nat \ {0}
    /\ Jobs \subseteq [chunks : [Worker -> Nat \ {0}], parallelMatrix : BOOLEAN]

VARIABLES
    job,
    mpc,           \* the master's place
    mmodel,        \* its model: the interval, and how often it is solved
    mne,           \* its normal equations: what it has from each worker
    mmetadata,     \* their metadata
    written,       \* the solutions it has written
    models,        \* broadcasts not yet received, per worker
    sent,          \* normal equations or solutions on their way to it
    pc, cycle,     \* the workers: place and cycle
    model,         \* the model they hold
    chunk,         \* the time chunk itsIteratorAdapter is at
    equation,      \* the chunk accumulated in itsEquation, 0 without one
    metadata       \* the metadata of their normal equations

masterVars == <<mpc, mmodel, mne, mmetadata, written>>
workerVars == <<pc, cycle, model, chunk, equation, metadata>>
vars == <<job, masterVars, models, sent, workerVars>>

\* next_chunk_flag and min_time: neither is there at first.
NoMetadata == [flag |-> "none", minTime |-> 0]

Fresh(k) == <<k, 0>>
Solved(v) == <<v[1], v[2] + 1>>

Init ==
    /\ job \in Jobs
    /\ mpc = "broadcast" /\ mmodel = Fresh(1)
    /\ mne = [w \in Worker |-> <<>>]
    /\ mmetadata = NoMetadata /\ written = <<>>
    /\ models = [w \in Worker |-> <<>>]
    /\ sent = [w \in Worker |-> <<>>]
    /\ pc = [w \in Worker |-> "model"]
    /\ cycle = [w \in Worker |-> 0]
    /\ model = [w \in Worker |-> Fresh(0)]
    /\ chunk = [w \in Worker |-> 1]
    /\ equation = [w \in Worker |-> 0]
    /\ metadata = [w \in Worker |-> NoMetadata]
-----------------------------------------------------------------------------
(* Metadata.                                                               *)

\* Params::merge adds what is missing and leaves alone what is there.
Merge(m, other) ==
    [flag |-> IF m.flag = "none" THEN other.flag ELSE m.flag,
     minTime |-> IF m.minTime = 0 THEN other.minTime ELSE m.minTime]

\* Mutant: the flag stays among the metadata.
RemoveFlag_Not(m) == m

RemoveFlag(m) == [m EXCEPT !.flag = "none"]

\* getNextChunkFlag(): no flag counts as no more data.
NextChunkFlag(m) == m.flag = "more"
-----------------------------------------------------------------------------
(* The master.                                                             *)

BroadcastModel ==
    /\ mpc = "broadcast"
    /\ models' = [w \in Worker |-> Append(models[w], mmodel)]
    /\ mpc' = "solve"
    /\ UNCHANGED <<job, mmodel, mne, mmetadata, written, sent, workerVars>>

\* Mutant: the sum of the cycle before is what is solved.
Received_Old(w) == IF mne[w] = <<>> THEN Head(sent[w]).ne ELSE mne[w]

\* The normal equations are new in every cycle.
Received(w) == Head(sent[w]).ne

\* calcNE keeps the metadata there were, and receiveNE merges those of the
\* workers, the first ones first; with a parallel matrix there are none.
SolveNE ==
    /\ mpc = "solve"
    /\ \A w \in Worker : sent[w] # <<>>
    /\ mne' = [w \in Worker |-> Received(w)]
    /\ mmetadata' = IF job.parallelMatrix THEN mmetadata
                    ELSE Merge(mmetadata, Head(sent[1]).metadata)
    /\ sent' = [w \in Worker |-> Tail(sent[w])]
    /\ mmodel' = Solved(mmodel)
    /\ mpc' = IF mmodel'[2] = NCycles THEN "write" ELSE "broadcast"
    /\ UNCHANGED <<job, written, models, workerVars>>

\* solutionTime() is the earliest time in the metadata.
WriteModel ==
    /\ mpc = "write"
    /\ written' = Append(written, [ne |-> mne, time |-> mmetadata.minTime])
    /\ mpc' = "next"
    /\ UNCHANGED <<job, mmodel, mne, mmetadata, models, sent, workerVars>>

\* init() resets the model if there is to be another solution.
NextInterval ==
    /\ mpc = "next"
    /\ IF NextChunkFlag(mmetadata)
       THEN mpc' = "broadcast" /\ mmodel' = Fresh(mmodel[1] + 1)
       ELSE mpc' = "over" /\ UNCHANGED mmodel
    /\ mmetadata' = RemoveFlag(mmetadata)
    /\ UNCHANGED <<job, mne, written, models, sent, workerVars>>

Master == BroadcastModel \/ SolveNE \/ WriteModel \/ NextInterval
-----------------------------------------------------------------------------
(* A worker.                                                               *)

Goto(w, place) == pc' = [pc EXCEPT ![w] = place]
Set(v, w, x) == [v EXCEPT ![w] = x]

ReceiveModel(w) ==
    /\ pc[w] = "model" /\ models[w] # <<>>
    /\ model' = Set(model, w, Head(models[w]))
    /\ models' = Set(models, w, Tail(models[w]))
    /\ Goto(w, "calc")
    /\ UNCHANGED <<job, masterVars, sent, cycle, chunk, equation, metadata>>

MoreData(w) == chunk[w] < job.chunks[w]

\* The first cycle of an interval accumulates its chunk, has the adapter go
\* on to the next one and sets the flag.
CreateEquation(w) ==
    /\ equation[w] = 0
    /\ equation' = Set(equation, w, chunk[w])
    /\ chunk' = IF MoreData(w) THEN Set(chunk, w, chunk[w] + 1) ELSE chunk
    /\ metadata' = Set(metadata, w,
                       [flag |-> IF MoreData(w) THEN "more" ELSE "last",
                        minTime |-> chunk[w]])

\* The others use what has been accumulated, with the new model.
ReuseEquation(w) ==
    /\ equation[w] # 0
    /\ metadata' = [metadata EXCEPT ![w].minTime = equation[w]]
    /\ UNCHANGED <<equation, chunk>>

\* calcNE, and what follows it in the worker: sendNE, or the solution of a
\* parallel matrix and sendModelToMaster.
CalcNE(w) ==
    /\ pc[w] = "calc"
    /\ CreateEquation(w) \/ ReuseEquation(w)
    /\ sent' = Set(sent, w, Append(sent[w],
           [ne |-> [of |-> equation'[w], with |-> model[w]], metadata |-> metadata'[w]]))
    /\ Goto(w, "sent")
    /\ UNCHANGED <<job, masterVars, models, cycle, model>>

\* Mutant: the equation of the first interval is kept.
InitEquation_Kept(w) == equation[w]

\* init() forgets the measurement equation.
InitEquation(w) == 0

\* The send returns; after the last cycle the worker's own flag counts.
NextCycle(w) ==
    /\ pc[w] = "sent"
    /\ IF cycle[w] + 1 < NCycles
       THEN /\ cycle' = Set(cycle, w, cycle[w] + 1)
            /\ Goto(w, "model")
            /\ UNCHANGED <<equation, metadata>>
       ELSE /\ cycle' = Set(cycle, w, 0)
            /\ IF NextChunkFlag(metadata[w])
               THEN Goto(w, "model") /\ equation' = Set(equation, w, InitEquation(w))
               ELSE Goto(w, "over") /\ UNCHANGED equation
            /\ metadata' = Set(metadata, w, RemoveFlag(metadata[w]))
    /\ UNCHANGED <<job, masterVars, models, sent, model, chunk>>

WorkerStep(w) == ReceiveModel(w) \/ CalcNE(w) \/ NextCycle(w)
-----------------------------------------------------------------------------
Over == mpc = "over" /\ \A w \in Worker : pc[w] = "over"

Next ==
    \/ Master
    \/ \E w \in Worker : WorkerStep(w)
    \/ Over /\ UNCHANGED vars

\* Neither a broadcast nor a send need return before it is received.
Fairness ==
    /\ WF_vars((\A w \in Worker : models[w] = <<>>) /\ Master)
    /\ \A w \in Worker : WF_vars(sent[w] = <<>> /\ WorkerStep(w))

Spec == Init /\ [][Next]_vars
FairSpec == Spec /\ Fairness
-----------------------------------------------------------------------------
(* Properties.                                                             *)

Models == Nat \X (0..NCycles)
NE == [of : Nat, with : Models]
Metadata == [flag : {"none", "more", "last"}, minTime : Nat]

TypeOK ==
    /\ job \in Jobs
    /\ mpc \in {"broadcast", "solve", "write", "next", "over"}
    /\ mmodel \in Models
    /\ mne \in [Worker -> NE \cup {<<>>}]
    /\ mmetadata \in Metadata
    /\ written \in Seq([ne : [Worker -> NE \cup {<<>>}], time : Nat])
    /\ models \in [Worker -> Seq(Models)]
    /\ sent \in [Worker -> Seq([ne : NE, metadata : Metadata])]
    /\ pc \in [Worker -> {"model", "calc", "sent", "over"}]
    /\ cycle \in [Worker -> 0..(NCycles - 1)]
    /\ model \in [Worker -> Models]
    /\ chunk \in [Worker -> Nat] /\ equation \in [Worker -> Nat]
    /\ \A w \in Worker : chunk[w] \in 1..job.chunks[w] /\ equation[w] \in 0..job.chunks[w]
    /\ metadata \in [Worker -> Metadata]

\* What a worker is at: the interval, and the cycle.
Stage(w) == <<IF equation[w] = 0 THEN chunk[w] ELSE equation[w], cycle[w]>>
After(v) == IF v[2] + 1 < NCycles THEN Solved(v) ELSE Fresh(v[1] + 1)

\* The model that the master sends next, or has sent last.
Awaited == IF mmodel[2] = NCycles THEN Fresh(mmodel[1] + 1) ELSE mmodel
OnItsWay == IF mpc = "solve" THEN <<mmodel>> ELSE <<>>

\* Normal equations for this very cycle are on their way from w, and no model
\* to it.
Answered(w) ==
    /\ mpc = "solve" /\ models[w] = <<>> /\ Len(sent[w]) = 1
    /\ sent[w][1].ne = [of |-> mmodel[1], with |-> mmodel]

Unanswered(w) == sent[w] = <<>> /\ models[w] = OnItsWay

\* Where a worker can be: not even workers that run out of data early, or a
\* master that stops too early, ever cause a mixture of cycles or intervals.
InStep(w) ==
    \/ /\ pc[w] = "model" /\ Unanswered(w) /\ Stage(w) = Awaited
    \/ /\ pc[w] = "calc" /\ sent[w] = <<>> /\ models[w] = <<>> /\ mpc = "solve"
       /\ model[w] = mmodel /\ Stage(w) = mmodel
    \/ /\ pc[w] = "sent" /\ Answered(w) /\ Stage(w) = mmodel
    \/ /\ pc[w] = "sent" /\ Unanswered(w) /\ After(Stage(w)) = Awaited
    \/ /\ pc[w] = "model" /\ Answered(w) /\ Stage(w) = After(mmodel)
    \/ /\ pc[w] = "over" /\ (Answered(w) \/ Unanswered(w))

\* The adapter is a chunk ahead of the equation, and the flag says whether
\* there is one.
AdapterAhead(w) ==
    /\ equation[w] = 0 => pc[w] \in {"model", "calc"}
    /\ equation[w] # 0 /\ pc[w] # "over" =>
        IF equation[w] < job.chunks[w]
        THEN chunk[w] = equation[w] + 1 /\ metadata[w].flag = "more"
        ELSE metadata[w].flag = "last"

\* Every interval before this one has been written.
WrittenSoFar ==
    /\ mmodel[2] = NCycles <=> mpc \in {"write", "next", "over"}
    /\ Len(written) = IF mpc \in {"next", "over"} THEN mmodel[1] ELSE mmodel[1] - 1

\* Whatever is on its way is for the interval and the cycle that the master
\* is in, and made of the data of that interval, although nobody but the
\* worker counts its chunks and its cycles, and the adapter is moved on in the
\* first of them (ccalibrator.cc:79-108, CalibratorParallel.cc:452-527, 683).
\* With the types, this is inductive.
IInv ==
    /\ TypeOK
    /\ \A w \in Worker : InStep(w) /\ AdapterAhead(w)
    /\ WrittenSoFar

\* The master follows the flag of the first worker, the others follow their
\* own; and with a parallel matrix none ever reaches the master.
Regular ==
    /\ \A w \in Worker : job.chunks[w] = job.chunks[1]
    /\ job.parallelMatrix => job.chunks[1] = 1

\* If the measurement sets have equally many solution intervals (only one, if
\* the matrix is parallel), master and workers stop after the same one: nobody
\* waits for a model or normal equations that are never sent
\* (ccalibrator.cc:96-106).
Terminates == Regular => <>Over

\* All processes together do what one would that has all the data.
Together == INSTANCE Solving WITH
    Part <- Worker,
    interval <- mmodel[1],
    cycle <- mmodel[2],
    used <- mne,
    solutions <- [i \in 1..Len(written) |-> written[i].ne]

ImplementsSolving == Together!Solves

\* CalibratorParallel.cc:961-963: "use the earliest time corresponding to the
\* data used to make this calibration solution to tag the solution".
TaggedByItsTime ==
    \A i \in 1..Len(written) : \E w \in Worker : written[i].time = written[i].ne[w].of
=============================================================================
