----------------------------- MODULE MajorCycle -----------------------------
(***************************************************************************)
(* The continuum imaging loop (no local solver): the master broadcasts a   *)
(* model, every worker computes the normal equations of its units with it  *)
(* and sends them, the master solves them for the next model.  Master and  *)
(* workers count the cycles and test the peak residual separately; nobody  *)
(* tells the other that it stops (second half of ContinuumMaster::run,     *)
(* ContinuumWorker::processChannels with solverpercore = false, with       *)
(* ImagerParallel, MEParallel and SynParallel below them).                 *)
(*                                                                         *)
(* Normal equations are described by what went into them: how often each   *)
(* unit was added with each version of the model.  The reduction tree of   *)
(* MEParallel::reduceNE is taken as a whole: the master has the sum when   *)
(* every worker has sent its part.                                         *)
(***************************************************************************)
EXTENDS Naturals, Sequences

CONSTANTS Worker,
          UnitCount,   \* the units of each worker after compressWorkUnits
          NCycles,     \* ncycles
          CanFail      \* the units of each worker whose calcNE may throw

ASSUME CycleAssumption ==
    /\ Worker # {}
    /\ UnitCount \in [Worker -> Nat \ {0}]
    /\ NCycles \in Nat
    /\ \A w \in Worker : CanFail[w] \subseteq 1..UnitCount[w]

VARIABLES
    mpc,               \* the master's place
    mmodel,            \* the version of its model: how often it has solved
    below,             \* that model's peak_residual is below the threshold
    mne,               \* its normal equations, per worker
    models,            \* broadcasts not yet received, per worker
    sent,              \* normal equations not yet merged, per worker
    pc, cycle,         \* the workers: place and majorCycleNumber
    model,             \* the version of the model they hold
    stopping,
    ne,                \* their normal equations
    aborted            \* MPI_Abort was called

masterVars == <<mpc, mmodel, below, mne>>
workerVars == <<pc, cycle, model, stopping, ne>>
vars == <<masterVars, models, sent, workerVars, aborted>>

Version == 0..NCycles
Unit(w) == 1..UnitCount[w]

\* The units of us that may be left out, or not.
Surviving(w, us) == {good \in SUBSET us : us \ CanFail[w] \subseteq good}

NoNE(w) == [i \in Unit(w) |-> [v \in Version |-> 0]]

\* The NE with the units us added once more, computed with version v.
Added(e, us, v) ==
    [i \in DOMAIN e |-> [e[i] EXCEPT ![v] = IF i \in us THEN @ + 1 ELSE @]]

Init ==
    /\ mpc = "broadcast" /\ mmodel = 0 /\ below = FALSE
    /\ mne = [w \in Worker |-> NoNE(w)]
    /\ models = [w \in Worker |-> <<>>]
    /\ sent = [w \in Worker |-> <<>>]
    /\ pc = [w \in Worker |-> "start"]
    /\ cycle = [w \in Worker |-> 0]
    /\ model = [w \in Worker |-> 0]
    /\ stopping = [w \in Worker |-> NCycles = 0]
    /\ ne = [w \in Worker |-> NoNE(w)]
    /\ aborted = FALSE
-----------------------------------------------------------------------------
(* The master.                                                             *)

\* After the first broadcast the master solves, unless ncycles is 0; after
\* the others it goes on until the cycles or the residual run out.
MasterStops == mmodel = NCycles \/ below

Message == [version |-> mmodel, below |-> below]

Broadcast(queue) == Append(queue, Message)

BroadcastModel ==
    /\ mpc = "broadcast"
    /\ models' = [w \in Worker |-> Broadcast(models[w])]
    /\ mpc' = IF MasterStops THEN "residuals" ELSE "solve"
    /\ UNCHANGED <<mmodel, below, mne, sent, workerVars, aborted>>

\* Mutant: calcNE does not start from empty normal equations.
Reduced_NoReset(w) ==
    [i \in Unit(w) |-> [v \in Version |-> mne[w][i][v] + Head(sent[w])[i][v]]]

\* calcNE empties the master's NE, receiveNE adds what the workers sent.
Reduced(w) == [i \in Unit(w) |-> [v \in Version |-> Head(sent[w])[i][v]]]

ReceiveNE ==
    /\ \A w \in Worker : sent[w] # <<>>
    /\ mne' = [w \in Worker |-> Reduced(w)]
    /\ sent' = [w \in Worker |-> Tail(sent[w])]

\* calcNE and solveNE: the solution is the next version of the model.
Solve ==
    /\ mpc = "solve"
    /\ ReceiveNE
    /\ mmodel' = mmodel + 1
    /\ below' \in BOOLEAN
    /\ mpc' = "broadcast"
    /\ UNCHANGED <<models, workerVars, aborted>>

\* The residuals of the last model, which are then written.
ReceiveResiduals ==
    /\ mpc = "residuals"
    /\ ReceiveNE
    /\ mpc' = "written"
    /\ UNCHANGED <<mmodel, below, models, workerVars, aborted>>

Master == BroadcastModel \/ Solve \/ ReceiveResiduals
-----------------------------------------------------------------------------
(* A worker.                                                               *)

Goto(w, place) == pc' = [pc EXCEPT ![w] = place]

Receive(w) ==
    /\ models[w] # <<>>
    /\ models' = [models EXCEPT ![w] = Tail(@)]
    /\ model' = [model EXCEPT ![w] = Head(models[w]).version]

\* The barrier and receiveModel before the cycles; the first calcNE must
\* succeed, or the error goes up to main(), which aborts the job.
FirstModel(w) ==
    /\ pc[w] = "first" /\ Receive(w)
    /\ ne' = [ne EXCEPT ![w] = Added(NoNE(w), {1}, Head(models[w]).version)]
    /\ Goto(w, "units")
    /\ UNCHANGED <<masterVars, sent, cycle, stopping, aborted>>

FirstModelFails(w) ==
    /\ pc[w] = "first" /\ Receive(w)
    /\ 1 \in CanFail[w]
    /\ aborted' = TRUE
    /\ UNCHANGED <<masterVars, sent, pc, cycle, stopping, ne>>

\* The other units are computed one by one and merged; one that throws is
\* left out.
MergeUnits(w) ==
    /\ pc[w] = "units"
    /\ \E good \in Surviving(w, Unit(w) \ {1}) :
          ne' = [ne EXCEPT ![w] = Added(@, good, model[w])]
    /\ Goto(w, "send")
    /\ UNCHANGED <<masterVars, models, sent, cycle, model, stopping, aborted>>

SendNE(w) ==
    /\ pc[w] = "send"
    /\ sent' = [sent EXCEPT ![w] = Append(@, ne[w])]
    /\ Goto(w, "sent")
    /\ UNCHANGED <<masterVars, models, cycle, model, stopping, ne, aborted>>

\* MPI may buffer them, or have the send wait until they are received.
SendReturns(w) ==
    /\ pc[w] = "sent"
    /\ Goto(w, "barrier")
    /\ UNCHANGED <<masterVars, models, sent, cycle, model, stopping, ne, aborted>>

\* Mutant: one cycle more than the master has.
WorkerStops_OneMore(w, low) == low \/ cycle[w] = NCycles

WorkerStops(w, low) == low \/ cycle[w] + 1 = NCycles

\* Mutant: the normal equations are not reset between the cycles.
Restarted_NoReset(w, us, v) == Added(ne[w], us, v)

\* The NE a cycle starts from: reset, with the first unit computed anew.
Restarted(w, us, v) == Added(NoNE(w), us, v)

\* The model for the next cycle; a calcNE that throws here is ignored.
NextModel(w) ==
    /\ pc[w] = "next" /\ Receive(w)
    /\ stopping' = [stopping EXCEPT ![w] = WorkerStops(w, Head(models[w]).below)]
    /\ \E good \in Surviving(w, {1}) :
          ne' = [ne EXCEPT ![w] = Restarted(w, good, Head(models[w]).version)]
    /\ cycle' = [cycle EXCEPT ![w] = @ + 1]
    /\ Goto(w, "units")
    /\ UNCHANGED <<masterVars, sent, aborted>>

WorkerStep(w) ==
    \/ FirstModel(w) \/ FirstModelFails(w) \/ MergeUnits(w)
    \/ SendNE(w) \/ SendReturns(w) \/ NextModel(w)

\* barrier(theWorkers()): before the first model, after each cycle, at the end.
Barrier(place, onward) ==
    /\ \A w \in Worker : pc[w] = place
    /\ pc' = onward
    /\ UNCHANGED <<masterVars, models, sent, cycle, model, stopping, ne, aborted>>

StartBarrier == Barrier("start", [w \in Worker |-> "first"])
CycleBarrier ==
    Barrier("barrier", [w \in Worker |-> IF stopping[w] THEN "final" ELSE "next"])
FinalBarrier == Barrier("final", [w \in Worker |-> "over"])

Over == mpc = "written" /\ \A w \in Worker : pc[w] = "over"

Next ==
    \/ ~aborted /\ Master
    \/ ~aborted /\ \E w \in Worker : WorkerStep(w)
    \/ ~aborted /\ (StartBarrier \/ CycleBarrier \/ FinalBarrier)
    \/ (aborted \/ Over) /\ UNCHANGED vars

\* Every process keeps running, but for a send that need not return before
\* it is received, and collective calls complete.
Fairness ==
    /\ WF_vars(~aborted /\ Master)
    /\ \A w \in Worker : WF_vars(~aborted /\ sent[w] = <<>> /\ WorkerStep(w))
    /\ WF_vars(~aborted /\ (StartBarrier \/ CycleBarrier \/ FinalBarrier))

Spec == Init /\ [][Next]_vars
FairSpec == Spec /\ Fairness
-----------------------------------------------------------------------------
(* Properties.                                                             *)

NE(w) == [Unit(w) -> [Version -> Nat]]

TypeOK ==
    /\ mpc \in {"broadcast", "solve", "residuals", "written"}
    /\ mmodel \in Version /\ below \in BOOLEAN
    /\ \A w \in Worker :
        /\ mne[w] \in NE(w) /\ ne[w] \in NE(w)
        /\ models[w] \in Seq([version : Version, below : BOOLEAN])
        /\ sent[w] \in Seq(NE(w))
    /\ pc \in [Worker -> {"start", "first", "units", "send", "sent", "barrier",
                          "next", "final", "over"}]
    /\ cycle \in [Worker -> Version]
    /\ model \in [Worker -> Version]
    /\ stopping \in [Worker -> BOOLEAN]
    /\ aborted \in BOOLEAN

Once(w, i, v) == mne[w][i] = [u \in Version |-> IF u = v THEN 1 ELSE 0]
Missing(w, i) == mne[w][i] = [u \in Version |-> 0]

\* The version of the model the NE at the master should be made with.
Expected == IF mpc = "written" THEN mmodel ELSE mmodel - 1
Merged == mpc = "written" \/ (mpc = "broadcast" /\ mmodel > 0)

\* What the master solves, and what it writes residuals of, has each unit of
\* each worker once, computed with the model of that very cycle, or lacks a
\* unit that may fail: nothing is lost, counted twice or left from the cycle
\* before (ContinuumMaster.cc:206, reset at ContinuumWorker.cc:1143-1177).
NothingStale ==
    Merged => \A w \in Worker : \A i \in Unit(w) :
        Once(w, i, Expected) \/ (i \in CanFail[w] /\ Missing(w, i))

\* ContinuumWorker.cc:994-996: in continuum mode the exception of a unit goes
\* "up the tree", as "we cannot recover"; so no sum is without a unit.
EveryUnitOnce ==
    Merged => \A w \in Worker : \A i \in Unit(w) : Once(w, i, Expected)

\* Both sides stop after the same cycle, although each decides for itself
\* (ContinuumMaster.cc:198, 215; ContinuumWorker.cc:1090, 1107): a worker that
\* stops has the last model there will be, one that goes on gets another.
AgreeToStop ==
    \A w \in Worker : pc[w] \in {"send", "sent", "barrier"} =>
        IF stopping[w]
        THEN mpc \in {"residuals", "written"} /\ model[w] = mmodel /\ models[w] = <<>>
        ELSE mpc \in {"solve", "broadcast", "residuals"} /\ model[w] < NCycles

\* Master and workers are in the same cycle, in what is solved and in whether
\* they go on (ContinuumMaster.cc:198-258, ContinuumWorker.cc:1065-1177).
SameCycle == TypeOK /\ NothingStale /\ AgreeToStop

\* The cycles come to an end: nobody waits for a model or normal equations
\* that are never sent.
Terminates == <>(aborted \/ Over)

\* The distributed imager does what one processor would that may skip the
\* same units.
DatumOf == UNION {{w} \X Unit(w) : w \in Worker}
Used(d) == {v \in Version : mne[d[1]][d[2]][v] > 0}
Serially == INSTANCE SerialImaging WITH
    Datum <- DatumOf,
    Doubtful <- {d \in DatumOf : d[2] \in CanFail[d[1]]},
    version <- mmodel,
    used <- [d \in DatumOf |-> Used(d)],
    reached <- below,
    imaged <- mpc = "written"

ImplementsSerial == Serially!Serial
=============================================================================
