--------------------------- MODULE GriddedImaging ---------------------------
(***************************************************************************)
(* The gridded imager, cimager, with groups of workers: the master deals   *)
(* the images of the model out to the groups (SynParallel), the workers of *)
(* all groups that have the same data add up the visibilities they predict *)
(* from their images (ImageFFTEquation with GroupVisAggregator), grid the  *)
(* residuals for their own images and send them to the master, which       *)
(* solves (ImagerParallel), until the cycles, the peak residual or a       *)
(* signal end the loop (cimager.cc).                                       *)
(*                                                                         *)
(* An image is known by its number, what is in it by whether anything is.  *)
(* The reduction over the trees of the groups is taken as a whole.         *)
(***************************************************************************)
EXTENDS Naturals, Sequences, FiniteSets

CONSTANTS Jobs,          \* the sizes and data of a run of the program
          MaxGroups, MaxPerGroup, MaxCycles

ASSUME JobsAssumption ==
    /\ {MaxGroups, MaxPerGroup, MaxCycles} \subseteq Nat
    /\ \A j \in Jobs :
        /\ j.groups \in 1..MaxGroups /\ j.perGroup \in 1..MaxPerGroup
        /\ j.cycles \in 0..MaxCycles
        /\ j.images \in Nat \ {0}
        /\ j.chunks \in [1..j.perGroup -> Nat \ {0}]
        /\ j.reuse \in BOOLEAN

VARIABLES
    job,
    mpc, turn,     \* where the master is, and the group it broadcasts to
    mcycle,        \* its cycle
    version,       \* how often its model has been solved for
    content,       \* the images of it that are not empty
    peak,          \* its peak_residual
    mne,           \* its normal equations: what each worker contributed
    signalled,     \* SIGUSR1 has been received
    interrupted,   \* it has left the loop for that reason
    casts,         \* models on their way to each worker
    sent,          \* normal equations on their way from each worker
    pc, cycle,     \* the workers: place and cycle
    model,         \* itsModel: the part they have received
    last,          \* whether they have left the loop
    equation,      \* the parameters of itsEquation
    degrid,        \* somethingHasToBeDegridded
    chunk,         \* the chunk of their data they are at
    predicted,     \* the images in the buffer of model visibilities
    subtracted     \* what has been subtracted from the chunks before

masterVars == <<mpc, turn, mcycle, version, content, peak, mne, signalled, interrupted>>
workerVars == <<pc, cycle, model, last, equation, degrid, chunk, predicted, subtracted>>
vars == <<job, masterVars, casts, sent, workerVars>>

Group == 1..job.groups
Position == 1..job.perGroup
Worker == Group \X Position
Image == 1..job.images
Grouped == job.groups > 1

\* The workers at a position of their groups share data and a communicator.
Peers(p) == {w \in Worker : w[2] = p}

NoModel == [images |-> {}, version |-> 0, content |-> {}, peak |-> "none"]

Init ==
    /\ job \in Jobs
    /\ mpc = "broadcast" /\ turn = 1 /\ mcycle = 0
    /\ version = 0 /\ peak = "none" /\ mne = <<>>
    /\ content \in IF job.reuse THEN SUBSET Image ELSE {{}}
    /\ signalled = FALSE /\ interrupted = FALSE
    /\ casts = [w \in Worker |-> <<>>]
    /\ sent = [w \in Worker |-> <<>>]
    /\ pc = [w \in Worker |-> "model"]
    /\ cycle = [w \in Worker |-> 0]
    /\ model = [w \in Worker |-> NoModel]
    /\ last = [w \in Worker |-> FALSE]
    /\ equation = [w \in Worker |-> NoModel]
    /\ degrid = [w \in Worker |-> FALSE]
    /\ chunk = [w \in Worker |-> 0]
    /\ predicted = [w \in Worker |-> {}]
    /\ subtracted = [w \in Worker |-> {}]
-----------------------------------------------------------------------------
(* The loop over the major cycles, which master and workers go through     *)
(* each on its own.                                                        *)

LeavesLoop(n, residual) == n = job.cycles \/ residual = "below"
-----------------------------------------------------------------------------
(* The master.                                                             *)

PerGroup == job.images \div job.groups

\* The images of a group; the last one has what is left.
ImagesOf(g) ==
    {i \in Image : (g - 1) * PerGroup < i /\ (g < job.groups => i <= g * PerGroup)}

\* Mutant: what is not an image is not sent to groups.
Kept_Nothing == IF Grouped THEN "none" ELSE peak

\* What is not an image is sent to all groups.
Kept == peak

TooFewImages == Grouped /\ PerGroup = 0

RefuseModel ==
    /\ mpc = "broadcast" /\ TooFewImages
    /\ mpc' = "refused"
    /\ UNCHANGED <<job, turn, mcycle, version, content, peak, mne, signalled, interrupted,
                   casts, sent, workerVars>>

BroadcastModel ==
    /\ mpc = "broadcast" /\ ~TooFewImages
    /\ casts' = [w \in Worker |->
           IF w[1] = turn
           THEN Append(casts[w], [images |-> ImagesOf(turn), version |-> version,
                                  content |-> content \cap ImagesOf(turn), peak |-> Kept])
           ELSE casts[w]]
    /\ IF turn < job.groups
       THEN turn' = turn + 1 /\ UNCHANGED mpc
       ELSE turn' = 1 /\ mpc' = IF LeavesLoop(mcycle, peak) THEN "final" ELSE "solve"
    /\ UNCHANGED <<job, mcycle, version, content, peak, mne, signalled, interrupted,
                   sent, workerVars>>

\* calcNE gives the master new normal equations, to which receiveNE adds.
ReceiveNE ==
    /\ \A w \in Worker : sent[w] # <<>>
    /\ mne' = [w \in Worker |-> Head(sent[w])]
    /\ sent' = [w \in Worker |-> Tail(sent[w])]

\* After the solution a signal ends the loop, but of the master alone.
SolveNE ==
    /\ mpc = "solve" /\ ReceiveNE
    /\ version' = version + 1
    /\ content' \in SUBSET Image
    /\ peak' \in {"above", "below"}
    /\ IF signalled
       THEN mpc' = "final" /\ interrupted' = TRUE /\ UNCHANGED mcycle
       ELSE mpc' = "broadcast" /\ mcycle' = mcycle + 1 /\ UNCHANGED interrupted
    /\ UNCHANGED <<job, turn, signalled, casts, workerVars>>

\* The last residuals; the images are restored and written.
FinalResiduals ==
    /\ mpc = "final" /\ ReceiveNE
    /\ mpc' = "over"
    /\ UNCHANGED <<job, turn, mcycle, version, content, peak, signalled, interrupted,
                   casts, workerVars>>

Signal ==
    /\ job.cycles > 0 /\ mpc # "over" /\ ~signalled
    /\ signalled' = TRUE
    /\ UNCHANGED <<job, mpc, turn, mcycle, version, content, peak, mne, interrupted,
                   casts, sent, workerVars>>

Master == RefuseModel \/ BroadcastModel \/ SolveNE \/ FinalResiduals
-----------------------------------------------------------------------------
(* A worker.                                                               *)

Goto(w, place) == pc' = [pc EXCEPT ![w] = place]
Set(v, w, x) == [v EXCEPT ![w] = x]

ReceiveModel(w) ==
    /\ pc[w] = "model" /\ casts[w] # <<>>
    /\ model' = Set(model, w, Head(casts[w]))
    /\ casts' = Set(casts, w, Tail(casts[w]))
    /\ last' = Set(last, w, LeavesLoop(cycle[w], Head(casts[w]).peak))
    /\ Goto(w, "calc")
    /\ UNCHANGED <<job, masterVars, sent, cycle, equation, degrid, chunk, predicted, subtracted>>

\* Mutant: the equation keeps the parameters it was created with.
Parameters_Kept(w) == IF equation[w] = NoModel THEN model[w] ELSE equation[w]

\* calcOne creates the equation with the model, or gives it the new one.
Parameters(w) == model[w]

\* Mutant: only who has nothing to predict asks the others.
BeforeData_Nothing(something) == IF Grouped /\ ~something THEN "flag" ELSE "data"

\* In a group all ask whether any of them has something to predict.
BeforeData(something) == IF Grouped THEN "flag" ELSE "data"

StartEquations(w) ==
    /\ pc[w] = "calc"
    /\ equation' = Set(equation, w, Parameters(w))
    /\ degrid' = Set(degrid, w, equation'[w].content # {})
    /\ chunk' = Set(chunk, w, 1)
    /\ subtracted' = Set(subtracted, w, {})
    /\ Goto(w, BeforeData(degrid'[w]))
    /\ UNCHANGED <<job, masterVars, casts, sent, cycle, model, last, predicted>>

Aggregated(p) == \E v \in Peers(p) : degrid[v]

\* All ranks of the communicator take part, or none goes on.
AggregateFlag(p) ==
    /\ \A w \in Peers(p) : pc[w] = "flag"
    /\ degrid' = [w \in Worker |-> IF w \in Peers(p) THEN Aggregated(p) ELSE degrid[w]]
    /\ pc' = [w \in Worker |-> IF w \in Peers(p) THEN "data" ELSE pc[w]]
    /\ UNCHANGED <<job, masterVars, casts, sent, cycle, model, last, equation, chunk,
                   predicted, subtracted>>

\* The buffer starts with zeros for each chunk.
Predict(w) ==
    /\ pc[w] = "data" /\ chunk[w] <= job.chunks[w[2]]
    /\ predicted' = Set(predicted, w, IF degrid[w] THEN equation[w].content ELSE {})
    /\ Goto(w, IF degrid[w] /\ Grouped THEN "update" ELSE "grid")
    /\ UNCHANGED <<job, masterVars, casts, sent, cycle, model, last, equation, degrid,
                   chunk, subtracted>>

SumOf(p) == UNION {predicted[w] : w \in Peers(p)}

Update(p) ==
    /\ \A w \in Peers(p) : pc[w] = "update"
    /\ predicted' = [w \in Worker |-> IF w \in Peers(p) THEN SumOf(p) ELSE predicted[w]]
    /\ pc' = [w \in Worker |-> IF w \in Peers(p) THEN "grid" ELSE pc[w]]
    /\ UNCHANGED <<job, masterVars, casts, sent, cycle, model, last, equation, degrid,
                   chunk, subtracted>>

Grid(w) ==
    /\ pc[w] = "grid"
    /\ subtracted' = Set(subtracted, w, subtracted[w] \cup {predicted[w]})
    /\ chunk' = Set(chunk, w, chunk[w] + 1)
    /\ Goto(w, "data")
    /\ UNCHANGED <<job, masterVars, casts, sent, cycle, model, last, equation, degrid, predicted>>

\* After the data the residuals of its images are in the normal equations.
SendNE(w) ==
    /\ pc[w] = "data" /\ chunk[w] > job.chunks[w[2]]
    /\ sent' = Set(sent, w, Append(sent[w],
           [images |-> equation[w].images, version |-> equation[w].version,
            subtracted |-> subtracted[w]]))
    /\ Goto(w, "sent")
    /\ UNCHANGED <<job, masterVars, casts, cycle, model, last, equation, degrid, chunk,
                   predicted, subtracted>>

NextCycle(w) ==
    /\ pc[w] = "sent"
    /\ IF last[w] THEN Goto(w, "over") /\ UNCHANGED cycle
                  ELSE Goto(w, "model") /\ cycle' = Set(cycle, w, cycle[w] + 1)
    /\ UNCHANGED <<job, masterVars, casts, sent, model, last, equation, degrid, chunk,
                   predicted, subtracted>>

WorkerStep(w) ==
    ReceiveModel(w) \/ StartEquations(w) \/ Predict(w) \/ Grid(w) \/ SendNE(w) \/ NextCycle(w)

Collective(p) == AggregateFlag(p) \/ Update(p)
-----------------------------------------------------------------------------
Over == mpc = "over" /\ \A w \in Worker : pc[w] = "over"

Next ==
    \/ Master
    \/ Signal
    \/ \E w \in Worker : WorkerStep(w)
    \/ \E p \in Position : Grouped /\ Collective(p)
    \/ (Over \/ mpc = "refused") /\ UNCHANGED vars

\* Neither a broadcast nor a send need return before it is received; an
\* all-reduce ends when all take part.
Fairness ==
    /\ WF_vars((\A w \in Worker : casts[w] = <<>>) /\ Master)
    /\ \A g \in 1..MaxGroups, p \in 1..MaxPerGroup :
        WF_vars(<<g, p>> \in Worker /\ sent[<<g, p>>] = <<>> /\ WorkerStep(<<g, p>>))
    /\ \A p \in 1..MaxPerGroup : WF_vars(p \in Position /\ Grouped /\ Collective(p))

Spec == Init /\ [][Next]_vars
FairSpec == Spec /\ Fairness
-----------------------------------------------------------------------------
(* Properties.                                                             *)

Models == [images : SUBSET Image, version : 0..MaxCycles, content : SUBSET Image,
           peak : {"none", "above", "below"}]
IsNE(m) == m.images \subseteq Image /\ m.version \in 0..MaxCycles
           /\ m.subtracted \subseteq SUBSET Image

TypeOK ==
    /\ job \in Jobs
    /\ mpc \in {"broadcast", "solve", "final", "over", "refused"}
    /\ turn \in Group /\ mcycle \in 0..job.cycles /\ version \in 0..job.cycles
    /\ content \subseteq Image /\ peak \in {"none", "above", "below"}
    /\ signalled \in BOOLEAN /\ interrupted \in BOOLEAN
    /\ mne # <<>> => DOMAIN mne = Worker /\ \A w \in Worker : IsNE(mne[w])
    /\ pc \in [Worker -> {"model", "calc", "flag", "data", "update", "grid", "sent", "over"}]
    /\ last \in [Worker -> BOOLEAN] /\ degrid \in [Worker -> BOOLEAN]
    /\ \A w \in Worker :
        /\ cycle[w] \in 0..job.cycles /\ chunk[w] \in 0..(job.chunks[w[2]] + 1)
        /\ model[w] \in Models /\ equation[w] \in Models
        /\ predicted[w] \subseteq Image /\ subtracted[w] \subseteq SUBSET Image
        /\ \A i \in 1..Len(casts[w]) : casts[w][i] \in Models
        /\ \A i \in 1..Len(sent[w]) : IsNE(sent[w][i])

\* Ranks of one communicator are never in different collective calls, nor in
\* the same one for different chunks or different models, although each counts
\* its chunks and decides by its own model whether there is anything to
\* predict (ImageFFTEquation.cc:399-462).  With the types of all variables.
CollectivesMatch ==
    /\ TypeOK
    /\ \A p \in Position : \A v, w \in Peers(p) :
        pc[v] \in {"flag", "update"} /\ pc[w] \in {"flag", "update"} =>
            /\ pc[v] = pc[w] /\ chunk[v] = chunk[w]
            /\ equation[v].version = equation[w].version

\* Unless the model cannot be dealt out, or the master has left the loop on a
\* signal, all come to the end: each finds out on its own in which cycle, the
\* workers by the peak residual among the parameters they are sent, and
\* nobody is left in a broadcast, a reduction or a sum (cimager.cc:149-206).
\* After a signal workers wait for the next model, and the master for their
\* normal equations.
Terminates == <>(Over \/ mpc = "refused" \/ interrupted)

\* What has been subtracted from part p of the data for image i, if one group
\* has the image and the same was subtracted throughout.
Subtracted(i, p) ==
    LET with == {w \in Peers(p) : i \in mne[w].images}
        what == UNION {{<<mne[w].version, s>> : s \in mne[w].subtracted} : w \in with}
    IN  IF Cardinality(with) = 1 /\ Cardinality(what) = 1 THEN CHOOSE m \in what : TRUE
                                                         ELSE "a mixture"

Images == Image
Parts == Position
Residuals == IF mne = <<>> THEN <<>> ELSE [x \in Image \X Position |-> Subtracted(x[1], x[2])]
Enough == peak = "below"
Finished == mpc = "over"

\* The groups do together what one processor does that has the whole model,
\* although no worker ever sees more than its own images.
OneProcessor == INSTANCE Cleaning WITH
    Limit <- MaxCycles, images <- Images, parts <- Parts, residuals <- Residuals,
    enough <- Enough, finished <- Finished

ImplementsCleaning == OneProcessor!Cleans
=============================================================================
