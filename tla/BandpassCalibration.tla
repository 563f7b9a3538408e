------------------------ MODULE BandpassCalibration ------------------------
(***************************************************************************)
(* The bandpass calibrator: every worker solves for its share of the beams *)
(* and channels, one after the other, and sends the master each model with *)
(* the beam and the channel among its parameters; the master writes those  *)
(* that are valid, in the order they come (BPCalibratorParallel::run).     *)
(*                                                                         *)
(* Antennas and polarisations are left out: a model has a solution, or is  *)
(* marked invalid.  A notification and the model after it travel           *)
(* separately.                                                             *)
(***************************************************************************)
EXTENDS Integers, Sequences

CONSTANTS NWorkers,    \* nProcs() - 1
          NBeams, NChannels,
          NCycles,     \* ncycles
          BeamIndex,   \* beamindices: the feed of each beam to solve for
          First,       \* First[w]: where the iterator of w begins
          Qualities,   \* how often each unit can be solved for, -1 without data
          Debug        \* whether ASKAPDEBUGASSERT is compiled in

Worker == 1..NWorkers
NUnits == NBeams * NChannels
Unit == 0..(NUnits - 1)

\* The shares follow each other and none is left over.
ASSUME ShareAssumption ==
    /\ NWorkers \in Nat \ {0} /\ NCycles \in Nat \ {0}
    /\ NBeams \in Nat \ {0} /\ NChannels \in Nat \ {0}
    /\ First \in [1..(NWorkers + 1) -> 0..NUnits]
    /\ First[1] = 0 /\ First[NWorkers + 1] = NUnits
    /\ \A v, w \in 1..(NWorkers + 1) : v <= w => First[v] <= First[w]
    /\ BeamIndex \in [0..(NBeams - 1) -> Nat]
    /\ \A a, b \in 0..(NBeams - 1) : BeamIndex[a] = BeamIndex[b] => a = b
    /\ Qualities \subseteq [Unit -> -1..NCycles]
    /\ Debug \in BOOLEAN

VARIABLES
    quality,   \* what the data of each unit are good for
    mpc,       \* the master's place
    chunk,     \* how many models it has received
    source,    \* the worker it was notified by
    table,     \* what it has written
    notices,   \* notifications each worker has sent, not yet taken
    sent,      \* models on their way from each worker
    pc, at,    \* the workers: place, and itsWorkUnitIterator
    cycle,
    valid,     \* validSolution(): the model is not marked
    equation   \* the unit whose data itsEquation has, or none

masterVars == <<quality, mpc, chunk, source, table>>
workerVars == <<pc, at, cycle, valid, equation>>
vars == <<masterVars, notices, sent, workerVars>>

None == <<>>

\* currentBeamAndChannel(): the beams change fastest.
BeamAndChannel(u) == <<BeamIndex[u % NBeams], u \div NBeams>>

\* It asserts that the feed is less than the number of beams to solve for.  The
\* master asserts the same of a model, which its worker has asserted before.
AssertionFails(u) == Debug /\ BeamIndex[u % NBeams] >= NBeams

Init ==
    /\ quality \in Qualities
    /\ mpc = "wait" /\ chunk = 0 /\ source = 0 /\ table = {}
    /\ notices = [w \in Worker |-> 0]
    /\ sent = [w \in Worker |-> <<>>]
    /\ pc = [w \in Worker |-> "unit"]
    /\ at = [w \in Worker |-> First[w]]
    /\ cycle = [w \in Worker |-> 0]
    /\ valid = [w \in Worker |-> TRUE]
    /\ equation = [w \in Worker |-> None]
-----------------------------------------------------------------------------
(* A worker.                                                               *)

Goto(w, place) == pc' = [pc EXCEPT ![w] = place]
Set(v, w, x) == [v EXCEPT ![w] = x]

HasMore(w) == at[w] < First[w + 1]

\* Mutant: a mark stays on the model.
ResetModel_Marked(w) == valid[w]

\* reset() of the model also removes the mark.
ResetModel(w) == TRUE

\* Mutant: the equation of the unit before is used again.
ResetEquation_Kept(w) == equation[w]

ResetEquation(w) == None

StartUnit(w) ==
    /\ pc[w] = "unit" /\ HasMore(w)
    /\ equation' = Set(equation, w, ResetEquation(w))
    /\ valid' = Set(valid, w, ResetModel(w))
    /\ cycle' = Set(cycle, w, 0)
    /\ Goto(w, IF AssertionFails(at[w]) THEN "failed" ELSE "solve")
    /\ UNCHANGED <<masterVars, notices, sent, at>>

\* The first calcNE of a unit finds no row at all, and throws.
NoData(w) == equation[w] = None /\ quality[at[w]] = -1

NoDataAvailable(w) ==
    /\ pc[w] = "solve" /\ NoData(w)
    /\ Goto(w, "failed")
    /\ UNCHANGED <<masterVars, notices, sent, at, cycle, valid, equation>>

\* calcNE and solveNE: the solution may be marked, as the normal equations are
\* empty or of too low a rank.
SolveUnit(w) ==
    /\ pc[w] = "solve" /\ ~NoData(w)
    /\ equation' = Set(equation, w,
           IF equation[w] = None THEN BeamAndChannel(at[w]) ELSE equation[w])
    /\ valid' = Set(valid, w, valid[w] /\ cycle[w] < quality[at[w]])
    /\ cycle' = Set(cycle, w, cycle[w] + 1)
    /\ Goto(w, IF cycle'[w] < NCycles /\ valid'[w] THEN "solve" ELSE "notify")
    /\ UNCHANGED <<masterVars, notices, sent, at>>

Notify(w) ==
    /\ pc[w] = "notify"
    /\ notices' = Set(notices, w, notices[w] + 1)
    /\ Goto(w, "send")
    /\ UNCHANGED <<masterVars, sent, at, cycle, valid, equation>>

\* The beam and the channel are added to the model.
Tag(w) == BeamAndChannel(at[w])

SendModel(w) ==
    /\ pc[w] = "send"
    /\ sent' = Set(sent, w, Append(sent[w],
           [tag |-> Tag(w), valid |-> valid[w], of |-> equation[w]]))
    /\ at' = Set(at, w, at[w] + 1)
    /\ Goto(w, "sent")
    /\ UNCHANGED <<masterVars, notices, cycle, valid, equation>>

\* The send returns, and the iterator goes on.
NextUnit(w) ==
    /\ pc[w] = "sent"
    /\ Goto(w, "unit")
    /\ UNCHANGED <<masterVars, notices, sent, at, cycle, valid, equation>>

FinishUnits(w) ==
    /\ pc[w] = "unit" /\ ~HasMore(w)
    /\ Goto(w, "over")
    /\ UNCHANGED <<masterVars, notices, sent, at, cycle, valid, equation>>

WorkerStep(w) ==
    \/ StartUnit(w) \/ NoDataAvailable(w) \/ SolveUnit(w)
    \/ Notify(w) \/ SendModel(w) \/ NextUnit(w) \/ FinishUnits(w)
-----------------------------------------------------------------------------
(* The master.                                                             *)

\* Mutant: one result is enough from each worker.
NumberOfWorkUnits_Workers == NWorkers

NumberOfWorkUnits == NBeams * NChannels

WaitForNotification ==
    /\ mpc = "wait" /\ chunk < NumberOfWorkUnits
    /\ \E w \in Worker :
        /\ notices[w] > 0
        /\ notices' = Set(notices, w, notices[w] - 1)
        /\ source' = w
    /\ mpc' = "receive"
    /\ UNCHANGED <<quality, chunk, table, sent, workerVars>>

\* The model replaces the one before, and is written unless it is marked.
ReceiveModel ==
    /\ mpc = "receive" /\ sent[source] # <<>>
    /\ LET m == Head(sent[source]) IN
       table' = IF m.valid THEN table \cup {[at |-> m.tag, of |-> m.of]} ELSE table
    /\ sent' = Set(sent, source, Tail(sent[source]))
    /\ chunk' = chunk + 1
    /\ mpc' = "wait"
    /\ UNCHANGED <<quality, source, notices, workerVars>>

\* The table is written when itsSolAcc is destroyed.
CloseTable ==
    /\ mpc = "wait" /\ chunk = NumberOfWorkUnits
    /\ mpc' = "over"
    /\ UNCHANGED <<quality, chunk, source, table, notices, sent, workerVars>>

Master == WaitForNotification \/ ReceiveModel \/ CloseTable
-----------------------------------------------------------------------------
Failed == \E w \in Worker : pc[w] = "failed"
Over == mpc = "over" /\ \A w \in Worker : pc[w] = "over"

\* A process that throws leaves by exit(1).
Next ==
    \/ Master
    \/ \E w \in Worker : WorkerStep(w)
    \/ (Failed \/ Over) /\ UNCHANGED vars

\* Neither a notification nor a model need be sent before it is received.
Fairness ==
    /\ WF_vars(Master)
    /\ \A w \in Worker :
        /\ WF_vars(sent[w] = <<>> /\ pc[w] # "send" /\ WorkerStep(w))
        /\ WF_vars(notices[w] = 0 /\ SendModel(w))

Spec == Init /\ [][Next]_vars
FairSpec == Spec /\ Fairness
-----------------------------------------------------------------------------
(* Properties.                                                             *)

Element == {BeamAndChannel(u) : u \in Unit}
Model == [tag : Element, valid : BOOLEAN, of : Element]

TypeOK ==
    /\ quality \in Qualities
    /\ mpc \in {"wait", "receive", "over"} /\ chunk \in 0..NUnits /\ source \in 0..NWorkers
    /\ table \subseteq [at : Element, of : Element]
    /\ notices \in [Worker -> Nat]
    /\ sent \in [Worker -> Seq(Model)]
    /\ pc \in [Worker -> {"unit", "solve", "notify", "send", "sent", "over", "failed"}]
    /\ at \in [Worker -> 0..NUnits] /\ cycle \in [Worker -> 0..NCycles]
    /\ valid \in [Worker -> BOOLEAN]
    /\ equation \in [Worker -> {None} \cup Element]

Taken(w) == IF mpc = "receive" /\ source = w THEN 1 ELSE 0
Announced(w) == IF pc[w] = "send" THEN 1 ELSE 0

\* Whichever worker the master hears of, the notifications and the models of
\* one worker stay in step, so that the model it then receives from that worker
\* is the one it was notified of, and no more are sent than it waits for; and
\* each says of which beam and channel it is, although a worker does not wait
\* for the master between two units (BPCalibratorParallel.cc:287-294, 301-309,
\* 370-404).  With the types of all variables.
ModelsAnnounced ==
    /\ TypeOK
    /\ \A w \in Worker :
        /\ notices[w] + Taken(w) = Len(sent[w]) + Announced(w)
        /\ Len(sent[w]) <= at[w] - First[w] /\ at[w] <= First[w + 1]
        /\ \A i \in 1..Len(sent[w]) :
            /\ sent[w][i].of = sent[w][i].tag
            /\ sent[w][i].tag = BeamAndChannel(at[w] - Len(sent[w]) + i - 1)

\* The units with a solution in every cycle.
Good == {u \in Unit : quality[u] = NCycles}

\* In whatever order the workers come in, the master writes every valid
\* solution once, where it belongs, and closes the table when it has them all:
\* it never takes a model for that of another unit, a mark or an equation never
\* stays for the next unit (BPCalibratorParallel.cc:245-309, 333-354, 370-404).
Filled == INSTANCE BandpassTable WITH
    solvable <- {BeamAndChannel(u) : u \in Good},
    closed <- mpc = "over"

ImplementsTable == Filled!Solved

\* A sparse subset of the beams can be solved for
\* (BPCalibratorParallel.h:262-264): a worker fails only where there are no data.
\* A build with assertions fails for any feed that is not less than the number
\* of beams (BPCalibratorParallel.cc:350, 359).
FailsOnlyWithoutData ==
    \A w \in Worker : pc[w] = "failed" => quality[at[w]] = -1

\* Unless a worker fails, which ends the job, every process comes to its
\* end: the master receives as many models as there are units, although each
\* worker stops by its own iterator (BPCalibratorParallel.cc:245, 300-303).
Terminates == <>(Failed \/ Over)
=============================================================================
