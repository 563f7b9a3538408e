-------------------------- MODULE WorkDistribution --------------------------
(***************************************************************************)
(* The work distribution phase of the distributed imager: every worker     *)
(* rank asks the master for a work unit, the master pops the next unit of  *)
(* that rank's allocation (or answers DONE), and the worker pre-processes  *)
(* the unit before it asks again (ContinuumMaster::run and                 *)
(* ContinuumWorker::run, first halves).                                    *)
(*                                                                         *)
(* Each message travels as two MPI messages on one tag, the size of the    *)
(* serialised object and then its bytes, and the master's receive of the   *)
(* size accepts any source.  MPI keeps the order of the messages of one    *)
(* source; a send may return at once, or when the receiver has taken the   *)
(* message: every step after a send is possible at once, but it is not     *)
(* taken for granted before the message is received (Fairness).            *)
(*                                                                         *)
(* A work unit is named by its position in the vector that                 *)
(* AdviseDI::prepare built for its worker; the master's vector is always a *)
(* prefix of that one, so its length stands for it.                        *)
(***************************************************************************)
EXTENDS Naturals, Sequences, FiniteSets

CONSTANTS Worker,      \* the worker ranks
          UnitCount    \* how many units prepare() allocated to each worker

ASSUME ConstantsAssumption ==
    /\ IsFiniteSet(Worker)
    /\ UnitCount \in [Worker -> Nat]

VARIABLES
    \* the master
    mpc,               \* its place in the loop of ContinuumMaster::run
    id,                \* the rank whose request it is answering
    wu,                \* the unit it answers with
    allocated,         \* itsAllocatedWork: how much of each stack is left
    unitsLeft,         \* itsWorkUnitCount > 0, all that is asked of the count
    remainingWorkers,
    \* the messages in transit, one queue per direction and worker
    requests, replies,
    \* the workers
    pc,                \* place in ContinuumWorker::run
    header,            \* the size message received last
    current,           \* the unit received last
    workUnits,         \* the unit list preProcessWorkUnit builds
    dropped,           \* history: the units preProcessWorkUnit failed on
    aborted            \* MPI_Abort was called

masterVars == <<mpc, id, wu, allocated, unitsLeft, remainingWorkers>>
workerVars == <<pc, header, current, workUnits, dropped, aborted>>
vars == <<masterVars, requests, replies, workerVars>>

\* The payload type DONE carries no unit; positions start at 1.
DONE == 0
Position(w) == 1..UnitCount[w]
Payload(w) == {DONE} \cup Position(w)

AnyLeft(stacks) == \E w \in Worker : stacks[w] > 0

-----------------------------------------------------------------------------
(* The master.                                                             *)

Init ==
    /\ mpc = "loop"
    /\ id \in Worker
    /\ wu = DONE
    /\ allocated = UnitCount
    /\ unitsLeft = AnyLeft(UnitCount)
    /\ remainingWorkers = Cardinality(Worker)
    /\ requests = [w \in Worker |-> <<>>]
    /\ replies = [w \in Worker |-> <<>>]
    /\ pc = [w \in Worker |-> "sendSize"]
    /\ header = [w \in Worker |-> DONE]
    /\ current = [w \in Worker |-> DONE]
    /\ workUnits = [w \in Worker |-> <<>>]
    /\ dropped = [w \in Worker |-> {}]
    /\ aborted = FALSE

\* Mutant: the master waits for requests that nobody sends.
MoreToDo_OneMore == unitsLeft \/ remainingWorkers >= 0

MoreToDo == unitsLeft \/ remainingWorkers > 0

\* receiveRequest, first receive: any source, whatever part comes first.
ReceiveRequestSize(w) ==
    /\ mpc = "loop" /\ MoreToDo
    /\ requests[w] # <<>>
    /\ id' = w
    /\ requests' = [requests EXCEPT ![w] = Tail(@)]
    /\ mpc' = "body"
    /\ UNCHANGED <<wu, allocated, unitsLeft, remainingWorkers, replies, workerVars>>

\* Mutant: the unit is read but not popped off the stack.
GetAllocation_NoPop(w) ==
    /\ wu' = allocated[w]
    /\ UNCHANGED <<allocated, unitsLeft>>

\* AdviseDI::getAllocation: DONE leaves the count as it was, a pop
\* recomputes it from the stacks.
GetAllocation(w) ==
    \/ /\ allocated[w] = 0
       /\ wu' = DONE
       /\ UNCHANGED <<allocated, unitsLeft>>
    \/ /\ allocated[w] > 0
       /\ wu' = allocated[w]
       /\ allocated' = [allocated EXCEPT ![w] = @ - 1]
       /\ unitsLeft' = AnyLeft(allocated')

\* Mutant: the second receive accepts any source as well.
ReceiveRequestBody_AnySource ==
    /\ mpc = "body"
    /\ \E w \in Worker :
        /\ requests[w] # <<>>
        /\ requests' = [requests EXCEPT ![w] = Tail(@)]
    /\ GetAllocation(id)
    /\ mpc' = "unitSize"
    /\ UNCHANGED <<id, remainingWorkers, replies, workerVars>>

\* receiveRequest, second receive: from the source of the size.
ReceiveRequestBody ==
    /\ mpc = "body"
    /\ requests[id] # <<>>
    /\ requests' = [requests EXCEPT ![id] = Tail(@)]
    /\ GetAllocation(id)
    /\ mpc' = "unitSize"
    /\ UNCHANGED <<id, remainingWorkers, replies, workerVars>>

Send(w, part) == replies' = [replies EXCEPT ![w] = Append(@, [part |-> part, unit |-> wu])]

SendUnitSize ==
    /\ mpc = "unitSize"
    /\ Send(id, "size")
    /\ mpc' = "unitBody"
    /\ UNCHANGED <<id, wu, allocated, unitsLeft, remainingWorkers, requests, workerVars>>

\* Mutant: every answer counts as a DONE.
LeftToServe_CountsAll == remainingWorkers - 1

LeftToServe == IF wu = DONE THEN remainingWorkers - 1 ELSE remainingWorkers

SendUnitBody ==
    /\ mpc = "unitBody"
    /\ Send(id, "body")
    /\ remainingWorkers' = LeftToServe
    /\ mpc' = "loop"
    /\ UNCHANGED <<id, wu, allocated, unitsLeft, requests, workerVars>>

LeaveLoop ==
    /\ mpc = "loop" /\ ~MoreToDo
    /\ mpc' = "left"
    /\ UNCHANGED <<id, wu, allocated, unitsLeft, remainingWorkers, requests, replies, workerVars>>

Master ==
    \/ \E w \in Worker : ReceiveRequestSize(w)
    \/ ReceiveRequestBody \/ SendUnitSize \/ SendUnitBody \/ LeaveLoop

-----------------------------------------------------------------------------
(* A worker.                                                               *)

SendRequestSize(w) ==
    /\ pc[w] = "sendSize"
    /\ requests' = [requests EXCEPT ![w] = Append(@, "size")]
    /\ pc' = [pc EXCEPT ![w] = "sendBody"]
    /\ UNCHANGED <<masterVars, replies, header, current, workUnits, dropped, aborted>>

SendRequestBody(w) ==
    /\ pc[w] = "sendBody"
    /\ requests' = [requests EXCEPT ![w] = Append(@, "body")]
    /\ pc' = [pc EXCEPT ![w] = "awaitSize"]
    /\ UNCHANGED <<masterVars, replies, header, current, workUnits, dropped, aborted>>

ReceiveUnitSize(w) ==
    /\ pc[w] = "awaitSize"
    /\ replies[w] # <<>>
    /\ header' = [header EXCEPT ![w] = Head(replies[w]).unit]
    /\ replies' = [replies EXCEPT ![w] = Tail(@)]
    /\ pc' = [pc EXCEPT ![w] = "awaitBody"]
    /\ UNCHANGED <<masterVars, requests, current, workUnits, dropped, aborted>>

ReceiveUnitBody(w) ==
    /\ pc[w] = "awaitBody"
    /\ replies[w] # <<>>
    /\ current' = [current EXCEPT ![w] = Head(replies[w]).unit]
    /\ replies' = [replies EXCEPT ![w] = Tail(@)]
    /\ pc' = [pc EXCEPT ![w] = IF Head(replies[w]).unit = DONE THEN "check" ELSE "preprocess"]
    /\ UNCHANGED <<masterVars, requests, header, workUnits, dropped, aborted>>

\* Mutant: push_back, as the commented-out line had it.
InsertUnit_PushBack(list, u) == Append(list, u)

InsertUnit(list, u) == <<u>> \o list

\* preProcessWorkUnit inserts the unit at the front of the list ...
PreProcess(w) ==
    /\ pc[w] = "preprocess"
    /\ workUnits' = [workUnits EXCEPT ![w] = InsertUnit(@, current[w])]
    /\ pc' = [pc EXCEPT ![w] = "sendSize"]
    /\ UNCHANGED <<masterVars, requests, replies, header, current, dropped, aborted>>

\* ... or throws an AskapError before it does, which is logged and forgotten.
PreProcessFails(w) ==
    /\ pc[w] = "preprocess"
    /\ dropped' = [dropped EXCEPT ![w] = @ \cup {current[w]}]
    /\ pc' = [pc EXCEPT ![w] = "sendSize"]
    /\ UNCHANGED <<masterVars, requests, replies, header, current, workUnits, aborted>>

NoWork(list) == list = <<>>

\* ASKAPCHECK(workUnits.size() > 0): its failure makes main() call abort().
CheckHasWork(w) ==
    /\ pc[w] = "check"
    /\ IF NoWork(workUnits[w])
       THEN aborted' = TRUE /\ UNCHANGED pc
       ELSE pc' = [pc EXCEPT ![w] = "barrier"] /\ UNCHANGED aborted
    /\ UNCHANGED <<masterVars, requests, replies, header, current, workUnits, dropped>>

\* Mutant: the barrier opens for whoever is there.
BarrierFull_Any == \E w \in Worker : pc[w] = "barrier"

BarrierFull == Worker # {} /\ \A w \in Worker : pc[w] = "barrier"

\* barrier(theWorkers()): everybody leaves when everybody has arrived.
PassBarrier ==
    /\ BarrierFull
    /\ pc' = [w \in Worker |-> IF pc[w] = "barrier" THEN "passed" ELSE pc[w]]
    /\ UNCHANGED <<masterVars, requests, replies, header, current, workUnits, dropped, aborted>>

WorkerStep(w) ==
    \/ SendRequestSize(w) \/ SendRequestBody(w) \/ ReceiveUnitSize(w) \/ ReceiveUnitBody(w)
    \/ PreProcess(w) \/ PreProcessFails(w) \/ CheckHasWork(w)

-----------------------------------------------------------------------------
Finished == mpc = "left" /\ \A w \in Worker : pc[w] = "passed"

\* The phase is over, or every process was killed: nothing more to do here.
Terminated == (aborted \/ Finished) /\ UNCHANGED vars

Next ==
    \/ ~aborted /\ Master
    \/ ~aborted /\ \E w \in Worker : WorkerStep(w)
    \/ ~aborted /\ PassBarrier
    \/ Terminated

\* A blocking send has returned for sure when all that was sent is received.
SendReturned(queue) == queue = <<>>

\* Every process keeps running, but for sends that need not return yet, and
\* every message arrives.
Fairness ==
    /\ WF_vars(~aborted /\ SendReturned(replies[id]) /\ Master)
    /\ \A w \in Worker : WF_vars(~aborted /\ SendReturned(requests[w]) /\ WorkerStep(w))
    /\ WF_vars(~aborted /\ PassBarrier)

Spec == Init /\ [][Next]_vars
FairSpec == Spec /\ Fairness
-----------------------------------------------------------------------------
(* Properties.                                                             *)

Sent == [part : {"size", "body"}, unit : Nat]

TypeOK ==
    /\ mpc \in {"loop", "body", "unitSize", "unitBody", "left"}
    /\ id \in Worker
    /\ wu \in Nat
    /\ allocated \in [Worker -> Nat]
    /\ unitsLeft \in BOOLEAN
    /\ remainingWorkers \in Nat
    /\ requests \in [Worker -> Seq({"size", "body"})]
    /\ replies \in [Worker -> Seq(Sent)]
    /\ pc \in [Worker -> {"sendSize", "sendBody", "awaitSize", "awaitBody",
                          "preprocess", "check", "barrier", "passed"}]
    /\ header \in [Worker -> Nat]
    /\ current \in [Worker -> Nat]
    /\ workUnits \in [Worker -> Seq(Nat)]
    /\ dropped \in [Worker -> SUBSET Nat]
    /\ aborted \in BOOLEAN

Got(w) == {workUnits[w][i] : i \in 1..Len(workUnits[w])}

\* The units taken off w's stack that have not reached its list.
InTransit(w) ==
    LET sent == {replies[w][i] : i \in 1..Len(replies[w])} IN
    {u \in Position(w) :
        \/ mpc \in {"unitSize", "unitBody"} /\ id = w /\ wu = u
        \/ [part |-> "body", unit |-> u] \in sent
        \/ pc[w] = "preprocess" /\ current[w] = u}

Serving(w) == mpc \in {"unitSize", "unitBody"} /\ id = w

\* Every unit of every allocation is in exactly one place: on the master's
\* stack, on its way, in its worker's list, or dropped by that worker; at
\* most one is on its way (ContinuumMaster.cc:150-167, the pop-and-send loop).
NothingLost ==
    \A w \in Worker :
        /\ Position(w) = (1..allocated[w]) \cup InTransit(w) \cup Got(w) \cup dropped[w]
        /\ InTransit(w) \subseteq {allocated[w] + 1}
        /\ \A u \in Got(w) \cup dropped[w] : u > allocated[w] /\ u \notin InTransit(w)
        /\ Got(w) \cap dropped[w] = {}

\* The list of a worker is in the order of its allocation, although the
\* master pops the last unit first (ContinuumWorker.cc:519 inserts at the
\* front): the channel loop relies on it to meet the epochs of a channel together.
AllocationOrder ==
    \A w \in Worker : \A i, j \in 1..Len(workUnits[w]) :
        i < j => workUnits[w][i] < workUnits[w][j]

\* No receive takes the wrong half of a message, although both halves have
\* the same tag and the master's first receive accepts any source
\* (ContinuumWorkRequest.cc receiveRequest, ContinuumWorkUnit.cc receiveUnitFrom).
FramesMatch ==
    \A w \in Worker :
        /\ requests[w] # <<>> =>
              Head(requests[w]) = (IF mpc = "body" /\ id = w THEN "body" ELSE "size")
        /\ replies[w] # <<>> =>
              Head(replies[w]).part = (IF pc[w] = "awaitBody" THEN "body" ELSE "size")
        /\ pc[w] = "awaitBody" /\ replies[w] # <<>> => Head(replies[w]).unit = header[w]

\* The worker that has seen DONE has nothing outstanding with the master.
AllDelivered(w) ==
    allocated[w] = 0 /\ requests[w] = <<>> /\ replies[w] = <<>> /\ ~Serving(w)

\* Past the barrier every worker has its whole allocation and no message of
\* this phase is left that a later receive on the same communicator could take.
PassedMeansDistributed ==
    (\E w \in Worker : pc[w] = "passed") =>
        \A v \in Worker : AllDelivered(v) /\ Got(v) \cup dropped[v] = Position(v)

\* The master leaves its loop only when every rank was told DONE and no
\* request is unanswered (the two counters of ContinuumMaster.cc:150).
LeavesServed ==
    mpc = "left" =>
        \A w \in Worker :
            /\ allocated[w] = 0 /\ requests[w] = <<>>
            /\ \/ pc[w] \in {"check", "barrier", "passed"}
               \/ \E i \in 1..Len(replies[w]) :
                      replies[w][i] = [part |-> "body", unit |-> DONE]

\* The job is killed only for a worker that every unit failed on or that
\* was given none (ContinuumWorker.cc:200).
AbortsOnlyWithoutWork ==
    aborted => \E w \in Worker : dropped[w] = Position(w) /\ allocated[w] = 0

\* The exchange comes to its end: nobody waits for a message that is never sent.
Terminates == <>(aborted \/ Finished)

(* The inductive invariant behind the properties above.                    *)

Size(u) == [part |-> "size", unit |-> u]
Body(u) == [part |-> "body", unit |-> u]

Closed == {"check", "barrier", "passed"}

\* Where the master, the two queues and one worker can be together.
Reading(w) == mpc = "body" /\ id = w

Exchange(w) ==
    \/ /\ pc[w] \in {"sendSize", "preprocess"} \cup Closed
       /\ ~Reading(w) /\ ~Serving(w) /\ requests[w] = <<>> /\ replies[w] = <<>>
    \/ /\ pc[w] = "sendBody"
       /\ ~Serving(w) /\ replies[w] = <<>>
       /\ requests[w] = IF Reading(w) THEN <<>> ELSE <<"size">>
    \/ /\ pc[w] = "awaitSize"
       /\ ~Serving(w) /\ replies[w] = <<>>
       /\ requests[w] = IF Reading(w) THEN <<"body">> ELSE <<"size", "body">>
    \/ /\ pc[w] = "awaitSize"
       /\ Serving(w) /\ requests[w] = <<>>
       /\ replies[w] = IF mpc = "unitSize" THEN <<>> ELSE <<Size(wu)>>
    \/ /\ pc[w] = "awaitSize"
       /\ ~Reading(w) /\ ~Serving(w) /\ requests[w] = <<>>
       /\ \E u \in Payload(w) : replies[w] = <<Size(u), Body(u)>>
    \/ /\ pc[w] = "awaitBody"
       /\ Serving(w) /\ mpc = "unitBody" /\ header[w] = wu
       /\ requests[w] = <<>> /\ replies[w] = <<>>
    \/ /\ pc[w] = "awaitBody"
       /\ ~Reading(w) /\ ~Serving(w) /\ requests[w] = <<>>
       /\ replies[w] = <<Body(header[w])>>

\* The unit on its way to w, if there is one, and whether an answer is.
Answered(w) == Serving(w) \/ replies[w] # <<>>
Underway(w) ==
    IF Serving(w) THEN wu
    ELSE IF replies[w] # <<>> THEN replies[w][Len(replies[w])].unit
    ELSE IF pc[w] = "preprocess" THEN current[w] ELSE DONE

\* The lowest position that has left the stack is the one underway.
Accounted(w) ==
    /\ allocated[w] <= UnitCount[w]
    /\ Underway(w) # DONE => Underway(w) = allocated[w] + 1 /\ Underway(w) <= UnitCount[w]
    /\ Underway(w) = DONE /\ (Answered(w) \/ pc[w] \in Closed) => allocated[w] = 0
    /\ pc[w] = "preprocess" => Underway(w) # DONE
    /\ Got(w) \cup dropped[w] =
          {u \in Position(w) : u > allocated[w] /\ u # Underway(w)}
    /\ Got(w) \cap dropped[w] = {}

\* The workers that have DONE, or whose DONE is wholly on its way.
Told(w) == pc[w] \in Closed \/ (~Serving(w) /\ replies[w] # <<>> /\ Underway(w) = DONE)

Counted ==
    /\ unitsLeft = AnyLeft(allocated)
    /\ remainingWorkers = Cardinality({w \in Worker : ~Told(w)})
    /\ mpc = "left" => ~unitsLeft /\ remainingWorkers = 0

TogetherPast == \A v, w \in Worker : pc[v] = "passed" => pc[w] = "passed"

IInv ==
    /\ TypeOK
    /\ \A w \in Worker : Exchange(w) /\ Accounted(w)
    /\ AllocationOrder
    /\ Counted
    /\ TogetherPast
    /\ AbortsOnlyWithoutWork

\* How many units are still to be handed to w: the ones on the stack of the
\* master and the one underway.
Left(w) == allocated[w] + (IF Underway(w) = DONE THEN 0 ELSE 1)
LeftToHand == [w \in Worker |-> Left(w)]
Complete == {w \in Worker : pc[w] \in Closed}
Released == \E w \in Worker : pc[w] = "passed"

\* The exchange implements WorkDelivery.
Delivered == INSTANCE WorkDelivery WITH
    left <- LeftToHand, kept <- workUnits, closed <- Complete, released <- Released

ImplementsDelivery == Delivered!Delivery
=============================================================================
