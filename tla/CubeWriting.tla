---------------------------- MODULE CubeWriting ----------------------------
(***************************************************************************)
(* The channel loop of the spectral line imager (solverpercore): every     *)
(* worker images its channels in turn.  Some workers are also writers;     *)
(* each channel goes to the writer of its worker, which puts it into its   *)
(* cube.  A writer knows by counts alone when it has everything: updateComms*)
(* counts the channels allocated to it and its clients, the loop lowers    *)
(* the count for each channel written or given up.  Between two channels   *)
(* of its own a writer takes in as many slices as it has clients, after    *)
(* its last one the rest (ContinuumWorker::processChannels, CubeComms,     *)
(* AdviseDI::updateComms).                                                 *)
(*                                                                         *)
(* A slice travels as the size and the body of a ContinuumWorkRequest,     *)
(* which WorkDistribution shows to stay together; here it is one message.  *)
(* The units of a worker are given by the channel each belongs to: the     *)
(* epochs of a channel are consecutive, NA marks a unit without data.      *)
(***************************************************************************)
EXTENDS Naturals, Sequences, FiniteSets

CONSTANTS Worker,      \* the worker ranks
          NA,          \* payload type of a unit that matches no data
          Units,       \* the channels of each worker's units, in their order
          Writer,      \* get_writer(), the writer of each worker
          SingleSink,  \* singleoutputfile: one cube for all the writers
          CanFail      \* which steps of the processing of a channel may throw

Index(w) == 1..Len(Units[w])
ChannelOf(w, i) == Units[w][i]
ChannelsOf(w) == {ChannelOf(w, i) : i \in Index(w)} \ {NA}
Channel == UNION {ChannelsOf(w) : w \in Worker}

ASSUME CubeAssumption ==
    /\ Worker \subseteq Nat /\ IsFiniteSet(Worker)
    /\ Writer \in [Worker -> Worker]
    /\ \A w \in Worker : Len(Units[w]) \in Nat \ {0}
    \* AdviseDI::prepare: a writer with work writes its own channels,
    /\ \A w \in Worker : ChannelsOf(w) # {} => Writer[Writer[w]] = Writer[w]
    \* has a channel of its own,
    /\ \A w \in Worker : ChannelsOf(w) # {} => ChannelsOf(Writer[w]) # {}
    \* and a channel is allocated to one worker, its epochs in a row.
    /\ \A v, w \in Worker : v # w => ChannelsOf(v) \cap ChannelsOf(w) = {}
    /\ \A w \in Worker : \A i, j \in Index(w) :
          ChannelOf(w, i) = ChannelOf(w, j) /\ ChannelOf(w, i) # NA =>
              \A k \in i..j : ChannelOf(w, k) = ChannelOf(w, i)
    /\ SingleSink \in BOOLEAN
    /\ \A c \in Channel : CanFail[c] \subseteq {"calcNE", "solveNE", "write"}

VARIABLES
    pc,            \* place of each worker in processChannels
    done,          \* workUnitCount
    outstanding,   \* writerMap[rank]: what is left for this rank to write
    target,        \* targetOutstanding
    mail,          \* the slices sent by each worker and not yet received
    created,       \* the cubes that exist, by the rank of their creator
    cube,          \* what was written for each channel
    settled,       \* history: how often a count was lowered for a channel
    failed         \* history: the channels whose processing failed

vars == <<pc, done, outstanding, target, mail, created, cube, settled, failed>>
-----------------------------------------------------------------------------
(* The counts and the roles, as updateComms sets them up.                  *)

\* Mutant: every epoch is counted.
CountedUnits_EveryEpoch(w) == {i \in Index(w) : ChannelOf(w, i) # NA}

\* The units at which the channel changes.
CountedUnits(w) ==
    {i \in Index(w) : ChannelOf(w, i) # NA /\ (i = 1 \/ ChannelOf(w, i - 1) # ChannelOf(w, i))}

Member(v) == {w \in Worker : Writer[w] = v /\ ChannelsOf(w) # {}}
Writers == {v \in Worker : Member(v) # {}}

ToWrite(v) == Cardinality(UNION {{w} \X CountedUnits(w) : w \in Member(v)})

\* getClients(): the other workers of this writer; their entries in its own
\* workerMap are never lowered.
Clients(v) == Member(v) \ {v}

\* isWriter() returns the count, not the role.
IsWriter(w) == outstanding[w] # 0

Creator == IF SingleSink
           THEN {v \in Writers : \A u \in Writers : v <= u}
           ELSE Writers
SinkOf(v) == IF SingleSink THEN CHOOSE u \in Creator : TRUE ELSE v

Init ==
    /\ pc = [w \in Worker |-> "open"]
    /\ done = [w \in Worker |-> 0]
    /\ outstanding = [w \in Worker |-> ToWrite(w)]
    /\ target = [w \in Worker |-> 0]
    /\ mail = [w \in Worker |-> <<>>]
    /\ created = {}
    /\ cube = [c \in Channel |-> "unwritten"]
    /\ settled = [c \in Channel |-> 0]
    /\ failed = {}

Goto(w, place) == pc' = [pc EXCEPT ![w] = place]
-----------------------------------------------------------------------------
(* The cubes are created, or co-opted, before a common barrier.            *)

OpenCubes(w) ==
    /\ pc[w] = "open"
    /\ created' = IF IsWriter(w) /\ w \in Creator THEN created \cup {w} ELSE created
    /\ Goto(w, "ready")
    /\ UNCHANGED <<done, outstanding, target, mail, cube, settled, failed>>

AllAt(place) == Worker # {} /\ \A w \in Worker : pc[w] = place

PassBarrier ==
    /\ AllAt("ready")
    /\ pc' = [w \in Worker |-> IF pc[w] = "ready" THEN "next" ELSE pc[w]]
    /\ UNCHANGED <<done, outstanding, target, mail, created, cube, settled, failed>>
-----------------------------------------------------------------------------
(* Imaging one channel.                                                    *)

\* The spin for a good unit, and the last unit of its channel.
GoodAfter(w) == {i \in Index(w) : i > done[w] /\ ChannelOf(w, i) # NA}
FirstGood(w) == CHOOSE i \in GoodAfter(w) : \A j \in GoodAfter(w) : i <= j

LastEpoch(w) ==
    CHOOSE i \in GoodAfter(w) :
        /\ ChannelOf(w, i) = ChannelOf(w, FirstGood(w))
        /\ \A j \in GoodAfter(w) : ChannelOf(w, j) = ChannelOf(w, i) => j <= i

ImageChannel(w) ==
    /\ pc[w] = "next" /\ GoodAfter(w) # {}
    /\ done' = [done EXCEPT ![w] = LastEpoch(w)]
    /\ Goto(w, "deliver")
    /\ UNCHANGED <<outstanding, target, mail, created, cube, settled, failed>>

\* workUnitCount when the first calcNE throws: past the unit it failed on,
\* and when a later step throws (solveNE, restoreImage): past the channel.
CalcFailedAt(w) == FirstGood(w)
SolveFailedAt(w) == LastEpoch(w)

FailChannel(w) ==
    /\ pc[w] = "next" /\ GoodAfter(w) # {}
    /\ LET c == ChannelOf(w, FirstGood(w)) IN
       /\ \/ "calcNE" \in CanFail[c] /\ done' = [done EXCEPT ![w] = CalcFailedAt(w)]
          \/ "solveNE" \in CanFail[c] /\ done' = [done EXCEPT ![w] = SolveFailedAt(w)]
       /\ failed' = failed \cup {c}
    /\ Goto(w, "recover")
    /\ UNCHANGED <<outstanding, target, mail, created, cube, settled>>

NoMoreChannels(w) ==
    /\ pc[w] = "next" /\ GoodAfter(w) = {}
    /\ Goto(w, "cleanup")
    /\ UNCHANGED <<done, outstanding, target, mail, created, cube, settled, failed>>
-----------------------------------------------------------------------------
(* Delivering it.                                                          *)

\* Mutant: the unit that comes next labels the slice.
Current_Next(w) == ChannelOf(w, IF done[w] < Len(Units[w]) THEN done[w] + 1 ELSE done[w])

\* workUnits[workUnitCount - 1], whose channel labels what is delivered.
Current(w) == ChannelOf(w, done[w])

\* Each time the count is lowered, it is for one channel.
Settle(v, c) ==
    /\ outstanding' = [outstanding EXCEPT ![v] = @ - 1]
    /\ settled' = [settled EXCEPT ![c] = @ + 1]

\* handleImageParams throws AskapErrors, which leave the count alone.
Write(c, what) ==
    \/ cube' = [cube EXCEPT ![c] = what] /\ UNCHANGED failed
    \/ "write" \in CanFail[c] /\ failed' = failed \cup {c} /\ UNCHANGED cube

Target(n, k) == IF n < k THEN 0 ELSE n - k

WriteOwn(w) ==
    /\ pc[w] = "deliver" /\ IsWriter(w)
    /\ cube' = [cube EXCEPT ![Current(w)] = "image"]
    /\ Settle(w, Current(w))
    /\ target' = [target EXCEPT ![w] = Target(outstanding[w] - 1, Cardinality(Clients(w)))]
    /\ Goto(w, "drain")
    /\ UNCHANGED <<done, mail, created, failed>>

\* handleImageParams throws: straight to the handler, nothing is drained.
WriteOwnFails(w) ==
    /\ pc[w] = "deliver" /\ IsWriter(w) /\ "write" \in CanFail[Current(w)]
    /\ failed' = failed \cup {Current(w)}
    /\ Goto(w, "recover")
    /\ UNCHANGED <<done, outstanding, target, mail, created, cube, settled>>

Send(w, c, what) == mail' = [mail EXCEPT ![w] = Append(@, [chan |-> c, what |-> what])]

SendSlice(w) ==
    /\ pc[w] = "deliver" /\ ~IsWriter(w)
    /\ Send(w, Current(w), "image")
    /\ Goto(w, "sent")
    /\ UNCHANGED <<done, outstanding, target, created, cube, settled, failed>>

\* The handler of a failed channel: a writer lowers its count ...
MarkBad(w) ==
    /\ pc[w] = "recover" /\ IsWriter(w)
    /\ Settle(w, Current(w))
    /\ Goto(w, "next")
    /\ UNCHANGED <<done, target, mail, created, cube, failed>>

\* workUnits[goodUnitCount]: workUnitCount is past the unit that failed.
GoodUnit(w) == ChannelOf(w, done[w])

\* ... the others send a blank slice, labelled by the unit before the count.
SendBlank(w) ==
    /\ pc[w] = "recover" /\ ~IsWriter(w)
    /\ Send(w, GoodUnit(w), "blank")
    /\ Goto(w, "sent")
    /\ UNCHANGED <<done, outstanding, target, created, cube, settled, failed>>

\* MPI may buffer the slice, or have the send wait until it is received.
SendReturns(w) ==
    /\ pc[w] = "sent"
    /\ Goto(w, "next")
    /\ UNCHANGED <<done, outstanding, target, mail, created, cube, settled, failed>>
-----------------------------------------------------------------------------
(* Writing what the others send.                                           *)

\* receiveRequest takes from any source; the slices of one source in order.
Receive(v) ==
    \E w \in Worker :
        /\ Writer[w] = v /\ mail[w] # <<>>
        /\ mail' = [mail EXCEPT ![w] = Tail(@)]
        /\ Write(Head(mail[w]).chan, Head(mail[w]).what)
        /\ Settle(v, Head(mail[w]).chan)

\* Mutant: a writer does not look at what it has to write for itself.
Enough_TargetOnly(w) == outstanding[w] <= target[w]

\* One slice per client, but never what is left for the writer's own units.
Enough(w) ==
    outstanding[w] <= target[w] \/ outstanding[w] <= Len(Units[w]) - done[w]

Drain(w) ==
    /\ pc[w] = "drain" /\ ~Enough(w)
    /\ Receive(w)
    /\ UNCHANGED <<pc, done, target, created>>

Drained(w) ==
    /\ pc[w] = "drain" /\ Enough(w)
    /\ Goto(w, "next")
    /\ UNCHANGED <<done, outstanding, target, mail, created, cube, settled, failed>>

\* Mutant: the cleanup leaves the last slice.
Leftover_AllButOne(w) == outstanding[w] > 1

Leftover(w) == outstanding[w] > 0

Cleanup(w) ==
    /\ pc[w] = "cleanup" /\ Leftover(w)
    /\ Receive(w)
    /\ UNCHANGED <<pc, done, target, created>>

Finish(w) ==
    /\ pc[w] = "cleanup" /\ ~Leftover(w)
    /\ Goto(w, "finished")
    /\ UNCHANGED <<done, outstanding, target, mail, created, cube, settled, failed>>

\* The final barrier of ContinuumWorker::run.
PassFinalBarrier ==
    /\ AllAt("finished")
    /\ pc' = [w \in Worker |-> "over"]
    /\ UNCHANGED <<done, outstanding, target, mail, created, cube, settled, failed>>

WorkerStep(w) ==
    \/ OpenCubes(w)
    \/ ImageChannel(w) \/ FailChannel(w) \/ NoMoreChannels(w)
    \/ WriteOwn(w) \/ WriteOwnFails(w) \/ SendSlice(w)
    \/ MarkBad(w) \/ SendBlank(w) \/ SendReturns(w)
    \/ Drain(w) \/ Drained(w) \/ Cleanup(w) \/ Finish(w)

Over == \A w \in Worker : pc[w] = "over"

Next ==
    \/ \E w \in Worker : WorkerStep(w)
    \/ PassBarrier \/ PassFinalBarrier
    \/ Over /\ UNCHANGED vars

\* Every rank keeps running, but for a send that need not return before the
\* slice is received; nothing is assumed of the order of messages.
Fairness ==
    /\ \A w \in Worker : WF_vars(mail[w] = <<>> /\ WorkerStep(w))
    /\ WF_vars(PassBarrier) /\ WF_vars(PassFinalBarrier)

Spec == Init /\ [][Next]_vars
FairSpec == Spec /\ Fairness
-----------------------------------------------------------------------------
(* Properties.                                                             *)

Slice == [chan : Channel, what : {"image", "blank"}]

TypeOK ==
    /\ pc \in [Worker -> {"open", "ready", "next", "deliver", "recover", "sent",
                          "drain", "cleanup", "finished", "over"}]
    /\ done \in [Worker -> Nat] /\ \A w \in Worker : done[w] <= Len(Units[w])
    /\ outstanding \in [Worker -> Nat]
    /\ target \in [Worker -> Nat]
    /\ mail \in [Worker -> Seq(Slice)]
    /\ created \subseteq Worker
    /\ cube \in [Channel -> {"unwritten", "image", "blank"}]
    /\ settled \in [Channel -> Nat]
    /\ failed \subseteq Channel

\* Where a channel can be on its way to the cube.
Pending(w) == {ChannelOf(w, i) : i \in GoodAfter(w)}
InHand(w) == IF pc[w] \in {"deliver", "recover"} THEN {Current(w)} ELSE {}
Posted(w) == {mail[w][i].chan : i \in 1..Len(mail[w])}
WorkLeft(w) == Pending(w) \cup InHand(w) \cup Posted(w)

\* The count a writer goes by, lowered at five places of processChannels
\* (ContinuumWorker.cc:1254, 1299, 1331, 1369, 1417), is the number of
\* channels that it or its clients still have: imaged or not, or in a message.
CountIsWorkLeft ==
    \A v \in Writers : outstanding[v] = Cardinality(UNION {WorkLeft(w) : w \in Member(v)})

\* A writer with work of its own is never taken for a client, although
\* isWriter() tells the count and not the role: it would send to itself
\* (ContinuumWorker.cc:1244, 1329).
WritersNeverSend ==
    \A w \in Worker : pc[w] = "sent" \/ mail[w] # <<>> => Writer[w] # w

\* Nothing is written into a cube before the cube exists: the rank that
\* creates it need not be the one that writes (ContinuumWorker.cc:644-711).
WritesFindTheCube ==
    \A w \in Worker : \A c \in ChannelsOf(w) :
        cube[c] # "unwritten" => SinkOf(Writer[w]) \in created

\* What each writer goes by is true at all times, whoever fails where: its count,
\* its role and the cube it writes into (ContinuumWorker.cc:1185-1425).
WritersKnow == TypeOK /\ CountIsWorkLeft /\ WritersNeverSend /\ WritesFindTheCube

\* A writer that leaves the loop leaves nobody behind who still has a slice
\* for it (ContinuumWorker.cc:1395-1419): the send would never be received.
NothingLeftBehind ==
    \A v \in Writers : pc[v] \in {"finished", "over"} =>
        \A w \in Member(v) : WorkLeft(w) = {}

\* The whole loop comes to its end: no writer waits for a slice that nobody
\* sends, no client for a writer that has left.
Terminates == <>Over

\* ContinuumWorker.cc:744-748 has it that counting on until the frequency
\* changes gives "all the workunits for that channel": a channel is settled
\* once, however many epochs it has.
SettledOnce == \A c \in Channel : settled[c] <= 1

\* The loop implements CubeAssembly.
Assembled == INSTANCE CubeAssembly WITH
    fate <- [c \in Channel |-> IF settled[c] = 0 THEN "open"
                              ELSE IF cube[c] = "unwritten" THEN "missing" ELSE cube[c]],
    bad <- failed,
    closed <- \E w \in Worker : pc[w] = "over"

ImplementsAssembly == Assembled!Assembly
=============================================================================
