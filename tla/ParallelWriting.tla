-------------------------- MODULE ParallelWriting --------------------------
(***************************************************************************)
(* Writing one measurement set from many processes: the master iterates    *)
(* over it (ParallelWriteIterator::masterIteration), sends every worker    *)
(* its slice of the channels of each chunk and writes back what it gets;   *)
(* the workers iterate over the chunks they are sent (advance).  The loop  *)
(* in the workers is the one of ccalapply, which corrects the visibilities *)
(* by the solutions of their channels; without READ, that of csimulator,   *)
(* which predicts them.                                                    *)
(*                                                                         *)
(* Rows and polarisations, and the checks of their numbers, are left out.  *)
(***************************************************************************)
EXTENDS Visibilities, Sequences, Functions

CONSTANTS NWorkers,     \* nProcs() - 1
          DataSets,     \* the channels of every chunk of a measurement set
          Modes,        \* the extensions asked for
          First         \* First[n][w]: where RangePartition puts w's slice of n

Worker == 1..NWorkers

\* Every slice begins where the one before ends; none is empty unless there
\* are fewer channels than workers.
ASSUME PartitionAssumption ==
    /\ NWorkers \in Nat \ {0}
    /\ \A d \in DataSets : d \in Seq(Nat \ {0})
    /\ \A n \in {0} \cup UNION {Range(d) : d \in DataSets} :
        /\ First[n] \in [1..(NWorkers + 1) -> Nat]
        /\ First[n][1] = 0 /\ First[n][NWorkers + 1] = n
        /\ \A w \in Worker :
            /\ First[n][w] <= First[n][w + 1]
            /\ n >= NWorkers => First[n][w] < First[n][w + 1]

VARIABLES
    channels, mode, \* the measurement set, and the mode of the master
    data,           \* the visibilities and flags of every chunk
    at,             \* the chunk the master's iterator is at
    mpc, turn,      \* where the master is, and the worker its loops are at
    total,          \* status.itsTotalNChan
    cast,           \* what the master has broadcast and a worker has yet to take
    slices,         \* what it has sent to one worker
    results,        \* what a worker has sent back
    wpc,            \* where each worker is in its loop
    readVis,        \* whether the status it has received last has READ
    metadata,       \* the chunk its accessor has the metadata of
    accessor,       \* the visibilities and flags of its slice
    flagNeedSync,   \* itsFlagNeedSync
    chanOffset,     \* itsChanOffset
    solutions       \* the channel its first solutions are of, -1 before it has any

job == <<channels, mode>>
masterVars == <<data, at, mpc, turn, total>>
workerVars == <<wpc, readVis, metadata, accessor, flagNeedSync, chanOffset, solutions>>
vars == <<job, masterVars, cast, slices, results, workerVars>>

Chans(k) == 0..(channels[k] - 1)
Slice(n, w) == First[n][w]..(First[n][w + 1] - 1)
\* The channels of a slice as its worker counts them.
Local(n, w) == 0..(First[n][w + 1] - First[n][w] - 1)

Part(cube, n, w) == [c \in Local(n, w) |-> cube[First[n][w] + c]]

None == [vis |-> <<>>, flag |-> <<>>]

Init ==
    /\ channels \in DataSets /\ mode \in Modes
    /\ data = [k \in DOMAIN channels |-> Untouched(k, Chans(k))]
    /\ at = 1 /\ mpc = "start" /\ turn = 1 /\ total = 0
    /\ cast = [w \in Worker |-> <<>>]
    /\ slices = [w \in Worker |-> <<>>]
    /\ results = [w \in Worker |-> <<>>]
    /\ wpc = [w \in Worker |-> "status"]
    /\ readVis = [w \in Worker |-> FALSE]
    /\ metadata = [w \in Worker |-> 0]
    /\ accessor = [w \in Worker |-> None]
    /\ flagNeedSync = [w \in Worker |-> FALSE]
    /\ chanOffset = [w \in Worker |-> 0]
    /\ solutions = [w \in Worker |-> -1]
-----------------------------------------------------------------------------
(* The master.                                                             *)

Supported == "SYNCNOISE" \notin mode

Start ==
    /\ mpc = "start"
    /\ mpc' = IF Supported THEN "status" ELSE "failed"
    /\ UNCHANGED <<job, data, at, turn, total, cast, slices, results, workerVars>>

HasMore == at <= Len(channels)

\* No worker may be idle, and the spectral axis may not change.
ChannelsFit == channels[at] >= NWorkers /\ total \in {0, channels[at]}

Broadcast(m) == cast' = [w \in Worker |-> Append(cast[w], m)]

RefuseChunk ==
    /\ mpc = "status" /\ HasMore /\ ~ChannelsFit
    /\ mpc' = "failed"
    /\ UNCHANGED <<job, data, at, turn, total, cast, slices, results, workerVars>>

\* The mode is sent with the first chunk and from then on.
BroadcastStatus ==
    /\ mpc = "status"
    /\ HasMore => ChannelsFit
    /\ total' = IF HasMore THEN channels[at] ELSE total
    /\ Broadcast([hasMore |-> HasMore, totalNChan |-> total',
                  mode |-> IF total' = 0 THEN {} ELSE mode])
    /\ mpc' = IF HasMore THEN "metadata" ELSE "over"
    /\ UNCHANGED <<job, data, at, turn, slices, results, workerVars>>

BroadcastMetadata ==
    /\ mpc = "metadata"
    /\ Broadcast([chunk |-> at])
    /\ mpc' = "scatter" /\ turn' = 1
    /\ UNCHANGED <<job, data, at, total, slices, results, workerVars>>

SendSlice ==
    /\ mpc = "scatter"
    /\ LET n == channels[at]
           visible == IF "READ" \in mode THEN data[at].vis ELSE Zero(Chans(at))
       IN slices' = [slices EXCEPT ![turn] = Append(@,
              [version |-> IF "READ" \in mode THEN 2 ELSE 1,
               flag |-> Part(data[at].flag, n, turn), vis |-> Part(visible, n, turn)])]
    /\ IF turn = NWorkers THEN mpc' = "gather" /\ turn' = 1
                          ELSE mpc' = mpc /\ turn' = turn + 1
    /\ UNCHANGED <<job, data, at, total, cast, results, workerVars>>

\* Write what a worker has sent into the cube, from its first channel on.
Insert(cube, part, n, w) ==
    [c \in DOMAIN cube |-> IF c \in Slice(n, w) THEN part[c - First[n][w]] ELSE cube[c]]

\* Mutant: the loop ends one worker early.
LastReceived_Short == turn >= NWorkers - 1

LastReceived == turn = NWorkers

\* Mutant: the iterator stays where it is.
NextChunk_Same == at

NextChunk == at + 1

\* The slice must have the shape expected, and the iterator goes on after the
\* last one.  Nothing but the flag decides whether there are flags to read:
\* the check of the version accepts any.
ReceiveResult ==
    /\ mpc = "gather" /\ results[turn] # <<>>
    /\ LET m == Head(results[turn])
           n == channels[at]
           fits == DOMAIN m.vis = Local(n, turn)
       IN  IF fits
           THEN /\ data' = [data EXCEPT
                       ![at].vis = Insert(@, m.vis, n, turn),
                       ![at].flag = IF "SYNCFLAG" \in mode THEN Insert(@, m.flag, n, turn) ELSE @]
                /\ IF LastReceived
                   THEN mpc' = "status" /\ turn' = 1 /\ at' = NextChunk
                   ELSE mpc' = mpc /\ turn' = turn + 1 /\ at' = at
           ELSE mpc' = "failed" /\ UNCHANGED <<data, at, turn>>
    /\ results' = [results EXCEPT ![turn] = Tail(@)]
    /\ UNCHANGED <<job, total, cast, slices, workerVars>>
-----------------------------------------------------------------------------
(* A worker.                                                               *)

Goto(w, place) == wpc' = [wpc EXCEPT ![w] = place]
Set(v, w, x) == [v EXCEPT ![w] = x]

\* The solutions are set up once, after the iterator has been constructed.
ReceiveStatus(w) ==
    /\ wpc[w] = "status" /\ cast[w] # <<>>
    /\ LET s == Head(cast[w]) IN
       /\ Goto(w, IF s.hasMore THEN "metadata" ELSE "over")
       /\ readVis' = Set(readVis, w, "READ" \in s.mode)
       /\ flagNeedSync' = Set(flagNeedSync, w, "SYNCFLAG" \in s.mode)
       /\ chanOffset' = Set(chanOffset, w, First[s.totalNChan][w])
       /\ solutions' = Set(solutions, w, IF solutions[w] = -1 THEN chanOffset'[w] ELSE solutions[w])
    /\ cast' = Set(cast, w, Tail(cast[w]))
    /\ UNCHANGED <<job, masterVars, slices, results, metadata, accessor>>

ReceiveMetadata(w) ==
    /\ wpc[w] = "metadata" /\ cast[w] # <<>>
    /\ metadata' = Set(metadata, w, Head(cast[w]).chunk)
    /\ cast' = Set(cast, w, Tail(cast[w]))
    /\ Goto(w, "slice")
    /\ UNCHANGED <<job, masterVars, slices, results, readVis, accessor, flagNeedSync,
                   chanOffset, solutions>>

ReceiveSlice(w) ==
    /\ wpc[w] = "slice" /\ slices[w] # <<>>
    /\ LET m == Head(slices[w]) IN
       IF m.version = (IF readVis[w] THEN 2 ELSE 1)
       THEN /\ accessor' = Set(accessor, w, [vis |-> m.vis, flag |-> m.flag])
            /\ Goto(w, "correct")
       ELSE Goto(w, "failed") /\ UNCHANGED accessor
    /\ slices' = Set(slices, w, Tail(slices[w]))
    /\ UNCHANGED <<job, masterVars, cast, results, readVis, metadata, flagNeedSync,
                   chanOffset, solutions>>

\* Mutant: channels are counted from the start of the slice.
Apply_FromSlice(w, cells) ==
    [c \in DOMAIN cells |-> [cells[c] EXCEPT !.by = <<metadata[w], c>>]]

\* correct() of the applicator: the time of the chunk and the channel, counted
\* from the offset the solutions were set up with, say which to apply.
Apply(w, cells) ==
    [c \in DOMAIN cells |-> [cells[c] EXCEPT !.by = <<metadata[w], solutions[w] + c>>]]

Correct(w) ==
    /\ wpc[w] = "correct"
    /\ accessor' = Set(accessor, w, [vis |-> Apply(w, accessor[w].vis),
                                     flag |-> Apply(w, accessor[w].flag)])
    /\ Goto(w, "next")
    /\ UNCHANGED <<job, masterVars, cast, slices, results, readVis, metadata, flagNeedSync,
                   chanOffset, solutions>>

\* There are no solutions, or correct() throws.
Fail(w) ==
    /\ wpc[w] = "correct"
    /\ Goto(w, "failed")
    /\ UNCHANGED <<job, masterVars, cast, slices, results, readVis, metadata, accessor,
                   flagNeedSync, chanOffset, solutions>>

\* next() first sends what the accessor has.
SendResult(w) ==
    /\ wpc[w] = "next"
    /\ results' = Set(results, w, Append(results[w],
           [vis |-> accessor[w].vis,
            flag |-> IF flagNeedSync[w] THEN accessor[w].flag ELSE <<>>]))
    /\ Goto(w, "status")
    /\ UNCHANGED <<job, masterVars, cast, slices, readVis, metadata, accessor, flagNeedSync,
                   chanOffset, solutions>>
-----------------------------------------------------------------------------
MasterStep ==
    Start \/ RefuseChunk \/ BroadcastStatus \/ BroadcastMetadata \/ SendSlice \/ ReceiveResult

WorkerStep(w) ==
    ReceiveStatus(w) \/ ReceiveMetadata(w) \/ ReceiveSlice(w) \/ Correct(w) \/ SendResult(w)

Failed == mpc = "failed" \/ \E w \in Worker : wpc[w] = "failed"
Done == mpc = "over" /\ \A w \in Worker : wpc[w] = "over"

Next ==
    \/ MasterStep
    \/ \E w \in Worker : WorkerStep(w) \/ Fail(w)
    \/ (Failed \/ Done) /\ UNCHANGED vars

\* A send need not return before it is received, nor a broadcast before all
\* have taken part in it.
Taken == \A w \in Worker : cast[w] = <<>> /\ slices[w] = <<>>

Fairness ==
    /\ WF_vars(Taken /\ MasterStep)
    /\ \A w \in Worker : WF_vars(results[w] = <<>> /\ WorkerStep(w))

Spec == Init /\ [][Next]_vars
FairSpec == Spec /\ Fairness
-----------------------------------------------------------------------------
(* Properties.                                                             *)

IsCell(x) == x \in [of : Seq(Int), by : Seq(Int)]
IsSlice(w, cells) == DOMAIN cells = Local(channels[at], w) /\ \A c \in DOMAIN cells : IsCell(cells[c])

TypeOK ==
    /\ channels \in DataSets /\ mode \in Modes
    /\ DOMAIN data = DOMAIN channels
    /\ at \in 1..(Len(channels) + 1) /\ turn \in Worker
    /\ mpc \in {"start", "status", "metadata", "scatter", "gather", "over", "failed"}
    /\ total \in Nat
    /\ wpc \in [Worker -> {"status", "metadata", "slice", "correct", "next", "over", "failed"}]
    /\ readVis \in [Worker -> BOOLEAN] /\ flagNeedSync \in [Worker -> BOOLEAN]
    /\ metadata \in [Worker -> Nat]
    /\ chanOffset \in [Worker -> Nat] /\ solutions \in [Worker -> Nat \cup {-1}]
    /\ \A w \in Worker :
        /\ \A i \in 1..Len(slices[w]) :
            IsSlice(w, slices[w][i].vis) /\ IsSlice(w, slices[w][i].flag)
        /\ \A i \in 1..Len(results[w]) : IsSlice(w, results[w][i].vis)

\* Unless a process fails, and leaves the others waiting, every process comes to
\* the end of its loop: no two ever wait for each other, whether or not sends
\* and broadcasts wait for their receivers (ParallelWriteIterator.cc:298-443).
Terminates == <>(Failed \/ Done)

\* Every message on its way, and every slice in the hands of a worker, is of
\* the chunk that the master's iterator is at: none waits from an earlier
\* chunk, and no worker is a chunk ahead (ParallelWriteIterator.cc:162-282).
SlicesOfThisChunk ==
    \A w \in Worker :
        /\ Len(cast[w]) + Len(slices[w]) + Len(results[w]) <= 3
        /\ slices[w] # <<>> \/ results[w] # <<>> \/ wpc[w] \in {"slice", "correct", "next"}
               => mpc \in {"scatter", "gather"}
        /\ wpc[w] \in {"slice", "correct", "next"} => metadata[w] = at
        /\ results[w] # <<>> =>
               /\ metadata[w] = at
               /\ Head(results[w]).vis =
                      Part(Updated(at, Chans(at), mode).vis, channels[at], w)

\* Once the iteration is over for a worker it is over for the master, and
\* nothing it was sent or has sent is left: a later iteration over the same
\* communicator would take it for its own (ParallelWriteIterator.cc:150-155).
NothingLeftOver ==
    \A w \in Worker : wpc[w] = "over" =>
        /\ mpc = "over"
        /\ cast[w] = <<>> /\ slices[w] = <<>> /\ results[w] = <<>>

\* Between the processes of an iteration are only slices of its present chunk,
\* and none once it is over (ParallelWriteIterator.cc:150-282, 298-443).
InStep == TypeOK /\ SlicesOfThisChunk /\ NothingLeftOver

\* The measurement set, a chunk of it being updated when next() is called.
Flushed == [k \in DOMAIN channels |->
               IF k < at THEN data[k] ELSE Untouched(k, Chans(k))]

\* Together the processes do what one would do alone.
Alone == INSTANCE SerialWriting WITH data <- Flushed, stopped <- Failed

ImplementsSerial == Alone!Serial
=============================================================================
