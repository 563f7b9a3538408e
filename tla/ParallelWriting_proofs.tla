----------------------- MODULE ParallelWriting_proofs -----------------------
(***************************************************************************)
(* What is between the processes of a parallel iteration is of its present *)
(* chunk, and together they do what one process would do, for any number   *)
(* of workers, measurement sets, and division of the channels.             *)
(***************************************************************************)
EXTENDS ParallelWriting, SequenceTheorems, WellFoundedInduction, TLAPS

\* The master is at a chunk, and what it sends for it.
Underway == mpc \in {"metadata", "scatter", "gather"}
N == channels[at]

Status == [hasMore |-> TRUE, totalNChan |-> total, mode |-> mode]
End == [hasMore |-> FALSE, totalNChan |-> total, mode |-> IF total = 0 THEN {} ELSE mode]
Metadata == [chunk |-> at]

Visible == IF "READ" \in mode THEN Raw(at, Chans(at)) ELSE Zero(Chans(at))
New == Updated(at, Chans(at), mode).vis

SliceSent(w) ==
    [version |-> IF "READ" \in mode THEN 2 ELSE 1,
     flag |-> Part(Raw(at, Chans(at)), N, w), vis |-> Part(Visible, N, w)]

\* What a worker makes of it, and sends back.
Made(w) == [vis |-> Part(New, N, w), flag |-> Part(Corrected(at, Chans(at)), N, w)]
ResultOf(w) ==
    [vis |-> Made(w).vis, flag |-> IF "SYNCFLAG" \in mode THEN Made(w).flag ELSE <<>>]

\* The slice of this chunk has been sent, the result has been received.
Sent(w) == mpc = "gather" \/ (mpc = "scatter" /\ turn > w)
Collected(w) == mpc = "gather" /\ turn > w

\* What the worker does by the status.
Informed(w) ==
    /\ readVis[w] <=> "READ" \in mode
    /\ flagNeedSync[w] <=> "SYNCFLAG" \in mode
    /\ solutions[w] = First[total][w]

\* The worker comes to the chunk of the master, works on its slice, or has
\* sent what it made of it.
Comes(w) ==
    /\ Underway /\ ~Collected(w) /\ results[w] = <<>>
    /\ slices[w] = IF Sent(w) THEN <<SliceSent(w)>> ELSE <<>>
    /\ \/ /\ wpc[w] = "status"
          /\ cast[w] = IF mpc = "metadata" THEN <<Status>> ELSE <<Status, Metadata>>
       \/ /\ wpc[w] = "metadata" /\ Informed(w)
          /\ cast[w] = IF mpc = "metadata" THEN <<>> ELSE <<Metadata>>
       \/ /\ wpc[w] = "slice" /\ Informed(w) /\ metadata[w] = at
          /\ mpc # "metadata" /\ cast[w] = <<>>

Works(w) ==
    /\ Sent(w) /\ ~Collected(w) /\ Informed(w) /\ metadata[w] = at
    /\ cast[w] = <<>> /\ slices[w] = <<>> /\ results[w] = <<>>
    /\ \/ wpc[w] = "failed"
       \/ /\ wpc[w] = "correct"
          /\ accessor[w] = [vis |-> SliceSent(w).vis, flag |-> SliceSent(w).flag]
       \/ wpc[w] = "next" /\ accessor[w] = Made(w)

Answered(w) ==
    /\ Sent(w) /\ wpc[w] = "status" /\ metadata[w] = at
    /\ cast[w] = <<>> /\ slices[w] = <<>>
    /\ results[w] = IF Collected(w) THEN <<>> ELSE <<ResultOf(w)>>

\* Between chunks, and after the last one.
Rests(w) ==
    /\ mpc \in {"start", "status", "failed"} /\ wpc[w] = "status"
    /\ cast[w] = <<>> /\ slices[w] = <<>> /\ results[w] = <<>>

Ends(w) ==
    /\ mpc = "over" /\ slices[w] = <<>> /\ results[w] = <<>>
    /\ \/ wpc[w] = "status" /\ cast[w] = <<End>>
       \/ wpc[w] = "over" /\ cast[w] = <<>>

WithMaster(w) == Comes(w) \/ Works(w) \/ Answered(w) \/ Rests(w) \/ Ends(w)

\* The solutions are set up by the first status with a chunk.
SetUp(w) ==
    \/ solutions[w] = -1
    \/ solutions[w] = First[total][w] /\ (total # 0 \/ mpc = "over")

Numbers == {0} \cup UNION {Range(d) : d \in DataSets}

MasterInStep ==
    /\ Underway => at <= Len(channels) /\ total = N /\ total >= NWorkers
    /\ mpc \notin {"scatter", "gather"} => turn = 1
    /\ total \in Numbers

\* The chunks before are written, of this one the slices received.
Halfway(new, old) == [c \in Chans(at) |-> IF c < First[N][turn] THEN new[c] ELSE old[c]]

Held(k) ==
    IF k < at THEN Updated(k, Chans(k), mode)
    ELSE IF k = at /\ mpc = "gather"
    THEN [vis |-> Halfway(New, Raw(at, Chans(at))),
          flag |-> Halfway(Updated(at, Chans(at), mode).flag, Raw(at, Chans(at)))]
    ELSE Untouched(k, Chans(k))

DataInStep == data = [k \in DOMAIN channels |-> Held(k)]

MasterTyped ==
    /\ channels \in DataSets /\ mode \in Modes
    /\ at \in 1..(Len(channels) + 1) /\ turn \in Worker
    /\ mpc \in {"start", "status", "metadata", "scatter", "gather", "over", "failed"}
    /\ total \in Nat

WorkersTyped ==
    /\ wpc \in [Worker -> {"status", "metadata", "slice", "correct", "next", "over", "failed"}]
    /\ readVis \in [Worker -> BOOLEAN] /\ flagNeedSync \in [Worker -> BOOLEAN]
    /\ metadata \in [Worker -> Nat]
    /\ chanOffset \in [Worker -> Nat] /\ solutions \in [Worker -> Nat \cup {-1}]
    /\ cast = [w \in Worker |-> cast[w]] /\ slices = [w \in Worker |-> slices[w]]
    /\ results = [w \in Worker |-> results[w]] /\ accessor = [w \in Worker |-> accessor[w]]

IInv ==
    /\ MasterTyped /\ WorkersTyped /\ MasterInStep /\ DataInStep
    /\ \A w \in Worker : WithMaster(w) /\ SetUp(w)
-----------------------------------------------------------------------------
(* Numbers, channels and slices.                                           *)

LEMMA Smallest ==
    ASSUME NEW S, S \subseteq Nat, S # {}
    PROVE  \E m \in S : \A n \in S : m <= n
  <1> DEFINE Below == OpToRel(<, Nat)
  <1>1. PICK m \in S : \A n \in S : ~(<<n, m>> \in Below)
    BY NatLessThanWellFounded, WFMin
  <1>2. \A n \in S : n < m => <<n, m>> \in Below
    BY DEF OpToRel
  <1>3. \A n \in S : ~(n < m)
    <2> HIDE DEF Below
    <2> QED
      BY <1>1, <1>2
  <1> QED
    BY <1>3

LEMMA Workers ==
    /\ NWorkers \in Nat \ {0} /\ Worker \subseteq Nat \ {0} /\ 1 \in Worker /\ NWorkers \in Worker
    /\ \A w \in Worker : w # NWorkers => w + 1 \in Worker
  BY PartitionAssumption DEF Worker

\* Where the slices of so many channels begin.
LEMMA Starts ==
    ASSUME NEW n \in Numbers
    PROVE  /\ n \in Nat /\ First[n][1] = 0 /\ First[n][NWorkers + 1] = n
           /\ \A w \in Worker : /\ First[n][w] \in Nat /\ First[n][w + 1] \in Nat
                                /\ First[n][w] <= First[n][w + 1]
  <1>1. n \in Nat
    <2>1. ASSUME NEW d \in DataSets, n \in Range(d) PROVE n \in Nat
      <3>1. d \in Seq(Nat \ {0})
        BY PartitionAssumption
      <3>2. \A i \in DOMAIN d : d[i] \in Nat
        BY <3>1
      <3> QED
        BY <2>1, <3>2 DEF Range
    <2> QED
      BY <2>1 DEF Numbers
  <1>2. /\ First[n] \in [1..(NWorkers + 1) -> Nat] /\ First[n][1] = 0
        /\ First[n][NWorkers + 1] = n /\ \A w \in Worker : First[n][w] <= First[n][w + 1]
    BY PartitionAssumption DEF Numbers
  <1>3. \A w \in Worker : w \in 1..(NWorkers + 1) /\ w + 1 \in 1..(NWorkers + 1)
    BY Workers DEF Worker
  <1> QED
    BY <1>1, <1>2, <1>3

\* No slice goes beyond the last channel.
LEMMA Bounds ==
    ASSUME NEW n \in Numbers, NEW w \in Worker
    PROVE  First[n][w + 1] <= n
  <1> DEFINE Beyond == {v \in Worker : First[n][v + 1] > n}
             Left == {NWorkers - v : v \in Beyond}
  <1>1. SUFFICES ASSUME w \in Beyond PROVE FALSE
    BY Starts
  <1>2. \A v \in Beyond : NWorkers - v \in Nat /\ v \in Worker
    BY Workers DEF Worker
  <1>3. PICK m \in Left : \A l \in Left : m <= l
    <2>1. Left \subseteq Nat /\ Left # {}
      BY <1>1, <1>2
    <2> HIDE DEF Left
    <2> QED
      BY <2>1, Smallest
  <1>4. PICK v \in Beyond : m = NWorkers - v
    BY <1>3
  <1>5. v \in Worker /\ First[n][v + 1] > n
    BY <1>4
  <1>6. v # NWorkers
    BY <1>5, Starts
  <1>7. v + 1 \in Worker /\ First[n][v + 1] <= First[n][(v + 1) + 1]
        /\ First[n][v + 1] \in Nat /\ First[n][(v + 1) + 1] \in Nat
    BY <1>5, <1>6, Workers, Starts
  <1>8. v + 1 \in Beyond
    BY <1>5, <1>7, Starts
  <1>9. m <= NWorkers - (v + 1)
    BY <1>3, <1>8
  <1> QED
    BY <1>4, <1>5, <1>9, Workers

LEMMA Chunks ==
    ASSUME MasterTyped
    PROVE  /\ Len(channels) \in Nat /\ DOMAIN channels = 1..Len(channels)
           /\ \A k \in DOMAIN channels : channels[k] \in Nat \ {0} /\ channels[k] \in Numbers
           /\ at \in Nat /\ (at <= Len(channels) => at \in DOMAIN channels)
  <1>1. channels \in DataSets /\ channels \in Seq(Nat \ {0})
    BY PartitionAssumption DEF MasterTyped
  <1>2. \A k \in DOMAIN channels : channels[k] \in Range(channels)
    BY DEF Range
  <1> QED
    BY <1>1, <1>2 DEF MasterTyped, Numbers

\* What there is to a chunk the master is at.
LEMMA AtChunk ==
    ASSUME IInv, at <= Len(channels)
    PROVE  /\ N \in Nat \ {0} /\ N \in Numbers /\ at \in DOMAIN channels
           /\ \A w \in Worker : /\ First[N][w] \in Nat /\ First[N][w + 1] \in Nat
                                /\ First[N][w] <= First[N][w + 1] /\ First[N][w + 1] <= N
                                /\ \A c \in Local(N, w) : First[N][w] + c \in Chans(at)
  <1>1. N \in Nat \ {0} /\ N \in Numbers /\ at \in DOMAIN channels
    BY Chunks DEF IInv, N
  <1>2. \A w \in Worker : /\ First[N][w] \in Nat /\ First[N][w + 1] \in Nat
                          /\ First[N][w] <= First[N][w + 1] /\ First[N][w + 1] <= N
    BY <1>1, Starts, Bounds
  <1>3. ASSUME NEW w \in Worker, NEW c \in Local(N, w) PROVE First[N][w] + c \in Chans(at)
    BY <1>1, <1>2 DEF Local, Chans, N
  <1> QED
    BY <1>1, <1>2, <1>3
-----------------------------------------------------------------------------
(* The values of a slice.                                                  *)

LEMMA Reapplied ==
    ASSUME NEW x, NEW y, NEW z
    PROVE  [Cell(x, y) EXCEPT !.by = z] = Cell(x, z)
  BY DEF Cell

\* What a worker makes of its slice is its part of the chunk as it should be.
LEMMA Makes ==
    ASSUME IInv, at <= Len(channels), NEW w \in Worker,
           metadata[w] = at, solutions[w] = First[N][w]
    PROVE  [vis |-> Apply(w, SliceSent(w).vis), flag |-> Apply(w, SliceSent(w).flag)] = Made(w)
  <1> DEFINE chans == Chans(at)
             s == First[N][w]
             Becomes(cube, fresh) == \A c \in chans : fresh[c] = [cube[c] EXCEPT !.by = <<at, c>>]
  <1>1. \A c \in Local(N, w) : s + c \in chans
    BY AtChunk
  <1>2. ASSUME NEW cube, NEW cells, NEW fresh,
               cells = Part(cube, N, w),
               Becomes(cube, fresh)
        PROVE  Apply(w, cells) = Part(fresh, N, w)
    <2>1. DOMAIN cells = Local(N, w) /\ \A c \in Local(N, w) : cells[c] = cube[s + c]
      BY <1>2 DEF Part
    <2>2. ASSUME NEW c \in Local(N, w)
          PROVE  [cells[c] EXCEPT !.by = <<metadata[w], solutions[w] + c>>] = fresh[s + c]
      <3>1. s + c \in chans
        BY <1>1
      <3> HIDE DEF chans
      <3> QED
        BY <1>2, <2>1, <3>1
    <2> HIDE DEF chans
    <2> QED
      BY <2>1, <2>2 DEF Apply, Part
  <1>3. Apply(w, SliceSent(w).flag) = Part(Corrected(at, chans), N, w)
    <2>1. Becomes(Raw(at, chans), Corrected(at, chans))
      BY Reapplied DEF Raw, Corrected
    <2>2. SliceSent(w).flag = Part(Raw(at, chans), N, w)
      BY DEF SliceSent
    <2> HIDE DEF chans, Becomes
    <2> QED
      BY <1>2, <2>1, <2>2
  <1>4. Apply(w, SliceSent(w).vis) = Part(New, N, w)
    <2>1. Becomes(Visible, New)
      <3>1. CASE "READ" \in mode
        BY <3>1, Reapplied DEF Visible, New, Updated, Raw, Corrected
      <3>2. CASE "READ" \notin mode
        BY <3>2, Reapplied DEF Visible, New, Updated, Zero, Predicted
      <3> QED
        BY <3>1, <3>2
    <2>2. SliceSent(w).vis = Part(Visible, N, w)
      BY DEF SliceSent
    <2> HIDE DEF chans, Becomes
    <2> QED
      BY <1>2, <2>1, <2>2
  <1> QED
    BY <1>3, <1>4 DEF Made
-----------------------------------------------------------------------------
(* What a step leaves alone.                                               *)

LEMMA Queues ==
    ASSUME NEW a, NEW b
    PROVE  /\ <<a>> # <<>> /\ <<a, b>> # <<>>
           /\ Head(<<a>>) = a /\ Tail(<<a>>) = <<>>
           /\ Head(<<a, b>>) = a /\ Tail(<<a, b>>) = <<b>>
           /\ Append(<<>>, a) = <<a>> /\ Append(<<a>>, b) = <<a, b>>
  <1>1. <<a>> # <<>> /\ <<a, b>> # <<>> /\ Head(<<a>>) = a /\ Head(<<a, b>>) = a
    OBVIOUS
  <1>2. Tail(<<a>>) = <<>> /\ Append(<<>>, a) = <<a>>
    OBVIOUS
  <1>3. Tail(<<a, b>>) = <<b>>
    OBVIOUS
  <1>4. Append(<<a>>, b) = <<a, b>>
    <2> DEFINE S == {a, b}
    <2>1. <<a>> \in Seq(S) /\ b \in S /\ <<a, b>> \in Seq(S)
      OBVIOUS
    <2>2. Len(<<a>>) = 1 /\ <<a>>[1] = a /\ Len(<<a, b>>) = 2 /\ <<a, b>>[1] = a /\ <<a, b>>[2] = b
      OBVIOUS
    <2>3. Append(<<a>>, b) \in Seq(S) /\ Len(Append(<<a>>, b)) = 2
          /\ Append(<<a>>, b)[1] = a /\ Append(<<a>>, b)[2] = b
      BY <2>1, <2>2, AppendProperties
    <2> DEFINE left == Append(<<a>>, b)
               right == <<a, b>>
    <2>4. left \in Seq(S) /\ right \in Seq(S) /\ Len(left) = 2 /\ Len(right) = 2
          /\ left[1] = a /\ left[2] = b /\ right[1] = a /\ right[2] = b
      BY <2>1, <2>2, <2>3
    <2> HIDE DEF S, left, right
    <2>5. \A i \in 1..Len(left) : left[i] = right[i]
      BY <2>4
    <2>6. left = right
      BY <2>4, <2>5, SeqEqual
    <2> QED
      BY <2>6 DEF left, right
  <1> QED
    BY <1>1, <1>2, <1>3, <1>4

OwnState(w) ==
    <<cast[w], slices[w], results[w], wpc[w], readVis[w], metadata[w], accessor[w],
      flagNeedSync[w], chanOffset[w], solutions[w]>>

LEMMA SameMessages ==
    ASSUME UNCHANGED <<channels, mode, at, total>>
    PROVE  /\ Status' = Status /\ End' = End /\ Metadata' = Metadata /\ N' = N /\ New' = New
           /\ Visible' = Visible
           /\ \A w : SliceSent(w)' = SliceSent(w) /\ Made(w)' = Made(w) /\ ResultOf(w)' = ResultOf(w)
           /\ \A k : Chans(k)' = Chans(k)
  <1>1. N' = N /\ \A k : Chans(k)' = Chans(k)
    BY DEF N, Chans
  <1>2. New' = New /\ Visible' = Visible
    BY <1>1 DEF New, Visible
  <1> QED
    BY <1>1, <1>2 DEF Status, End, Metadata, SliceSent, Made, ResultOf

LEMMA SameWorker ==
    ASSUME NEW w \in Worker, UNCHANGED <<channels, mode, at, total>>, UNCHANGED OwnState(w),
           Sent(w)' <=> Sent(w), Collected(w)' <=> Collected(w),
           mpc' = mpc \/ {mpc, mpc'} \subseteq {"scatter", "gather"}
                      \/ {mpc, mpc'} \subseteq {"start", "status", "failed"}
    PROVE  /\ WithMaster(w) => WithMaster(w)'
           /\ SetUp(w) => SetUp(w)'
  <1> USE DEF OwnState
  <1>1. SetUp(w) => SetUp(w)'
    BY DEF SetUp
  <1>2. Informed(w)' <=> Informed(w)
    BY DEF Informed
  <1>3. /\ Underway' <=> Underway
        /\ mpc' = "metadata" <=> mpc = "metadata"
        /\ mpc' = "over" <=> mpc = "over"
        /\ mpc' \in {"start", "status", "failed"} <=> mpc \in {"start", "status", "failed"}
    BY DEF Underway
  <1>4. Comes(w) => Comes(w)'
    BY <1>2, <1>3, SameMessages DEF Comes
  <1>5. Works(w) => Works(w)'
    BY <1>2, SameMessages DEF Works
  <1>6. Answered(w) => Answered(w)'
    BY SameMessages DEF Answered
  <1>7. (Rests(w) => Rests(w)') /\ (Ends(w) => Ends(w)')
    BY <1>3, SameMessages DEF Rests, Ends
  <1> QED
    BY <1>1, <1>4, <1>5, <1>6, <1>7 DEF WithMaster

\* What the place of a worker and its queues tell.
LEMMA AtPlace ==
    ASSUME IInv, NEW w \in Worker
    PROVE  /\ wpc[w] = "status" /\ cast[w] # <<>> => Comes(w) \/ Ends(w)
           /\ wpc[w] \in {"metadata", "slice"} => Comes(w)
           /\ wpc[w] \in {"correct", "next"} => Works(w)
           /\ results[w] # <<>> => Answered(w) /\ ~Collected(w) /\ results[w] = <<ResultOf(w)>>
           /\ Underway => Comes(w) \/ Works(w) \/ Answered(w)
           /\ ~Underway => Rests(w) \/ Ends(w)
           /\ WithMaster(w) /\ SetUp(w)
  <1>1. WithMaster(w) /\ SetUp(w)
    BY DEF IInv
  <1>2. (Sent(w) => Underway) /\ (Underway => mpc \notin {"start", "status", "failed", "over"})
    BY DEF Sent, Underway
  <1> QED
    BY <1>1, <1>2 DEF WithMaster, Comes, Works, Answered, Rests, Ends

LEMMA WorkerKeeps ==
    ASSUME IInv, NEW w \in Worker, UNCHANGED <<job, masterVars>>,
           \A u \in Worker \ {w} : UNCHANGED OwnState(u),
           WorkersTyped', WithMaster(w)', SetUp(w)'
    PROVE  IInv'
  <1>1. UNCHANGED <<channels, mode, data, at, mpc, turn, total>>
    BY DEF job, masterVars
  <1>2. ASSUME NEW u \in Worker \ {w} PROVE WithMaster(u)' /\ SetUp(u)'
    <2>1. Sent(u)' = Sent(u) /\ Collected(u)' = Collected(u)
      BY <1>1 DEF Sent, Collected
    <2> QED
      BY <1>1, <2>1, SameWorker, AtPlace
  <1>3. MasterTyped' /\ MasterInStep'
    BY <1>1 DEF IInv, MasterTyped, MasterInStep, Underway, N
  <1>4. DataInStep'
    <2>1. \A k : Held(k)' = Held(k)
      BY <1>1, SameMessages DEF Held, Halfway
    <2> QED
      BY <1>1, <2>1 DEF IInv, DataInStep
  <1> QED
    BY <1>2, <1>3, <1>4 DEF IInv
-----------------------------------------------------------------------------
(* The steps of a worker.                                                  *)

LEMMA ReceiveStatusKeeps ==
    ASSUME IInv, NEW w \in Worker, ReceiveStatus(w)
    PROVE  IInv'
  <1> DEFINE s == Head(cast[w])
  <1>1. WorkersTyped /\ MasterInStep
    BY DEF IInv
  <1>2. wpc[w] = "status" /\ cast[w] # <<>> /\ (Comes(w) \/ Ends(w)) /\ SetUp(w)
    BY AtPlace DEF ReceiveStatus
  <1>3. /\ wpc' = [wpc EXCEPT ![w] = IF s.hasMore THEN "metadata" ELSE "over"]
        /\ readVis' = [readVis EXCEPT ![w] = "READ" \in s.mode]
        /\ flagNeedSync' = [flagNeedSync EXCEPT ![w] = "SYNCFLAG" \in s.mode]
        /\ chanOffset' = [chanOffset EXCEPT ![w] = First[s.totalNChan][w]]
        /\ solutions' = [solutions EXCEPT ![w] = IF solutions[w] = -1 THEN chanOffset'[w]
                                                 ELSE solutions[w]]
        /\ cast' = [cast EXCEPT ![w] = Tail(cast[w])]
        /\ UNCHANGED <<job, masterVars, slices, results, metadata, accessor>>
    BY DEF ReceiveStatus, Goto, Set
  <1>4. s.totalNChan = total /\ (s.hasMore <=> Comes(w)) /\ s.hasMore \in BOOLEAN
        /\ (Comes(w) => s.mode = mode)
    <2>1. CASE Comes(w)
      <3>1. cast[w] = <<Status>> \/ cast[w] = <<Status, Metadata>>
        BY <1>2, <2>1 DEF Comes
      <3>2. s = Status
        <4> DEFINE x == Status
                   y == Metadata
        <4>1. cast[w] = <<x>> \/ cast[w] = <<x, y>>
          BY <3>1
        <4> HIDE DEF x, y
        <4>2. Head(cast[w]) = x
          BY <4>1, Queues
        <4> QED
          BY <4>2 DEF x
      <3>3. Status.totalNChan = total /\ Status.hasMore = TRUE /\ Status.mode = mode
        BY DEF Status
      <3> HIDE DEF s
      <3> QED
        BY <2>1, <3>2, <3>3
    <2>2. CASE Ends(w)
      <3>1. s = End
        <4> DEFINE x == End
        <4>1. cast[w] = <<x>>
          BY <1>2, <2>2 DEF Ends
        <4> HIDE DEF x
        <4>2. Head(cast[w]) = x
          BY <4>1, Queues
        <4> QED
          BY <4>2 DEF x
      <3>2. ~Comes(w)
        BY <2>2 DEF Ends, Comes, Underway
      <3>3. End.totalNChan = total /\ End.hasMore = FALSE
        BY DEF End
      <3> HIDE DEF s
      <3> QED
        BY <3>1, <3>2, <3>3
    <2> QED
      BY <1>2, <2>1, <2>2
  <1> HIDE DEF s
  <1>5. First[total][w] \in Nat
    BY <1>1, Starts DEF MasterInStep
  <1>6. WorkersTyped'
    <2>1. chanOffset' \in [Worker -> Nat] /\ chanOffset'[w] = First[total][w]
      BY <1>1, <1>3, <1>4, <1>5 DEF WorkersTyped
    <2>2. solutions' \in [Worker -> Nat \cup {-1}]
      BY <1>1, <1>3, <2>1 DEF WorkersTyped
    <2>3. readVis' \in [Worker -> BOOLEAN] /\ flagNeedSync' \in [Worker -> BOOLEAN]
      BY <1>1, <1>3 DEF WorkersTyped
    <2>4. wpc' \in [Worker -> {"status", "metadata", "slice", "correct", "next", "over", "failed"}]
      BY <1>1, <1>3 DEF WorkersTyped
    <2>5. cast' = [v \in Worker |-> cast'[v]]
      BY <1>1, <1>3 DEF WorkersTyped
    <2> QED
      BY <1>1, <1>3, <2>1, <2>2, <2>3, <2>4, <2>5 DEF WorkersTyped
  <1>7. /\ wpc'[w] = IF Comes(w) THEN "metadata" ELSE "over"
        /\ cast'[w] = Tail(cast[w])
        /\ chanOffset'[w] = First[total][w]
        /\ solutions'[w] = IF solutions[w] = -1 THEN First[total][w] ELSE solutions[w]
        /\ Comes(w) => /\ readVis'[w] <=> "READ" \in mode
                       /\ flagNeedSync'[w] <=> "SYNCFLAG" \in mode
    BY <1>1, <1>3, <1>4 DEF WorkersTyped
  <1>8. UNCHANGED <<channels, mode, at, total, mpc, turn>>
    BY <1>3 DEF job, masterVars
  <1>9. solutions'[w] = First[total][w]
    BY <1>2, <1>7 DEF SetUp
  <1>10. WithMaster(w)' /\ SetUp(w)'
    <2>1. CASE Comes(w)
      <3>1. Underway /\ total # 0
        BY <1>1, <2>1, Workers DEF Comes, MasterInStep
      <3>2. Informed(w)'
        BY <1>7, <1>8, <1>9, <2>1 DEF Informed
      <3>3. cast'[w] = IF mpc = "metadata" THEN <<>> ELSE <<Metadata>>
        <4> DEFINE x == Status
                   y == Metadata
        <4>1. cast[w] = IF mpc = "metadata" THEN <<x>> ELSE <<x, y>>
          BY <1>2, <2>1 DEF Comes
        <4> HIDE DEF x, y
        <4>2. cast'[w] = IF mpc = "metadata" THEN <<>> ELSE <<y>>
          BY <1>7, <4>1, Queues
        <4> QED
          BY <4>2 DEF y
      <3>4. Metadata' = Metadata /\ SliceSent(w)' = SliceSent(w)
        BY <1>8, SameMessages
      <3>5. Comes(w)'
        BY <1>3, <1>7, <1>8, <2>1, <3>2, <3>3, <3>4 DEF Comes, Underway, Collected, Sent
      <3> QED
        BY <1>8, <1>9, <3>1, <3>5 DEF WithMaster, SetUp
    <2>2. CASE ~Comes(w)
      <3>1. Ends(w) /\ wpc'[w] = "over"
        BY <1>2, <1>7, <2>2
      <3>2. cast'[w] = <<>>
        <4> DEFINE x == End
        <4>1. cast[w] = <<x>>
          BY <1>2, <3>1 DEF Ends
        <4> HIDE DEF x
        <4> QED
          BY <1>7, <4>1, Queues
      <3> QED
        BY <1>3, <1>8, <1>9, <3>1, <3>2 DEF Ends, WithMaster, SetUp
    <2> QED
      BY <2>1, <2>2
  <1>11. \A u \in Worker \ {w} : UNCHANGED OwnState(u)
    BY <1>1, <1>3 DEF WorkersTyped, OwnState
  <1> QED
    BY <1>3, <1>6, <1>10, <1>11, WorkerKeeps

LEMMA ReceiveMetadataKeeps ==
    ASSUME IInv, NEW w \in Worker, ReceiveMetadata(w)
    PROVE  IInv'
  <1>1. WorkersTyped /\ MasterInStep /\ at \in Nat
    BY Chunks DEF IInv
  <1>2. wpc[w] = "metadata" /\ cast[w] # <<>> /\ Comes(w) /\ SetUp(w)
    BY AtPlace DEF ReceiveMetadata
  <1>3. /\ metadata' = [metadata EXCEPT ![w] = Head(cast[w]).chunk]
        /\ cast' = [cast EXCEPT ![w] = Tail(cast[w])]
        /\ wpc' = [wpc EXCEPT ![w] = "slice"]
        /\ UNCHANGED <<job, masterVars, slices, results, readVis, accessor, flagNeedSync,
                       chanOffset, solutions>>
    BY DEF ReceiveMetadata, Goto, Set
  <1>4. mpc # "metadata" /\ Head(cast[w]) = Metadata /\ Tail(cast[w]) = <<>>
    <2> DEFINE x == Metadata
    <2>1. mpc # "metadata" /\ cast[w] = <<x>>
      BY <1>2 DEF Comes
    <2> HIDE DEF x
    <2>2. Head(cast[w]) = x /\ Tail(cast[w]) = <<>>
      BY <2>1, Queues
    <2> QED
      BY <2>1, <2>2 DEF x
  <1>5. Metadata.chunk = at
    BY DEF Metadata
  <1>6. metadata' = [metadata EXCEPT ![w] = at]
    BY <1>3, <1>4, <1>5
  <1>7. WorkersTyped'
    <2>1. metadata' \in [Worker -> Nat]
      BY <1>1, <1>6 DEF WorkersTyped
    <2>2. wpc' \in [Worker -> {"status", "metadata", "slice", "correct", "next", "over", "failed"}]
      BY <1>1, <1>3 DEF WorkersTyped
    <2>3. cast' = [v \in Worker |-> cast'[v]]
      BY <1>1, <1>3 DEF WorkersTyped
    <2> QED
      BY <1>1, <1>3, <2>1, <2>2, <2>3 DEF WorkersTyped
  <1>8. wpc'[w] = "slice" /\ metadata'[w] = at /\ cast'[w] = <<>>
    BY <1>1, <1>3, <1>4, <1>6 DEF WorkersTyped
  <1>9. UNCHANGED <<channels, mode, at, total, mpc, turn>>
    BY <1>3 DEF job, masterVars
  <1>10. WithMaster(w)' /\ SetUp(w)'
    <2>1. Informed(w)'
      BY <1>2, <1>3, <1>9 DEF Comes, Informed
    <2>2. Comes(w)'
      BY <1>2, <1>3, <1>4, <1>8, <1>9, <2>1, SameMessages DEF Comes, Underway, Collected, Sent
    <2> QED
      BY <1>2, <1>3, <1>9, <2>2 DEF WithMaster, SetUp
  <1>11. \A u \in Worker \ {w} : UNCHANGED OwnState(u)
    BY <1>1, <1>3 DEF WorkersTyped, OwnState
  <1> QED
    BY <1>3, <1>7, <1>10, <1>11, WorkerKeeps

LEMMA ReceiveSliceKeeps ==
    ASSUME IInv, NEW w \in Worker, ReceiveSlice(w)
    PROVE  IInv'
  <1> DEFINE m == Head(slices[w])
  <1>1. WorkersTyped
    BY DEF IInv
  <1>2. wpc[w] = "slice" /\ slices[w] # <<>> /\ Comes(w) /\ SetUp(w)
    BY AtPlace DEF ReceiveSlice
  <1>3. Sent(w) /\ m = SliceSent(w) /\ Tail(slices[w]) = <<>>
    <2> DEFINE x == SliceSent(w)
    <2>1. Sent(w) /\ slices[w] = <<x>>
      BY <1>2 DEF Comes
    <2> HIDE DEF x
    <2>2. Head(slices[w]) = x /\ Tail(slices[w]) = <<>>
      BY <2>1, Queues
    <2> QED
      BY <2>1, <2>2 DEF x
  <1>4. m.version = (IF readVis[w] THEN 2 ELSE 1)
    <2>1. SliceSent(w).version = IF "READ" \in mode THEN 2 ELSE 1
      BY DEF SliceSent
    <2>2. readVis[w] <=> "READ" \in mode
      BY <1>2 DEF Comes, Informed
    <2> HIDE DEF m
    <2> QED
      BY <1>3, <2>1, <2>2
  <1>5. /\ accessor' = [accessor EXCEPT ![w] = [vis |-> m.vis, flag |-> m.flag]]
        /\ wpc' = [wpc EXCEPT ![w] = "correct"]
        /\ slices' = [slices EXCEPT ![w] = Tail(slices[w])]
        /\ UNCHANGED <<job, masterVars, cast, results, readVis, metadata, flagNeedSync,
                       chanOffset, solutions>>
    BY <1>4 DEF ReceiveSlice, Goto, Set
  <1> HIDE DEF m
  <1>6. WorkersTyped'
    BY <1>1, <1>5 DEF WorkersTyped
  <1>7. /\ wpc'[w] = "correct" /\ slices'[w] = <<>>
        /\ accessor'[w] = [vis |-> SliceSent(w).vis, flag |-> SliceSent(w).flag]
    BY <1>1, <1>3, <1>5 DEF WorkersTyped
  <1>8. UNCHANGED <<channels, mode, at, total, mpc, turn>>
    BY <1>5 DEF job, masterVars
  <1>9. WithMaster(w)' /\ SetUp(w)'
    <2>1. Informed(w)'
      BY <1>2, <1>5, <1>8 DEF Comes, Informed
    <2>2. Works(w)'
      BY <1>2, <1>3, <1>5, <1>7, <1>8, <2>1, SameMessages DEF Comes, Works, Collected, Sent
    <2> QED
      BY <1>2, <1>5, <1>8, <2>2 DEF WithMaster, SetUp
  <1>10. \A u \in Worker \ {w} : UNCHANGED OwnState(u)
    BY <1>1, <1>5 DEF WorkersTyped, OwnState
  <1> QED
    BY <1>5, <1>6, <1>9, <1>10, WorkerKeeps

\* A worker that works is at a chunk there is.
LEMMA WorksAt ==
    ASSUME IInv, NEW w \in Worker, Works(w) \/ Answered(w)
    PROVE  at <= Len(channels) /\ total = N /\ Underway
  BY DEF IInv, MasterInStep, Works, Answered, Sent, Underway

LEMMA CorrectKeeps ==
    ASSUME IInv, NEW w \in Worker, Correct(w)
    PROVE  IInv'
  <1>1. WorkersTyped
    BY DEF IInv
  <1>2. wpc[w] = "correct" /\ Works(w) /\ SetUp(w)
    BY AtPlace DEF Correct
  <1>3. /\ accessor' = [accessor EXCEPT ![w] = [vis |-> Apply(w, accessor[w].vis),
                                                flag |-> Apply(w, accessor[w].flag)]]
        /\ wpc' = [wpc EXCEPT ![w] = "next"]
        /\ UNCHANGED <<job, masterVars, cast, slices, results, readVis, metadata, flagNeedSync,
                       chanOffset, solutions>>
    BY DEF Correct, Goto, Set
  <1>4. accessor[w].vis = SliceSent(w).vis /\ accessor[w].flag = SliceSent(w).flag
    <2> DEFINE x == SliceSent(w).vis
               y == SliceSent(w).flag
    <2>1. accessor[w] = [vis |-> x, flag |-> y]
      BY <1>2 DEF Works
    <2> HIDE DEF x, y
    <2>2. accessor[w].vis = x /\ accessor[w].flag = y
      BY <2>1
    <2> QED
      BY <2>2 DEF x, y
  <1>5. [vis |-> Apply(w, accessor[w].vis), flag |-> Apply(w, accessor[w].flag)] = Made(w)
    BY <1>2, <1>4, WorksAt, Makes DEF Works, Informed
  <1>6. WorkersTyped'
    BY <1>1, <1>3 DEF WorkersTyped
  <1>7. wpc'[w] = "next" /\ accessor'[w] = Made(w)
    BY <1>1, <1>3, <1>5 DEF WorkersTyped
  <1>8. UNCHANGED <<channels, mode, at, total, mpc, turn>>
    BY <1>3 DEF job, masterVars
  <1>9. WithMaster(w)' /\ SetUp(w)'
    <2>1. Informed(w)'
      BY <1>2, <1>3, <1>8 DEF Works, Informed
    <2>2. Works(w)'
      BY <1>2, <1>3, <1>7, <1>8, <2>1, SameMessages DEF Works, Collected, Sent
    <2> QED
      BY <1>2, <1>3, <1>8, <2>2 DEF WithMaster, SetUp
  <1>10. \A u \in Worker \ {w} : UNCHANGED OwnState(u)
    BY <1>1, <1>3 DEF WorkersTyped, OwnState
  <1> QED
    BY <1>3, <1>6, <1>9, <1>10, WorkerKeeps

LEMMA FailKeeps ==
    ASSUME IInv, NEW w \in Worker, Fail(w)
    PROVE  IInv'
  <1>1. WorkersTyped
    BY DEF IInv
  <1>2. Works(w) /\ SetUp(w)
    BY AtPlace DEF Fail
  <1>3. /\ wpc' = [wpc EXCEPT ![w] = "failed"]
        /\ UNCHANGED <<job, masterVars, cast, slices, results, readVis, metadata, accessor,
                       flagNeedSync, chanOffset, solutions>>
    BY DEF Fail, Goto
  <1>4. WorkersTyped' /\ wpc'[w] = "failed"
    BY <1>1, <1>3 DEF WorkersTyped
  <1>5. UNCHANGED <<channels, mode, at, total, mpc, turn>>
    BY <1>3 DEF job, masterVars
  <1>6. WithMaster(w)' /\ SetUp(w)'
    <2>1. Informed(w)'
      BY <1>2, <1>3, <1>5 DEF Works, Informed
    <2>2. Works(w)'
      BY <1>2, <1>3, <1>4, <1>5, <2>1 DEF Works, Collected, Sent
    <2> QED
      BY <1>2, <1>3, <1>5, <2>2 DEF WithMaster, SetUp
  <1>7. \A u \in Worker \ {w} : UNCHANGED OwnState(u)
    BY <1>1, <1>3 DEF WorkersTyped, OwnState
  <1> QED
    BY <1>3, <1>4, <1>6, <1>7, WorkerKeeps

LEMMA SendResultKeeps ==
    ASSUME IInv, NEW w \in Worker, SendResult(w)
    PROVE  IInv'
  <1> DEFINE m == [vis |-> accessor[w].vis,
                   flag |-> IF flagNeedSync[w] THEN accessor[w].flag ELSE <<>>]
  <1>1. WorkersTyped
    BY DEF IInv
  <1>2. Works(w) /\ SetUp(w) /\ accessor[w] = Made(w) /\ (flagNeedSync[w] <=> "SYNCFLAG" \in mode)
        /\ results[w] = <<>>
    BY AtPlace DEF SendResult, Works, Informed
  <1>3. /\ results' = [results EXCEPT ![w] = Append(results[w], m)]
        /\ wpc' = [wpc EXCEPT ![w] = "status"]
        /\ UNCHANGED <<job, masterVars, cast, slices, readVis, metadata, accessor, flagNeedSync,
                       chanOffset, solutions>>
    BY DEF SendResult, Goto, Set
  <1>4. m = ResultOf(w)
    BY <1>2 DEF ResultOf
  <1> HIDE DEF m
  <1>5. WorkersTyped'
    BY <1>1, <1>3 DEF WorkersTyped
  <1>6. wpc'[w] = "status" /\ results'[w] = <<m>>
    BY <1>1, <1>2, <1>3, Queues DEF WorkersTyped
  <1>7. UNCHANGED <<channels, mode, at, total, mpc, turn>>
    BY <1>3 DEF job, masterVars
  <1>8. WithMaster(w)' /\ SetUp(w)'
    <2>1. Answered(w)'
      BY <1>2, <1>3, <1>4, <1>6, <1>7, SameMessages DEF Works, Answered, Collected, Sent
    <2> QED
      BY <1>2, <1>3, <1>7, <2>1 DEF WithMaster, SetUp
  <1>9. \A u \in Worker \ {w} : UNCHANGED OwnState(u)
    BY <1>1, <1>3 DEF WorkersTyped, OwnState
  <1> QED
    BY <1>3, <1>5, <1>8, <1>9, WorkerKeeps
-----------------------------------------------------------------------------
(* The steps of the master.                                                *)

LEMMA MasterKeeps ==
    ASSUME IInv, UNCHANGED <<job, workerVars>>, MasterTyped', MasterInStep', DataInStep',
           cast' = [w \in Worker |-> cast'[w]], slices' = [w \in Worker |-> slices'[w]],
           results' = [w \in Worker |-> results'[w]],
           \A w \in Worker : WithMaster(w)' /\ SetUp(w)'
    PROVE  IInv'
  <1>1. WorkersTyped'
    BY DEF IInv, WorkersTyped, workerVars
  <1> QED
    BY <1>1 DEF IInv

\* The master starts, or refuses the chunk: nobody has anything yet.
LEMMA QuietKeeps ==
    ASSUME IInv, Start \/ RefuseChunk
    PROVE  IInv'
  <1>1. /\ {mpc, mpc'} \subseteq {"start", "status", "failed"}
        /\ UNCHANGED <<job, data, at, turn, total, cast, slices, results, workerVars>>
    BY DEF Start, RefuseChunk
  <1>2. MasterTyped /\ WorkersTyped /\ MasterInStep /\ DataInStep
    BY DEF IInv
  <1>3. UNCHANGED <<channels, mode, at, total>>
    BY <1>1 DEF job
  <1>4. MasterTyped' /\ MasterInStep'
    BY <1>1, <1>2, <1>3 DEF MasterTyped, MasterInStep, Underway
  <1>5. DataInStep'
    <2>1. \A k : Held(k)' = Held(k)
      BY <1>1, <1>3, SameMessages DEF Held
    <2> QED
      BY <1>1, <1>2, <1>3, <2>1 DEF DataInStep
  <1>6. ASSUME NEW w \in Worker PROVE WithMaster(w)' /\ SetUp(w)'
    <2>1. UNCHANGED OwnState(w) /\ WithMaster(w) /\ SetUp(w)
      BY <1>1, AtPlace DEF workerVars, OwnState
    <2>2. ~Sent(w) /\ ~Sent(w)' /\ ~Collected(w) /\ ~Collected(w)'
      BY <1>1 DEF Sent, Collected
    <2> QED
      BY <1>1, <1>3, <2>1, <2>2, SameWorker
  <1> QED
    BY <1>1, <1>2, <1>4, <1>5, <1>6, MasterKeeps DEF WorkersTyped

LEMMA BroadcastStatusKeeps ==
    ASSUME IInv, BroadcastStatus
    PROVE  IInv'
  <1>1. MasterTyped /\ WorkersTyped /\ MasterInStep /\ DataInStep
    BY DEF IInv
  <1>2. /\ mpc = "status" /\ (HasMore => ChannelsFit)
        /\ total' = IF HasMore THEN channels[at] ELSE total
        /\ mpc' = IF HasMore THEN "metadata" ELSE "over"
        /\ UNCHANGED <<job, data, at, turn, slices, results, workerVars>>
    BY DEF BroadcastStatus
  <1>3. UNCHANGED <<channels, mode>>
    BY <1>2 DEF job
  <1>4. at <= Len(channels) <=> HasMore
    BY DEF HasMore
  <1>5. HasMore => channels[at] \in Nat \ {0} /\ channels[at] \in Numbers
                   /\ channels[at] >= NWorkers /\ total \in {0, channels[at]}
    BY <1>1, <1>2, <1>4, Chunks DEF ChannelsFit
  <1>6. MasterTyped' /\ MasterInStep'
    BY <1>1, <1>2, <1>3, <1>4, <1>5 DEF MasterTyped, MasterInStep, Underway, N
  <1>7. DataInStep'
    <2>1. \A k : Held(k)' = Held(k)
      BY <1>2, <1>3 DEF Held, Chans
    <2> QED
      BY <1>1, <1>2, <1>3, <2>1 DEF DataInStep
  <1>8. cast' = [w \in Worker |-> Append(cast[w], IF HasMore THEN Status' ELSE End')]
    <2> DEFINE m == [hasMore |-> HasMore, totalNChan |-> total',
                     mode |-> IF total' = 0 THEN {} ELSE mode]
    <2>1. cast' = [w \in Worker |-> Append(cast[w], m)]
      BY DEF BroadcastStatus, Broadcast
    <2>2. m = IF HasMore THEN Status' ELSE End'
      <3>1. CASE HasMore
        BY <1>2, <1>3, <1>5, <3>1 DEF Status, HasMore
      <3>2. CASE ~HasMore
        <4>1. HasMore = FALSE /\ mode' = mode
          BY <1>3, <3>2 DEF HasMore
        <4>2. End' = [hasMore |-> FALSE, totalNChan |-> total',
                      mode |-> IF total' = 0 THEN {} ELSE mode']
          BY DEF End
        <4> QED
          BY <3>2, <4>1, <4>2
      <3> QED
        BY <3>1, <3>2
    <2> HIDE DEF m
    <2> QED
      BY <2>1, <2>2
  <1>9. ASSUME NEW w \in Worker PROVE WithMaster(w)' /\ SetUp(w)'
    <2>1. Rests(w) /\ SetUp(w)
      BY <1>2, AtPlace DEF Underway, Ends
    <2>2. UNCHANGED <<wpc[w], slices[w], results[w], solutions[w]>>
      BY <1>2 DEF workerVars
    <2>3. cast'[w] = <<IF HasMore THEN Status' ELSE End'>>
      <3> DEFINE x == IF HasMore THEN Status' ELSE End'
      <3>1. cast'[w] = Append(cast[w], x)
        BY <1>8
      <3> HIDE DEF x
      <3>2. cast'[w] = <<x>>
        BY <2>1, <3>1, Queues DEF Rests
      <3> QED
        BY <3>2 DEF x
    <2>4. WithMaster(w)'
      <3>1. CASE HasMore
        <4>1. cast'[w] = <<Status'>> /\ mpc' = "metadata"
          BY <1>2, <2>3, <3>1
        <4> QED
          BY <2>1, <2>2, <4>1 DEF Rests, WithMaster, Comes, Underway, Collected, Sent
      <3>2. CASE ~HasMore
        <4>1. cast'[w] = <<End'>> /\ mpc' = "over"
          BY <1>2, <2>3, <3>2
        <4> QED
          BY <2>1, <2>2, <4>1 DEF Rests, WithMaster, Ends
      <3> QED
        BY <3>1, <3>2
    <2>5. SetUp(w)'
      BY <1>2, <1>5, <2>1, <2>2 DEF SetUp
    <2> QED
      BY <2>4, <2>5
  <1> QED
    BY <1>1, <1>2, <1>6, <1>7, <1>8, <1>9, MasterKeeps DEF WorkersTyped

LEMMA BroadcastMetadataKeeps ==
    ASSUME IInv, BroadcastMetadata
    PROVE  IInv'
  <1>1. MasterTyped /\ WorkersTyped /\ MasterInStep /\ DataInStep
    BY DEF IInv
  <1>2. /\ mpc = "metadata" /\ mpc' = "scatter" /\ turn' = 1
        /\ cast' = [w \in Worker |-> Append(cast[w], Metadata)]
        /\ UNCHANGED <<job, data, at, total, slices, results, workerVars>>
    BY DEF BroadcastMetadata, Broadcast, Metadata
  <1>3. UNCHANGED <<channels, mode, at, total>>
    BY <1>2 DEF job
  <1>4. MasterTyped' /\ MasterInStep'
    BY <1>1, <1>2, <1>3, Workers, SameMessages DEF MasterTyped, MasterInStep, Underway
  <1>5. DataInStep'
    <2>1. \A k : Held(k)' = Held(k)
      BY <1>2, <1>3 DEF Held, Chans
    <2> QED
      BY <1>1, <1>2, <1>3, <2>1 DEF DataInStep
  <1>6. ASSUME NEW w \in Worker PROVE WithMaster(w)' /\ SetUp(w)'
    <2>1. Comes(w) /\ ~Sent(w) /\ SetUp(w)
      BY <1>2, AtPlace DEF Underway, Sent, Works, Answered
    <2>2. /\ UNCHANGED <<wpc[w], slices[w], results[w], solutions[w], readVis[w], flagNeedSync[w]>>
          /\ ~Sent(w)' /\ ~Collected(w)'
      <3>1. ~(1 > w)
        BY Workers
      <3> QED
        BY <1>2, <3>1 DEF workerVars, Sent, Collected
    <2>3. \/ wpc[w] = "status" /\ cast'[w] = <<Status, Metadata>>
          \/ wpc[w] = "metadata" /\ Informed(w) /\ cast'[w] = <<Metadata>>
      <3> DEFINE x == Status
                 y == Metadata
      <3>1. cast'[w] = Append(cast[w], y)
        BY <1>2
      <3>2. \/ wpc[w] = "status" /\ cast[w] = <<x>>
            \/ wpc[w] = "metadata" /\ Informed(w) /\ cast[w] = <<>>
        BY <1>2, <2>1 DEF Comes
      <3> HIDE DEF x, y
      <3>3. \/ wpc[w] = "status" /\ cast'[w] = <<x, y>>
            \/ wpc[w] = "metadata" /\ Informed(w) /\ cast'[w] = <<y>>
        <4>1. Append(<<>>, y) = <<y>> /\ Append(<<x>>, y) = <<x, y>>
          BY Queues
        <4>2. CASE wpc[w] = "status" /\ cast[w] = <<x>>
          BY ONLY <3>1, <4>1, <4>2
        <4>3. CASE wpc[w] = "metadata" /\ Informed(w) /\ cast[w] = <<>>
          BY ONLY <3>1, <4>1, <4>3
        <4> QED
          BY <3>2, <4>2, <4>3
      <3> QED
        BY <3>3 DEF x, y
    <2>4. Informed(w)' <=> Informed(w)
      BY <1>3, <2>2 DEF Informed
    <2>5. Comes(w)'
      BY <1>2, <1>3, <2>1, <2>2, <2>3, <2>4, SameMessages DEF Comes, Underway
    <2> QED
      BY <1>2, <1>3, <2>1, <2>2, <2>5 DEF WithMaster, SetUp
  <1> QED
    BY <1>1, <1>2, <1>4, <1>5, <1>6, MasterKeeps DEF WorkersTyped

\* A chunk of which nothing has been received is as it was.
LEMMA NotYet ==
    ASSUME IInv, at <= Len(channels)
    PROVE  /\ mpc # "gather" => data[at] = Untouched(at, Chans(at))
           /\ First[N][1] = 0 /\ \A c \in Chans(at) : c \in Nat
           /\ \A new, old, boundary : boundary = 0 =>
                  [c \in Chans(at) |-> IF c < boundary THEN new[c] ELSE old[c]] =
                      [c \in Chans(at) |-> old[c]]
  <1>1. at \in DOMAIN channels /\ First[N][1] = 0 /\ N \in Nat
    BY AtChunk, Starts
  <1>2. \A c \in Chans(at) : c \in Nat
    BY <1>1 DEF Chans
  <1>3. mpc # "gather" => data[at] = Untouched(at, Chans(at))
    <2>1. data[at] = Held(at) /\ ~(at < at)
      BY <1>1, Chunks DEF IInv, DataInStep
    <2> QED
      BY <2>1 DEF Held
  <1>4. ASSUME NEW new, NEW old, NEW boundary, boundary = 0
        PROVE  [c \in Chans(at) |-> IF c < boundary THEN new[c] ELSE old[c]] =
                   [c \in Chans(at) |-> old[c]]
    <2>1. \A c \in Chans(at) : ~(c < boundary)
      BY <1>2, <1>4
    <2> QED
      BY <2>1
  <1> QED
    BY <1>1, <1>2, <1>3, <1>4

LEMMA SendSliceKeeps ==
    ASSUME IInv, SendSlice
    PROVE  IInv'
  <1>1. MasterTyped /\ WorkersTyped /\ MasterInStep /\ DataInStep
    BY DEF IInv
  <1>2. /\ mpc = "scatter"
        /\ \/ turn = NWorkers /\ mpc' = "gather" /\ turn' = 1
           \/ turn # NWorkers /\ mpc' = "scatter" /\ turn' = turn + 1
        /\ UNCHANGED <<job, data, at, total, cast, results, workerVars>>
    BY DEF SendSlice
  <1>3. UNCHANGED <<channels, mode, at, total>> /\ at <= Len(channels) /\ turn \in Worker
    BY <1>1, <1>2 DEF job, MasterInStep, Underway, MasterTyped
  <1>4. slices' = [slices EXCEPT ![turn] = Append(slices[turn], SliceSent(turn))]
    <2>1. data[at].vis = Raw(at, Chans(at)) /\ data[at].flag = Raw(at, Chans(at))
      BY <1>2, <1>3, NotYet DEF Untouched
    <2> QED
      BY <2>1 DEF SendSlice, SliceSent, N, Visible
  <1>5. MasterTyped' /\ MasterInStep'
    <2>1. turn' \in Worker
      BY <1>2, <1>3, Workers
    <2> QED
      BY <1>1, <1>2, <1>3, <2>1, SameMessages DEF MasterTyped, MasterInStep, Underway
  <1>6. DataInStep'
    <2>1. ASSUME NEW k PROVE Held(k)' = Held(k)
      <3>1. CASE mpc' = "gather" /\ k = at /\ ~(k < at)
        <4> DEFINE raw == Raw(at, Chans(at))
        <4>0. [c \in Chans(at) |-> raw[c]] = raw
          BY DEF Raw
        <4>1. \A new : [c \in Chans(at) |-> IF c < First[N][1] THEN new[c] ELSE raw[c]] = raw
          BY <1>3, <4>0, NotYet
        <4>2. Held(k)' = [vis |-> raw, flag |-> raw]
          BY <1>2, <1>3, <3>1, <4>1, SameMessages DEF Held, Halfway
        <4> QED
          BY <1>2, <3>1, <4>2 DEF Held, Untouched
      <3>2. CASE ~(mpc' = "gather" /\ k = at /\ ~(k < at))
        BY <1>2, <1>3, <3>2, SameMessages DEF Held
      <3> QED
        BY <3>1, <3>2
    <2> QED
      BY <1>1, <1>2, <1>3, <2>1 DEF DataInStep
  <1>7. ASSUME NEW w \in Worker, w # turn PROVE WithMaster(w)' /\ SetUp(w)'
    <2>1. UNCHANGED OwnState(w) /\ WithMaster(w) /\ SetUp(w)
      BY <1>1, <1>2, <1>4, <1>7, AtPlace DEF workerVars, OwnState, WorkersTyped
    <2>2. w \in Nat /\ turn \in Nat /\ NWorkers \in Nat /\ 1 <= w /\ w <= NWorkers
      BY <1>3, Workers DEF Worker
    <2>3. (Sent(w)' <=> Sent(w)) /\ ~Collected(w) /\ ~Collected(w)'
      BY <1>2, <1>7, <2>2 DEF Sent, Collected
    <2> QED
      BY <1>2, <1>3, <2>1, <2>3, SameWorker
  <1>8. ASSUME NEW w \in Worker, w = turn PROVE WithMaster(w)' /\ SetUp(w)'
    <2>0. turn \in Nat /\ 1 <= turn
      BY <1>3, Workers DEF Worker
    <2>1. ~Sent(w) /\ Sent(w)' /\ ~Collected(w)'
      BY <1>2, <1>8, <2>0 DEF Sent, Collected
    <2>2. Comes(w) /\ SetUp(w) /\ slices[w] = <<>>
      BY <1>2, <2>1, AtPlace DEF Underway, Works, Answered, Comes
    <2>3. slices'[w] = <<SliceSent(w)>>
      <3> DEFINE x == SliceSent(w)
      <3>1. slices'[w] = Append(slices[w], x)
        BY <1>1, <1>4, <1>8 DEF WorkersTyped
      <3> HIDE DEF x
      <3>2. slices'[w] = <<x>>
        BY <2>2, <3>1, Queues
      <3> QED
        BY <3>2 DEF x
    <2>4. /\ UNCHANGED <<wpc[w], cast[w], results[w], solutions[w], readVis[w], flagNeedSync[w],
                         metadata[w]>>
      BY <1>2 DEF workerVars
    <2>5. Informed(w)' <=> Informed(w)
      BY <1>3, <2>4 DEF Informed
    <2>6. Comes(w)'
      BY <1>2, <1>3, <2>1, <2>2, <2>3, <2>4, <2>5, SameMessages DEF Comes, Underway
    <2> QED
      BY <1>2, <1>3, <2>2, <2>4, <2>6 DEF WithMaster, SetUp
  <1>9. slices' = [w \in Worker |-> slices'[w]]
    BY <1>1, <1>4 DEF WorkersTyped
  <1> QED
    BY <1>1, <1>2, <1>5, <1>6, <1>7, <1>8, <1>9, MasterKeeps DEF WorkersTyped

\* So much of the chunk is new when a slice more has been received.
Until(boundary, new, old) == [c \in Chans(at) |-> IF c < boundary THEN new[c] ELSE old[c]]

LEMMA Inserted ==
    ASSUME IInv, at <= Len(channels), NEW new, NEW old
    PROVE  Insert(Halfway(new, old), Part(new, N, turn), N, turn) =
               Until(First[N][turn + 1], new, old)
  <1> DEFINE a == First[N][turn]
             b == First[N][turn + 1]
             part == Part(new, N, turn)
             cube == Halfway(new, old)
  <1>1. turn \in Worker /\ N \in Nat
    BY AtChunk DEF IInv, MasterTyped
  <1>2. a \in Nat /\ b \in Nat /\ a <= b /\ \A c \in Chans(at) : c \in Nat
    BY <1>1, AtChunk, NotYet
  <1>3. /\ DOMAIN cube = Chans(at)
        /\ \A c \in Chans(at) : cube[c] = IF c < a THEN new[c] ELSE old[c]
    BY DEF Halfway
  <1>4. \A c \in Slice(N, turn) : c \in Int /\ a <= c /\ c < b
    BY <1>2 DEF Slice
  <1>5. \A c \in Chans(at) : c \in Slice(N, turn) <=> (a <= c /\ c < b)
    BY <1>2 DEF Slice
  <1>6. ASSUME NEW c \in Chans(at), a <= c, c < b PROVE part[c - a] = new[c]
    <2>1. c - a \in Local(N, turn) /\ a + (c - a) = c
      BY <1>2, <1>6 DEF Local
    <2> QED
      BY <2>1 DEF Part
  <1> HIDE DEF a, b, part, cube
  <1>7. Insert(cube, part, N, turn) =
            [c \in Chans(at) |-> IF c \in Slice(N, turn) THEN part[c - a] ELSE cube[c]]
    BY <1>3 DEF Insert, a
  <1>8. ASSUME NEW c \in Chans(at)
        PROVE  (IF c \in Slice(N, turn) THEN part[c - a] ELSE cube[c]) =
                   (IF c < b THEN new[c] ELSE old[c])
    BY <1>2, <1>3, <1>5, <1>6
  <1> QED
    BY <1>7, <1>8 DEF Until, a, b, part, cube

Parts(d, k, a, b) == [d EXCEPT ![k].vis = a, ![k].flag = b]
Whole(d, k, a, b) == [d EXCEPT ![k] = [vis |-> a, flag |-> b]]

\* Both parts of a chunk are replaced.
LEMMA Replaced ==
    ASSUME NEW d, NEW k \in DOMAIN d, NEW v, NEW f, NEW a, NEW b, d[k] = [vis |-> v, flag |-> f]
    PROVE  Parts(d, k, a, b) = Whole(d, k, a, b)
  <1> DEFINE one == [d EXCEPT ![k].vis = a]
  <1>1. one = [d EXCEPT ![k] = [d[k] EXCEPT !.vis = a]]
    OBVIOUS
  <1>2. [d[k] EXCEPT !.vis = a] = [vis |-> a, flag |-> f]
    OBVIOUS
  <1>3. one = [d EXCEPT ![k] = [vis |-> a, flag |-> f]]
    BY <1>1, <1>2
  <1>4. one[k] = [vis |-> a, flag |-> f]
    BY <1>3
  <1>5. [one[k] EXCEPT !.flag = b] = [vis |-> a, flag |-> b]
    <2> DEFINE x == one[k]
    <2>1. x = [vis |-> a, flag |-> f]
      BY <1>4
    <2> HIDE DEF x
    <2>2. [x EXCEPT !.flag = b] = [vis |-> a, flag |-> b]
      BY <2>1
    <2> QED
      BY <2>2 DEF x
  <1>6. [one EXCEPT ![k] = [one[k] EXCEPT !.flag = b]] = [d EXCEPT ![k] = [vis |-> a, flag |-> b]]
    <2> DEFINE x == [vis |-> a, flag |-> f]
               y == [vis |-> a, flag |-> b]
    <2>1. one = [d EXCEPT ![k] = x] /\ [one[k] EXCEPT !.flag = b] = y
      BY <1>3, <1>5
    <2> HIDE DEF one, x, y
    <2>2. [one EXCEPT ![k] = y] = [d EXCEPT ![k] = y]
      BY <2>1
    <2> QED
      BY <2>1, <2>2 DEF y
  <1>7. [d EXCEPT ![k].vis = a, ![k].flag = b] = [one EXCEPT ![k] = [one[k] EXCEPT !.flag = b]]
    OBVIOUS
  <1> QED
    BY <1>6, <1>7 DEF Parts, Whole

\* What the result of a worker does to the chunk.
LEMMA Receives ==
    ASSUME IInv, ReceiveResult
    PROVE  /\ mpc = "gather" /\ at <= Len(channels) /\ turn \in Worker /\ Answered(turn)
           /\ data' = [data EXCEPT ![at] =
                  [vis |-> Until(First[N][turn + 1], New, Raw(at, Chans(at))),
                   flag |-> Until(First[N][turn + 1], Updated(at, Chans(at), mode).flag,
                                  Raw(at, Chans(at)))]]
           /\ \/ turn = NWorkers /\ mpc' = "status" /\ turn' = 1 /\ at' = at + 1
              \/ turn # NWorkers /\ mpc' = "gather" /\ turn' = turn + 1 /\ at' = at
           /\ results' = [results EXCEPT ![turn] = <<>>]
           /\ UNCHANGED <<job, total, cast, slices, workerVars>>
  <1> DEFINE m == Head(results[turn])
             raw == Raw(at, Chans(at))
             fresh == Updated(at, Chans(at), mode).flag
             b == First[N][turn + 1]
  <1>1. mpc = "gather" /\ results[turn] # <<>> /\ turn \in Worker
    BY DEF ReceiveResult, IInv, MasterTyped
  <1>2. Answered(turn) /\ results[turn] = <<ResultOf(turn)>> /\ at <= Len(channels)
    BY <1>1, AtPlace, WorksAt
  <1>3. m = ResultOf(turn) /\ Tail(results[turn]) = <<>>
    <2> DEFINE x == ResultOf(turn)
    <2>1. results[turn] = <<x>>
      BY <1>2
    <2> HIDE DEF x
    <2>2. Head(results[turn]) = x /\ Tail(results[turn]) = <<>>
      BY <2>1, Queues
    <2> QED
      BY <2>2 DEF x
  <1>4. /\ m.vis = Part(New, N, turn)
        /\ "SYNCFLAG" \in mode => m.flag = Part(fresh, N, turn)
    <2>1. ResultOf(turn).vis = Part(New, N, turn)
      BY DEF ResultOf, Made
    <2>2. "SYNCFLAG" \in mode => ResultOf(turn).flag = Part(fresh, N, turn)
      BY DEF ResultOf, Made, Updated
    <2> HIDE DEF m
    <2> QED
      BY <1>3, <2>1, <2>2
  <1>5. DOMAIN m.vis = Local(channels[at], turn)
    <2> HIDE DEF m
    <2> QED
      BY <1>4 DEF Part, N
  <1>6. /\ data' = [data EXCEPT
               ![at].vis = Insert(@, m.vis, N, turn),
               ![at].flag = IF "SYNCFLAG" \in mode THEN Insert(@, m.flag, N, turn) ELSE @]
        /\ \/ turn = NWorkers /\ mpc' = "status" /\ turn' = 1 /\ at' = at + 1
           \/ turn # NWorkers /\ mpc' = "gather" /\ turn' = turn + 1 /\ at' = at
        /\ results' = [results EXCEPT ![turn] = Tail(@)]
        /\ UNCHANGED <<job, total, cast, slices, workerVars>>
    BY <1>1, <1>5 DEF ReceiveResult, LastReceived, NextChunk, N
  <1>7. data[at] = [vis |-> Halfway(New, raw), flag |-> Halfway(fresh, raw)]
    <2>1. at \in DOMAIN channels /\ ~(at < at)
      BY <1>2, Chunks DEF IInv
    <2>2. data[at] = Held(at)
      BY <2>1 DEF IInv, DataInStep
    <2> QED
      BY <1>1, <2>1, <2>2 DEF Held
  <1>8. Insert(Halfway(New, raw), m.vis, N, turn) = Until(b, New, raw)
    BY <1>2, <1>4, Inserted
  <1>9. (IF "SYNCFLAG" \in mode THEN Insert(Halfway(fresh, raw), m.flag, N, turn)
         ELSE Halfway(fresh, raw)) = Until(b, fresh, raw)
    <2>1. CASE "SYNCFLAG" \in mode
      <3>1. m.flag = Part(fresh, N, turn)
        BY <1>4, <2>1
      <3>2. Insert(Halfway(fresh, raw), Part(fresh, N, turn), N, turn) = Until(b, fresh, raw)
        BY <1>2, Inserted
      <3> HIDE DEF m, raw, fresh, b
      <3> QED
        BY <2>1, <3>1, <3>2
    <2>2. CASE "SYNCFLAG" \notin mode
      <3>1. fresh = raw
        BY <2>2 DEF Updated
      <3> HIDE DEF raw, fresh, b
      <3>2. Halfway(fresh, raw) = Until(b, fresh, raw)
        BY <3>1 DEF Halfway, Until
      <3> QED
        BY <2>2, <3>2
    <2> QED
      BY <2>1, <2>2
  <1>10. data' = [data EXCEPT ![at] = [vis |-> Until(b, New, raw), flag |-> Until(b, fresh, raw)]]
    <2> DEFINE v == Halfway(New, raw)
               f == Halfway(fresh, raw)
               mv == m.vis
               mf == m.flag
    <2>1. data[at] = [vis |-> v, flag |-> f]
      BY <1>7
    <2>2. /\ Insert(v, mv, N, turn) = Until(b, New, raw)
          /\ (IF "SYNCFLAG" \in mode THEN Insert(f, mf, N, turn) ELSE f) = Until(b, fresh, raw)
      BY <1>8, <1>9
    <2>3. data' = [data EXCEPT
               ![at].vis = Insert(@, mv, N, turn),
               ![at].flag = IF "SYNCFLAG" \in mode THEN Insert(@, mf, N, turn) ELSE @]
      BY <1>6
    <2>4. at \in DOMAIN data
      BY <1>2, Chunks DEF IInv, DataInStep
    <2> DEFINE x == Insert(v, mv, N, turn)
               y == IF "SYNCFLAG" \in mode THEN Insert(f, mf, N, turn) ELSE f
    <2> HIDE DEF v, f, mv, mf, raw, fresh, b, m
    <2>5. data' = [data EXCEPT ![at].vis = x, ![at].flag = y]
      BY ONLY <2>1, <2>3, <2>4 DEF x, y
    <2> HIDE DEF x, y
    <2>6. Parts(data, at, x, y) = Whole(data, at, x, y)
      BY ONLY <2>1, <2>4, Replaced
    <2>7. data' = [data EXCEPT ![at] = [vis |-> x, flag |-> y]]
      BY ONLY <2>5, <2>6 DEF Parts, Whole
    <2> QED
      BY <2>2, <2>7 DEF x, y
  <1>11. results' = [results EXCEPT ![turn] = <<>>]
    BY <1>3, <1>6
  <1> QED
    BY <1>1, <1>2, <1>6, <1>10, <1>11

\* With the last slice the chunk is complete.
LEMMA Completes ==
    ASSUME IInv, at <= Len(channels)
    PROVE  [vis |-> Until(First[N][NWorkers + 1], New, Raw(at, Chans(at))),
            flag |-> Until(First[N][NWorkers + 1], Updated(at, Chans(at), mode).flag,
                           Raw(at, Chans(at)))] = Updated(at, Chans(at), mode)
  <1> DEFINE raw == Raw(at, Chans(at))
             fresh == Updated(at, Chans(at), mode)
  <1>1. N \in Numbers /\ N \in Nat
    BY AtChunk
  <1>2. First[N][NWorkers + 1] = N
    BY <1>1, Starts
  <1>3. \A c \in Chans(at) : c < N
    BY <1>1 DEF Chans, N
  <1>4. \A new, old : Until(N, new, old) = [c \in Chans(at) |-> new[c]]
    BY <1>3 DEF Until
  <1>5. fresh.vis = [c \in Chans(at) |-> fresh.vis[c]]
    <2>1. CASE "READ" \in mode
      BY <2>1 DEF Updated, Corrected
    <2>2. CASE "READ" \notin mode
      BY <2>2 DEF Updated, Predicted
    <2> QED
      BY <2>1, <2>2
  <1>6. fresh.flag = [c \in Chans(at) |-> fresh.flag[c]]
    <2>1. CASE "SYNCFLAG" \in mode
      BY <2>1 DEF Updated, Corrected
    <2>2. CASE "SYNCFLAG" \notin mode
      BY <2>2 DEF Updated, Raw
    <2> QED
      BY <2>1, <2>2
  <1>7. fresh = [vis |-> fresh.vis, flag |-> fresh.flag] /\ New = fresh.vis
    BY DEF Updated, New
  <1> HIDE DEF raw, fresh
  <1>8. Until(N, New, raw) = fresh.vis /\ Until(N, fresh.flag, raw) = fresh.flag
    BY <1>4, <1>5, <1>6, <1>7
  <1>9. [vis |-> Until(N, New, raw), flag |-> Until(N, fresh.flag, raw)] = fresh
    BY <1>7, <1>8
  <1> QED
    BY <1>2, <1>9 DEF raw, fresh

LEMMA ReceiveInsideKeeps ==
    ASSUME IInv, ReceiveResult, turn # NWorkers
    PROVE  IInv'
  <1> DEFINE raw == Raw(at, Chans(at))
             fresh == Updated(at, Chans(at), mode).flag
             x == [vis |-> Until(First[N][turn + 1], New, raw),
                   flag |-> Until(First[N][turn + 1], fresh, raw)]
  <1>1. MasterTyped /\ WorkersTyped /\ MasterInStep /\ DataInStep
    BY DEF IInv
  <1>2. /\ mpc = "gather" /\ at <= Len(channels) /\ turn \in Worker /\ Answered(turn)
        /\ data' = [data EXCEPT ![at] = x]
        /\ mpc' = "gather" /\ turn' = turn + 1 /\ at' = at
        /\ results' = [results EXCEPT ![turn] = <<>>]
        /\ UNCHANGED <<job, total, cast, slices, workerVars>>
    BY Receives
  <1>3. UNCHANGED <<channels, mode, at, total, mpc>>
    BY <1>2 DEF job
  <1>4. MasterTyped' /\ MasterInStep'
    <2>1. turn' \in Worker
      BY <1>2, Workers
    <2> QED
      BY <1>1, <1>2, <1>3, <2>1, SameMessages DEF MasterTyped, MasterInStep, Underway
  <1>5. DataInStep'
    <2>0. at \in Nat
      BY <1>1, Chunks
    <2>1. Held(at)' = x
      <3>1. /\ Halfway(New, raw)' = Until(First[N][turn + 1], New, raw)
            /\ Halfway(fresh, raw)' = Until(First[N][turn + 1], fresh, raw)
        BY <1>2, <1>3, SameMessages DEF Halfway, Until
      <3>2. Held(at)' = [vis |-> Halfway(New, raw)', flag |-> Halfway(fresh, raw)']
        BY <1>2, <1>3, <2>0 DEF Held
      <3> QED
        BY <3>1, <3>2
    <2>2. ASSUME NEW k \in DOMAIN channels, k # at PROVE Held(k)' = Held(k)
      BY <1>2, <1>3, <2>2, SameMessages DEF Held
    <2> HIDE DEF x
    <2>3. \A k \in DOMAIN channels : data'[k] = Held(k)' /\ DOMAIN data' = DOMAIN channels
      BY <1>1, <1>2, <1>3, <2>1, <2>2 DEF DataInStep
    <2>4. data' = [k \in DOMAIN channels |-> data'[k]]
      BY <1>1, <1>2 DEF DataInStep
    <2> QED
      BY <1>3, <2>3, <2>4 DEF DataInStep
  <1> HIDE DEF x
  <1>6. ASSUME NEW w \in Worker, w # turn PROVE WithMaster(w)' /\ SetUp(w)'
    <2>1. UNCHANGED OwnState(w) /\ WithMaster(w) /\ SetUp(w)
      BY <1>1, <1>2, <1>6, AtPlace DEF workerVars, OwnState, WorkersTyped
    <2>2. w \in Nat /\ turn \in Nat
      BY <1>2, Workers
    <2>3. (Sent(w)' <=> Sent(w)) /\ (Collected(w)' <=> Collected(w))
      BY <1>2, <1>6, <2>2 DEF Sent, Collected
    <2> QED
      BY <1>2, <1>3, <2>1, <2>3, SameWorker
  <1>7. ASSUME NEW w \in Worker, w = turn PROVE WithMaster(w)' /\ SetUp(w)'
    <2>1. Sent(w)' /\ Collected(w)' /\ Answered(w) /\ SetUp(w)
      <3>1. turn \in Nat
        BY <1>2, Workers
      <3> QED
        BY <1>2, <1>7, <3>1, AtPlace DEF Sent, Collected
    <2>2. results'[w] = <<>>
      BY <1>1, <1>2, <1>7 DEF WorkersTyped
    <2>3. UNCHANGED <<wpc[w], cast[w], slices[w], solutions[w], metadata[w]>>
      BY <1>2 DEF workerVars
    <2>4. Answered(w)'
      BY <1>3, <2>1, <2>2, <2>3 DEF Answered
    <2> QED
      BY <1>2, <1>3, <2>1, <2>3, <2>4 DEF WithMaster, SetUp
  <1>8. results' = [w \in Worker |-> results'[w]]
    BY <1>1, <1>2 DEF WorkersTyped
  <1> QED
    BY <1>1, <1>2, <1>4, <1>5, <1>6, <1>7, <1>8, MasterKeeps DEF WorkersTyped

\* With the last result the chunk is written: every worker has answered.
LEMMA ReceiveLast ==
    ASSUME IInv, ReceiveResult, turn = NWorkers
    PROVE  /\ mpc = "gather" /\ at \in DOMAIN channels /\ at <= Len(channels)
           /\ data' = [data EXCEPT ![at] = Updated(at, Chans(at), mode)]
           /\ mpc' = "status" /\ turn' = 1 /\ at' = at + 1
           /\ \A w \in Worker : /\ wpc[w] = "status" /\ cast[w] = <<>> /\ slices[w] = <<>>
                                /\ results'[w] = <<>>
           /\ results' = [w \in Worker |-> results'[w]]
           /\ UNCHANGED <<job, total, cast, slices, workerVars>>
  <1>1. /\ mpc = "gather" /\ at <= Len(channels) /\ turn \in Worker /\ Answered(turn)
        /\ data' = [data EXCEPT ![at] =
               [vis |-> Until(First[N][NWorkers + 1], New, Raw(at, Chans(at))),
                flag |-> Until(First[N][NWorkers + 1], Updated(at, Chans(at), mode).flag,
                               Raw(at, Chans(at)))]]
        /\ mpc' = "status" /\ turn' = 1 /\ at' = at + 1
        /\ results' = [results EXCEPT ![turn] = <<>>]
        /\ UNCHANGED <<job, total, cast, slices, workerVars>>
    BY Receives
  <1>2. data' = [data EXCEPT ![at] = Updated(at, Chans(at), mode)]
    BY <1>1, Completes
  <1>3. at \in DOMAIN channels
    BY <1>1, AtChunk
  <1>4. ASSUME NEW w \in Worker
        PROVE  /\ wpc[w] = "status" /\ cast[w] = <<>> /\ slices[w] = <<>> /\ results'[w] = <<>>
    <2>1. CASE w = turn
      BY <1>1, <2>1 DEF Answered, IInv, WorkersTyped
    <2>2. CASE w # turn
      <3>1. Collected(w) /\ Underway
        <4>1. NWorkers > w
          BY <2>2, Workers DEF Worker
        <4> QED
          BY <1>1, <4>1 DEF Collected, Underway
      <3>2. Answered(w)
        BY <3>1, AtPlace DEF Comes, Works
      <3> QED
        BY <1>1, <2>2, <3>1, <3>2 DEF Answered, IInv, WorkersTyped
    <2> QED
      BY <2>1, <2>2
  <1>5. results' = [w \in Worker |-> results'[w]]
    BY <1>1 DEF IInv, WorkersTyped
  <1> QED
    BY <1>1, <1>2, <1>3, <1>4, <1>5

LEMMA ReceiveLastKeeps ==
    ASSUME IInv, ReceiveResult, turn = NWorkers
    PROVE  IInv'
  <1>1. MasterTyped /\ WorkersTyped /\ MasterInStep /\ DataInStep
    BY DEF IInv
  <1>2. /\ mpc = "gather" /\ at \in DOMAIN channels /\ at <= Len(channels)
        /\ data' = [data EXCEPT ![at] = Updated(at, Chans(at), mode)]
        /\ mpc' = "status" /\ turn' = 1 /\ at' = at + 1
        /\ \A w \in Worker : /\ wpc[w] = "status" /\ cast[w] = <<>> /\ slices[w] = <<>>
                             /\ results'[w] = <<>>
        /\ results' = [w \in Worker |-> results'[w]]
        /\ UNCHANGED <<job, total, cast, slices, workerVars>>
    BY ReceiveLast
  <1>3. UNCHANGED <<channels, mode, total>>
    BY <1>2 DEF job
  <1>4. at \in Nat /\ DOMAIN channels \subseteq Nat /\ Len(channels) \in Nat /\ 1 <= at
    BY <1>1, Chunks DEF MasterTyped
  <1>5. MasterTyped' /\ MasterInStep'
    <2>1. turn' \in Worker /\ at' \in 1..(Len(channels) + 1)
      BY <1>2, <1>4, Workers
    <2> QED
      BY <1>1, <1>2, <1>3, <2>1 DEF MasterTyped, MasterInStep, Underway
  <1>6. DataInStep'
    <2>1. \A k : Chans(k)' = Chans(k)
      BY <1>3 DEF Chans
    <2>2. ASSUME NEW k \in DOMAIN channels, k # at PROVE Held(k)' = Held(k)
      <3>1. k < at + 1 <=> k < at
        BY <1>4, <2>2
      <3> QED
        BY <1>2, <1>3, <2>1, <2>2, <3>1 DEF Held
    <2>3. ASSUME NEW k \in DOMAIN channels, k = at PROVE Held(k)' = Updated(at, Chans(at), mode)
      <3>1. k < at + 1
        BY <1>4, <2>3
      <3> QED
        BY <1>2, <1>3, <2>1, <2>3, <3>1 DEF Held
    <2>4. \A k \in DOMAIN channels : data'[k] = Held(k)' /\ DOMAIN data' = DOMAIN channels
      BY <1>1, <1>2, <1>3, <2>2, <2>3 DEF DataInStep
    <2>5. data' = [k \in DOMAIN channels |-> data'[k]]
      BY <1>1, <1>2 DEF DataInStep
    <2> QED
      BY <1>3, <2>4, <2>5 DEF DataInStep
  <1>7. ASSUME NEW w \in Worker PROVE WithMaster(w)' /\ SetUp(w)'
    <2>1. Rests(w)'
      BY <1>2 DEF Rests, workerVars
    <2>2. SetUp(w)'
      <3>1. SetUp(w) /\ solutions' = solutions
        BY <1>2, AtPlace DEF workerVars
      <3> QED
        BY <1>2, <1>3, <3>1 DEF SetUp
    <2> QED
      BY <2>1, <2>2 DEF WithMaster
  <1> QED
    BY <1>1, <1>2, <1>5, <1>6, <1>7, MasterKeeps DEF WorkersTyped
-----------------------------------------------------------------------------
(* The iteration.                                                          *)

LEMMA Initially == Init => IInv
  <1> SUFFICES ASSUME Init PROVE IInv
    OBVIOUS
  <1>1. at = 1 /\ mpc = "start" /\ turn = 1 /\ total = 0 /\ channels \in DataSets /\ mode \in Modes
    BY DEF Init
  <1>2. MasterTyped
    <2>1. channels \in Seq(Nat \ {0})
      BY <1>1, PartitionAssumption
    <2> QED
      BY <1>1, <2>1, Workers DEF MasterTyped
  <1>3. WorkersTyped
    BY DEF Init, WorkersTyped
  <1>4. MasterInStep
    BY <1>1 DEF MasterInStep, Underway, Numbers
  <1>5. DataInStep
    <2>1. ASSUME NEW k \in DOMAIN channels PROVE Held(k) = Untouched(k, Chans(k))
      <3>1. ~(k < at)
        BY <1>1, <1>2, Chunks
      <3> QED
        BY <1>1, <3>1 DEF Held
    <2> QED
      BY <2>1 DEF Init, DataInStep
  <1>6. ASSUME NEW w \in Worker PROVE WithMaster(w) /\ SetUp(w)
    BY DEF Init, WithMaster, Rests, SetUp
  <1> QED
    BY <1>2, <1>3, <1>4, <1>5, <1>6 DEF IInv

LEMMA NextKeeps == IInv /\ [Next]_vars => IInv'
  <1> SUFFICES ASSUME IInv, [Next]_vars PROVE IInv'
    OBVIOUS
  <1>1. CASE MasterStep
    <2>1. CASE ReceiveResult
      BY <2>1, ReceiveInsideKeeps, ReceiveLastKeeps
    <2> QED
      BY <1>1, <2>1, QuietKeeps, BroadcastStatusKeeps, BroadcastMetadataKeeps, SendSliceKeeps
      DEF MasterStep
  <1>2. CASE \E w \in Worker : WorkerStep(w) \/ Fail(w)
    BY <1>2, ReceiveStatusKeeps, ReceiveMetadataKeeps, ReceiveSliceKeeps, CorrectKeeps,
       SendResultKeeps, FailKeeps DEF WorkerStep
  <1>3. CASE UNCHANGED vars
    <2>1. UNCHANGED <<job, masterVars, cast, slices, results, workerVars>>
      BY <1>3 DEF vars
    <2>2. UNCHANGED <<channels, mode, data, at, mpc, turn, total>>
      BY <2>1 DEF job, masterVars
    <2>3. MasterTyped' /\ MasterInStep' /\ WorkersTyped'
      BY <2>1, <2>2 DEF IInv, MasterTyped, MasterInStep, Underway, N, WorkersTyped, workerVars
    <2>4. DataInStep'
      <3>1. \A k : Held(k)' = Held(k)
        BY <2>2, SameMessages DEF Held, Halfway
      <3> QED
        BY <2>2, <3>1 DEF IInv, DataInStep
    <2>5. ASSUME NEW w \in Worker PROVE WithMaster(w)' /\ SetUp(w)'
      <3>1. UNCHANGED OwnState(w) /\ Sent(w)' = Sent(w) /\ Collected(w)' = Collected(w)
        BY <2>1, <2>2 DEF OwnState, workerVars, Sent, Collected
      <3> QED
        BY <2>2, <3>1, SameWorker, AtPlace
    <2> QED
      BY <2>3, <2>4, <2>5 DEF IInv
  <1> QED
    BY <1>1, <1>2, <1>3 DEF Next

\* The master and the workers are in step in every state: a worker comes to the
\* master's chunk, works on its slice, has answered, or rests between chunks
\* (ParallelWriteIterator.cc:162-282, 298-443).
THEOREM Invariance == Spec => []IInv
  <1>1. Init => IInv
    BY Initially
  <1>2. IInv /\ [Next]_vars => IInv'
    BY NextKeeps
  <1> QED
    BY <1>1, <1>2, PTL DEF Spec
-----------------------------------------------------------------------------
(* What is on its way is of the present chunk.                             *)

\* A part of a chunk is a slice as the worker has it.
LEMMA Sliced ==
    ASSUME IInv, at <= Len(channels), NEW w \in Worker
    PROVE  IsSlice(w, SliceSent(w).vis) /\ IsSlice(w, SliceSent(w).flag) /\ IsSlice(w, Made(w).vis)
  <1> DEFINE Celled(cube) == \A c \in Chans(at) : IsCell(cube[c])
  <1>1. at \in Int /\ Chans(at) \subseteq Int
    BY AtChunk, Chunks DEF Chans, IInv
  <1>2. ASSUME NEW c \in Chans(at)
        PROVE  /\ IsCell(Cell(<<at, c>>, <<>>)) /\ IsCell(Cell(<<>>, <<>>))
               /\ IsCell(Cell(<<at, c>>, <<at, c>>)) /\ IsCell(Cell(<<>>, <<at, c>>))
    <2>1. <<at, c>> \in Seq(Int) /\ <<>> \in Seq(Int)
      BY <1>1
    <2> QED
      BY <2>1 DEF IsCell, Cell
  <1>3. Celled(Raw(at, Chans(at)))
    BY <1>2 DEF Raw
  <1>4. Celled(Visible)
    BY <1>2 DEF Visible, Raw, Zero
  <1>5. Celled(New)
    <2>1. CASE "READ" \in mode
      BY <1>2, <2>1 DEF New, Updated, Corrected
    <2>2. CASE "READ" \notin mode
      BY <1>2, <2>2 DEF New, Updated, Predicted
    <2> QED
      BY <2>1, <2>2
  <1>6. \A c \in Local(N, w) : First[N][w] + c \in Chans(at)
    BY AtChunk
  <1> HIDE DEF Celled
  <1>7. \A cube : Celled(cube) => IsSlice(w, Part(cube, N, w))
    BY <1>6 DEF Celled, IsSlice, Part, N
  <1> QED
    BY <1>3, <1>4, <1>5, <1>7 DEF SliceSent, Made

LEMMA Lengths ==
    ASSUME NEW a, NEW b
    PROVE  /\ Len(<<>>) = 0 /\ Len(<<a>>) = 1 /\ Len(<<a, b>>) = 2
           /\ <<a>>[1] = a /\ \A i \in 1..Len(<<a>>) : i = 1
           /\ \A i \in 1..Len(<<>>) : FALSE
  OBVIOUS

\* Between the processes are only slices of the present chunk, as they should
\* be, and none once the iteration is over (ParallelWriteIterator.cc:150-282,
\* 298-443).
LEMMA WorkerInStep ==
    ASSUME IInv, NEW w \in Worker
    PROVE  /\ \A i \in 1..Len(slices[w]) :
                  IsSlice(w, slices[w][i].vis) /\ IsSlice(w, slices[w][i].flag)
           /\ \A i \in 1..Len(results[w]) : IsSlice(w, results[w][i].vis)
           /\ Len(cast[w]) + Len(slices[w]) + Len(results[w]) <= 3
           /\ slices[w] # <<>> \/ results[w] # <<>> \/ wpc[w] \in {"slice", "correct", "next"}
                  => mpc \in {"scatter", "gather"}
           /\ wpc[w] \in {"slice", "correct", "next"} => metadata[w] = at
           /\ results[w] # <<>> => metadata[w] = at /\ Head(results[w]).vis = Part(New, N, w)
           /\ wpc[w] = "over" =>
                  mpc = "over" /\ cast[w] = <<>> /\ slices[w] = <<>> /\ results[w] = <<>>
  <1> DEFINE s == SliceSent(w)
             r == ResultOf(w)
             x == Status
             y == Metadata
             e == End
  <1>1. WithMaster(w)
    BY AtPlace
  <1>2. /\ slices[w] # <<>> => slices[w] = <<s>> /\ Sent(w)
        /\ results[w] # <<>> => results[w] = <<r>> /\ Answered(w) /\ slices[w] = <<>>
        /\ cast[w] \in {<<>>, <<x>>, <<y>>, <<x, y>>, <<e>>}
    BY <1>1 DEF WithMaster, Comes, Works, Answered, Rests, Ends
  <1>3. /\ slices[w] # <<>> => IsSlice(w, s.vis) /\ IsSlice(w, s.flag)
        /\ results[w] # <<>> => IsSlice(w, r.vis) /\ r.vis = Part(New, N, w)
    <2>1. slices[w] # <<>> \/ results[w] # <<>> => at <= Len(channels)
      BY <1>2, WorksAt DEF Sent, Underway, IInv, MasterInStep
    <2>2. r.vis = Made(w).vis /\ Made(w).vis = Part(New, N, w)
      BY DEF ResultOf, Made
    <2> HIDE DEF r, s
    <2>3. at <= Len(channels) => IsSlice(w, s.vis) /\ IsSlice(w, s.flag) /\ IsSlice(w, Made(w).vis)
      BY Sliced DEF s
    <2> QED
      BY <2>1, <2>2, <2>3
  <1>4. slices[w] # <<>> \/ results[w] # <<>> \/ wpc[w] \in {"slice", "correct", "next"}
            => mpc \in {"scatter", "gather"}
    BY <1>1, <1>2 DEF WithMaster, Comes, Works, Answered, Rests, Ends, Sent, Underway
  <1>5. wpc[w] \in {"slice", "correct", "next"} => metadata[w] = at
    BY <1>1 DEF WithMaster, Comes, Works, Answered, Rests, Ends
  <1>6. wpc[w] = "over" =>
            mpc = "over" /\ cast[w] = <<>> /\ slices[w] = <<>> /\ results[w] = <<>>
    BY <1>1 DEF WithMaster, Comes, Works, Answered, Rests, Ends
  <1>7. results[w] # <<>> => metadata[w] = at
    BY <1>2 DEF Answered
  <1> HIDE DEF s, r, x, y, e
  <1>8. Len(cast[w]) \in {0, 1, 2} /\ Len(slices[w]) \in {0, 1} /\ Len(results[w]) \in {0, 1}
        /\ (Len(slices[w]) = 0 \/ Len(results[w]) = 0)
    <2>1. Len(cast[w]) \in {0, 1, 2}
      BY <1>2, Lengths
    <2>2. Len(slices[w]) \in {0, 1} /\ Len(results[w]) \in {0, 1}
      BY <1>2, Lengths
    <2>3. Len(slices[w]) = 0 \/ Len(results[w]) = 0
      BY <1>2, Lengths
    <2> QED
      BY <2>1, <2>2, <2>3
  <1>9. Len(cast[w]) + Len(slices[w]) + Len(results[w]) <= 3
    <2> DEFINE i == Len(cast[w])
               j == Len(slices[w])
               k == Len(results[w])
    <2>1. i \in {0, 1, 2} /\ j \in {0, 1} /\ k \in {0, 1} /\ (j = 0 \/ k = 0)
      BY <1>8
    <2> HIDE DEF i, j, k
    <2>2. i + j + k <= 3
      BY <2>1
    <2> QED
      BY <2>2 DEF i, j, k
  <1>10. /\ \A i \in 1..Len(slices[w]) :
                IsSlice(w, slices[w][i].vis) /\ IsSlice(w, slices[w][i].flag)
         /\ \A i \in 1..Len(results[w]) : IsSlice(w, results[w][i].vis)
    <2>1. CASE slices[w] # <<>>
      <3>1. slices[w] = <<s>> /\ results[w] = <<>> /\ IsSlice(w, s.vis) /\ IsSlice(w, s.flag)
        BY <1>2, <1>3, <2>1
      <3> QED
        BY <3>1, Lengths
    <2>2. CASE results[w] # <<>>
      <3>1. results[w] = <<r>> /\ slices[w] = <<>> /\ IsSlice(w, r.vis)
        BY <1>2, <1>3, <2>2
      <3> QED
        BY <3>1, Lengths
    <2>3. CASE slices[w] = <<>> /\ results[w] = <<>>
      BY <2>3, Lengths
    <2> QED
      BY <2>1, <2>2, <2>3
  <1>11. results[w] # <<>> => Head(results[w]).vis = Part(New, N, w)
    <2>1. results[w] # <<>> => Head(results[w]) = r
      BY <1>2, Queues
    <2> QED
      BY <1>3, <2>1
  <1> QED
    BY <1>4, <1>5, <1>6, <1>7, <1>9, <1>10, <1>11

\* Every message on its way and every slice in hand is of the chunk that the
\* master's iterator is at, the result being what the chunk should hold, and
\* nothing is left when the iteration is over, whatever the number of workers
\* (ParallelWriteIterator.cc:150-282, 298-443).
THEOREM AlwaysInStep == Spec => []InStep
  <1>1. IInv => InStep
    <2> SUFFICES ASSUME IInv PROVE InStep
      OBVIOUS
    <2>1. TypeOK
      <3>1. DOMAIN data = DOMAIN channels
        BY DEF IInv, DataInStep
      <3> QED
        BY <3>1, WorkerInStep DEF IInv, MasterTyped, WorkersTyped, TypeOK
    <2>2. SlicesOfThisChunk
      BY WorkerInStep DEF SlicesOfThisChunk, New, N
    <2>3. NothingLeftOver
      BY WorkerInStep DEF NothingLeftOver
    <2> QED
      BY <2>1, <2>2, <2>3 DEF InStep
  <1> QED
    BY <1>1, Invariance, PTL
-----------------------------------------------------------------------------
(* What one process would do.                                              *)

LEMMA SameAlone ==
    ASSUME UNCHANGED <<channels, mode, at>>, Flushed' = Flushed, Failed => Failed'
    PROVE  [Alone!Update \/ Alone!Stop]_(Alone!serialVars)
  <1>0. Failed \in BOOLEAN /\ Failed' \in BOOLEAN
    BY DEF Failed
  <1>1. CASE Failed' = Failed
    <2>1. UNCHANGED Alone!serialVars
      BY <1>1 DEF Alone!serialVars
    <2> QED
      BY <2>1
  <1>2. CASE ~Failed /\ Failed'
    <2>1. Failed' = TRUE
      BY <1>0, <1>2
    <2>2. Alone!Stop
      BY <1>2, <2>1 DEF Alone!Stop
    <2> QED
      BY <2>2
  <1>3. Failed' = Failed \/ (~Failed /\ Failed')
    BY <1>0
  <1> QED
    BY <1>1, <1>2, <1>3

\* A chunk that the master has yet to write does not matter.
LEMMA SameFlushed ==
    ASSUME IInv, UNCHANGED <<channels, at>>, \A k \in DOMAIN channels : k < at => data'[k] = data[k]
    PROVE  Flushed' = Flushed
  <1>1. \A k : Chans(k)' = Chans(k)
    BY DEF Chans
  <1> QED
    BY <1>1 DEF Flushed

\* The last result of a chunk writes it.
LEMMA LastUpdates ==
    ASSUME IInv, ReceiveResult, turn = NWorkers
    PROVE  Alone!Update
  <1>1. /\ mpc = "gather" /\ at \in DOMAIN channels /\ at <= Len(channels)
        /\ data' = [data EXCEPT ![at] = Updated(at, Chans(at), mode)]
        /\ mpc' = "status" /\ at' = at + 1
        /\ \A w \in Worker : wpc[w] = "status"
        /\ UNCHANGED <<job, workerVars>>
    BY ReceiveLast
  <1>2. UNCHANGED <<channels, mode, wpc>>
    BY <1>1 DEF job, workerVars
  <1>3. ~Failed /\ ~Failed'
    BY <1>1, <1>2 DEF Failed
  <1>4. at \in Nat /\ DOMAIN channels \subseteq Nat /\ DOMAIN data = DOMAIN channels
    BY Chunks DEF IInv, DataInStep
  <1>5. Flushed' = [Flushed EXCEPT ![at] = Updated(at, 0..(channels[at] - 1), mode)]
    <2> DEFINE x == Updated(at, Chans(at), mode)
    <2>1. \A k : Chans(k)' = Chans(k)
      BY <1>2 DEF Chans
    <2>2. data' = [data EXCEPT ![at] = x]
      BY <1>1
    <2> HIDE DEF x
    <2>3. ASSUME NEW k \in DOMAIN channels
          PROVE  Flushed'[k] = IF k = at THEN x ELSE Flushed[k]
      <3>1. Flushed'[k] = IF k < at + 1 THEN data'[k] ELSE Untouched(k, Chans(k))
        BY <1>1, <1>2, <2>1 DEF Flushed
      <3>2. Flushed[k] = IF k < at THEN data[k] ELSE Untouched(k, Chans(k))
        BY DEF Flushed
      <3>3. data'[k] = IF k = at THEN x ELSE data[k]
        BY <1>4, <2>2
      <3>4. k < at + 1 <=> (k < at \/ k = at)
        BY <1>4
      <3>5. k = at => ~(k < at)
        BY <1>4
      <3> QED
        BY <3>1, <3>2, <3>3, <3>4, <3>5
    <2>4. Flushed' = [k \in DOMAIN channels |-> Flushed'[k]]
      BY <1>2 DEF Flushed
    <2>5. Flushed = [k \in DOMAIN channels |-> Flushed[k]]
      BY DEF Flushed
    <2>6. Flushed' = [Flushed EXCEPT ![at] = x]
      BY <2>3, <2>4, <2>5
    <2> QED
      BY <2>6 DEF x, Chans
  <1> QED
    <2>1. \A k, chans, m : Alone!Updated(k, chans, m) = Updated(k, chans, m)
      BY DEF Alone!Updated, Updated, Alone!Corrected, Corrected, Alone!Predicted, Predicted,
             Alone!Raw, Raw, Alone!Cell, Cell
    <2>2. Failed' = Failed
      <3>1. Failed \in BOOLEAN /\ Failed' \in BOOLEAN
        BY DEF Failed
      <3> QED
        BY <1>3, <3>1
    <2>3. Flushed' = [Flushed EXCEPT ![at] = Alone!Updated(at, 0..(channels[at] - 1), mode)]
      BY <1>5, <2>1
    <2> HIDE DEF Flushed
    <2> QED
      BY <1>1, <1>2, <1>3, <2>2, <2>3 DEF Alone!Update

LEMMA MasterServes ==
    ASSUME IInv, MasterStep
    PROVE  [Alone!Update \/ Alone!Stop]_(Alone!serialVars)
  <1>1. CASE ReceiveResult /\ turn = NWorkers
    BY <1>1, LastUpdates
  <1>2. CASE ReceiveResult /\ turn # NWorkers
    <2>1. /\ mpc # "failed" /\ at' = at /\ UNCHANGED <<job, workerVars>>
          /\ \A k \in DOMAIN channels : k # at => data'[k] = data[k]
      <3>1. /\ mpc = "gather" /\ at' = at /\ UNCHANGED <<job, workerVars>>
            /\ data' = [data EXCEPT ![at] =
                   [vis |-> Until(First[N][turn + 1], New, Raw(at, Chans(at))),
                    flag |-> Until(First[N][turn + 1], Updated(at, Chans(at), mode).flag,
                                   Raw(at, Chans(at)))]]
        BY <1>2, Receives
      <3>2. DOMAIN data = DOMAIN channels
        BY DEF IInv, DataInStep
      <3> QED
        BY <3>1, <3>2
    <2>2. UNCHANGED <<channels, mode, at, wpc>>
      BY <2>1 DEF job, workerVars
    <2>3. \A k \in DOMAIN channels : k < at => data'[k] = data[k]
      BY <2>1, Chunks DEF IInv
    <2>4. Failed => Failed'
      BY <2>1, <2>2 DEF Failed
    <2> QED
      BY <2>2, <2>3, <2>4, SameFlushed, SameAlone
  <1>3. CASE Start \/ RefuseChunk \/ BroadcastStatus \/ BroadcastMetadata \/ SendSlice
    <2>1. mpc # "failed" /\ UNCHANGED <<job, data, at, workerVars>>
      BY <1>3 DEF Start, RefuseChunk, BroadcastStatus, BroadcastMetadata, SendSlice
    <2>2. UNCHANGED <<channels, mode, data, at, wpc>>
      BY <2>1 DEF job, workerVars
    <2>3. Failed => Failed'
      BY <2>1, <2>2 DEF Failed
    <2> QED
      BY <2>2, <2>3, SameFlushed, SameAlone
  <1> QED
    BY <1>1, <1>2, <1>3 DEF MasterStep

LEMMA WorkerServes ==
    ASSUME IInv, NEW w \in Worker, WorkerStep(w) \/ Fail(w)
    PROVE  [Alone!Update \/ Alone!Stop]_(Alone!serialVars)
  <1>1. UNCHANGED <<job, masterVars>> /\ wpc[w] # "failed" /\ wpc' = [wpc EXCEPT ![w] = wpc'[w]]
    <2>1. wpc \in [Worker -> {"status", "metadata", "slice", "correct", "next", "over", "failed"}]
      BY DEF IInv, WorkersTyped
    <2>2. CASE ReceiveStatus(w)
      BY <2>1, <2>2 DEF ReceiveStatus, Goto
    <2>3. CASE ReceiveSlice(w)
      BY <2>1, <2>3 DEF ReceiveSlice, Goto
    <2> QED
      BY <2>1, <2>2, <2>3 DEF WorkerStep, ReceiveMetadata, Correct, SendResult, Fail, Goto
  <1>2. UNCHANGED <<channels, mode, data, at, mpc>>
    BY <1>1 DEF job, masterVars
  <1>3. Failed => Failed'
    <2>1. \A u \in Worker : wpc[u] = "failed" => wpc'[u] = "failed"
      BY <1>1 DEF IInv, WorkersTyped
    <2> QED
      BY <1>2, <2>1 DEF Failed
  <1> QED
    BY <1>2, <1>3, SameFlushed, SameAlone

\* What is written, once the chunk the iterator is at has been collected from
\* all workers, is what one process writes that has the measurement set for
\* itself: the chunks in order, each as a whole and by its own solutions, or
\* nothing more after a failure (ParallelWriteIterator.cc:162-282, 298-443).
THEOREM SerialSteps ==
    Spec => Alone!SerialInit /\ [][Alone!Update \/ Alone!Stop]_(Alone!serialVars)
  <1>1. Init => Alone!SerialInit
    <2> SUFFICES ASSUME Init PROVE Alone!SerialInit
      OBVIOUS
    <2>1. IInv
      BY Initially
    <2>2. at = 1 /\ ~Failed
      BY DEF Init, Failed
    <2>3. Flushed = [k \in DOMAIN channels |-> Untouched(k, Chans(k))]
      <3>1. \A k \in DOMAIN channels : ~(k < at)
        BY <2>1, <2>2, Chunks DEF IInv
      <3> QED
        BY <3>1 DEF Flushed
    <2> QED
      BY <2>2, <2>3 DEF Alone!SerialInit, Alone!Untouched, Untouched, Alone!Raw, Raw,
         Alone!Cell, Cell, Chans
  <1>2. IInv /\ [Next]_vars => [Alone!Update \/ Alone!Stop]_(Alone!serialVars)
    <2> SUFFICES ASSUME IInv, [Next]_vars
                 PROVE  [Alone!Update \/ Alone!Stop]_(Alone!serialVars)
      OBVIOUS
    <2>1. CASE UNCHANGED vars
      <3>1. UNCHANGED <<channels, mode, data, at, mpc, wpc>>
        BY <2>1 DEF vars, job, masterVars, workerVars
      <3>2. Failed => Failed'
        BY <3>1 DEF Failed
      <3> QED
        BY <3>1, <3>2, SameFlushed, SameAlone
    <2> QED
      BY <2>1, MasterServes, WorkerServes DEF Next
  <1> QED
    BY <1>1, <1>2, Invariance, PTL DEF Spec
=============================================================================
