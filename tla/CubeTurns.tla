----------------------------- MODULE CubeTurns -----------------------------
(***************************************************************************)
(* Applications that split a cube by channels and take turns to write it:  *)
(* the deconvolver (cdeconvolver-mpi), whose ranks pass a message round,   *)
(* and the linear mosaicking (linmos-mpi with serialWrite, not             *)
(* collective), whose ranks pass it on from the first to the last.         *)
(*                                                                         *)
(* A channel has one plane; computing it is not modelled.                  *)
(***************************************************************************)
EXTENDS Integers, FiniteSets

CONSTANTS Jobs,      \* the application, and the sizes it is run with
          MaxRanks   \* the most ranks there are

ASSUME JobsAssumption ==
    \A j \in Jobs :
        /\ j.ranks <= MaxRanks
        /\ j.app \in {"deconvolver", "linmos"} /\ j.contiguous \in BOOLEAN
        /\ {j.ranks, j.channels, j.mosaics} \subseteq Nat \ {0}
        /\ j.app = "deconvolver" => j.mosaics = 1

VARIABLES
    job,
    stage,      \* the place of each rank
    mosaic,     \* the mosaic it is at
    channel,    \* how many of its channels it has written
    turns,      \* messages that wait for each rank
    existing,   \* the mosaics the master has created the images of
    writes      \* who has written which channel of which mosaic

turnVars == <<job, stage, mosaic, channel, turns, existing, writes>>

Rank == 0..(job.ranks - 1)
Plane == 0..(job.channels - 1)
Linmos == job.app = "linmos"
-----------------------------------------------------------------------------
(* The channels of a rank.                                                 *)

Min2(a, b) == IF a < b THEN a ELSE b
Div == job.channels \div job.ranks
Rem == job.channels % job.ranks
IsEven == Rem = 0

\* get_channel_allocation.
DeconvolverChannels(r) ==
    LET first == r * Div + (IF r < Rem THEN Div ELSE Rem)
        count == Div + (IF r < Rem THEN 1 ELSE 0)
    IN  first..(first + count - 1)

\* How many channels are meant for every rank of linmos.
PerRank == IF job.ranks > job.channels THEN 1 ELSE Div + (IF IsEven THEN 0 ELSE 1)

\* Mutant: a section ends one channel late.
LinmosChannels_Overlap(r) == {c \in Plane : r * PerRank <= c /\ c <= (r + 1) * PerRank}

\* Every so manieth, or a section of the cube.
LinmosChannels(r) ==
    IF job.contiguous THEN {c \in Plane : c % job.ranks = r}
    ELSE {c \in Plane : c \div PerRank = r}

Channels(r) == IF Linmos THEN LinmosChannels(r) ELSE DeconvolverChannels(r)

\* The one a rank comes to after n others.
Nth(r, n) == CHOOSE c \in Channels(r) : Cardinality({d \in Channels(r) : d < c}) = n
-----------------------------------------------------------------------------
TurnsInit ==
    /\ job \in Jobs
    /\ stage = [r \in Rank |-> "start"]
    /\ mosaic = [r \in Rank |-> 1]
    /\ channel = [r \in Rank |-> 0]
    /\ turns = [r \in Rank |-> 0]
    /\ existing = {} /\ writes = {}

GoOn(r, place) == stage' = [stage EXCEPT ![r] = place]

\* The end of the loop over the channels is tested first.
AfterChannels(r, n) == IF n < Cardinality(Channels(r)) THEN "turn" ELSE "barrier"

\* A rank of linmos without a channel leaves for good.
Start(r) ==
    /\ stage[r] = "start"
    /\ IF Linmos /\ Channels(r) = {} THEN GoOn(r, "gone") ELSE GoOn(r, AfterChannels(r, 0))
    /\ channel' = [channel EXCEPT ![r] = 0]
    /\ existing' = IF r = 0 THEN existing \cup {mosaic[r]} ELSE existing
    /\ UNCHANGED <<job, mosaic, turns, writes>>

\* The master writes its first channel, in linmos all of them, unasked.
\* Mutant: a rank of the deconvolver whose first channel it is does not wait.
Waits_NobodyAtFirst(r) == IF Linmos THEN r # 0 ELSE channel[r] # 0

Waits(r) == r # 0 \/ (~Linmos /\ channel[r] # 0)

TakeTurn(r) ==
    /\ stage[r] = "turn"
    /\ IF Waits(r) THEN turns[r] > 0 /\ turns' = [turns EXCEPT ![r] = @ - 1]
                   ELSE UNCHANGED turns
    /\ GoOn(r, "write")
    /\ UNCHANGED <<job, mosaic, channel, existing, writes>>

WritePlane(r) ==
    /\ stage[r] = "write"
    /\ writes' = writes \cup {<<mosaic[r], Nth(r, channel[r]), r>>}
    /\ GoOn(r, "pass")
    /\ UNCHANGED <<job, mosaic, channel, turns, existing>>

\* The last rank of linmos passes it to nobody, that of the deconvolver to
\* the first.
\* Mutant: in the deconvolver neither.
PassedTo_NotRound(r) == {r + 1} \cap Rank

PassedTo(r) == IF r + 1 \in Rank THEN {r + 1} ELSE IF Linmos THEN {} ELSE {0}

PassTurn(r) ==
    /\ stage[r] = "pass"
    /\ turns' = [s \in Rank |-> IF s \in PassedTo(r) THEN turns[s] + 1 ELSE turns[s]]
    /\ channel' = [channel EXCEPT ![r] = @ + 1]
    /\ GoOn(r, AfterChannels(r, channel[r] + 1))
    /\ UNCHANGED <<job, mosaic, existing, writes>>

Step(r) == Start(r) \/ TakeTurn(r) \/ WritePlane(r) \/ PassTurn(r)

\* The barrier after each mosaic.
MosaicBarrier ==
    /\ \A r \in Rank : stage[r] = "barrier"
    /\ IF mosaic[0] < job.mosaics
       THEN /\ stage' = [r \in Rank |-> "start"]
            /\ mosaic' = [r \in Rank |-> mosaic[r] + 1]
       ELSE stage' = [r \in Rank |-> "over"] /\ UNCHANGED mosaic
    /\ UNCHANGED <<job, channel, turns, existing, writes>>

AllOver == \A r \in Rank : stage[r] = "over"

TurnsNext ==
    \/ \E r \in Rank : Step(r)
    \/ MosaicBarrier
    \/ AllOver /\ UNCHANGED turnVars

\* Every rank goes on, and a message as short as these is sent without
\* waiting for its receiver.
TurnsFairness ==
    /\ WF_turnVars(MosaicBarrier)
    /\ \A r \in 0..(MaxRanks - 1) : WF_turnVars(r \in Rank /\ Step(r))

TakingTurns == TurnsInit /\ [][TurnsNext]_turnVars
FairTurns == TakingTurns /\ TurnsFairness
-----------------------------------------------------------------------------
(* Properties.                                                             *)

TurnsTypeOK ==
    /\ job \in Jobs
    /\ stage \in [Rank -> {"start", "turn", "write", "pass", "barrier", "gone", "over"}]
    /\ mosaic \in [Rank -> 1..job.mosaics]
    /\ turns \in [Rank -> 0..(job.channels * job.mosaics)]
    /\ existing \subseteq 1..job.mosaics
    /\ writes \subseteq (1..job.mosaics) \X Plane \X Rank
    /\ \A r \in Rank : channel[r] \in 0..Cardinality(Channels(r))

\* Where the turn of the deconvolver is: with a rank, on its way to one, or
\* with the master, which begins.
Turn ==
    {<<"with", r>> : r \in {q \in Rank : stage[q] \in {"write", "pass"}}}
        \cup {<<"sent to", r>> : r \in {q \in Rank : turns[q] > 0}}
        \cup {<<"begins", r>> : r \in {q \in {0} : channel[q] = 0 /\ stage[q] \in {"start", "turn"}}}

\* There is one turn in the deconvolver, however the channels are divided, so
\* no two ranks write at a time: none is lost with a rank that has finished,
\* and the master's first pass adds none (cdeconvolver-mpi.cc:272-307).
OneAtATime ==
    ~Linmos => Cardinality(Turn) = 1 /\ \A r \in Rank : turns[r] <= 1

\* Otherwise linmos leaves a message for the next mosaic behind.
NothingLeft == IsEven \/ job.mosaics = 1

\* A rank writes its n-th channel of a mosaic after the rank before it has
\* written its own, and into an image that the master has created; the images
\* of the deconvolver "will exist by the time they are needed"
\* (cdeconvolver-mpi.cc:211-212, linmos-mpi.cc:289-318, 664-697).
InTurn ==
    \A r \in Rank : NothingLeft /\ stage[r] = "write" =>
        /\ mosaic[r] \in existing
        /\ r # 0 => mosaic[r - 1] = mosaic[r] /\ channel[r - 1] > channel[r]

\* The turns are handed out one by one and in the order of the ranks, from one
\* mosaic to the next (cdeconvolver-mpi.cc:270-316, linmos-mpi.cc:664-700).
OrderlyTurns == TurnsTypeOK /\ OneAtATime /\ InTurn

\* No channel is written by two ranks, and in the end each has been written:
\* in the deconvolver, if the division is even (cdeconvolver-mpi.cc:107-128,
\* linmos-mpi.cc:171-216).
ChannelsOnce ==
    Linmos \/ IsEven =>
        /\ \A x, y \in writes : x[1] = y[1] /\ x[2] = y[2] => x = y
        /\ AllOver => \A m \in 1..job.mosaics, c \in Plane : \E r \in Rank : <<m, c, r>> \in writes

\* Every rank comes to the end, in linmos if each has a channel: a rank
\* without one leaves, and the others wait for it in the barrier
\* (linmos-mpi.cc:167-170, 206-209, 700).
TurnsEnd == (Linmos => \A r \in Rank : Channels(r) # {}) => <>AllOver

\* linmos-mpi.cc:77: "CASA images need to be written one process at a time".
OneProcessAtATime == Cardinality({r \in Rank : stage[r] = "write"}) <= 1
=============================================================================
