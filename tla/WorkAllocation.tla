--------------------------- MODULE WorkAllocation ---------------------------
(***************************************************************************)
(* How the work is divided before any of it is done.  Every process        *)
(* computes the same allocation for itself: the requested frequencies are  *)
(* shared out in runs of nchanpercore, each frequency becomes one unit per *)
(* data set that has it or one NA unit, every worker gets a writer, and    *)
(* the other groups get copies of the first (AdviseDI::prepare).  For the  *)
(* spectral line imager each worker then counts what the writers will have *)
(* to write (AdviseDI::updateComms, CubeComms) and sizes the cube of its   *)
(* own (ContinuumWorker::run).                                             *)
(*                                                                         *)
(* A frequency is its index in the list of those requested; which data     *)
(* sets have it, one for each epoch, is given by the job.                  *)
(***************************************************************************)
EXTENDS Integers, Sequences, FiniteSets, FiniteSetsExt

CONSTANT Jobs   \* what may be asked for: the ranks, the parset and the data

Job == [ranks : Nat, groups : Nat, freqs : Nat, perCore : Nat, writers : Nat,
        sets : Nat, matched : SUBSET (Nat \X Nat), localSolver : BOOLEAN, single : BOOLEAN]

ASSUME JobsAssumption ==
    \A job \in Jobs :
        /\ job \in Job
        /\ job.matched \subseteq (0..(job.freqs - 1)) \X (1..job.sets)
        \* defineGroups leaves no worker out of the groups,
        /\ job.groups > 0 /\ job.ranks > 0 /\ job.ranks % job.groups = 0
        /\ job.freqs > 0 /\ job.perCore > 0
        \* the checks at the beginning of prepare hold,
        /\ job.writers \in 1..job.ranks
        \* and the local solver works with one group and some data.
        /\ job.localSolver => job.groups = 1 /\ job.matched # {}

VARIABLES
    job,            \* the job, which does not change
    stage,          \* place in the code,
    turn, item,     \* the indices of its outer and its inner loop
    set,            \* and of the loop over data sets
    perCore,        \* nchanpercore
    globalChannel, found,   \* globalChannel, allocated: where the matching is
    share,          \* itsAllocatedFrequencies
    work,           \* itsAllocatedWork
    writer,         \* get_writer() of the units of each worker
    lastFreq,       \* last_freq
    workerMap, writerMap, clientMap, creators   \* CubeComms

matchVars == <<item, set, globalChannel, found>>
commsVars == <<workerMap, writerMap, clientMap, creators>>
allocationVars ==
    <<job, stage, turn, perCore, share, work, writer, lastFreq, matchVars, commsVars>>

Rank == 1..job.ranks
PerGroup == job.ranks \div job.groups
GroupRank == 1..PerGroup
Frequency == 0..(job.freqs - 1)

AllocationInit ==
    /\ job \in Jobs
    /\ stage = "adjust" /\ turn = 0 /\ item = 0 /\ set = 0
    /\ perCore = job.perCore
    /\ globalChannel = 0 /\ found = FALSE
    /\ share = [w \in GroupRank |-> <<>>]
    /\ work = [w \in Rank |-> <<>>]
    /\ writer = [w \in Rank |-> 0]
    /\ lastFreq = 0
    /\ workerMap = [w \in {} |-> 0]
    /\ writerMap = [w \in {} |-> 0]
    /\ clientMap = [w \in {} |-> {}]
    /\ creators = {}

\* The next turn of a loop of so many, or on to what follows.
Loop(turns, next) ==
    IF turn + 1 < turns THEN turn' = turn + 1 /\ UNCHANGED stage ELSE turn' = 0 /\ stage' = next
-----------------------------------------------------------------------------
(* AdviseDI::prepare.                                                      *)

\* nchanpercore gives way to what the frequencies and workers allow; it must
\* be the integer part of their ratio then.
AdjustPerCore ==
    /\ stage = "adjust"
    /\ LET fits == job.freqs \div PerGroup IN
       /\ perCore' = IF fits = 0 THEN 1 ELSE fits
       /\ stage' = IF fits = perCore' THEN "share" ELSE "refused"
    /\ UNCHANGED <<job, turn, share, work, writer, lastFreq, matchVars, commsVars>>

AllocationIndex(ch) == ch \div perCore + 1

\* A push_back beyond the end of the vector when the index is too large.
ShareFrequency ==
    /\ stage = "share"
    /\ IF AllocationIndex(turn) \in GroupRank
       THEN /\ share' = [share EXCEPT ![AllocationIndex(turn)] = Append(@, turn)]
            /\ Loop(job.freqs, "match")
       ELSE stage' = "undefined" /\ UNCHANGED <<turn, share>>
    /\ UNCHANGED <<job, perCore, work, writer, lastFreq, matchVars, commsVars>>

\* Units of work are of a data set; those of none have no global channel either.
WorkUnit(freq, channel, s) == [freq |-> freq, channel |-> channel, set |-> s]
NAUnit(freq) == [freq |-> freq, channel |-> -1, set |-> 0]
IsWork(unit) == unit.set # 0
HasWork(units) == \E i \in 1..Len(units) : IsWork(units[i])

ThisFrequency == share[turn + 1][item + 1]
Push(unit) == work' = [work EXCEPT ![turn + 1] = Append(@, unit)]

\* The next data set is searched for the frequency.
MatchSet ==
    /\ stage = "match" /\ item < Len(share[turn + 1]) /\ set < job.sets
    /\ IF <<ThisFrequency, set + 1>> \in job.matched
       THEN Push(WorkUnit(ThisFrequency, globalChannel, set + 1)) /\ found' = TRUE
       ELSE UNCHANGED <<work, found>>
    /\ set' = set + 1
    /\ UNCHANGED <<job, stage, turn, item, perCore, globalChannel, share, writer, lastFreq, commsVars>>

\* Mutant: only frequencies that some data set has are numbered.
NextChannel_OfFound == IF found THEN globalChannel + 1 ELSE globalChannel

NextChannel == globalChannel + 1

\* All data sets have been searched: an NA unit if none has the frequency.
NextFrequency ==
    /\ stage = "match" /\ item < Len(share[turn + 1]) /\ set = job.sets
    /\ globalChannel' = NextChannel
    /\ IF found THEN UNCHANGED work ELSE Push(NAUnit(ThisFrequency))
    /\ item' = item + 1 /\ set' = 0 /\ found' = FALSE
    /\ UNCHANGED <<job, stage, turn, perCore, share, writer, lastFreq, commsVars>>

NextWorker ==
    /\ stage = "match" /\ item = Len(share[turn + 1])
    /\ item' = 0
    /\ Loop(PerGroup, "writers")
    /\ UNCHANGED <<job, set, perCore, globalChannel, found, share, work, writer, lastFreq, commsVars>>

\* The first worker of the block writes for all of it, if it has work;
\* otherwise everybody for himself.
WriterFor(w) ==
    LET perWriter == job.ranks \div job.writers
        first == ((w - 1) \div perWriter) * perWriter + 1
    IN  IF HasWork(work[first]) THEN first ELSE w

AssignWriter ==
    /\ stage = "writers"
    /\ LET w == turn + 1 IN
       writer' = [writer EXCEPT ![w] = IF work[w] = <<>> THEN @ ELSE WriterFor(w)]
    /\ Loop(job.ranks, "groups")
    /\ UNCHANGED <<job, perCore, share, work, lastFreq, matchVars, commsVars>>

\* The rank of the first group whose units a rank of another one gets.
CopyOf(w) == ((w - 1) % PerGroup) + 1

CopyGroups ==
    /\ stage = "groups"
    /\ work' = [w \in Rank |-> work[CopyOf(w)]]
    /\ writer' = [w \in Rank |-> writer[CopyOf(w)]]
    /\ stage' = IF job.localSolver THEN "comms" ELSE "prepared"
    /\ UNCHANGED <<job, turn, perCore, share, lastFreq, matchVars, commsVars>>
-----------------------------------------------------------------------------
(* AdviseDI::updateComms and the maps of CubeComms.                        *)

\* The count of a rank goes up by one; it is inserted if it is not there.
CountUp(map, rank) ==
    [r \in DOMAIN map \cup {rank} |->
        (IF r \in DOMAIN map THEN map[r] ELSE 0) + IF r = rank THEN 1 ELSE 0]

AddClient(map, v, w) ==
    [r \in DOMAIN map \cup {v} |->
        (IF r \in DOMAIN map THEN map[r] ELSE {}) \cup IF r = v THEN {w} ELSE {}]

AddWorker ==
    /\ stage = "comms"
    /\ LET w == turn + 1 IN
       /\ workerMap' = [r \in DOMAIN workerMap \cup {w} |->
                           IF r \in DOMAIN workerMap THEN workerMap[r] ELSE 0]
       /\ lastFreq' = work[w][1].freq
    /\ item' = 0 /\ stage' = "units"
    /\ UNCHANGED <<job, turn, perCore, share, work, writer, set, globalChannel, found,
                   writerMap, clientMap, creators>>

\* Mutant: each epoch of a channel counts.
Counts_EachEpoch(unit) == IsWork(unit)

\* A unit counts for its channel if it is the first of its epochs.
Counts(unit) == IsWork(unit) /\ (unit.freq # lastFreq \/ item = 0)

\* On to the next unit, to the next worker or to what follows.
NextUnit ==
    LET w == turn + 1 IN
    IF item + 1 < Len(work[w]) THEN item' = item + 1 /\ UNCHANGED <<stage, turn>>
    ELSE IF w < job.ranks THEN turn' = w /\ stage' = "comms" /\ UNCHANGED item
    ELSE stage' = "sink" /\ UNCHANGED <<turn, item>>

CountUnit ==
    /\ stage = "units"
    /\ LET w == turn + 1
           unit == work[w][item + 1]
       IN  IF Counts(unit)
           THEN /\ writerMap' = CountUp(writerMap, writer[w])
                /\ clientMap' = AddClient(clientMap, writer[w], w)
                /\ workerMap' = CountUp(workerMap, w)
                /\ lastFreq' = unit.freq
           ELSE UNCHANGED <<workerMap, writerMap, clientMap, lastFreq>>
    /\ NextUnit
    /\ UNCHANGED <<job, perCore, share, work, writer, set, globalChannel, found, creators>>

\* setSingleSink, setMultiSink: the first writer creates the cube, or each its own.
SetSink ==
    /\ stage = "sink"
    /\ creators' = IF job.single THEN {Min(DOMAIN writerMap)} ELSE DOMAIN writerMap
    /\ stage' = "counted"
    /\ UNCHANGED <<job, turn, perCore, share, work, writer, lastFreq, matchVars,
                   workerMap, writerMap, clientMap>>

\* getClients() of a writer, and itself.
Served(v) == {w \in clientMap[v] : workerMap[w] > 0} \cup {v}

\* Mutant: the cube has room for as many workers as there are, wherever they are.
NChanCube_ByNumber(v) ==
    IF job.single THEN (job.ranks * perCore) \div job.groups
    ELSE Cardinality(Served(v)) * perCore

\* The size of the cube of a writer and the channel it begins with.
NChanCube(v) ==
    IF job.single THEN (job.ranks * perCore) \div job.groups
    ELSE (Max(Served(v)) - Min(Served(v)) + 1) * perCore
BaseChannel(v) == IF job.single THEN 0 ELSE (Min(Served(v)) - 1) * perCore

AllocationEnded == stage \in {"refused", "undefined", "prepared", "counted"}

AllocationNext ==
    \/ AdjustPerCore \/ ShareFrequency
    \/ MatchSet \/ NextFrequency \/ NextWorker \/ AssignWriter \/ CopyGroups
    \/ AddWorker \/ CountUnit \/ SetSink
    \/ AllocationEnded /\ UNCHANGED allocationVars

Allocation == AllocationInit /\ [][AllocationNext]_allocationVars
-----------------------------------------------------------------------------
(* Properties.                                                             *)

Prepared == stage \in {"prepared", "comms", "units", "sink", "counted"}

Unit == [freq : Frequency, channel : {-1} \cup Frequency, set : 0..job.sets]

AllocationTypeOK ==
    /\ job \in Jobs
    /\ stage \in {"adjust", "share", "match", "writers", "groups", "comms", "units", "sink",
                  "refused", "undefined", "prepared", "counted"}
    /\ turn \in Nat /\ item \in Nat /\ set \in 0..job.sets
    /\ perCore \in Nat \ {0} /\ globalChannel \in Nat /\ found \in BOOLEAN
    /\ share \in [GroupRank -> Seq(Frequency)]
    /\ work \in [Rank -> Seq(Unit)]
    /\ writer \in [Rank -> 0..job.ranks]
    /\ lastFreq \in Frequency
    /\ DOMAIN workerMap \subseteq Rank /\ DOMAIN writerMap \subseteq Rank
    /\ DOMAIN clientMap \subseteq Rank /\ creators \subseteq Rank

UnitsOf(w) == {work[w][i] : i \in 1..Len(work[w])}
WorkOf(w) == {unit \in UnitsOf(w) : IsWork(unit)}
ChannelsOf(w) == {unit.channel : unit \in WorkOf(w)}

\* In each group every data set's share of every frequency is the unit of one
\* worker, with the place of the frequency among those requested as its global
\* channel; a frequency without data is one NA unit, and a worker's units are
\* in the order of their frequencies (AdviseDI.cc:499-636).
AllocationIsComplete ==
    Prepared =>
        /\ \A c \in Frequency, s \in 1..job.sets : \A g \in 0..(job.groups - 1) :
            LET owners == {w \in Rank : (w - 1) \div PerGroup = g
                                        /\ WorkUnit(c, c, s) \in UnitsOf(w)}
            IN  Cardinality(owners) = IF <<c, s>> \in job.matched THEN 1 ELSE 0
        /\ \A w \in Rank : \A unit \in WorkOf(w) : unit.channel = unit.freq
        /\ \A c \in Frequency :
            (\E w \in Rank : NAUnit(c) \in UnitsOf(w)) <=>
                \A s \in 1..job.sets : <<c, s>> \notin job.matched
        /\ \A w \in Rank : \A i, j \in 1..Len(work[w]) : i < j =>
            \/ work[w][i].freq < work[w][j].freq
            \/ work[w][i].freq = work[w][j].freq /\ work[w][i].set < work[w][j].set

\* No worker is left without a unit: the distribution would abort the job
\* (ContinuumWorker.cc:200) and updateComms read the first of none (AdviseDI.cc:1102).
EveryoneHasUnits == Prepared => \A w \in Rank : work[w] # <<>>

\* The writer of a worker with data has data itself and writes for itself: only
\* then is it in the channel loop to write (AdviseDI.cc:643-676).
WritersTakePart ==
    Prepared => \A w \in Rank : WorkOf(w) # {} =>
        WorkOf(writer[w]) # {} /\ writer[writer[w]] = writer[w]

\* What prepare() leaves behind is fit for the distribution and for writers: all
\* data are dealt out, to everybody, with writers that take part in the loop
\* (AdviseDI.cc:476-690).
FitToDistribute == AllocationTypeOK /\ AllocationIsComplete /\ EveryoneHasUnits /\ WritersTakePart

\* Each writer is told of exactly the channels that it and its clients have
\* data for, however many epochs they come in (AdviseDI.cc:1100-1121).
CountsAreChannels ==
    stage = "counted" => \A v \in Rank :
        LET members == {w \in Rank : writer[w] = v /\ WorkOf(w) # {}} IN
        /\ (v \in DOMAIN writerMap) <=> members # {}
        /\ members # {} =>
            /\ writerMap[v] = Cardinality(UNION {ChannelsOf(w) : w \in members})
            /\ Served(v) = members

\* The channel of every slice is inside the cube of the writer it goes to, and
\* in separate cubes each writer has one of its own (ContinuumWorker.cc:243-257).
SlicesFitTheCube ==
    stage = "counted" => \A w \in Rank : \A c \in ChannelsOf(w) :
        /\ c >= BaseChannel(writer[w])
        /\ c < BaseChannel(writer[w]) + NChanCube(writer[w])
        /\ IF job.single THEN Cardinality(creators) = 1 ELSE writer[w] \in creators

\* AdviseDI.cc:497 checks that nchanpercore is what the frequencies and the
\* workers give ("Miss-match nchanpercore is incorrect"): past it, every
\* frequency has a worker.
EveryFrequencyHasAWorker ==
    stage = "share" => \A ch \in Frequency : AllocationIndex(ch) \in GroupRank
=============================================================================
