---------------------------- MODULE NEReduction ----------------------------
(***************************************************************************)
(* The sum of the normal equations of all workers (MEParallel::reduceNE).  *)
(* Every group of workers is a binary tree: at each level, from the leaves *)
(* up, the ranks of that depth send what they have to their parents, which *)
(* merge the left child's and then the right child's into their own.  The  *)
(* master receives from the root of each group in turn.  The master asks   *)
(* for a sum by the model it broadcasts (broadcastModel, calcNE, solveNE), *)
(* and does so again once it has one.                                      *)
(*                                                                         *)
(* Normal equations are the bag of the parts merged into them; a part is   *)
(* named by its worker and by the sum it was computed for.                 *)
(***************************************************************************)
EXTENDS Integers, Sequences, FiniteSets, Bags

CONSTANTS NWorkers,     \* nProcs() - 1
          GroupCounts,  \* what nworkergroups may be
          Rounds        \* bound: how many sums the master asks for

ASSUME ReductionAssumption ==
    /\ NWorkers \in Nat \ {0} /\ Rounds \in Nat
    \* defineGroups accepts only groups of equal size.
    /\ \A n \in GroupCounts : n \in 1..NWorkers /\ NWorkers % n = 0

Rank == 1..NWorkers

VARIABLES
    nGroups,    \* nGroups() of this job
    asked,      \* the sums the master has asked for
    theGroup,   \* the group it receives from next
    sum,        \* itsNe of the master
    round,      \* the last sum each worker has computed its part of
    at, level,  \* its place in the loop over the levels of the tree
    merged,     \* its normal equations
    mail        \* what each worker has sent and nobody received yet

reductionVars == <<nGroups, asked, theGroup, sum, round, at, level, merged, mail>>
-----------------------------------------------------------------------------
(* The tree.  Ranks in a group count from 1, its root; parents, children   *)
(* and depths are taken of these, messages carry the rank of the process.  *)

\* nProcsPerGroup
Size == NWorkers \div nGroups

Group(w) == (w - 1) \div Size
RankInGroup(w) == w - Group(w) * Size
TrueRank(g, r) == r + g * Size

\* floor(log2(n)), how often n can be halved before it is 1.
log2[n \in Nat] == IF n < 2 THEN 0 ELSE log2[n \div 2] + 1
Height == log2[Size]
Depth(w) == log2[RankInGroup(w)]

\* Mutant: the rank of the parent in its group is taken for its true rank.
Parent_InGroup(w) == RankInGroup(w) \div 2

\* The parent of the root is the master, rank 0.
Parent(w) ==
    LET p == RankInGroup(w) \div 2 IN IF p = 0 THEN 0 ELSE TrueRank(Group(w), p)

Left(w) == 2 * RankInGroup(w)
Right(w) == 2 * RankInGroup(w) + 1

\* Mutant: the last rank of the group is nobody's child.
Exists_Below(child) == child < Size

Exists(child) == child <= Size
-----------------------------------------------------------------------------
ReductionInit ==
    /\ nGroups \in GroupCounts
    /\ asked = 0 /\ theGroup = nGroups /\ sum = EmptyBag
    /\ round = [w \in Rank |-> 0]
    /\ at = [w \in Rank |-> "idle"]
    /\ level = [w \in Rank |-> -1]
    /\ merged = [w \in Rank |-> EmptyBag]
    /\ mail = [w \in Rank |-> <<>>]

\* The blocking receive of what the process `from' sent to the process `to'.
From(to, from) == mail[from] # <<>> /\ Head(mail[from]).to = to
Take(from) == mail' = [mail EXCEPT ![from] = Tail(@)]

\* Mutant: the sum still holds the normal equations of the one before.
Empty_Kept == sum

\* calcNE on the master sets up empty normal equations.
Empty == EmptyBag

AskForSum ==
    /\ theGroup = nGroups /\ asked < Rounds
    /\ asked' = asked + 1
    /\ sum' = Empty
    /\ theGroup' = 0
    /\ UNCHANGED <<nGroups, round, at, level, merged, mail>>

Root(g) == TrueRank(g, 1)

ReceiveFromGroup ==
    /\ theGroup < nGroups
    /\ From(0, Root(theGroup))
    /\ sum' = sum (+) Head(mail[Root(theGroup)]).ne
    /\ Take(Root(theGroup))
    /\ theGroup' = theGroup + 1
    /\ UNCHANGED <<nGroups, asked, round, at, level, merged>>

MoveTo(w, place) == at' = [at EXCEPT ![w] = place]
NextLevel(w) == level' = [level EXCEPT ![w] = @ - 1]

\* A worker has computed its own part and begins to reduce.
CalcNE(w) ==
    /\ at[w] = "idle" /\ round[w] < asked
    /\ round' = [round EXCEPT ![w] = asked]
    /\ merged' = [merged EXCEPT ![w] = SetToBag({<<w, asked>>})]
    /\ level' = [level EXCEPT ![w] = Height]
    /\ MoveTo(w, "level")
    /\ UNCHANGED <<nGroups, asked, theGroup, sum, mail>>

Levels(w) == level[w] >= 0

SitOut(w) ==
    /\ at[w] = "level" /\ Levels(w)
    /\ Depth(w) \notin {level[w], level[w] - 1}
    /\ NextLevel(w)
    /\ UNCHANGED <<nGroups, asked, theGroup, sum, round, at, merged, mail>>

\* Receive from one child, if it exists, and merge.
Merge(w, child) ==
    IF Exists(child)
    THEN LET from == TrueRank(Group(w), child) IN
         /\ From(w, from)
         /\ merged' = [merged EXCEPT ![w] = @ (+) Head(mail[from]).ne]
         /\ Take(from)
    ELSE UNCHANGED <<merged, mail>>

ReceiveLeft(w) ==
    /\ at[w] = "level" /\ Levels(w) /\ Depth(w) = level[w] - 1
    /\ Merge(w, Left(w))
    /\ MoveTo(w, "right")
    /\ UNCHANGED <<nGroups, asked, theGroup, sum, round, level>>

ReceiveRight(w) ==
    /\ at[w] = "right"
    /\ Merge(w, Right(w))
    /\ NextLevel(w)
    /\ MoveTo(w, "level")
    /\ UNCHANGED <<nGroups, asked, theGroup, sum, round>>

SendUp(w) ==
    /\ at[w] = "level" /\ Levels(w) /\ Depth(w) = level[w]
    /\ mail' = [mail EXCEPT ![w] = Append(@, [to |-> Parent(w), ne |-> merged[w]])]
    /\ MoveTo(w, "sent")
    /\ UNCHANGED <<nGroups, asked, theGroup, sum, round, level, merged>>

\* MPI may buffer them, or have the send wait until they are received.
SendEnds(w) ==
    /\ at[w] = "sent"
    /\ NextLevel(w)
    /\ MoveTo(w, "level")
    /\ UNCHANGED <<nGroups, asked, theGroup, sum, round, merged, mail>>

Leave(w) ==
    /\ at[w] = "level" /\ ~Levels(w)
    /\ MoveTo(w, "idle")
    /\ UNCHANGED <<nGroups, asked, theGroup, sum, round, level, merged, mail>>

RankStep(w) ==
    \/ CalcNE(w) \/ SitOut(w) \/ ReceiveLeft(w) \/ ReceiveRight(w)
    \/ SendUp(w) \/ SendEnds(w) \/ Leave(w)

ReductionOver ==
    /\ asked = Rounds /\ theGroup = nGroups
    /\ \A w \in Rank : at[w] = "idle" /\ round[w] = Rounds

ReductionNext ==
    \/ AskForSum \/ ReceiveFromGroup
    \/ \E w \in Rank : RankStep(w)
    \/ ReductionOver /\ UNCHANGED reductionVars

\* Every process keeps running, but for a send that need not return before
\* it is received, and every message arrives.
ReductionFairness ==
    /\ WF_reductionVars(AskForSum) /\ WF_reductionVars(ReceiveFromGroup)
    /\ \A w \in Rank : WF_reductionVars(mail[w] = <<>> /\ RankStep(w))

Reduction == ReductionInit /\ [][ReductionNext]_reductionVars
FairReduction == Reduction /\ ReductionFairness
-----------------------------------------------------------------------------
(* Properties.                                                             *)

Part == Rank \X (1..Rounds)
IsNE(b) == DOMAIN b \subseteq Part /\ \A p \in DOMAIN b : b[p] \in Nat \ {0}

ReductionTypeOK ==
    /\ nGroups \in GroupCounts
    /\ asked \in 0..Rounds /\ theGroup \in 0..nGroups /\ IsNE(sum)
    /\ round \in [Rank -> 0..Rounds]
    /\ at \in [Rank -> {"idle", "level", "right", "sent"}]
    /\ level \in [Rank -> -1..Height]
    /\ \A w \in Rank :
        /\ IsNE(merged[w])
        /\ \A i \in 1..Len(mail[w]) : mail[w][i].to \in 0..NWorkers /\ IsNE(mail[w][i].ne)

\* Normal equations are in the master, in a worker, until it sends them, or on
\* their way in one of its messages.
Holding(w) == at[w] = "right" \/ (at[w] = "level" /\ level[w] >= Depth(w))
Places == {<<0, 0>>} \cup UNION {{w} \X (0..Len(mail[w])) : w \in Rank}
PartsAt(place) ==
    LET w == place[1]  i == place[2] IN
    IF w = 0 THEN sum
    ELSE IF i > 0 THEN mail[w][i].ne
    ELSE IF Holding(w) THEN merged[w] ELSE EmptyBag

\* The part of every worker is in one place at any time: in a worker that has
\* yet to send, in a message or in the master's sum.  None is merged twice,
\* overwritten, or left over from the sum before (MEParallel.cc:204-263).
PartsInOnePlace ==
    \A p \in Part :
        LET places == {x \in Places : p \in DOMAIN PartsAt(x)} IN
        IF p[2] = asked /\ round[p[1]] = asked
        THEN \E x \in Places : places = {x} /\ PartsAt(x)[p] = 1
        ELSE places = {}

\* When the master has received from every group, its sum has the part of
\* every worker once (MEParallel.cc:193-196): what MajorCycle takes as one step.
SumIsWhole == theGroup = nGroups /\ asked > 0 => sum = SetToBag({<<w, asked>> : w \in Rank})

\* A worker that has done its part of a reduction leaves no child's message
\* unreceived, which the next reduction would take for its own
\* (MEParallel.cc:246-259).
NothingForMe ==
    \A w \in Rank :
        at[w] = "idle" /\ round[w] = asked => \A v \in Rank : ~From(w, v)

\* One reduction does not reach into the next: no part is in two of them, or
\* left for the wrong one (MEParallel.cc:186-264).
ReductionsApart == ReductionTypeOK /\ PartsInOnePlace /\ SumIsWhole /\ NothingForMe

\* Parents wait for children and the master for roots, never in a circle.
ReductionEnds == <>ReductionOver

\* The reduction implements Gathering.
Collected == INSTANCE Gathering WITH
    Worker <- Rank,
    given <- round,
    result <- IF theGroup = nGroups THEN sum ELSE EmptyBag

ImplementsGathering == Collected!Gathered
=============================================================================
