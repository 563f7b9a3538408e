------------------------- MODULE CubeWriting_proofs -------------------------
(***************************************************************************)
(* The writers of the spectral line imager know by their counts what there *)
(* is left to write, leave nobody behind, and settle every channel once,   *)
(* for any number of workers, writers and channels; provided that the      *)
(* first epoch of a channel with several does not fail.  In the last part, *)
(* the applications that take turns in writing a cube do so in order, for  *)
(* any number of ranks, channels and mosaics.                              *)
(***************************************************************************)
EXTENDS CubeWriting, CubeTurns, FunctionTheorems, FiniteSetTheorems, WellFoundedInduction, TLAPS

\* Otherwise the next epoch is taken for a channel of its own, and the channel
\* settled twice (ContinuumWorker.cc:744-748, 885).
FirstEpochsSucceed ==
    \A w \in Worker : \A i, j \in Index(w) :
        ChannelOf(w, i) = ChannelOf(w, j) /\ ChannelOf(w, i) # NA /\ i # j =>
            "calcNE" \notin CanFail[ChannelOf(w, i)]

\* A channel is ahead of its worker, in its hands, in one message, or settled.
Apart(w) ==
    /\ pc[w] \in {"deliver", "recover"} => done[w] \in Index(w)
    /\ InHand(w) \subseteq ChannelsOf(w) /\ Posted(w) \subseteq ChannelsOf(w)
    /\ InHand(w) \cap Pending(w) = {}
    /\ Posted(w) \cap (Pending(w) \cup InHand(w)) = {}
    /\ \A i, j \in 1..Len(mail[w]) : mail[w][i].chan = mail[w][j].chan => i = j

\* What has become of it.
Known(w, c) ==
    /\ settled[c] = IF c \in WorkLeft(w) THEN 0 ELSE 1
    /\ c \in WorkLeft(w) => cube[c] = "unwritten"
    /\ c \in Pending(w) => c \notin failed
    /\ c \in InHand(w) => (c \in failed <=> pc[w] = "recover")
    /\ \A i \in 1..Len(mail[w]) : mail[w][i].chan = c =>
           mail[w][i].what = IF c \in failed THEN "blank" ELSE "image"

\* A writer keeps to its role and stays until there is nothing left.
Role(w) ==
    /\ pc[w] = "sent" \/ mail[w] # <<>> => Writer[w] # w
    /\ pc[w] \in {"finished", "over"} => outstanding[w] = 0

\* What is left to write for v.
Left(v) == UNION {WorkLeft(w) : w \in Member(v)}

Counted == \A v \in Worker : outstanding[v] = Cardinality(Left(v))

\* Nobody begins before all cubes exist.
Opened ==
    /\ \A w \in Creator : pc[w] # "open" => w \in created
    /\ \/ \A w \in Worker : pc[w] \in {"open", "ready"} /\ done[w] = 0 /\ mail[w] = <<>>
       \/ \A w \in Worker : pc[w] \notin {"open", "ready"}

IInv ==
    /\ TypeOK
    /\ \A w \in Worker : Apart(w) /\ Role(w) /\ \A c \in ChannelsOf(w) : Known(w, c)
    /\ Counted /\ Opened
-----------------------------------------------------------------------------
(* Numbers.                                                                *)

LEMMA Smallest ==
    ASSUME NEW S, S \subseteq Nat, S # {}
    PROVE  \E m \in S : \A n \in S : m <= n
  <1> DEFINE Below == OpToRel(<, Nat)
  <1>1. PICK m \in S : \A n \in S : ~(<<n, m>> \in Below)
    BY NatLessThanWellFounded, WFMin
  <1>2. \A n \in S : n < m => <<n, m>> \in Below
    BY DEF OpToRel
  <1>3. \A n \in S : ~(n < m)
    <2> HIDE DEF Below
    <2> QED
      BY <1>1, <1>2
  <1> QED
    BY <1>3

LEMMA Greatest ==
    ASSUME NEW N \in Nat, NEW S, S \subseteq 0..N, S # {}
    PROVE  \E m \in S : \A n \in S : n <= m
  <1> DEFINE T == {N - n : n \in S}
  <1>1. T \subseteq Nat /\ T # {}
    <2>1. \A n \in S : N - n \in Nat
      OBVIOUS
    <2> QED
      BY <2>1
  <1>2. PICK k \in T : \A n \in T : k <= n
    BY <1>1, Smallest
  <1>3. PICK m \in S : k = N - m
    BY <1>2
  <1>4. ASSUME NEW n \in S PROVE n <= m
    <2>1. N - m <= N - n
      BY <1>2, <1>3
    <2> QED
      BY <2>1
  <1> QED
    BY <1>4
-----------------------------------------------------------------------------
(* Channels and their units.                                               *)

LEMMA Owner ==
    ASSUME NEW v \in Worker, NEW w \in Worker, NEW c \in ChannelsOf(v), c \in ChannelsOf(w)
    PROVE  v = w
  BY CubeAssumption

LEMMA OfChannel ==
    ASSUME NEW w \in Worker
    PROVE  /\ ChannelsOf(w) \subseteq Channel /\ NA \notin ChannelsOf(w)
           /\ Len(Units[w]) \in Nat \ {0} /\ Index(w) \subseteq Nat
           /\ \A i \in Index(w) : ChannelOf(w, i) # NA => ChannelOf(w, i) \in ChannelsOf(w)
           /\ Pending(w) \subseteq ChannelsOf(w)
  BY CubeAssumption DEF Channel, ChannelsOf, Pending, GoodAfter, Index

LEMMA FiniteChannels == IsFiniteSet(Channel)
  <1>1. ASSUME NEW w \in Worker PROVE IsFiniteSet(ChannelsOf(w))
    <2> DEFINE f == [i \in Index(w) |-> ChannelOf(w, i)]
               T == {ChannelOf(w, i) : i \in Index(w)}
    <2>1. f \in Surjection(Index(w), T)
      BY DEF Surjection
    <2>2. IsFiniteSet(Index(w))
      BY OfChannel, FS_Interval DEF Index
    <2>3. IsFiniteSet(T)
      BY <2>1, <2>2, FS_Surjection
    <2>4. ChannelsOf(w) \subseteq T
      BY DEF ChannelsOf
    <2> QED
      BY <2>3, <2>4, FS_Subset
  <1> DEFINE g == [w \in Worker |-> ChannelsOf(w)]
             S == {ChannelsOf(w) : w \in Worker}
  <1>2. g \in Surjection(Worker, S)
    BY DEF Surjection
  <1>3. IsFiniteSet(S)
    BY <1>2, CubeAssumption, FS_Surjection
  <1> QED
    BY <1>1, <1>3, FS_UNION DEF Channel

\* The units the loop goes through for the next channel, and what is left.
LEMMA Advance ==
    ASSUME TypeOK, NEW w \in Worker, GoodAfter(w) # {}
    PROVE  LET c == ChannelOf(w, FirstGood(w))
               ahead(k) == {ChannelOf(w, i) : i \in {j \in Index(w) : j > k /\ ChannelOf(w, j) # NA}}
           IN  /\ FirstGood(w) \in Index(w) /\ LastEpoch(w) \in Index(w)
               /\ ChannelOf(w, LastEpoch(w)) = c
               /\ c \in Pending(w) /\ c \in ChannelsOf(w)
               /\ ahead(LastEpoch(w)) = Pending(w) \ {c}
               /\ FirstEpochsSucceed /\ "calcNE" \in CanFail[c] => FirstGood(w) = LastEpoch(w)
  <1> DEFINE F == FirstGood(w)
             L == LastEpoch(w)
             G == GoodAfter(w)
             c == ChannelOf(w, F)
  <1>1. Len(Units[w]) \in Nat /\ G \subseteq 0..Len(Units[w]) /\ G \subseteq Nat
    BY OfChannel DEF GoodAfter, Index
  <1>2. F \in G /\ \A j \in G : F <= j
    <2>1. \E i \in G : \A j \in G : i <= j
      BY <1>1, Smallest
    <2> QED
      BY <2>1 DEF FirstGood
  <1>3. L \in G /\ ChannelOf(w, L) = c /\ \A j \in G : ChannelOf(w, j) = c => j <= L
    <2> DEFINE E == {i \in G : ChannelOf(w, i) = c}
    <2>1. E # {} /\ E \subseteq 0..Len(Units[w])
      BY <1>1, <1>2
    <2>2. \E i \in E : \A j \in E : j <= i
      BY <1>1, <2>1, Greatest
    <2>3. \E i \in G : /\ ChannelOf(w, i) = ChannelOf(w, FirstGood(w))
                       /\ \A j \in G : ChannelOf(w, j) = ChannelOf(w, i) => j <= i
      BY <2>2
    <2>4. L \in G /\ ChannelOf(w, L) = ChannelOf(w, FirstGood(w))
          /\ \A j \in G : ChannelOf(w, j) = ChannelOf(w, L) => j <= L
      BY <2>3 DEF LastEpoch
    <2> QED
      BY <2>4
  <1> HIDE DEF F, L
  <1>4. F \in Index(w) /\ L \in Index(w) /\ c # NA /\ F > done[w] /\ L > done[w] /\ F <= L
        /\ c \in Pending(w)
    BY <1>2, <1>3 DEF GoodAfter, Pending
  <1>5. {ChannelOf(w, i) : i \in {j \in Index(w) : j > L /\ ChannelOf(w, j) # NA}} = Pending(w) \ {c}
    <2>1. \A i \in Index(w) : i > L /\ ChannelOf(w, i) # NA => i \in G /\ ChannelOf(w, i) # c
      BY <1>1, <1>3, <1>4 DEF GoodAfter, Index, TypeOK
    <2>2. ASSUME NEW i \in G, ChannelOf(w, i) # c PROVE i > L
      <3> SUFFICES ASSUME i <= L PROVE FALSE
        BY <1>1, <1>4 DEF Index
      <3>1. i \in F..L
        BY <1>1, <1>2, <1>4 DEF Index
      <3>2. ChannelOf(w, F) = ChannelOf(w, L) /\ ChannelOf(w, F) # NA
        BY <1>3, <1>4
      <3>3. \A k \in F..L : ChannelOf(w, k) = ChannelOf(w, F)
        BY <1>4, <3>2, CubeAssumption
      <3> QED
        BY <2>2, <3>1, <3>3
    <2> QED
      BY <2>1, <2>2 DEF Pending, GoodAfter
  <1>6. FirstEpochsSucceed /\ "calcNE" \in CanFail[c] => F = L
    BY <1>3, <1>4 DEF FirstEpochsSucceed
  <1>7. c \in ChannelsOf(w)
    BY <1>4, OfChannel
  <1> QED
    BY <1>3, <1>4, <1>5, <1>6, <1>7 DEF F, L
-----------------------------------------------------------------------------
(* Counting.                                                               *)

LEMMA LeftFinite ==
    ASSUME \A w \in Worker : Apart(w), NEW v \in Worker
    PROVE  /\ \A w \in Worker : WorkLeft(w) \subseteq ChannelsOf(w)
           /\ IsFiniteSet(Left(v)) /\ Cardinality(Left(v)) \in Nat
           /\ Cardinality(Left(v)) = 0 <=> Left(v) = {}
  <1>1. \A w \in Worker : WorkLeft(w) \subseteq ChannelsOf(w)
    BY OfChannel DEF WorkLeft, Apart
  <1>2. Left(v) \subseteq Channel
    BY <1>1, OfChannel DEF Left, Member
  <1>3. IsFiniteSet(Left(v))
    BY <1>2, FiniteChannels, FS_Subset
  <1> QED
    BY <1>1, <1>3, FS_CardinalityType, FS_EmptySet

\* A worker that settles a channel of w, where c was left, has the count
\* lowered of w's writer, and of nobody else.
LEMMA Settles ==
    ASSUME IInv, NEW w \in Worker, NEW c \in WorkLeft(w),
           WorkLeft(w)' = WorkLeft(w) \ {c},
           \A u \in Worker \ {w} : WorkLeft(u)' = WorkLeft(u),
           outstanding' = [outstanding EXCEPT ![Writer[w]] = @ - 1]
    PROVE  /\ Counted' /\ outstanding' \in [Worker -> Nat]
           /\ outstanding[Writer[w]] \in Nat \ {0}
           /\ \A u \in Worker : outstanding[u] = 0 => outstanding'[u] = 0
  <1> USE DEF IInv
  <1> DEFINE v == Writer[w]
  <1>1. v \in Worker
    BY CubeAssumption
  <1>2. c \in ChannelsOf(w) /\ \A u \in Worker : WorkLeft(u) \subseteq ChannelsOf(u)
    BY LeftFinite
  <1>3. w \in Member(v) /\ c \in Left(v)
    BY <1>2 DEF Member, Left
  <1>4. Left(v)' = Left(v) \ {c}
    <2>1. \A u \in Worker \ {w} : c \notin WorkLeft(u)
      BY <1>2, Owner
    <2> QED
      BY <1>3, <2>1 DEF Left, Member
  <1>5. \A u \in Worker \ {v} : Left(u)' = Left(u)
    BY DEF Left, Member
  <1>6. IsFiniteSet(Left(v)) /\ Cardinality(Left(v)) \in Nat \ {0} /\ Left(v) # {}
    BY <1>1, <1>3, LeftFinite
  <1>7. Cardinality(Left(v) \ {c}) = Cardinality(Left(v)) - 1
    BY <1>3, <1>6, FS_RemoveElement
  <1>8. outstanding'[v] = outstanding[v] - 1 /\ outstanding[v] = Cardinality(Left(v))
        /\ \A u \in Worker \ {v} : outstanding'[u] = outstanding[u]
    BY <1>1 DEF TypeOK, Counted
  <1>9. outstanding' \in [Worker -> Nat]
    BY <1>1, <1>6, <1>8 DEF TypeOK
  <1>10. Counted'
    BY <1>4, <1>5, <1>7, <1>8 DEF Counted
  <1> QED
    BY <1>6, <1>8, <1>9, <1>10
-----------------------------------------------------------------------------
(* What a step leaves alone.                                               *)

Place == {"open", "ready", "next", "deliver", "recover", "sent", "drain", "cleanup",
          "finished", "over"}
InHands == {"deliver", "recover"}

LEMMA SameWork ==
    ASSUME NEW w \in Worker, done'[w] = done[w], mail'[w] = mail[w],
           pc'[w] = pc[w] \/ (pc[w] \notin InHands /\ pc'[w] \notin InHands)
    PROVE  /\ Pending(w)' = Pending(w) /\ InHand(w)' = InHand(w) /\ Posted(w)' = Posted(w)
           /\ WorkLeft(w)' = WorkLeft(w)
           /\ Apart(w) => Apart(w)'
  <1>1. Pending(w)' = Pending(w)
    BY DEF Pending, GoodAfter
  <1>2. InHand(w)' = InHand(w)
    BY DEF InHand, Current, InHands
  <1>3. Posted(w)' = Posted(w)
    BY DEF Posted
  <1>4. Apart(w) => Apart(w)'
    BY <1>1, <1>2, <1>3 DEF Apart, InHands
  <1> QED
    BY <1>1, <1>2, <1>3, <1>4 DEF WorkLeft

LEMMA SameKnown ==
    ASSUME NEW w \in Worker, NEW c \in ChannelsOf(w), Known(w, c),
           done'[w] = done[w], mail'[w] = mail[w],
           pc'[w] = pc[w] \/ (pc[w] \notin InHands /\ pc'[w] \notin InHands),
           settled'[c] = settled[c], cube'[c] = cube[c], c \in failed' <=> c \in failed
    PROVE  Known(w, c)'
  <1>1. /\ Pending(w)' = Pending(w) /\ InHand(w)' = InHand(w) /\ WorkLeft(w)' = WorkLeft(w)
    BY SameWork
  <1>2. c \in InHand(w) => pc'[w] = pc[w]
    BY DEF InHand, InHands
  <1> QED
    BY <1>1, <1>2 DEF Known

\* A step that deals with one channel, or none, of the worker w.
LEMMA StepKeeps ==
    ASSUME IInv, NEW w \in Worker, TypeOK', created' = created,
           pc[w] \notin {"open", "ready"}, pc'[w] \notin {"open", "ready"},
           \A u \in Worker \ {w} : pc'[u] = pc[u] /\ done'[u] = done[u] /\ mail'[u] = mail[u],
           \A d \in Channel \ ChannelsOf(w) :
               settled'[d] = settled[d] /\ cube'[d] = cube[d] /\ (d \in failed' <=> d \in failed),
           Apart(w)', \A d \in ChannelsOf(w) : Known(w, d)',
           pc'[w] = "sent" \/ mail'[w] # <<>> => Writer[w] # w,
           pc'[w] \in {"finished", "over"} => pc'[w] = pc[w] \/ outstanding[w] = 0,
           \/ WorkLeft(w)' = WorkLeft(w) /\ outstanding' = outstanding
           \/ \E c \in WorkLeft(w) :
                  /\ WorkLeft(w)' = WorkLeft(w) \ {c}
                  /\ outstanding' = [outstanding EXCEPT ![Writer[w]] = @ - 1]
    PROVE  IInv'
  <1> USE DEF IInv
  <1>1. ASSUME NEW u \in Worker \ {w}
        PROVE  /\ WorkLeft(u)' = WorkLeft(u) /\ Apart(u)'
               /\ \A d \in ChannelsOf(u) : Known(u, d)'
    <2>1. WorkLeft(u)' = WorkLeft(u) /\ Apart(u)'
      BY SameWork
    <2>2. ASSUME NEW d \in ChannelsOf(u) PROVE Known(u, d)'
      <3>1. d \in Channel \ ChannelsOf(w)
        BY Owner, OfChannel
      <3> QED
        BY <3>1, SameKnown
    <2> QED
      BY <2>1, <2>2
  <1>2. Counted' /\ \A u \in Worker : outstanding[u] = 0 => outstanding'[u] = 0
    <2>1. CASE WorkLeft(w)' = WorkLeft(w) /\ outstanding' = outstanding
      <3>1. \A u \in Worker : Left(u)' = Left(u)
        BY <1>1, <2>1 DEF Left, Member
      <3> QED
        BY <2>1, <3>1 DEF Counted
    <2>2. CASE \E c \in WorkLeft(w) :
                  /\ WorkLeft(w)' = WorkLeft(w) \ {c}
                  /\ outstanding' = [outstanding EXCEPT ![Writer[w]] = @ - 1]
      BY <1>1, <2>2, Settles
    <2> QED
      BY <2>1, <2>2
  <1>3. \A u \in Worker : Role(u)'
    <2>1. Role(w)'
      BY <1>2 DEF Role
    <2>2. \A u \in Worker \ {w} : Role(u)'
      BY <1>2 DEF Role
    <2> QED
      BY <2>1, <2>2
  <1>4. Opened'
    <2>1. \A u \in Creator : pc'[u] # "open" => u \in created'
      BY DEF Opened, Creator, Writers
    <2>2. \A u \in Worker : pc'[u] \notin {"open", "ready"}
      BY DEF Opened
    <2> QED
      BY <2>1, <2>2 DEF Opened, Creator, Writers
  <1> QED
    BY <1>1, <1>2, <1>3, <1>4

\* A step that only moves workers on, none of which has a channel in hand.
LEMMA GoingOnKeeps ==
    ASSUME IInv, UNCHANGED <<done, outstanding, target, mail, cube, settled, failed>>,
           pc' \in [Worker -> Place], created' \subseteq Worker, Opened',
           \A w \in Worker :
               \/ pc'[w] = pc[w]
               \/ /\ pc[w] \notin InHands /\ pc'[w] \notin InHands \cup {"sent"}
                  /\ pc'[w] \in {"finished", "over"} => outstanding[w] = 0
    PROVE  IInv'
  <1> USE DEF IInv
  <1>1. TypeOK'
    BY DEF TypeOK, Place
  <1>2. ASSUME NEW w \in Worker PROVE WorkLeft(w)' = WorkLeft(w) /\ Apart(w)'
    BY SameWork DEF InHands
  <1>3. ASSUME NEW w \in Worker, NEW c \in ChannelsOf(w) PROVE Known(w, c)'
    BY SameKnown DEF InHands
  <1>4. ASSUME NEW w \in Worker PROVE Role(w)'
    BY DEF Role, InHands
  <1>5. Counted'
    <2>1. \A u \in Worker : Left(u)' = Left(u)
      BY <1>2 DEF Left, Member
    <2> QED
      BY <2>1 DEF Counted
  <1> QED
    BY <1>1, <1>2, <1>3, <1>4, <1>5
-----------------------------------------------------------------------------
(* Opening, and the barriers.                                              *)

\* Before anything begins a creator has something to write.
LEMMA CreatorsWrite ==
    ASSUME IInv, NEW w \in Creator, pc[w] \in {"open", "ready"}
    PROVE  IsWriter(w)
  <1> USE DEF IInv
  <1>1. w \in Worker /\ Member(w) # {}
    BY DEF Creator, Writers
  <1>2. PICK u \in Member(w) : TRUE
    BY <1>1
  <1>3. u \in Worker /\ ChannelsOf(u) # {} /\ done[u] = 0
    BY <1>1, <1>2 DEF Member, Opened
  <1>4. Pending(u) # {}
    <2>1. PICK i \in Index(u) : ChannelOf(u, i) # NA
      BY <1>3 DEF ChannelsOf
    <2>2. i \in GoodAfter(u)
      BY <1>3, <2>1, OfChannel DEF GoodAfter, Index
    <2> QED
      BY <2>2 DEF Pending
  <1>5. Left(w) # {}
    BY <1>2, <1>4 DEF Left, WorkLeft
  <1> QED
    BY <1>1, <1>5, LeftFinite DEF Counted, IsWriter

LEMMA OpenCubesKeeps ==
    ASSUME IInv, NEW w \in Worker, OpenCubes(w)
    PROVE  IInv'
  <1> USE DEF IInv
  <1>1. pc' \in [Worker -> Place] /\ pc'[w] = "ready" /\ pc[w] = "open"
        /\ \A u \in Worker \ {w} : pc'[u] = pc[u]
    BY DEF OpenCubes, Goto, TypeOK, Place
  <1>2. created' \subseteq Worker /\ created \subseteq created' /\ (w \in Creator => w \in created')
    <2>1. w \in Creator => IsWriter(w)
      BY <1>1, CreatorsWrite
    <2> QED
      BY <2>1 DEF OpenCubes, TypeOK
  <1>3. Opened'
    <2>1. \A u \in Worker : pc[u] \in {"open", "ready"} /\ done[u] = 0 /\ mail[u] = <<>>
      BY <1>1 DEF Opened
    <2>2. \A u \in Worker : pc'[u] \in {"open", "ready"} /\ done'[u] = 0 /\ mail'[u] = <<>>
      BY <1>1, <2>1 DEF OpenCubes
    <2>3. \A u \in Creator : pc'[u] # "open" => u \in created'
      BY <1>1, <1>2 DEF Opened, Creator, Writers
    <2> QED
      BY <2>2, <2>3 DEF Opened, Creator, Writers
  <1> QED
    BY <1>1, <1>2, <1>3, GoingOnKeeps DEF OpenCubes, InHands

LEMMA PassBarrierKeeps == IInv /\ PassBarrier => IInv'
  <1> SUFFICES ASSUME IInv, PassBarrier PROVE IInv'
    OBVIOUS
  <1>1. \A w \in Worker : pc[w] = "ready" /\ pc'[w] = "next"
    BY DEF PassBarrier, AllAt
  <1>2. pc' \in [Worker -> Place]
    BY <1>1 DEF PassBarrier, Place
  <1>3. Opened'
    BY <1>1 DEF IInv, Opened, PassBarrier, Creator, Writers
  <1>4. created' \subseteq Worker
    BY DEF PassBarrier, IInv, TypeOK
  <1> QED
    BY <1>1, <1>2, <1>3, <1>4, GoingOnKeeps DEF PassBarrier, InHands

LEMMA PassFinalBarrierKeeps == IInv /\ PassFinalBarrier => IInv'
  <1> SUFFICES ASSUME IInv, PassFinalBarrier PROVE IInv'
    OBVIOUS
  <1>1. \A w \in Worker : pc[w] = "finished" /\ pc'[w] = "over" /\ outstanding[w] = 0
    BY DEF PassFinalBarrier, AllAt, IInv, Role
  <1>2. pc' \in [Worker -> Place]
    BY DEF PassFinalBarrier, Place
  <1>3. Opened'
    BY <1>1 DEF IInv, Opened, PassFinalBarrier, Creator, Writers
  <1>4. created' \subseteq Worker
    BY DEF PassFinalBarrier, IInv, TypeOK
  <1> QED
    BY <1>1, <1>2, <1>3, <1>4, GoingOnKeeps DEF PassFinalBarrier, InHands

LEMMA MovesOnKeep ==
    ASSUME IInv, NEW w \in Worker,
           NoMoreChannels(w) \/ SendReturns(w) \/ Drained(w) \/ Finish(w)
    PROVE  IInv'
  <1> USE DEF NoMoreChannels, SendReturns, Drained, Finish, Goto
  <1>1. pc' \in [Worker -> Place] /\ (\A u \in Worker \ {w} : pc'[u] = pc[u])
        /\ pc[w] \in {"next", "sent", "drain", "cleanup"}
        /\ pc'[w] \in {"next", "cleanup", "finished"}
    BY DEF IInv, TypeOK, Place
  <1>2. pc'[w] = "finished" => outstanding[w] = 0
    <2>1. pc'[w] = "finished" => Finish(w)
      BY DEF IInv, TypeOK
    <2> QED
      BY <2>1 DEF IInv, TypeOK, Leftover
  <1>3. Opened' /\ created' \subseteq Worker
    BY <1>1 DEF IInv, TypeOK, Opened, Creator, Writers
  <1> QED
    BY <1>1, <1>2, <1>3, GoingOnKeeps DEF InHands
-----------------------------------------------------------------------------
(* A channel from its worker to the cube.                                  *)

\* The next channel is taken in hand, whether or not it fails.
LEMMA TakesChannel ==
    ASSUME FirstEpochsSucceed, IInv, NEW w \in Worker, ImageChannel(w) \/ FailChannel(w)
    PROVE  LET c == ChannelOf(w, FirstGood(w)) IN
           /\ c \in Pending(w) /\ c \in ChannelsOf(w)
           /\ done' \in [Worker -> Nat] /\ done'[w] \in Index(w)
           /\ Pending(w)' = Pending(w) \ {c} /\ InHand(w)' = {c} /\ InHand(w) = {}
  <1> DEFINE c == ChannelOf(w, FirstGood(w))
             ahead(k) == {ChannelOf(w, i) : i \in {j \in Index(w) : j > k /\ ChannelOf(w, j) # NA}}
  <1> USE DEF IInv
  <1>1. pc[w] = "next" /\ GoodAfter(w) # {} /\ pc'[w] \in {"deliver", "recover"}
    BY DEF ImageChannel, FailChannel, Goto, TypeOK
  <1>2. /\ FirstGood(w) \in Index(w) /\ LastEpoch(w) \in Index(w)
        /\ ChannelOf(w, LastEpoch(w)) = c
        /\ c \in Pending(w) /\ c \in ChannelsOf(w)
        /\ ahead(LastEpoch(w)) = Pending(w) \ {c}
        /\ "calcNE" \in CanFail[c] => FirstGood(w) = LastEpoch(w)
    BY <1>1, Advance
  <1>3. done' = [done EXCEPT ![w] = LastEpoch(w)]
    <2>1. CASE ImageChannel(w)
      BY <2>1 DEF ImageChannel
    <2>2. CASE FailChannel(w)
      BY <1>2, <2>2 DEF FailChannel, CalcFailedAt, SolveFailedAt
    <2> QED
      BY <2>1, <2>2
  <1>4. done' \in [Worker -> Nat] /\ done'[w] = LastEpoch(w)
    BY <1>2, <1>3 DEF TypeOK, Index
  <1>5. Pending(w)' = ahead(LastEpoch(w))
    BY <1>4 DEF Pending, GoodAfter
  <1>6. InHand(w)' = {c} /\ InHand(w) = {}
    BY <1>1, <1>2, <1>4 DEF InHand, Current
  <1> QED
    BY <1>2, <1>4, <1>5, <1>6

LEMMA TakesChannelKeeps ==
    ASSUME FirstEpochsSucceed, IInv, NEW w \in Worker, ImageChannel(w) \/ FailChannel(w)
    PROVE  IInv'
  <1> DEFINE c == ChannelOf(w, FirstGood(w))
  <1>1. /\ c \in Pending(w) /\ c \in ChannelsOf(w)
        /\ done' \in [Worker -> Nat] /\ done'[w] \in Index(w)
        /\ Pending(w)' = Pending(w) \ {c} /\ InHand(w)' = {c} /\ InHand(w) = {}
    BY TakesChannel
  <1>2. /\ UNCHANGED <<outstanding, target, mail, created, cube, settled>>
        /\ pc[w] = "next" /\ pc' \in [Worker -> Place]
        /\ \A u \in Worker \ {w} : pc'[u] = pc[u] /\ done'[u] = done[u]
        /\ \/ pc'[w] = "deliver" /\ failed' = failed
           \/ pc'[w] = "recover" /\ failed' = failed \cup {c}
    BY DEF ImageChannel, FailChannel, Goto, IInv, TypeOK, Place
  <1> HIDE DEF c
  <1>3. TypeOK'
    <2>1. ASSUME NEW u \in Worker PROVE done'[u] <= Len(Units[u])
      <3>1. done'[w] <= Len(Units[w])
        BY <1>1, OfChannel DEF Index
      <3>2. u # w => done'[u] = done[u] /\ done[u] <= Len(Units[u])
        BY <1>2 DEF IInv, TypeOK
      <3> QED
        BY <3>1, <3>2
    <2>2. failed' \subseteq Channel
      BY <1>1, <1>2, OfChannel DEF IInv, TypeOK
    <2> QED
      BY <1>1, <1>2, <2>1, <2>2 DEF IInv, TypeOK, Place
  <1>4. Posted(w)' = Posted(w) /\ WorkLeft(w)' = WorkLeft(w)
    BY <1>1, <1>2 DEF Posted, WorkLeft
  <1>5. Apart(w)'
    BY <1>1, <1>2, <1>4 DEF IInv, Apart
  <1>6. ASSUME NEW d \in ChannelsOf(w) PROVE Known(w, d)'
    <2>1. Known(w, d) /\ Apart(w)
      BY DEF IInv
    <2>2. d = c => d \notin failed /\ d \notin Posted(w)
      BY <1>1, <2>1 DEF Known, Apart
    <2>3. \A i \in 1..Len(mail[w]) : mail[w][i].chan \in Posted(w)
      BY DEF Posted
    <2> QED
      BY <1>1, <1>2, <1>4, <2>1, <2>2, <2>3 DEF Known
  <1>7. \A d \in Channel \ ChannelsOf(w) : d \in failed' <=> d \in failed
    BY <1>1, <1>2
  <1>8. mail[w] # <<>> => Writer[w] # w
    BY DEF IInv, Role
  <1> QED
    BY <1>2, <1>3, <1>4, <1>5, <1>6, <1>7, <1>8, StepKeeps

\* What is in hand when a channel is delivered or given up.
LEMMA HasInHand ==
    ASSUME IInv, NEW w \in Worker, pc[w] \in InHands
    PROVE  LET c == Current(w) IN
           /\ InHand(w) = {c} /\ c \in ChannelsOf(w) /\ c \in Channel
           /\ c \notin Pending(w) /\ c \notin Posted(w) /\ c \in WorkLeft(w)
           /\ IsWriter(w) <=> Writer[w] = w
  <1> DEFINE c == Current(w)
  <1> USE DEF IInv
  <1>1. InHand(w) = {c} /\ c \in ChannelsOf(w) /\ c \notin Pending(w) /\ c \notin Posted(w)
    BY DEF Apart, InHand, InHands
  <1>2. c \in WorkLeft(w)
    BY <1>1 DEF WorkLeft
  <1>3. outstanding[w] = 0 <=> Left(w) = {}
    BY LeftFinite DEF Counted
  <1>4. Left(w) = {} <=> Writer[w] # w
    <2>1. ASSUME Writer[w] = w PROVE Left(w) # {}
      BY <1>1, <1>2, <2>1 DEF Left, Member
    <2>2. ASSUME NEW d \in Left(w) PROVE Writer[w] = w
      <3>1. PICK u \in Worker : Writer[u] = w /\ ChannelsOf(u) # {}
        BY DEF Left, Member
      <3> QED
        BY <3>1, CubeAssumption
    <2> QED
      BY <2>1, <2>2
  <1> QED
    BY <1>1, <1>2, <1>3, <1>4, OfChannel DEF IsWriter

LEMMA SendsKeep ==
    ASSUME IInv, NEW w \in Worker, SendSlice(w) \/ SendBlank(w)
    PROVE  IInv'
  <1> DEFINE c == Current(w)
             m == [chan |-> c, what |-> IF c \in failed THEN "blank" ELSE "image"]
  <1>1. pc[w] \in InHands /\ ~IsWriter(w)
    BY DEF SendSlice, SendBlank, InHands
  <1>2. /\ InHand(w) = {c} /\ c \in ChannelsOf(w) /\ c \in Channel
        /\ c \notin Pending(w) /\ c \notin Posted(w) /\ c \in WorkLeft(w)
        /\ Writer[w] # w
    BY <1>1, HasInHand
  <1>3. /\ mail' = [mail EXCEPT ![w] = Append(@, m)]
        /\ UNCHANGED <<done, outstanding, target, created, cube, settled, failed>>
        /\ pc' = [pc EXCEPT ![w] = "sent"]
    <2>1. c \in failed <=> pc[w] = "recover"
      BY <1>2 DEF IInv, Known
    <2>2. CASE SendSlice(w)
      BY <2>1, <2>2 DEF SendSlice, Send, Goto
    <2>3. CASE SendBlank(w)
      BY <2>1, <2>3 DEF SendBlank, Send, Goto, GoodUnit, Current
    <2> QED
      BY <2>2, <2>3
  <1>4. m \in Slice /\ mail[w] \in Seq(Slice)
    BY <1>2 DEF Slice, IInv, TypeOK
  <1>5. pc' \in [Worker -> Place] /\ pc'[w] = "sent"
        /\ \A u \in Worker \ {w} : pc'[u] = pc[u] /\ mail'[u] = mail[u]
    BY <1>3 DEF IInv, TypeOK, Place
  <1>6. mail'[w] = Append(mail[w], m)
    BY <1>3 DEF IInv, TypeOK
  <1>7. m.chan = c /\ m.what = IF c \in failed THEN "blank" ELSE "image"
    OBVIOUS
  <1> HIDE DEF m, c
  <1>8. /\ Len(mail'[w]) = Len(mail[w]) + 1 /\ Len(mail[w]) \in Nat /\ mail'[w] \in Seq(Slice)
        /\ \A i \in 1..Len(mail[w]) : mail'[w][i] = mail[w][i]
        /\ mail'[w][Len(mail[w]) + 1] = m
    BY <1>4, <1>6
  <1>9. TypeOK'
    <2>1. mail' \in [Worker -> Seq(Slice)]
      BY <1>3, <1>8 DEF IInv, TypeOK
    <2> QED
      BY <1>3, <1>5, <2>1 DEF IInv, TypeOK, Place, Slice
  <1>10. Posted(w)' = Posted(w) \cup {c}
    <2>1. Posted(w)' = {mail'[w][i].chan : i \in 1..(Len(mail[w]) + 1)}
      BY <1>8 DEF Posted
    <2>2. 1..(Len(mail[w]) + 1) = (1..Len(mail[w])) \cup {Len(mail[w]) + 1}
      BY <1>8
    <2>3. \A i \in 1..Len(mail[w]) : mail'[w][i].chan = mail[w][i].chan
      BY <1>8
    <2>4. mail'[w][Len(mail[w]) + 1].chan = c
      BY <1>7, <1>8
    <2> DEFINE n == Len(mail[w])
               new(i) == mail'[w][i].chan
    <2> HIDE DEF c, n, new
    <2>5. {new(i) : i \in 1..(n + 1)} = {new(i) : i \in 1..n} \cup {new(n + 1)}
      BY <2>2 DEF n
    <2>6. {new(i) : i \in 1..n} = Posted(w)
      BY <2>3 DEF Posted, n, new
    <2>7. Posted(w)' = {new(i) : i \in 1..(n + 1)} /\ new(n + 1) = c
      BY <2>1, <2>4 DEF n, new
    <2> QED
      BY <2>5, <2>6, <2>7
  <1>11. Pending(w)' = Pending(w) /\ InHand(w)' = {}
    BY <1>3, <1>5 DEF Pending, GoodAfter, InHand
  <1>12. WorkLeft(w)' = WorkLeft(w)
    BY <1>2, <1>10, <1>11 DEF WorkLeft
  <1>13. Apart(w)'
    <2>1. Apart(w)
      BY DEF IInv
    <2>2. ASSUME NEW i \in 1..Len(mail'[w]), NEW j \in 1..Len(mail'[w]),
                 mail'[w][i].chan = mail'[w][j].chan
          PROVE  i = j
      <3>1. \A k \in 1..Len(mail[w]) : mail[w][k].chan # c
        BY <1>2 DEF Posted
      <3>2. CASE i = Len(mail[w]) + 1
        BY <1>7, <1>8, <2>2, <3>1, <3>2
      <3>3. CASE j = Len(mail[w]) + 1
        BY <1>7, <1>8, <2>2, <3>1, <3>3
      <3>4. CASE i # Len(mail[w]) + 1 /\ j # Len(mail[w]) + 1
        <4>1. i \in 1..Len(mail[w]) /\ j \in 1..Len(mail[w])
          BY <1>8, <3>4
        <4> QED
          BY <1>8, <2>1, <2>2, <4>1 DEF Apart
      <3> QED
        BY <3>2, <3>3, <3>4
    <2> QED
      BY <1>2, <1>5, <1>10, <1>11, <2>1, <2>2 DEF Apart
  <1>14. ASSUME NEW d \in ChannelsOf(w) PROVE Known(w, d)'
    <2>1. Known(w, d)
      BY DEF IInv
    <2>2. ASSUME NEW i \in 1..Len(mail'[w]), mail'[w][i].chan = d
          PROVE  mail'[w][i].what = IF d \in failed THEN "blank" ELSE "image"
      <3>1. CASE i = Len(mail[w]) + 1
        BY <1>7, <1>8, <2>2, <3>1
      <3>2. CASE i # Len(mail[w]) + 1
        <4>1. i \in 1..Len(mail[w])
          BY <1>8, <3>2
        <4> QED
          BY <1>8, <2>1, <2>2, <4>1 DEF Known
      <3> QED
        BY <3>1, <3>2
    <2> QED
      BY <1>3, <1>11, <1>12, <2>1, <2>2 DEF Known
  <1> QED
    BY <1>1, <1>2, <1>3, <1>5, <1>9, <1>12, <1>13, <1>14, StepKeeps DEF InHands

LEMMA OwnSettledKeeps ==
    ASSUME IInv, NEW w \in Worker, WriteOwn(w) \/ MarkBad(w)
    PROVE  IInv'
  <1> DEFINE c == Current(w)
  <1>1. pc[w] \in InHands /\ IsWriter(w)
    BY DEF WriteOwn, MarkBad, InHands
  <1>2. /\ InHand(w) = {c} /\ c \in ChannelsOf(w) /\ c \in Channel
        /\ c \notin Pending(w) /\ c \notin Posted(w) /\ c \in WorkLeft(w)
        /\ Writer[w] = w
    BY <1>1, HasInHand
  <1>3. /\ UNCHANGED <<done, mail, created, failed>>
        /\ outstanding' = [outstanding EXCEPT ![w] = @ - 1]
        /\ settled' = [settled EXCEPT ![c] = @ + 1]
        /\ \A d \in Channel \ {c} : cube'[d] = cube[d]
        /\ cube' \in [Channel -> {"unwritten", "image", "blank"}]
    <2>1. CASE WriteOwn(w)
      BY <1>2, <2>1 DEF WriteOwn, Settle, IInv, TypeOK
    <2>2. CASE MarkBad(w)
      BY <1>2, <2>2 DEF MarkBad, Settle, IInv, TypeOK
    <2> QED
      BY <2>1, <2>2
  <1>4. /\ pc' \in [Worker -> Place] /\ pc'[w] \in {"drain", "next"}
        /\ \A u \in Worker \ {w} : pc'[u] = pc[u]
    BY DEF WriteOwn, MarkBad, Goto, IInv, TypeOK, Place
  <1>5. Pending(w)' = Pending(w) /\ InHand(w)' = {} /\ Posted(w)' = Posted(w)
    BY <1>3, <1>4 DEF Pending, GoodAfter, InHand, Posted
  <1> HIDE DEF c
  <1>6. WorkLeft(w)' = WorkLeft(w) \ {c}
    BY <1>2, <1>5 DEF WorkLeft
  <1>7. /\ outstanding' \in [Worker -> Nat] /\ outstanding[w] \in Nat \ {0}
    <2>1. \A u \in Worker \ {w} : WorkLeft(u)' = WorkLeft(u)
      BY <1>3, <1>4, SameWork
    <2> QED
      BY <1>2, <1>3, <1>6, <2>1, Settles
  <1>8. TypeOK'
    <2>1. target' \in [Worker -> Nat]
      <3>1. IsFiniteSet(Clients(w))
        <4>1. Clients(w) \subseteq Worker
          BY DEF Clients, Member
        <4> QED
          BY <4>1, CubeAssumption, FS_Subset
      <3>2. Target(outstanding[w] - 1, Cardinality(Clients(w))) \in Nat
        BY <1>7, <3>1, FS_CardinalityType DEF Target
      <3> QED
        BY <3>2 DEF WriteOwn, MarkBad, IInv, TypeOK
    <2>2. settled' \in [Channel -> Nat]
      BY <1>2, <1>3 DEF IInv, TypeOK
    <2> QED
      BY <1>3, <1>4, <1>7, <2>1, <2>2 DEF IInv, TypeOK, Place, Slice
  <1>9. Apart(w)'
    BY <1>3, <1>4, <1>5 DEF IInv, Apart
  <1>10. ASSUME NEW d \in ChannelsOf(w) PROVE Known(w, d)'
    <2>1. Known(w, d) /\ d \in Channel
      BY OfChannel DEF IInv
    <2>2. CASE d = c
      <3>1. settled'[d] = 1
        BY <1>2, <1>3, <2>1, <2>2 DEF Known, IInv, TypeOK
      <3> QED
        BY <1>2, <1>3, <1>5, <1>6, <2>1, <2>2, <3>1 DEF Known
    <2>3. CASE d # c
      <3>1. settled'[d] = settled[d] /\ cube'[d] = cube[d]
        BY <1>3, <2>1, <2>3 DEF IInv, TypeOK
      <3>2. d \notin InHand(w) /\ (d \in WorkLeft(w)' <=> d \in WorkLeft(w))
        BY <1>2, <1>6, <2>3
      <3> QED
        BY <1>3, <1>5, <2>1, <3>1, <3>2 DEF Known
    <2> QED
      BY <2>2, <2>3
  <1>11. \A d \in Channel \ ChannelsOf(w) : settled'[d] = settled[d] /\ cube'[d] = cube[d]
    BY <1>2, <1>3 DEF IInv, TypeOK
  <1>12. mail[w] # <<>> => Writer[w] # w
    BY DEF IInv, Role
  <1> QED
    BY <1>1, <1>2, <1>3, <1>4, <1>6, <1>8, <1>9, <1>10, <1>11, <1>12, StepKeeps DEF InHands

LEMMA WriteOwnFailsKeeps ==
    ASSUME IInv, NEW w \in Worker, WriteOwnFails(w)
    PROVE  IInv'
  <1> DEFINE c == Current(w)
  <1>1. /\ InHand(w) = {c} /\ c \in ChannelsOf(w) /\ c \in Channel
        /\ c \notin Pending(w) /\ c \notin Posted(w) /\ c \in WorkLeft(w)
        /\ Writer[w] = w
    BY HasInHand DEF WriteOwnFails, InHands
  <1>2. /\ UNCHANGED <<done, outstanding, target, mail, created, cube, settled>>
        /\ failed' = failed \cup {c}
        /\ pc[w] = "deliver" /\ pc'[w] = "recover" /\ pc' \in [Worker -> Place]
        /\ \A u \in Worker \ {w} : pc'[u] = pc[u]
    BY DEF WriteOwnFails, Goto, IInv, TypeOK, Place
  <1>3. Pending(w)' = Pending(w) /\ InHand(w)' = InHand(w) /\ Posted(w)' = Posted(w)
        /\ WorkLeft(w)' = WorkLeft(w)
    BY <1>2 DEF Pending, GoodAfter, InHand, Posted, WorkLeft, Current
  <1> HIDE DEF c
  <1>4. TypeOK'
    BY <1>1, <1>2 DEF IInv, TypeOK, Place, Slice
  <1>5. Apart(w)'
    BY <1>2, <1>3 DEF IInv, Apart
  <1>6. ASSUME NEW d \in ChannelsOf(w) PROVE Known(w, d)'
    <2>1. Known(w, d)
      BY DEF IInv
    <2>2. \A i \in 1..Len(mail[w]) : mail[w][i].chan # c
      BY <1>1 DEF Posted
    <2> QED
      BY <1>1, <1>2, <1>3, <2>1, <2>2 DEF Known
  <1>7. \A d \in Channel \ ChannelsOf(w) : d \in failed' <=> d \in failed
    BY <1>1, <1>2
  <1>8. mail[w] # <<>> => Writer[w] # w
    BY DEF IInv, Role
  <1> QED
    BY <1>2, <1>3, <1>4, <1>5, <1>6, <1>7, <1>8, StepKeeps

\* A slice comes in: the first one in the mail of one of the writer's workers.
LEMMA Takes ==
    ASSUME IInv, NEW w \in Worker, mail[w] # <<>>
    PROVE  LET c == Head(mail[w]).chan IN
           /\ c \in ChannelsOf(w) /\ c \in Channel /\ c \in WorkLeft(w)
           /\ c \notin Pending(w) /\ c \notin InHand(w)
           /\ Head(mail[w]).what = IF c \in failed THEN "blank" ELSE "image"
           /\ Head(mail[w]) = mail[w][1] /\ 1 \in 1..Len(mail[w])
           /\ Tail(mail[w]) \in Seq(Slice) /\ Len(mail[w]) \in Nat
           /\ Len(Tail(mail[w])) = Len(mail[w]) - 1
           /\ \A i \in 1..Len(Tail(mail[w])) :
                  Tail(mail[w])[i] = mail[w][i + 1] /\ i + 1 \in 2..Len(mail[w])
           /\ {Tail(mail[w])[i].chan : i \in 1..Len(Tail(mail[w]))} = Posted(w) \ {c}
           /\ pc[w] \notin {"open", "ready"}
  <1> DEFINE c == Head(mail[w]).chan
             t == Tail(mail[w])
  <1> USE DEF IInv
  <1>1. mail[w] \in Seq(Slice) /\ mail[w] # <<>> /\ Apart(w)
    BY DEF TypeOK
  <1>2. /\ Head(mail[w]) = mail[w][1] /\ Len(mail[w]) \in Nat /\ 1 \in 1..Len(mail[w])
        /\ t \in Seq(Slice) /\ Len(t) = Len(mail[w]) - 1
        /\ \A i \in 1..Len(t) : t[i] = mail[w][i + 1] /\ i + 1 \in 2..Len(mail[w])
    BY <1>1
  <1> HIDE DEF t
  <1>3. c \in Posted(w)
    BY <1>2 DEF Posted
  <1>4. c \in ChannelsOf(w) /\ c \notin Pending(w) /\ c \notin InHand(w) /\ c \in WorkLeft(w)
    BY <1>1, <1>3 DEF Apart, WorkLeft
  <1>5. {t[i].chan : i \in 1..Len(t)} = Posted(w) \ {c}
    <2>1. ASSUME NEW i \in 1..Len(t) PROVE t[i].chan \in Posted(w) \ {c}
      <3>1. t[i] = mail[w][i + 1] /\ i + 1 \in 1..Len(mail[w]) /\ i + 1 # 1
        BY <1>2
      <3> QED
        BY <1>1, <1>2, <3>1 DEF Posted, Apart
    <2>2. ASSUME NEW j \in 1..Len(mail[w]), mail[w][j].chan # c
          PROVE  \E i \in 1..Len(t) : t[i].chan = mail[w][j].chan
      <3>1. j # 1
        BY <1>2, <2>2
      <3>2. j - 1 \in 1..Len(t) /\ (j - 1) + 1 = j
        BY <1>2, <3>1
      <3>3. t[j - 1] = mail[w][j]
        BY <1>2, <3>2
      <3> QED
        BY <3>2, <3>3
    <2>3. Posted(w) = {mail[w][j].chan : j \in 1..Len(mail[w])}
      BY DEF Posted
    <2> HIDE DEF t
    <2>4. \A x \in Posted(w) \ {c} : \E i \in 1..Len(t) : t[i].chan = x
      BY <2>2, <2>3
    <2> QED
      BY <2>1, <2>4
  <1>6. Known(w, c)
    BY <1>4
  <1>7. Head(mail[w]).what = IF c \in failed THEN "blank" ELSE "image"
    BY <1>2, <1>6 DEF Known
  <1>8. pc[w] \notin {"open", "ready"}
    BY <1>1 DEF Opened
  <1> QED
    BY <1>2, <1>4, <1>5, <1>7, <1>8, OfChannel DEF t

LEMMA ReceiveKeeps ==
    ASSUME IInv, NEW v \in Worker, Receive(v), UNCHANGED <<pc, done, target, created>>
    PROVE  IInv'
  <1>1. PICK w \in Worker :
            /\ Writer[w] = v /\ mail[w] # <<>>
            /\ mail' = [mail EXCEPT ![w] = Tail(@)]
            /\ Write(Head(mail[w]).chan, Head(mail[w]).what)
            /\ Settle(v, Head(mail[w]).chan)
    BY DEF Receive
  <1> DEFINE c == Head(mail[w]).chan
             what == Head(mail[w]).what
             t == Tail(mail[w])
  <1>2. /\ c \in ChannelsOf(w) /\ c \in Channel /\ c \in WorkLeft(w)
        /\ c \notin Pending(w) /\ c \notin InHand(w)
        /\ what = IF c \in failed THEN "blank" ELSE "image"
        /\ mail[w][1].chan = c /\ 1 \in 1..Len(mail[w])
        /\ t \in Seq(Slice) /\ Len(mail[w]) \in Nat /\ Len(t) = Len(mail[w]) - 1
        /\ \A i \in 1..Len(t) : t[i] = mail[w][i + 1] /\ i + 1 \in 2..Len(mail[w])
        /\ {t[i].chan : i \in 1..Len(t)} = Posted(w) \ {c}
        /\ pc[w] \notin {"open", "ready"}
    BY <1>1, Takes
  <1>3. /\ mail' \in [Worker -> Seq(Slice)] /\ mail'[w] = t
        /\ \A u \in Worker \ {w} : mail'[u] = mail[u]
    BY <1>1, <1>2 DEF IInv, TypeOK
  <1>4. /\ outstanding' = [outstanding EXCEPT ![Writer[w]] = @ - 1]
        /\ settled' = [settled EXCEPT ![c] = @ + 1]
        /\ \A d \in Channel \ {c} : cube'[d] = cube[d]
        /\ cube' \in [Channel -> {"unwritten", "image", "blank"}]
        /\ failed' \subseteq Channel /\ \A d : d # c => (d \in failed' <=> d \in failed)
    <2>1. outstanding' = [outstanding EXCEPT ![Writer[w]] = @ - 1]
          /\ settled' = [settled EXCEPT ![c] = @ + 1]
      BY <1>1 DEF Settle
    <2>2. /\ cube \in [Channel -> {"unwritten", "image", "blank"}] /\ failed \subseteq Channel
          /\ c \in Channel /\ what \in {"image", "blank"}
      BY <1>2 DEF IInv, TypeOK
    <2>3. \/ cube' = [cube EXCEPT ![c] = what] /\ failed' = failed
          \/ failed' = failed \cup {c} /\ cube' = cube
      BY <1>1 DEF Write
    <2> HIDE DEF c, what
    <2>4. CASE cube' = [cube EXCEPT ![c] = what] /\ failed' = failed
      BY <2>1, <2>2, <2>4
    <2>5. CASE failed' = failed \cup {c} /\ cube' = cube
      BY <2>1, <2>2, <2>5
    <2> QED
      BY <2>3, <2>4, <2>5
  <1> HIDE DEF c, what, t
  <1>5. Pending(w)' = Pending(w) /\ InHand(w)' = InHand(w) /\ Posted(w)' = Posted(w) \ {c}
    <2>1. Pending(w)' = Pending(w)
      BY DEF Pending, GoodAfter
    <2>2. InHand(w)' = InHand(w)
      BY DEF InHand, Current
    <2>3. Posted(w)' = {t[i].chan : i \in 1..Len(t)}
      BY <1>3 DEF Posted
    <2> QED
      BY <1>2, <2>1, <2>2, <2>3
  <1>6. WorkLeft(w)' = WorkLeft(w) \ {c}
    BY <1>2, <1>5 DEF WorkLeft
  <1>7. outstanding' \in [Worker -> Nat]
    <2>1. \A u \in Worker \ {w} : WorkLeft(u)' = WorkLeft(u)
      BY <1>3, SameWork
    <2> QED
      BY <1>2, <1>4, <1>6, <2>1, Settles
  <1>8. TypeOK'
    <2>1. settled' \in [Channel -> Nat]
      <3>1. settled \in [Channel -> Nat] /\ c \in Channel
        BY <1>2 DEF IInv, TypeOK
      <3> QED
        BY <1>4, <3>1
    <2> QED
      BY <1>3, <1>4, <1>7, <2>1 DEF IInv, TypeOK, Slice
  <1>9. Apart(w)'
    <2>1. Apart(w)
      BY DEF IInv
    <2>2. \A i, j \in 1..Len(mail'[w]) : mail'[w][i].chan = mail'[w][j].chan => i = j
      <3> SUFFICES ASSUME NEW i \in 1..Len(t), NEW j \in 1..Len(t), t[i].chan = t[j].chan
                   PROVE  i = j
        BY <1>3
      <3>1. i + 1 \in 1..Len(mail[w]) /\ j + 1 \in 1..Len(mail[w])
            /\ mail[w][i + 1].chan = mail[w][j + 1].chan
        BY <1>2
      <3>2. i + 1 = j + 1
        BY <2>1, <3>1 DEF Apart
      <3> QED
        BY <1>2, <3>2
    <2> QED
      BY <1>5, <2>1, <2>2 DEF Apart
  <1>10. ASSUME NEW d \in ChannelsOf(w) PROVE Known(w, d)'
    <2>1. Known(w, d) /\ d \in Channel
      BY OfChannel DEF IInv
    <2>2. CASE d = c
      <3>1. settled'[d] = 1
        BY <1>2, <1>4, <2>1, <2>2 DEF Known, IInv, TypeOK
      <3>2. \A i \in 1..Len(mail'[w]) : mail'[w][i].chan # d
        BY <1>5, <2>2 DEF Posted
      <3> QED
        BY <1>2, <1>5, <1>6, <2>2, <3>1, <3>2 DEF Known
    <2>3. CASE d # c
      <3>1. settled'[d] = settled[d] /\ cube'[d] = cube[d] /\ (d \in failed' <=> d \in failed)
        BY <1>4, <2>1, <2>3 DEF IInv, TypeOK
      <3>2. d \in WorkLeft(w)' <=> d \in WorkLeft(w)
        BY <1>6, <2>3
      <3>3. ASSUME NEW i \in 1..Len(mail'[w]), mail'[w][i].chan = d
            PROVE  mail'[w][i].what = IF d \in failed' THEN "blank" ELSE "image"
        <4>1. mail'[w][i] = mail[w][i + 1] /\ i + 1 \in 1..Len(mail[w])
          <5>1. i \in 1..Len(t) /\ mail'[w] = t
            BY <1>3
          <5>2. t[i] = mail[w][i + 1] /\ i + 1 \in 2..Len(mail[w]) /\ Len(mail[w]) \in Nat
            BY <1>2, <5>1
          <5> QED
            BY <5>1, <5>2
        <4> QED
          BY <2>1, <3>1, <3>3, <4>1 DEF Known
      <3> QED
        BY <1>5, <2>1, <3>1, <3>2, <3>3 DEF Known
    <2> QED
      BY <2>2, <2>3
  <1>11. \A d \in Channel \ ChannelsOf(w) :
             settled'[d] = settled[d] /\ cube'[d] = cube[d] /\ (d \in failed' <=> d \in failed)
    BY <1>2, <1>4 DEF IInv, TypeOK
  <1>12. Writer[w] # w
    BY <1>1 DEF IInv, Role
  <1> QED
    BY <1>2, <1>3, <1>4, <1>6, <1>8, <1>9, <1>10, <1>11, <1>12, StepKeeps
-----------------------------------------------------------------------------
(* The beginning.                                                          *)

\* updateComms counts the channels of a writer's workers: each once, at the
\* first unit of its epochs.
LEMMA CountsChannels ==
    ASSUME NEW v \in Worker
    PROVE  ToWrite(v) = Cardinality(UNION {ChannelsOf(w) : w \in Member(v)})
  <1> DEFINE S == UNION {{w} \X CountedUnits(w) : w \in Member(v)}
             T == UNION {ChannelsOf(w) : w \in Member(v)}
             f == [p \in S |-> ChannelOf(p[1], p[2])]
  <1>1. ASSUME NEW p \in S
        PROVE  /\ p = <<p[1], p[2]>> /\ p[1] \in Member(v) /\ p[1] \in Worker
               /\ p[2] \in CountedUnits(p[1]) /\ p[2] \in Index(p[1])
               /\ f[p] \in ChannelsOf(p[1]) /\ f[p] \in T
    <2> PICK w \in Member(v) : p \in {w} \X CountedUnits(w)
      OBVIOUS
    <2>1. p[1] = w /\ p[2] \in CountedUnits(w) /\ p = <<p[1], p[2]>> /\ w \in Worker
      BY DEF Member
    <2>2. p[2] \in Index(w) /\ ChannelOf(w, p[2]) \in ChannelsOf(w)
      BY <2>1, OfChannel DEF CountedUnits
    <2> QED
      BY <2>1, <2>2
  <1>2. ASSUME NEW w \in Worker, NEW i \in CountedUnits(w), NEW j \in CountedUnits(w),
               ChannelOf(w, i) = ChannelOf(w, j), i < j
        PROVE  FALSE
    <2>1. i \in Index(w) /\ j \in Index(w) /\ ChannelOf(w, i) # NA
          /\ Len(Units[w]) \in Nat
      BY OfChannel DEF CountedUnits
    <2>2. j - 1 \in i..j /\ j # 1
      BY <1>2, <2>1 DEF Index
    <2>3. ChannelOf(w, j - 1) = ChannelOf(w, i)
      BY <1>2, <2>1, <2>2, CubeAssumption
    <2> QED
      BY <1>2, <2>2, <2>3 DEF CountedUnits
  <1>3. f \in Injection(S, T)
    <2>1. f \in [S -> T]
      BY <1>1
    <2>2. ASSUME NEW p \in S, NEW q \in S, f[p] = f[q] PROVE p = q
      <3>1. p[1] = q[1]
        BY <1>1, <2>2, Owner
      <3>2. p[2] = q[2]
        <4>1. p[2] \in Nat /\ q[2] \in Nat
          BY <1>1, OfChannel
        <4>2. ChannelOf(p[1], p[2]) = ChannelOf(p[1], q[2])
          BY <2>2, <3>1
        <4>3. ~(p[2] < q[2]) /\ ~(q[2] < p[2])
          BY <1>1, <1>2, <3>1, <4>2
        <4> QED
          BY <4>1, <4>3
      <3> QED
        BY <1>1, <3>1, <3>2
    <2> QED
      BY <2>1, <2>2 DEF Injection, IsInjective
  <1>4. f \in Surjection(S, T)
    <2>1. f \in [S -> T]
      BY <1>1
    <2>2. ASSUME NEW c \in T PROVE \E p \in S : f[p] = c
      <3>1. PICK w \in Member(v) : c \in ChannelsOf(w)
        OBVIOUS
      <3> DEFINE I == {i \in Index(w) : ChannelOf(w, i) = c}
      <3>2. I # {} /\ I \subseteq Nat /\ w \in Worker /\ c # NA
        <4>1. w \in Worker
          BY DEF Member
        <4>2. c # NA /\ \E i \in Index(w) : ChannelOf(w, i) = c
          BY <3>1 DEF ChannelsOf
        <4> QED
          BY <4>1, <4>2, OfChannel
      <3>3. PICK i \in I : \A j \in I : i <= j
        BY <3>2, Smallest
      <3>4. i \in CountedUnits(w)
        <4>1. i = 1 \/ i - 1 \in Index(w)
          BY <3>2, <3>3, OfChannel DEF Index
        <4>2. i # 1 => ChannelOf(w, i - 1) # c
          BY <3>2, <3>3, <4>1
        <4> QED
          BY <3>2, <4>2 DEF CountedUnits
      <3>5. <<w, i>> \in S /\ f[<<w, i>>] = c
        BY <3>4
      <3> QED
        BY <3>5
    <2> QED
      BY <2>1, <2>2 DEF Surjection
  <1>5. IsFiniteSet(T)
    <2>1. T \subseteq Channel
      BY OfChannel DEF Member
    <2> QED
      BY <2>1, FiniteChannels, FS_Subset
  <1> QED
    BY <1>3, <1>4, <1>5, FS_Injection DEF ToWrite

LEMMA Initially == Init => IInv
  <1> SUFFICES ASSUME Init PROVE IInv
    OBVIOUS
  <1>1. ASSUME NEW w \in Worker
        PROVE  /\ Pending(w) = ChannelsOf(w) /\ InHand(w) = {} /\ Posted(w) = {}
               /\ WorkLeft(w) = ChannelsOf(w)
               /\ pc[w] = "open" /\ done[w] = 0 /\ mail[w] = <<>> /\ Len(mail[w]) = 0
    <2>1. pc[w] = "open" /\ done[w] = 0 /\ mail[w] = <<>> /\ Len(mail[w]) = 0
      BY DEF Init
    <2>2. GoodAfter(w) = {i \in Index(w) : ChannelOf(w, i) # NA}
      BY <2>1, OfChannel DEF GoodAfter, Index
    <2>3. Pending(w) = ChannelsOf(w)
      BY <2>2 DEF Pending, ChannelsOf
    <2>4. InHand(w) = {} /\ Posted(w) = {}
      BY <2>1 DEF InHand, Posted
    <2> QED
      BY <2>1, <2>3, <2>4 DEF WorkLeft
  <1>2. ASSUME NEW w \in Worker PROVE Apart(w) /\ Role(w)
    BY <1>1 DEF Apart, Role
  <1>3. ASSUME NEW w \in Worker, NEW c \in ChannelsOf(w) PROVE Known(w, c)
    BY <1>1, OfChannel DEF Known, Init
  <1>4. Counted
    <2>1. ASSUME NEW v \in Worker PROVE outstanding[v] = Cardinality(Left(v))
      <3>1. Left(v) = UNION {ChannelsOf(w) : w \in Member(v)}
        BY <1>1 DEF Left, Member
      <3> QED
        BY <3>1, CountsChannels DEF Init
    <2> QED
      BY <2>1 DEF Counted
  <1>5. TypeOK
    <2>1. outstanding \in [Worker -> Nat]
      <3>1. \A v \in Worker : outstanding[v] \in Nat
        BY <1>2, <1>4, LeftFinite DEF Counted
      <3> QED
        BY <3>1 DEF Init
    <2>2. mail \in [Worker -> Seq(Slice)]
      BY DEF Init
    <2>3. \A w \in Worker : done[w] <= Len(Units[w])
      BY <1>1, OfChannel
    <2> QED
      BY <2>1, <2>2, <2>3 DEF Init, TypeOK
  <1>6. Opened
    BY <1>1 DEF Opened, Creator, Writers
  <1> QED
    BY <1>2, <1>3, <1>4, <1>5, <1>6 DEF IInv
-----------------------------------------------------------------------------
LEMMA Stutter == IInv /\ UNCHANGED vars => IInv'
  <1> SUFFICES ASSUME IInv, UNCHANGED vars PROVE IInv'
    OBVIOUS
  <1>1. pc' \in [Worker -> Place] /\ created' \subseteq Worker /\ Opened'
    BY DEF vars, IInv, TypeOK, Place, Opened, Creator, Writers
  <1> QED
    BY <1>1, GoingOnKeeps DEF vars

LEMMA NextKeeps == FirstEpochsSucceed /\ IInv /\ [Next]_vars => IInv'
  <1> SUFFICES ASSUME FirstEpochsSucceed, IInv, [Next]_vars PROVE IInv'
    OBVIOUS
  <1>1. ASSUME NEW w \in Worker, WorkerStep(w) PROVE IInv'
    <2>1. CASE Drain(w)
      BY <2>1, ReceiveKeeps DEF Drain
    <2>2. CASE Cleanup(w)
      BY <2>2, ReceiveKeeps DEF Cleanup
    <2> QED
      BY <1>1, <2>1, <2>2, OpenCubesKeeps, TakesChannelKeeps, MovesOnKeep, OwnSettledKeeps,
         WriteOwnFailsKeeps, SendsKeep DEF WorkerStep
  <1>2. CASE PassBarrier \/ PassFinalBarrier
    BY <1>2, PassBarrierKeeps, PassFinalBarrierKeeps
  <1>3. CASE UNCHANGED vars
    BY <1>3, Stutter
  <1> QED
    BY <1>1, <1>2, <1>3 DEF Next

\* Unless the first epoch of a channel with several fails, the count of each
\* writer is the number of channels ahead of its workers, in their hands and
\* in the mail, each of which is in one place (ContinuumWorker.cc:1185-1425).
THEOREM Invariance == FirstEpochsSucceed /\ Spec => []IInv
  <1>1. FirstEpochsSucceed /\ IInv /\ [Next]_vars => FirstEpochsSucceed' /\ IInv'
    BY NextKeeps DEF FirstEpochsSucceed, Index, ChannelOf
  <1> QED
    BY Initially, <1>1, PTL DEF Spec
-----------------------------------------------------------------------------
(* What follows from it.                                                   *)

LEMMA SinkCreates ==
    ASSUME NEW v \in Writers
    PROVE  SinkOf(v) \in Creator
  <1>1. CASE SingleSink
    <2>1. Writers \subseteq Nat
      BY CubeAssumption DEF Writers
    <2>2. \E u \in Writers : \A x \in Writers : u <= x
      BY <2>1, Smallest
    <2>3. Creator # {}
      BY <1>1, <2>2 DEF Creator
    <2> QED
      BY <1>1, <2>3 DEF SinkOf
  <1>2. CASE ~SingleSink
    BY <1>2 DEF SinkOf, Creator
  <1> QED
    BY <1>1, <1>2

\* The count of a writer is the number of channels its workers still have, no
\* writer sends, and no cube is written before it exists, whatever else fails
\* (ContinuumWorker.cc:644-711, 1185-1425).
THEOREM WritersAlwaysKnow == FirstEpochsSucceed /\ Spec => []WritersKnow
  <1>1. IInv => WritersKnow
    <2> SUFFICES ASSUME IInv PROVE WritersKnow
      OBVIOUS
    <2> USE DEF IInv
    <2>1. CountIsWorkLeft
      BY DEF CountIsWorkLeft, Counted, Left, Writers
    <2>2. WritersNeverSend
      BY DEF WritersNeverSend, Role
    <2>3. ASSUME NEW w \in Worker, NEW c \in ChannelsOf(w), cube[c] # "unwritten"
          PROVE  SinkOf(Writer[w]) \in created
      <3>1. c \notin Pending(w)
        BY <2>3 DEF Known, WorkLeft
      <3>2. done[w] # 0
        <4>1. PICK i \in Index(w) : c = ChannelOf(w, i) /\ c # NA
          BY DEF ChannelsOf
        <4>2. i \notin GoodAfter(w)
          BY <3>1, <4>1 DEF Pending
        <4> QED
          BY <4>1, <4>2, OfChannel DEF GoodAfter, Index
      <3>3. \A u \in Creator : u \in created
        BY <3>2 DEF Opened, Creator, Writers
      <3>4. Writer[w] \in Writers
        BY CubeAssumption DEF Writers, Member
      <3> QED
        BY <3>3, <3>4, SinkCreates
    <2>4. WritesFindTheCube
      BY <2>3 DEF WritesFindTheCube
    <2> QED
      BY <2>1, <2>2, <2>4 DEF WritersKnow
  <1> QED
    BY <1>1, Invariance, PTL

\* When a writer has left the loop all its workers' channels are dealt with.
LEMMA WriterLeaves ==
    ASSUME IInv, NEW v \in Worker, pc[v] \in {"finished", "over"}, NEW w \in Member(v)
    PROVE  WorkLeft(w) = {}
  <1>1. outstanding[v] = 0
    BY DEF IInv, Role
  <1>2. Left(v) = {}
    BY <1>1, LeftFinite DEF IInv, Counted
  <1> QED
    BY <1>2 DEF Left

\* A writer that leaves the loop leaves nobody behind who still has a slice for
\* it (ContinuumWorker.cc:1395-1419).
THEOREM NobodyLeftBehind == FirstEpochsSucceed /\ Spec => []NothingLeftBehind
  <1>1. IInv => NothingLeftBehind
    BY WriterLeaves DEF NothingLeftBehind, Writers
  <1> QED
    BY <1>1, Invariance, PTL

LEMMA OfSomebody ==
    ASSUME NEW c \in Channel
    PROVE  \E w \in Worker : c \in ChannelsOf(w) /\ Writer[w] \in Worker /\ w \in Member(Writer[w])
  <1>1. PICK w \in Worker : c \in ChannelsOf(w)
    BY DEF Channel
  <1> QED
    BY <1>1, CubeAssumption DEF Member

\* A channel is settled once, however many epochs it has, as is said where the
\* units of a channel are gathered (ContinuumWorker.cc:744-748); but it is not
\* if a first epoch fails.
THEOREM ChannelsSettleOnce == FirstEpochsSucceed /\ Spec => []SettledOnce
  <1>1. IInv => SettledOnce
    <2> SUFFICES ASSUME IInv, NEW c \in Channel PROVE settled[c] <= 1
      BY DEF SettledOnce
    <2>1. PICK w \in Worker : c \in ChannelsOf(w)
      BY OfSomebody
    <2>2. settled[c] = 0 \/ settled[c] = 1
      BY <2>1 DEF IInv, Known
    <2> QED
      BY <2>2
  <1> QED
    BY <1>1, Invariance, PTL
-----------------------------------------------------------------------------
(* The refinement.                                                         *)

Fate(c) == IF settled[c] = 0 THEN "open"
           ELSE IF cube[c] = "unwritten" THEN "missing" ELSE cube[c]
Fates == [c \in Channel |-> Fate(c)]
Closed == \E w \in Worker : pc[w] = "over"

\* Only the channel c is settled, as f.
LEMMA SettlesAs ==
    ASSUME IInv, NEW w \in Worker, NEW c \in ChannelsOf(w), c \in WorkLeft(w),
           settled' = [settled EXCEPT ![c] = @ + 1],
           \A d \in Channel \ {c} : cube'[d] = cube[d]
    PROVE  /\ Fates[c] = "open" /\ c \in Channel
           /\ Fates' = [Fates EXCEPT ![c] = IF cube'[c] = "unwritten" THEN "missing" ELSE cube'[c]]
  <1>1. c \in Channel /\ settled[c] = 0 /\ settled \in [Channel -> Nat]
    BY OfChannel DEF IInv, Known, TypeOK
  <1>2. settled'[c] = 1 /\ \A d \in Channel \ {c} : settled'[d] = settled[d]
    BY <1>1
  <1>3. Fate(c)' = IF cube'[c] = "unwritten" THEN "missing" ELSE cube'[c]
    BY <1>2 DEF Fate
  <1>4. \A d \in Channel \ {c} : Fate(d)' = Fate(d)
    BY <1>2 DEF Fate
  <1>5. Fates[c] = "open"
    BY <1>1 DEF Fates, Fate
  <1> QED
    BY <1>1, <1>3, <1>4, <1>5 DEF Fates

\* What CubeAssembly says of its steps, in these terms.
LEMMA AssemblySteps ==
    /\ \A c \in Channel :
        /\ Fates[c] = "open" /\ c \notin failed /\ failed' = failed \cup {c}
           /\ UNCHANGED <<Fates, Closed>> => Assembled!AssemblyNext
        /\ Fates[c] = "open" /\ Fates' = [Fates EXCEPT ![c] = "missing"]
           /\ failed' = failed \cup {c} /\ UNCHANGED Closed => Assembled!AssemblyNext
        /\ \A f \in {"image", "blank", "missing"} :
            Fates[c] = "open" /\ Fates' = [Fates EXCEPT ![c] = f]
            /\ (IF c \in failed THEN f # "image" ELSE f = "image")
            /\ UNCHANGED <<failed, Closed>> => Assembled!AssemblyNext
    /\ UNCHANGED <<Fates, failed, Closed>> => UNCHANGED Assembled!assemblyVars
    /\ (\A c \in Channel : Fates[c] # "open") /\ ~Closed /\ Closed'
       /\ UNCHANGED <<Fates, failed>> => Assembled!AssemblyNext
  <1> USE DEF Fates, Fate, Closed
  <1>1. ASSUME NEW c \in Channel
        PROVE  Fates[c] = "open" /\ c \notin failed /\ failed' = failed \cup {c}
               /\ UNCHANGED <<Fates, Closed>> => Assembled!AssemblyNext
    BY DEF Assembled!AssemblyNext, Assembled!Fail
  <1>2. ASSUME NEW c \in Channel
        PROVE  Fates[c] = "open" /\ Fates' = [Fates EXCEPT ![c] = "missing"]
               /\ failed' = failed \cup {c} /\ UNCHANGED Closed => Assembled!AssemblyNext
    BY DEF Assembled!AssemblyNext, Assembled!FailAndSettle
  <1>3. ASSUME NEW c \in Channel, NEW f \in {"image", "blank", "missing"}
        PROVE  Fates[c] = "open" /\ Fates' = [Fates EXCEPT ![c] = f]
               /\ (IF c \in failed THEN f # "image" ELSE f = "image")
               /\ UNCHANGED <<failed, Closed>> => Assembled!AssemblyNext
    BY DEF Assembled!AssemblyNext, Assembled!Settle
  <1>4. UNCHANGED <<Fates, failed, Closed>> => UNCHANGED Assembled!assemblyVars
    BY DEF Assembled!assemblyVars
  <1>5. (\A c \in Channel : Fates[c] # "open") /\ ~Closed /\ Closed'
        /\ UNCHANGED <<Fates, failed>> => Assembled!AssemblyNext
    BY DEF Assembled!AssemblyNext, Assembled!Close
  <1> QED
    BY <1>1, <1>2, <1>3, <1>4, <1>5

\* The workers reach the end together.
LEMMA StaysClosed ==
    ASSUME IInv, NEW w \in Worker, WorkerStep(w)
    PROVE  UNCHANGED Closed
  <1>1. pc[w] # "over" /\ pc'[w] # "over" /\ \A u \in Worker \ {w} : pc'[u] = pc[u]
    BY DEF IInv, TypeOK, WorkerStep, OpenCubes, ImageChannel, FailChannel, NoMoreChannels,
       WriteOwn, WriteOwnFails, SendSlice, MarkBad, SendBlank, SendReturns, Drain, Drained,
       Cleanup, Finish, Goto
  <1> QED
    BY <1>1 DEF Closed

\* Every step of a worker is one of the assembly, or none.
LEMMA WorkersAssemble ==
    ASSUME FirstEpochsSucceed, IInv, NEW w \in Worker, WorkerStep(w)
    PROVE  Assembled!AssemblyNext \/ UNCHANGED Assembled!assemblyVars
  <1>1. UNCHANGED Closed
    BY StaysClosed
  <1>2. CASE UNCHANGED <<settled, cube, failed>>
    <2>1. UNCHANGED Fates
      BY <1>2 DEF Fates, Fate
    <2> QED
      BY <1>1, <1>2, <2>1, AssemblySteps
  <1>3. CASE FailChannel(w)
    <2> DEFINE c == ChannelOf(w, FirstGood(w))
    <2>1. c \in Pending(w) /\ c \in ChannelsOf(w)
      BY <1>3, TakesChannel
    <2> HIDE DEF c
    <2>2. c \in Channel /\ c \notin failed /\ settled[c] = 0
      BY <2>1, OfChannel DEF IInv, Known, WorkLeft
    <2>3. failed' = failed \cup {c} /\ UNCHANGED <<cube, settled>>
      BY <1>3 DEF FailChannel, c
    <2>4. Fates[c] = "open" /\ UNCHANGED Fates
      BY <2>2, <2>3 DEF Fates, Fate
    <2> QED
      BY <1>1, <2>2, <2>3, <2>4, AssemblySteps
  <1>4. CASE WriteOwnFails(w)
    <2> DEFINE c == Current(w)
    <2>1. InHand(w) = {c} /\ c \in ChannelsOf(w) /\ c \in Channel /\ c \in WorkLeft(w)
      BY <1>4, HasInHand DEF WriteOwnFails, InHands
    <2> HIDE DEF c
    <2>2. c \notin failed /\ settled[c] = 0
      BY <1>4, <2>1 DEF IInv, Known, WriteOwnFails
    <2>3. failed' = failed \cup {c} /\ UNCHANGED <<cube, settled>>
      BY <1>4 DEF WriteOwnFails, c
    <2>4. Fates[c] = "open" /\ UNCHANGED Fates
      BY <2>1, <2>2, <2>3 DEF Fates, Fate
    <2> QED
      BY <1>1, <2>1, <2>2, <2>3, <2>4, AssemblySteps
  <1>5. CASE WriteOwn(w) \/ MarkBad(w)
    <2> DEFINE c == Current(w)
               f == IF cube'[c] = "unwritten" THEN "missing" ELSE cube'[c]
    <2>1. InHand(w) = {c} /\ c \in ChannelsOf(w) /\ c \in Channel /\ c \in WorkLeft(w)
      BY <1>5, HasInHand DEF WriteOwn, MarkBad, InHands
    <2>2. /\ settled' = [settled EXCEPT ![c] = @ + 1] /\ failed' = failed
          /\ \A d \in Channel \ {c} : cube'[d] = cube[d]
          /\ \/ cube'[c] = "image" /\ pc[w] = "deliver"
             \/ cube' = cube /\ pc[w] = "recover"
      BY <1>5, <2>1 DEF WriteOwn, MarkBad, Settle, IInv, TypeOK
    <2> HIDE DEF c
    <2>3. IF c \in failed THEN f = "missing" ELSE f = "image"
      BY <2>1, <2>2 DEF IInv, Known
    <2>4. Fates[c] = "open" /\ Fates' = [Fates EXCEPT ![c] = f]
      BY <2>1, <2>2, SettlesAs
    <2> HIDE DEF f
    <2> QED
      BY <1>1, <2>1, <2>2, <2>3, <2>4, AssemblySteps
  <1>6. CASE Drain(w) \/ Cleanup(w)
    <2>1. PICK u \in Worker :
              /\ mail[u] # <<>>
              /\ Write(Head(mail[u]).chan, Head(mail[u]).what)
              /\ Settle(w, Head(mail[u]).chan)
      BY <1>6 DEF Drain, Cleanup, Receive
    <2> DEFINE c == Head(mail[u]).chan
               x == Head(mail[u]).what
               f == IF cube'[c] = "unwritten" THEN "missing" ELSE cube'[c]
    <2>2. c \in ChannelsOf(u) /\ c \in Channel /\ c \in WorkLeft(u)
          /\ x = IF c \in failed THEN "blank" ELSE "image"
      BY <2>1, Takes
    <2> HIDE DEF c, x
    <2>3. /\ settled' = [settled EXCEPT ![c] = @ + 1]
          /\ \/ cube' = [cube EXCEPT ![c] = x] /\ failed' = failed
             \/ failed' = failed \cup {c} /\ cube' = cube
      BY <2>1 DEF Write, Settle, c, x
    <2>4. cube \in [Channel -> {"unwritten", "image", "blank"}] /\ cube[c] = "unwritten"
      BY <2>2 DEF IInv, TypeOK, Known
    <2>5. Fates[c] = "open" /\ Fates' = [Fates EXCEPT ![c] = f]
      BY <2>2, <2>3, <2>4, SettlesAs
    <2>6. CASE cube' = [cube EXCEPT ![c] = x] /\ failed' = failed
      <3>1. f = x
        BY <2>2, <2>4, <2>6
      <3> QED
        BY <1>1, <2>2, <2>5, <2>6, <3>1, AssemblySteps
    <2>7. CASE failed' = failed \cup {c} /\ cube' = cube
      <3>1. f = "missing"
        BY <2>4, <2>7
      <3> QED
        BY <1>1, <2>2, <2>5, <2>7, <3>1, AssemblySteps
    <2> QED
      BY <2>3, <2>6, <2>7
  <1> QED
    BY <1>2, <1>3, <1>4, <1>5, <1>6
       DEF WorkerStep, OpenCubes, ImageChannel, NoMoreChannels, SendSlice, SendBlank,
           SendReturns, Drained, Finish

\* All writers have left, and with them every channel.
LEMMA BarrierCloses ==
    ASSUME IInv, PassFinalBarrier
    PROVE  Assembled!AssemblyNext
  <1>1. Worker # {} /\ (\A w \in Worker : pc[w] = "finished" /\ pc'[w] = "over")
        /\ UNCHANGED <<cube, settled, failed>>
    BY DEF PassFinalBarrier, AllAt
  <1>2. ~Closed /\ Closed' /\ UNCHANGED Fates
    BY <1>1 DEF Closed, Fates, Fate
  <1>3. ASSUME NEW c \in Channel PROVE Fates[c] # "open"
    <2>1. PICK w \in Worker : c \in ChannelsOf(w) /\ Writer[w] \in Worker /\ w \in Member(Writer[w])
      BY OfSomebody
    <2>2. WorkLeft(w) = {}
      BY <1>1, <2>1, WriterLeaves
    <2>3. settled[c] = 1
      BY <2>1, <2>2 DEF IInv, Known
    <2>4. cube[c] \in {"unwritten", "image", "blank"}
      BY DEF IInv, TypeOK
    <2> QED
      BY <2>3, <2>4 DEF Fates, Fate
  <1> QED
    BY <1>1, <1>2, <1>3, AssemblySteps

\* Every behaviour of the loop settles each channel once: a good one as its
\* image or, if writing fails, not at all, a bad one as a blank slice or not at
\* all; and the last barrier is passed when all are settled
\* (ContinuumWorker.cc:1185-1425).
THEOREM AssemblyImplemented == FirstEpochsSucceed /\ Spec => ImplementsAssembly
  <1>1. Init => Assembled!AssemblyInit
    <2> SUFFICES ASSUME Init PROVE Assembled!AssemblyInit
      OBVIOUS
    <2>1. ~Closed
      BY DEF Init, Closed
    <2> QED
      BY <2>1 DEF Init, Assembled!AssemblyInit, Closed
  <1>2. FirstEpochsSucceed /\ IInv /\ [Next]_vars =>
            [Assembled!AssemblyNext]_(Assembled!assemblyVars)
    <2> SUFFICES ASSUME FirstEpochsSucceed, IInv, [Next]_vars
                 PROVE  Assembled!AssemblyNext \/ UNCHANGED Assembled!assemblyVars
      OBVIOUS
    <2>1. CASE PassBarrier \/ UNCHANGED vars
      <3>1. UNCHANGED <<Closed, failed, settled, cube>>
        BY <2>1 DEF PassBarrier, AllAt, Closed, vars
      <3>2. UNCHANGED Fates
        BY <3>1 DEF Fates, Fate
      <3> QED
        BY <3>1, <3>2, AssemblySteps
    <2> QED
      BY <2>1, WorkersAssemble, BarrierCloses DEF Next
  <1>3. FirstEpochsSucceed => FirstEpochsSucceed'
    BY DEF FirstEpochsSucceed, Index, ChannelOf
  <1> QED
    BY <1>1, <1>2, <1>3, Invariance, PTL DEF Spec, ImplementsAssembly, Assembled!Assembly
-----------------------------------------------------------------------------
(* Taking turns: the sizes of a job.                                        *)

\* How many channels a rank has.
Share(r) == Cardinality(Channels(r))

\* The order of products.
LEMMA TimesOrder ==
    ASSUME NEW a \in Nat, NEW b \in Nat, NEW n \in Nat, a <= b
    PROVE  a * n <= b * n /\ a * n \in Nat /\ b * n \in Nat
<1>1. PICK d \in Nat : b = a + d
  <2>1. b - a \in Nat /\ b = a + (b - a)
    OBVIOUS
  <2> QED
    BY <2>1
<1>2. (a + d) * n = a * n + d * n /\ d * n \in Nat /\ a * n \in Nat
  OBVIOUS
<1>3. \A x, y \in Nat : x <= x + y
  OBVIOUS
<1> QED
  BY <1>1, <1>2, <1>3

\* One time more.
LEMMA TimesMore ==
    ASSUME NEW a \in Nat, NEW n \in Nat
    PROVE  (a + 1) * n = a * n + n /\ a * n \in Nat
OBVIOUS

\* A job has ranks, channels and mosaics; the channels are those of an even
\* division and a remainder.
LEMMA JobSizes ==
    ASSUME job \in Jobs
    PROVE  /\ job.ranks \in Nat \ {0} /\ job.channels \in Nat \ {0} /\ job.mosaics \in Nat \ {0}
           /\ Div \in Nat /\ Rem \in Nat /\ Rem < job.ranks
           /\ job.channels = job.ranks * Div + Rem
           /\ ~Linmos => job.mosaics = 1
           /\ 0 \in Rank
<1>1. /\ job.ranks \in Nat \ {0} /\ job.channels \in Nat \ {0} /\ job.mosaics \in Nat \ {0}
      /\ ~Linmos => job.mosaics = 1
  BY JobsAssumption DEF Linmos
<1>2. /\ Div \in Nat /\ Rem \in Nat /\ Rem < job.ranks
      /\ job.channels = job.ranks * Div + Rem
  <2>1. \A N \in Nat \ {0}, u \in Nat :
            /\ u \div N \in Nat /\ u % N \in Nat /\ u % N < N
            /\ u = N * (u \div N) + (u % N)
    OBVIOUS
  <2> QED
    BY <1>1, <2>1 DEF Div, Rem
<1> QED
  BY <1>1, <1>2 DEF Rank

\* Quotient and remainder are the only ones.
LEMMA OneQuotient ==
    ASSUME NEW c \in Nat, NEW q \in Nat, NEW N \in Nat \ {0}
    PROVE  c \div N = q <=> q * N <= c /\ c < (q + 1) * N
<1> DEFINE d == c \div N
<1>1. d \in Nat /\ c % N \in Nat /\ c % N < N /\ c = N * d + (c % N)
  OBVIOUS
<1> HIDE DEF d
<1>2. d * N <= c /\ c < (d + 1) * N
  BY <1>1
<1>3. ASSUME q < d PROVE (q + 1) * N <= c
  <2>1. q + 1 \in Nat /\ q + 1 <= d
    BY <1>1, <1>3
  <2>2. (q + 1) * N <= d * N
    BY <1>1, <2>1, TimesOrder
  <2> QED
    BY <1>1, <1>2, <2>1, <2>2, TimesOrder
<1>4. ASSUME d < q PROVE c < q * N
  <2>1. d + 1 \in Nat /\ d + 1 <= q
    BY <1>1, <1>4
  <2>2. (d + 1) * N <= q * N /\ (d + 1) * N \in Nat /\ q * N \in Nat
    BY <2>1, TimesOrder
  <2> QED
    BY <1>2, <2>2
<1>5. d = q \/ d < q \/ q < d
  BY <1>1
<1>6. q * N \in Nat /\ (q + 1) * N \in Nat
  OBVIOUS
<1>7. d = q <=> q * N <= c /\ c < (q + 1) * N
  BY <1>2, <1>3, <1>4, <1>5, <1>6
<1> QED
  BY <1>7 DEF d

\* The channels of a rank are channels of the cube.
LEMMA RanksChannels ==
    ASSUME job \in Jobs, NEW r \in Rank
    PROVE  /\ Channels(r) \subseteq Plane /\ IsFiniteSet(Channels(r))
           /\ Share(r) \in Nat /\ Share(r) <= job.channels
<1>0. /\ job.ranks \in Nat \ {0} /\ job.channels \in Nat \ {0} /\ job.mosaics \in Nat \ {0}
      /\ Div \in Nat /\ Rem \in Nat /\ Rem < job.ranks
      /\ job.channels = job.ranks * Div + Rem
  BY JobSizes
<1> USE <1>0
<1>1. Channels(r) \subseteq Plane
  <2>1. CASE Linmos
    BY <2>1 DEF Channels, LinmosChannels
  <2>2. CASE ~Linmos
    <3>1. r \in Nat /\ r + 1 <= job.ranks
      BY DEF Rank
    <3>2. /\ r * Div \in Nat
          /\ (r + 1) * Div = r * Div + Div /\ (r + 1) * Div <= job.ranks * Div
          /\ job.ranks * Div \in Nat
      <4>1. r + 1 \in Nat /\ job.ranks \in Nat /\ Div \in Nat
        BY <3>1
      <4>2. (r + 1) * Div <= job.ranks * Div /\ job.ranks * Div \in Nat
        BY <3>1, <4>1, TimesOrder
      <4>3. (r + 1) * Div = r * Div + Div /\ r * Div \in Nat
        BY <3>1, <4>1, TimesMore
      <4> QED
        BY <4>2, <4>3
    <3>3. CASE r < Rem
      <4>1. r + 2 <= job.ranks
        BY <3>1, <3>3
      <4>2. (r + 2) * Div = r * Div + Div + Div /\ (r + 2) * Div <= job.ranks * Div
        <5>1. (r + 2) * Div <= job.ranks * Div
          BY <3>1, <4>1, TimesOrder
        <5>2. (r + 2) * Div = (r + 1) * Div + Div
          <6>1. (r + 1) + 1 = r + 2 /\ r + 1 \in Nat
            BY <3>1
          <6> QED
            BY <6>1, TimesMore
        <5> QED
          BY <3>2, <5>1, <5>2
      <4>3. DeconvolverChannels(r) = (r * Div + Div)..(r * Div + Div + (Div + 1) - 1)
        BY <3>3 DEF DeconvolverChannels
      <4>4. r * Div + Div + (Div + 1) - 1 <= job.channels - 1
        BY <3>1, <3>2, <3>3, <4>2
      <4>5. \A a \in Nat, b \in Int, n \in Nat : b <= n - 1 => a..b \subseteq 0..(n - 1)
        OBVIOUS
      <4>6. DeconvolverChannels(r) \subseteq Plane
        <5>1. /\ r * Div + Div \in Nat /\ r * Div + Div + (Div + 1) - 1 \in Int
              /\ job.channels \in Nat
          BY <3>2
        <5> QED
          BY <4>3, <4>4, <4>5, <5>1 DEF Plane
      <4> QED
        BY <2>2, <4>6 DEF Channels
    <3>4. CASE ~(r < Rem)
      <4>1. DeconvolverChannels(r) = (r * Div + Rem)..(r * Div + Rem + (Div + 0) - 1)
        BY <3>4 DEF DeconvolverChannels
      <4>2. r * Div + Rem + (Div + 0) - 1 <= job.channels - 1
        BY <3>1, <3>2
      <4>3. \A a \in Nat, b \in Int, n \in Nat : b <= n - 1 => a..b \subseteq 0..(n - 1)
        OBVIOUS
      <4>4. DeconvolverChannels(r) \subseteq Plane
        <5>1. /\ r * Div + Rem \in Nat /\ r * Div + Rem + (Div + 0) - 1 \in Int
              /\ job.channels \in Nat
          BY <3>2
        <5> QED
          BY <4>1, <4>2, <4>3, <5>1 DEF Plane
      <4> QED
        BY <2>2, <4>4 DEF Channels
    <3> QED
      BY <3>3, <3>4
  <2> QED
    BY <2>1, <2>2
<1>2. IsFiniteSet(Plane) /\ Cardinality(Plane) = job.channels
  <2>1. job.channels \in Nat \ {0}
    OBVIOUS
  <2>2. 0 \in Int /\ job.channels - 1 \in Int /\ ~(0 > job.channels - 1)
        /\ (job.channels - 1) - 0 + 1 = job.channels
    BY <2>1
  <2> QED
    BY <2>2, FS_Interval DEF Plane
<1> QED
  BY <1>1, <1>2, FS_Subset, FS_CardinalityType DEF Share

\* The division meant for every rank of linmos covers the cube.
LEMMA PerRankCovers ==
    ASSUME job \in Jobs
    PROVE  /\ PerRank \in Nat \ {0} /\ job.channels <= job.ranks * PerRank
           /\ IsEven => PerRank = Div
<1>0. /\ job.ranks \in Nat \ {0} /\ job.channels \in Nat \ {0} /\ job.mosaics \in Nat \ {0}
      /\ Div \in Nat /\ Rem \in Nat /\ Rem < job.ranks
      /\ job.channels = job.ranks * Div + Rem
  BY JobSizes
<1> USE <1>0
<1>1. CASE job.ranks > job.channels
  <2>1. PerRank = 1
    BY <1>1 DEF PerRank
  <2>2. ~IsEven
    <3>1. \A u, N \in Nat : u < N => u % N = u
      OBVIOUS
    <3> QED
      BY <1>1, <3>1 DEF IsEven, Rem
  <2> QED
    BY <1>1, <2>1, <2>2
<1>2. CASE ~(job.ranks > job.channels) /\ IsEven
  <2>1. PerRank = Div /\ job.channels = job.ranks * Div
    BY <1>2 DEF PerRank, IsEven
  <2>2. Div # 0
    BY <2>1
  <2> QED
    BY <2>1, <2>2
<1>3. CASE ~(job.ranks > job.channels) /\ ~IsEven
  <2>1. PerRank = Div + 1
    BY <1>3 DEF PerRank
  <2>2. \A n \in Nat, d \in Nat : n * (d + 1) = n * d + n /\ n * d \in Nat
    BY ONLY TRUE
  <2>3. job.ranks * (Div + 1) = job.ranks * Div + job.ranks /\ job.ranks * Div \in Nat
    BY <2>2
  <2> QED
    BY <1>3, <2>1, <2>3
<1> QED
  BY <1>1, <1>2, <1>3

\* What a rank has of the cube if it is a section.
LEMMA SectionChannels ==
    ASSUME job \in Jobs, NEW r \in Rank, NEW N \in Nat \ {0}
    PROVE  {c \in Plane : c \div N = r} = {c \in Plane : r * N <= c /\ c < (r + 1) * N}
<1>1. r \in Nat /\ Plane \subseteq Nat
  BY JobSizes DEF Rank, Plane
<1> QED
  BY <1>1, OneQuotient

\* In an even division a rank of the deconvolver has a section.
LEMMA EvenDeconvolver ==
    ASSUME job \in Jobs, NEW r \in Rank, IsEven
    PROVE  DeconvolverChannels(r) = (r * Div)..(r * Div + Div - 1)
<1>1. r \in Nat /\ r * Div \in Nat /\ Rem = 0 /\ Div \in Nat
  BY JobSizes DEF Rank, IsEven
<1> QED
  BY <1>1 DEF DeconvolverChannels

\* No channel is divided among two ranks, but for an uneven deconvolver.
LEMMA OneOwner ==
    ASSUME job \in Jobs, Linmos \/ IsEven, NEW r \in Rank, NEW s \in Rank,
           NEW c \in Channels(r), c \in Channels(s)
    PROVE  r = s
<1>0. /\ job.ranks \in Nat \ {0} /\ job.channels \in Nat \ {0} /\ job.mosaics \in Nat \ {0}
      /\ Div \in Nat /\ Rem \in Nat /\ Rem < job.ranks
      /\ job.channels = job.ranks * Div + Rem
  BY JobSizes
<1> USE <1>0
<1>1. CASE Linmos
  BY <1>1 DEF Channels, LinmosChannels
<1>2. CASE ~Linmos
  <2>1. r \in Nat /\ s \in Nat /\ IsEven /\ c \in DeconvolverChannels(r) /\ c \in DeconvolverChannels(s)
    BY <1>2 DEF Rank, Channels
  <2>2. /\ r * Div \in Nat /\ s * Div \in Nat
        /\ (r + 1) * Div = r * Div + Div /\ (s + 1) * Div = s * Div + Div
    BY <2>1, TimesMore
  <2>3. c \in Nat /\ r * Div <= c /\ c < (r + 1) * Div /\ s * Div <= c /\ c < (s + 1) * Div
    <3>1. c \in (r * Div)..(r * Div + Div - 1) /\ c \in (s * Div)..(s * Div + Div - 1)
      BY <2>1, EvenDeconvolver
    <3>2. \A a, n \in Nat : \A x \in a..(a + n - 1) : x \in Nat /\ a <= x /\ x < a + n
      OBVIOUS
    <3>3. Div \in Nat
      OBVIOUS
    <3> QED
      BY <2>2, <3>1, <3>2, <3>3
  <2>4. Div \in Nat \ {0}
    BY <2>2, <2>3
  <2>5. c \div Div = r /\ c \div Div = s
    BY <2>1, <2>3, <2>4, OneQuotient
  <2> QED
    BY <2>5
<1> QED
  BY <1>1, <1>2

\* And every channel is given to a rank.
LEMMA EveryChannelGiven ==
    ASSUME job \in Jobs, Linmos \/ IsEven, NEW c \in Plane
    PROVE  \E r \in Rank : c \in Channels(r)
<1>0. /\ job.ranks \in Nat \ {0} /\ job.channels \in Nat \ {0} /\ job.mosaics \in Nat \ {0}
      /\ Div \in Nat /\ Rem \in Nat /\ Rem < job.ranks
      /\ job.channels = job.ranks * Div + Rem
  BY JobSizes
<1> USE <1>0
<1>1. c \in Nat /\ c < job.channels
  BY DEF Plane
<1>2. \A N \in Nat \ {0} : c \div N \in Nat /\ c % N \in Nat /\ c % N < N /\ N * (c \div N) <= c
  <2>1. \A N \in Nat \ {0}, u \in Nat :
            /\ u \div N \in Nat /\ u % N \in Nat /\ u % N < N
            /\ u = N * (u \div N) + (u % N)
    OBVIOUS
  <2> SUFFICES ASSUME NEW N \in Nat \ {0}
               PROVE  c \div N \in Nat /\ c % N \in Nat /\ c % N < N /\ N * (c \div N) <= c
    OBVIOUS
  <2> DEFINE d == c \div N
             e == c % N
  <2>2. d \in Nat /\ e \in Nat /\ e < N /\ c = N * d + e
    BY <1>1, <2>1
  <2> HIDE DEF d, e
  <2>3. N * d \in Nat
    BY <2>2
  <2>4. N * d <= c
    BY <2>2, <2>3
  <2> QED
    BY <2>2, <2>4 DEF d, e
<1>3. ASSUME NEW N \in Nat \ {0}, job.channels <= job.ranks * N PROVE c \div N \in Rank
  <2>1. ASSUME job.ranks <= c \div N PROVE FALSE
    <3>1. job.ranks * N <= (c \div N) * N /\ (c \div N) * N = N * (c \div N)
      BY <1>2, <2>1, TimesOrder
    <3>2. job.ranks * N \in Nat /\ N * (c \div N) \in Nat
      BY <1>2
    <3> QED
      BY <1>1, <1>2, <1>3, <3>1, <3>2
  <2> QED
    BY <1>2, <2>1 DEF Rank
<1>4. CASE Linmos /\ job.contiguous
  <2>1. c % job.ranks \in Rank
    BY <1>2 DEF Rank
  <2> QED
    BY <1>4, <2>1 DEF Channels, LinmosChannels
<1>5. CASE Linmos /\ ~job.contiguous
  <2>1. c \div PerRank \in Rank
    BY <1>3, PerRankCovers
  <2> QED
    BY <1>5, <2>1 DEF Channels, LinmosChannels
<1>6. CASE ~Linmos
  <2>1. IsEven /\ job.channels = job.ranks * Div
    BY <1>6 DEF IsEven
  <2>2. Div \in Nat \ {0}
    BY <2>1
  <2> DEFINE r == c \div Div
  <2>3. r \in Rank /\ r \in Nat
    BY <1>3, <2>1, <2>2 DEF Rank
  <2>4. r * Div <= c /\ c < (r + 1) * Div
    BY <1>1, <2>2, <2>3, OneQuotient
  <2> HIDE DEF r
  <2>5. (r + 1) * Div = r * Div + Div /\ r * Div \in Nat
    BY <2>3, TimesMore
  <2>6. c \in DeconvolverChannels(r)
    BY <1>1, <2>1, <2>3, <2>4, <2>5, EvenDeconvolver
  <2> QED
    BY <1>6, <2>3, <2>6 DEF Channels
<1> QED
  BY <1>4, <1>5, <1>6

\* A rank that counts from below: every so manieth channel.
LEMMA StrideSize ==
    ASSUME job \in Jobs, NEW r \in Rank, IsEven
    PROVE  Cardinality({c \in Plane : c % job.ranks = r}) = Div
<1> DEFINE N == job.ranks
           S == {c \in Plane : c % N = r}
           f == [k \in 0..(Div - 1) |-> k * N + r]
<1>1. /\ N \in Nat \ {0} /\ Div \in Nat /\ job.channels = N * Div /\ r \in Nat /\ r < N
  BY JobSizes DEF IsEven, Rank
<1> HIDE DEF N
<1>2. ASSUME NEW k \in 0..(Div - 1) PROVE k * N + r \in S
  <2>1. k \in Nat /\ k + 1 <= Div
    BY <1>1
  <2>2. (k + 1) * N <= Div * N /\ (k + 1) * N = k * N + N /\ k * N \in Nat /\ Div * N = N * Div
    <3>1. (k + 1) * N <= Div * N
      BY <1>1, <2>1, TimesOrder
    <3>2. (k + 1) * N = k * N + N /\ k * N \in Nat
      BY <1>1, <2>1, TimesMore
    <3>3. Div * N = N * Div
      BY <1>1
    <3> QED
      BY <3>1, <3>2, <3>3
  <2> DEFINE c == k * N + r
  <2>3. c \in Nat /\ k * N <= c /\ c < (k + 1) * N /\ c < job.channels /\ N * Div \in Nat
    BY <1>1, <2>2
  <2>4. c \div N = k
    BY <1>1, <2>1, <2>3, OneQuotient
  <2>5. c = N * (c \div N) + (c % N) /\ c % N \in Nat
    <3>1. \A n \in Nat \ {0}, u \in Nat : u = n * (u \div n) + (u % n) /\ u % n \in Nat
      BY ONLY TRUE
    <3> QED
      BY <1>1, <2>3, <3>1
  <2>6. N * k = k * N
    BY <1>1, <2>1
  <2>7. c % N = r
    BY <1>1, <2>2, <2>4, <2>5, <2>6
  <2>8. c \in Plane
    BY <1>1, <2>3 DEF Plane
  <2> QED
    BY <2>7, <2>8
<1>3. f \in [0..(Div - 1) -> S]
  BY <1>2
<1>4. ASSUME NEW j \in 0..(Div - 1), NEW k \in 0..(Div - 1), f[j] = f[k] PROVE j = k
  <2>1. j * N + r = k * N + r /\ j \in Nat /\ k \in Nat
    BY <1>1, <1>4
  <2>2. j * N \in Nat /\ k * N \in Nat /\ (j + 1) * N = j * N + N /\ (k + 1) * N = k * N + N
    BY <1>1, <2>1, TimesMore
  <2>3. j * N = k * N /\ j * N < (j + 1) * N /\ k * N < (k + 1) * N
    BY <1>1, <2>1, <2>2
  <2>4. (j * N) \div N = j /\ (j * N) \div N = k
    BY <1>1, <2>1, <2>2, <2>3, OneQuotient
  <2> QED
    BY <2>4
<1>5. ASSUME NEW c \in S PROVE \E k \in 0..(Div - 1) : f[k] = c
  <2>1. c \in Nat /\ c < job.channels /\ c % N = r
    BY <1>1 DEF Plane
  <2> DEFINE k == c \div N
  <2>2. k \in Nat /\ c = N * k + r
    <3>1. \A n \in Nat \ {0}, u \in Nat : u \div n \in Nat /\ u = n * (u \div n) + (u % n)
      BY ONLY TRUE
    <3> QED
      BY <1>1, <2>1, <3>1
  <2> HIDE DEF k
  <2>3. k < Div
    <3>1. ASSUME Div <= k PROVE FALSE
      <4>1. Div * N <= k * N /\ Div * N \in Nat /\ k * N \in Nat
        BY <1>1, <2>2, <3>1, TimesOrder
      <4>2. Div * N = N * Div /\ k * N = N * k
        BY <1>1, <2>2
      <4> QED
        BY <1>1, <2>1, <2>2, <4>1, <4>2
    <3> QED
      BY <1>1, <2>2, <3>1
  <2>4. k \in 0..(Div - 1) /\ k * N + r = c
    BY <1>1, <2>2, <2>3
  <2> QED
    BY <2>4
<1>6. f \in Bijection(0..(Div - 1), S)
  <2> HIDE DEF f, S
  <2> QED
    BY <1>3, <1>4, <1>5, Fun_IsBij
<1>7. IsFiniteSet(0..(Div - 1)) /\ Cardinality(0..(Div - 1)) = Div
  <2>1. 0 \in Int /\ Div - 1 \in Int /\ (Div - 1) - 0 + 1 = Div /\ (0 > Div - 1 => Div = 0)
    BY <1>1
  <2> QED
    BY <2>1, FS_Interval
<1>8. Cardinality(S) = Div
  <2> DEFINE D == 0..(Div - 1)
  <2> HIDE DEF f, S, D
  <2>1. IsFiniteSet(D) /\ f \in Bijection(D, S)
    BY <1>6, <1>7 DEF D
  <2>2. Cardinality(S) = Cardinality(D)
    BY <2>1, FS_Bijection DEF ExistsBijection
  <2> QED
    BY <1>7, <2>2 DEF D
<1> QED
  BY <1>8 DEF N

\* The size of an interval of channels.
LEMMA SectionSize ==
    ASSUME NEW a \in Nat, NEW n \in Nat
    PROVE  Cardinality(a..(a + n - 1)) = n
<1>1. a \in Int /\ a + n - 1 \in Int /\ (a + n - 1) - a + 1 = n /\ (a > a + n - 1 => n = 0)
  OBVIOUS
<1> QED
  BY <1>1, FS_Interval

\* In an even division all ranks have as many channels.
LEMMA EvenShares ==
    ASSUME job \in Jobs, NEW r \in Rank, IsEven
    PROVE  Share(r) = Div
<1>1. CASE Linmos /\ job.contiguous
  BY <1>1, StrideSize DEF Share, Channels, LinmosChannels
<1>2. CASE Linmos /\ ~job.contiguous
  <2>1. PerRank = Div /\ Div \in Nat \ {0}
    BY PerRankCovers
  <2>2. r \in Nat /\ r + 1 <= job.ranks /\ job.ranks \in Nat /\ job.channels = job.ranks * Div
    BY JobSizes DEF Rank, IsEven
  <2>3. (r + 1) * Div <= job.ranks * Div /\ job.ranks * Div \in Nat
    BY <2>1, <2>2, TimesOrder
  <2>4. (r + 1) * Div = r * Div + Div /\ r * Div \in Nat
    BY <2>1, <2>2, TimesMore
  <2>5. {c \in Plane : r * Div <= c /\ c < (r + 1) * Div} = (r * Div)..(r * Div + Div - 1)
    <3>1. \A a, n, m \in Nat : a + n <= m =>
              {c \in 0..(m - 1) : a <= c /\ c < a + n} = a..(a + n - 1)
      BY ONLY TRUE
    <3> QED
      BY <2>1, <2>2, <2>3, <2>4, <3>1 DEF Plane
  <2>6. Channels(r) = (r * Div)..(r * Div + Div - 1)
    BY <1>2, <2>1, <2>5, SectionChannels DEF Channels, LinmosChannels
  <2> QED
    BY <2>1, <2>4, <2>6, SectionSize DEF Share
<1>3. CASE ~Linmos
  <2>1. r \in Nat /\ Div \in Nat
    BY JobSizes DEF Rank
  <2>2. r * Div \in Nat
    BY <2>1, TimesMore
  <2>3. Channels(r) = (r * Div)..(r * Div + Div - 1)
    BY <1>3, EvenDeconvolver DEF Channels
  <2> QED
    BY <2>1, <2>2, <2>3, SectionSize DEF Share
<1> QED
  BY <1>1, <1>2, <1>3

\* The master of the deconvolver has a channel.
LEMMA MasterHasChannel ==
    ASSUME job \in Jobs, ~Linmos
    PROVE  0 < Share(0)
<1>1. /\ Div \in Nat /\ Rem \in Nat /\ job.ranks \in Nat \ {0} /\ job.channels \in Nat \ {0}
      /\ job.channels = job.ranks * Div + Rem
  BY JobSizes
<1>2. 0 * Div = 0
  BY <1>1
<1>3. CASE 0 < Rem
  <2>1. DeconvolverChannels(0) = Div..(Div + (Div + 1) - 1)
    BY <1>1, <1>2, <1>3 DEF DeconvolverChannels
  <2>2. Cardinality(Div..(Div + (Div + 1) - 1)) = Div + 1
    <3>1. Div + 1 \in Nat
      BY <1>1
    <3> QED
      BY <1>1, <3>1, SectionSize
  <2> QED
    BY <1>1, <2>1, <2>2 DEF Share, Channels
<1>4. CASE Rem = 0
  <2>1. Div # 0
    BY <1>1, <1>4
  <2>2. DeconvolverChannels(0) = 0..(0 + Div - 1)
    BY <1>1, <1>2, <1>4 DEF DeconvolverChannels
  <2>3. Cardinality(0..(0 + Div - 1)) = Div
    BY <1>1, SectionSize
  <2> QED
    BY <1>1, <2>1, <2>2, <2>3 DEF Share, Channels
<1> QED
  BY <1>1, <1>3, <1>4

\* As far as a rank has channels there is one that has so many before it.
LEMMA NthExists ==
    ASSUME NEW S, S \subseteq Nat, IsFiniteSet(S), NEW k \in Nat, k < Cardinality(S)
    PROVE  \E c \in S : Cardinality({d \in S : d < c}) = k
<1> DEFINE Before(c) == {d \in S : d < c}
           Missing == {n \in Nat : n < Cardinality(S) /\ \A c \in S : Cardinality(Before(c)) # n}
<1>1. Cardinality(S) \in Nat /\ \A c : IsFiniteSet(Before(c)) /\ Cardinality(Before(c)) \in Nat
  BY FS_CardinalityType, FS_Subset
<1>2. ASSUME Missing # {} PROVE FALSE
  <2>1. PICK m \in Missing : \A n \in Missing : m <= n
    <3>1. Missing \subseteq Nat
      OBVIOUS
    <3> HIDE DEF Missing
    <3> QED
      BY <1>2, <3>1, Smallest
  <2>2. m \in Nat /\ m < Cardinality(S) /\ \A c \in S : Cardinality(Before(c)) # m
    OBVIOUS
  <2>3. CASE m = 0
    <3>1. S # {}
      BY <1>1, <2>2, FS_EmptySet
    <3>2. PICK c \in S : \A n \in S : c <= n
      BY <3>1, Smallest
    <3>3. Before(c) = {}
      <4>1. \A d \in S : d \in Nat /\ c \in Nat /\ c <= d
        BY <3>2
      <4>2. \A d \in S : ~(d < c)
        BY <4>1
      <4> QED
        BY <4>2
    <3> QED
      BY <2>2, <2>3, <3>3, FS_EmptySet
  <2>4. CASE m # 0
    <3>1. m - 1 \in Nat /\ m - 1 < Cardinality(S) /\ ~(m <= m - 1)
      BY <1>1, <2>2, <2>4
    <3>2. m - 1 \notin Missing
      BY <2>1, <3>1
    <3>3. PICK b \in S : Cardinality(Before(b)) = m - 1
      BY <3>1, <3>2
    <3> DEFINE Until == Before(b) \cup {b}
               After == {d \in S : b < d}
    <3>4. IsFiniteSet(Until) /\ Cardinality(Until) = m
      <4>1. b \notin Before(b)
        OBVIOUS
      <4>2. Cardinality(Until) = Cardinality(Before(b)) + 1 /\ IsFiniteSet(Until)
        <5> HIDE DEF Before
        <5> QED
          BY <1>1, <4>1, FS_AddElement
      <4> QED
        BY <2>2, <3>3, <4>2
    <3>5. After # {}
      <4>1. Until \cup After = S
        <5>1. \A d \in S : d \in Nat /\ b \in Nat
          OBVIOUS
        <5>2. \A d \in S : d < b \/ d = b \/ b < d
          BY <5>1
        <5> QED
          BY <5>2
      <4> QED
        BY <2>2, <3>4, <4>1
    <3>6. PICK c \in After : \A n \in After : c <= n
      <4>1. After \subseteq Nat
        OBVIOUS
      <4> HIDE DEF After
      <4> QED
        BY <3>5, <4>1, Smallest
    <3>7. Before(c) = Until
      <4>1. c \in S /\ b < c /\ b \in Nat /\ c \in Nat
        BY <3>6
      <4>2. \A d \in S : d \in Nat /\ (b < d => c <= d)
        BY <3>6
      <4>3. \A d \in S : d < c <=> d < b \/ d = b
        BY <4>1, <4>2
      <4> QED
        BY <4>3
    <3> QED
      BY <2>2, <3>4, <3>6, <3>7
  <2> QED
    BY <2>3, <2>4
<1>3. k \notin Missing
  BY <1>2
<1> QED
  BY <1>1, <1>3

\* There is only one such.
LEMMA NthOnce ==
    ASSUME NEW S, S \subseteq Nat, IsFiniteSet(S), NEW b \in S, NEW c \in S, b < c
    PROVE  Cardinality({d \in S : d < b}) < Cardinality({d \in S : d < c})
<1> DEFINE Before(a) == {d \in S : d < a}
<1>1. Before(b) \cup {b} \subseteq Before(c) /\ b \notin Before(b)
  <2>1. b \in Nat /\ c \in Nat /\ ~(b < b)
    OBVIOUS
  <2>2. \A d \in S : d < b => d < c
    <3>1. \A d \in S : d \in Nat
      OBVIOUS
    <3> QED
      BY <2>1, <3>1
  <2> QED
    BY <2>1, <2>2
<1>2. \A a : IsFiniteSet(Before(a)) /\ Cardinality(Before(a)) \in Nat
  BY FS_CardinalityType, FS_Subset
<1>3. Cardinality(Before(b) \cup {b}) = Cardinality(Before(b)) + 1
  <2> HIDE DEF Before
  <2> QED
    BY <1>1, <1>2, FS_AddElement
<1>4. Cardinality(Before(b) \cup {b}) <= Cardinality(Before(c))
  <2> HIDE DEF Before
  <2> QED
    BY <1>1, <1>2, FS_Subset
<1>5. Cardinality(Before(b)) < Cardinality(Before(c))
  <2> HIDE DEF Before
  <2> QED
    BY <1>2, <1>3, <1>4
<1> QED
  BY <1>5

\* The channel a rank comes to next is one of its own.
LEMMA NthIsOwn ==
    ASSUME job \in Jobs, NEW r \in Rank, NEW k \in Nat, k < Share(r)
    PROVE  Nth(r, k) \in Channels(r)
<1>1. Channels(r) \subseteq Nat /\ IsFiniteSet(Channels(r))
  BY RanksChannels DEF Plane
<1>2. \E c \in Channels(r) : Cardinality({d \in Channels(r) : d < c}) = k
  BY <1>1, NthExists DEF Share
<1> QED
  BY <1>2 DEF Nth

\* And a rank comes to each of its channels.
LEMMA NthIsEach ==
    ASSUME job \in Jobs, NEW r \in Rank, NEW c \in Channels(r)
    PROVE  \E k \in 0..(Share(r) - 1) : Nth(r, k) = c
<1> DEFINE S == Channels(r)
           Before(a) == {d \in S : d < a}
           k == Cardinality(Before(c))
<1>1. S \subseteq Nat /\ IsFiniteSet(S) /\ Share(r) \in Nat
  BY RanksChannels DEF Plane
<1>2. \A a : IsFiniteSet(Before(a)) /\ Cardinality(Before(a)) \in Nat
  BY <1>1, FS_CardinalityType, FS_Subset
<1>3. k < Share(r)
  <2>1. Before(c) \subseteq S /\ Before(c) # S
    BY <1>1
  <2> HIDE DEF Before, S
  <2>2. Cardinality(Before(c)) < Cardinality(S)
    BY <1>1, <2>1, <1>2, FS_Subset, FS_CardinalityType
  <2> QED
    BY <2>2 DEF Share, S
<1>4. \A b \in S : Cardinality(Before(b)) = k => b = c
  <2> SUFFICES ASSUME NEW b \in S, b # c PROVE Cardinality(Before(b)) # k
    OBVIOUS
  <2>1. b \in Nat /\ c \in Nat /\ (b < c \/ c < b)
    BY <1>1
  <2>2. b < c => Cardinality(Before(b)) < k
    BY <1>1, NthOnce
  <2>3. c < b => k < Cardinality(Before(b))
    BY <1>1, NthOnce
  <2>4. Cardinality(Before(b)) \in Nat /\ k \in Nat
    BY <1>2
  <2> HIDE DEF Before, k
  <2> QED
    BY <2>1, <2>2, <2>3, <2>4
<1>5. k \in 0..(Share(r) - 1)
  BY <1>1, <1>2, <1>3
<1>6. Nth(r, k) = c
  BY <1>4 DEF Nth
<1> QED
  BY <1>5, <1>6
-----------------------------------------------------------------------------
(* Taking turns: the inductive invariant.                                   *)

\* The channels of its earlier mosaics, and of the present one those it has
\* passed the turn for, and those it has had the turn for.
Earlier(r) == (mosaic[r] - 1) * Share(r)
Passed(r) == IF stage[r] = "start" THEN 0 ELSE channel[r]
Taken(r) == IF stage[r] \in {"write", "pass"} THEN Passed(r) + 1 ELSE Passed(r)
Written(r) == IF stage[r] = "pass" THEN Passed(r) + 1 ELSE Passed(r)

TurnsTypes ==
    /\ job \in Jobs
    /\ stage \in [Rank -> {"start", "turn", "write", "pass", "barrier", "gone", "over"}]
    /\ mosaic \in [Rank -> 1..job.mosaics]
    /\ turns \in [Rank -> Nat] /\ channel \in [Rank -> Nat]
    /\ existing \subseteq 1..job.mosaics

\* The stage of a rank says how many channels it has left.
Progress(r) ==
    /\ channel[r] <= Share(r)
    /\ stage[r] \in {"turn", "write", "pass"} => channel[r] < Share(r)
    /\ stage[r] \in {"barrier", "over"} => channel[r] = Share(r)
    /\ stage[r] = "start" /\ mosaic[r] = 1 => channel[r] = 0

\* All are at the same mosaic, the last one in the end.
SameMosaic ==
    \A r, s \in Rank :
        /\ mosaic[r] = mosaic[s]
        /\ stage[r] = "over" => stage[s] = "over" /\ mosaic[s] = job.mosaics

\* The turns the rank before has passed on are those r has had and those that
\* wait for it.
Chained(r) ==
    IF r = 0 THEN Linmos => turns[0] = 0
    ELSE Earlier(r - 1) + Passed(r - 1) = turns[r] + (Earlier(r) + Taken(r))

\* The turn of the deconvolver is in one place.
OneTurn == ~Linmos => (\E x : Turn = {x}) /\ \A r \in Rank : turns[r] <= 1

\* Who is ahead of the start has the images before it.
Created ==
    /\ stage[0] # "start" => mosaic[0] \in existing
    /\ \A r \in Rank : NothingLeft /\ Taken(r) > 0 => mosaic[r] \in existing

\* What a rank writes is its own, and by now it has written all it came to.
OwnOnly ==
    \A x \in writes :
        /\ x \in (1..job.mosaics) \X Plane \X Rank
        /\ x[2] \in Channels(x[3])

WrittenSoFar(r) ==
    /\ \A m \in 1..(mosaic[r] - 1) : \A c \in Channels(r) : <<m, c, r>> \in writes
    /\ \A k \in 0..(Share(r) - 1) : k < Written(r) => <<mosaic[r], Nth(r, k), r>> \in writes

TurnsInv ==
    /\ TurnsTypes /\ SameMosaic /\ OneTurn /\ Created /\ OwnOnly
    /\ \A r \in Rank : Progress(r) /\ Chained(r) /\ WrittenSoFar(r)

\* The job stays, and with it the channels of every rank.
LEMMA JobStays ==
    ASSUME job' = job
    PROVE  /\ Rank' = Rank /\ Plane' = Plane /\ Linmos' = Linmos /\ NothingLeft' = NothingLeft
           /\ \A r : Channels(r)' = Channels(r) /\ Share(r)' = Share(r)
           /\ \A r, k : Nth(r, k)' = Nth(r, k)
<1>1. Rank' = Rank /\ Plane' = Plane /\ Linmos' = Linmos
  BY DEF Rank, Plane, Linmos
<1>2. Div' = Div /\ Rem' = Rem /\ IsEven' = IsEven
  BY DEF Div, Rem, IsEven
<1>3. PerRank' = PerRank
  BY <1>2 DEF PerRank
<1>4. \A r : DeconvolverChannels(r)' = DeconvolverChannels(r)
  BY <1>2 DEF DeconvolverChannels
<1>5. \A r : LinmosChannels(r)' = LinmosChannels(r)
  BY <1>1, <1>3 DEF LinmosChannels
<1>6. \A r : Channels(r)' = Channels(r)
  BY <1>1, <1>4, <1>5 DEF Channels
<1>7. \A r : Share(r)' = Share(r)
  BY <1>6 DEF Share
<1>8. \A r, k : Nth(r, k)' = Nth(r, k)
  BY <1>6 DEF Nth
<1>9. NothingLeft' = NothingLeft
  BY <1>2 DEF NothingLeft
<1> QED
  BY <1>1, <1>6, <1>7, <1>8, <1>9

\* No step changes the job.
LEMMA JobIsKept ==
    ASSUME [TurnsNext]_turnVars
    PROVE  job' = job
BY DEF TurnsNext, turnVars, Step, Start, TakeTurn, WritePlane, PassTurn, MosaicBarrier

\* What the invariant says of the counts of a rank, in numbers.
LEMMA RankNumbers ==
    ASSUME TurnsTypes, NEW r \in Rank
    PROVE  /\ r \in Nat /\ Share(r) \in Nat /\ channel[r] \in Nat /\ turns[r] \in Nat
           /\ mosaic[r] \in 1..job.mosaics /\ mosaic[r] - 1 \in Nat
           /\ Earlier(r) \in Nat /\ Passed(r) \in Nat /\ Taken(r) \in Nat /\ Written(r) \in Nat
           /\ r # 0 => r - 1 \in Rank
<1>1. job \in Jobs /\ job.mosaics \in Nat /\ job.ranks \in Nat
  BY JobSizes DEF TurnsTypes
<1>2. Share(r) \in Nat
  BY <1>1, RanksChannels
<1>3. r \in Nat /\ channel[r] \in Nat /\ turns[r] \in Nat /\ mosaic[r] \in 1..job.mosaics
      /\ (r # 0 => r - 1 \in Rank)
  BY <1>1 DEF TurnsTypes, Rank
<1>4. mosaic[r] - 1 \in Nat
  BY <1>1, <1>3
<1>5. Earlier(r) \in Nat
  BY <1>2, <1>4, TimesMore DEF Earlier
<1> QED
  BY <1>2, <1>3, <1>4, <1>5 DEF Passed, Taken, Written

\* A step that changes nothing changes nothing of the invariant.
LEMMA TurnsStutter ==
    ASSUME TurnsInv, UNCHANGED turnVars
    PROVE  TurnsInv'
<1>1. /\ job' = job /\ stage' = stage /\ mosaic' = mosaic /\ channel' = channel
      /\ turns' = turns /\ existing' = existing /\ writes' = writes
  BY DEF turnVars
<1>2. /\ Rank' = Rank /\ Plane' = Plane /\ Linmos' = Linmos /\ NothingLeft' = NothingLeft
      /\ \A r : Channels(r)' = Channels(r) /\ Share(r)' = Share(r)
      /\ \A r, k : Nth(r, k)' = Nth(r, k)
  BY <1>1, JobStays
<1>3. \A r : /\ Earlier(r)' = Earlier(r) /\ Passed(r)' = Passed(r)
             /\ Taken(r)' = Taken(r) /\ Written(r)' = Written(r)
  BY <1>1, <1>2 DEF Earlier, Passed, Taken, Written
<1>4. Turn' = Turn
  BY <1>1, <1>2 DEF Turn
<1>5. TurnsTypes' /\ SameMosaic' /\ OneTurn' /\ Created' /\ OwnOnly'
  BY <1>1, <1>2, <1>3, <1>4 DEF TurnsInv, TurnsTypes, SameMosaic, OneTurn, Created, OwnOnly
<1>6. \A r \in Rank : Progress(r)' /\ Chained(r)'
  BY <1>1, <1>2, <1>3 DEF TurnsInv, Progress, Chained
<1>7. \A r \in Rank : WrittenSoFar(r)'
  BY <1>1, <1>2, <1>3 DEF TurnsInv, WrittenSoFar
<1> QED
  BY <1>2, <1>5, <1>6, <1>7 DEF TurnsInv

\* Where nobody has begun, the turn is with the master.
LEMMA TurnsBegin == TurnsInit => TurnsInv
<1> SUFFICES ASSUME TurnsInit PROVE TurnsInv
  OBVIOUS
<1>1. /\ job \in Jobs /\ job.mosaics \in Nat \ {0} /\ 0 \in Rank /\ Rank \subseteq Nat
  BY JobSizes DEF TurnsInit, Rank
<1>2. TurnsTypes
  BY <1>1 DEF TurnsInit, TurnsTypes
<1>3. \A r \in Rank : /\ stage[r] = "start" /\ mosaic[r] = 1 /\ channel[r] = 0 /\ turns[r] = 0
                      /\ Share(r) \in Nat /\ (r # 0 => r - 1 \in Rank)
  BY <1>2, RankNumbers DEF TurnsInit
<1>4. \A r \in Rank : Earlier(r) = 0 /\ Passed(r) = 0 /\ Taken(r) = 0 /\ Written(r) = 0
  <2>1. \A n \in Nat : (1 - 1) * n = 0
    OBVIOUS
  <2> QED
    BY <1>3, <2>1 DEF Earlier, Passed, Taken, Written
<1>5. OneTurn
  <2>1. /\ {q \in Rank : stage[q] \in {"write", "pass"}} = {}
        /\ {q \in Rank : turns[q] > 0} = {}
    BY <1>3
  <2>2. {q \in {0} : channel[q] = 0 /\ stage[q] \in {"start", "turn"}} = {0}
    BY <1>1, <1>3
  <2>3. Turn = {<<"begins", 0>>}
    BY <2>1, <2>2 DEF Turn
  <2>4. \A q \in Rank : turns[q] <= 1
    BY <1>3
  <2>5. \E x : Turn = {x}
    BY <2>3
  <2> QED
    BY <2>4, <2>5 DEF OneTurn
<1>6. SameMosaic /\ Created /\ OwnOnly
  BY <1>1, <1>3, <1>4 DEF SameMosaic, Created, OwnOnly, TurnsInit
<1>7. \A r \in Rank : Progress(r)
  BY <1>3 DEF Progress
<1>8. \A r \in Rank : Chained(r)
  BY <1>1, <1>3, <1>4 DEF Chained
<1>9. \A r \in Rank : WrittenSoFar(r)
  BY <1>3, <1>4 DEF WrittenSoFar
<1> QED
  BY <1>2, <1>5, <1>6, <1>7, <1>8, <1>9 DEF TurnsInv

\* A step of a rank leaves the others where they are.
LEMMA OtherRanks ==
    ASSUME TurnsInv, NEW r \in Rank, Step(r)
    PROVE  /\ job' = job /\ mosaic' = mosaic
           /\ \A s \in Rank : s # r => stage'[s] = stage[s] /\ channel'[s] = channel[s]
           /\ \A s \in Rank : Earlier(s)' = Earlier(s)
           /\ \A s \in Rank : s # r => /\ Passed(s)' = Passed(s) /\ Taken(s)' = Taken(s)
                                       /\ Written(s)' = Written(s)
           /\ stage[r] # "over" /\ \A s \in Rank : stage[s] # "over"
<1>1. job' = job /\ mosaic' = mosaic /\ stage[r] # "over"
  BY DEF Step, Start, TakeTurn, WritePlane, PassTurn
<1>2. \A s \in Rank : s # r => stage'[s] = stage[s] /\ channel'[s] = channel[s]
  BY DEF TurnsInv, TurnsTypes, GoOn, Step, Start, TakeTurn, WritePlane, PassTurn
<1>3. \A s \in Rank : Earlier(s)' = Earlier(s)
  BY <1>1, JobStays DEF Earlier
<1>4. \A s \in Rank : s # r => /\ Passed(s)' = Passed(s) /\ Taken(s)' = Taken(s)
                               /\ Written(s)' = Written(s)
  BY <1>2 DEF Passed, Taken, Written
<1>5. \A s \in Rank : stage[s] # "over"
  BY <1>1 DEF TurnsInv, SameMosaic
<1> QED
  BY <1>1, <1>2, <1>3, <1>4, <1>5

\* So it is enough to look at that rank, at the turns and at what it writes.
LEMMA RankStep ==
    ASSUME TurnsInv, NEW r \in Rank, Step(r),
           TurnsTypes', stage'[r] # "over", OneTurn', Created', OwnOnly', Progress(r)',
           writes \subseteq writes', WrittenSoFar(r)', \A s \in Rank : Chained(s)'
    PROVE  TurnsInv'
<1>1. /\ job' = job /\ mosaic' = mosaic /\ Rank' = Rank
      /\ \A s \in Rank : s # r => stage'[s] = stage[s] /\ channel'[s] = channel[s]
      /\ \A s \in Rank : s # r => Written(s)' = Written(s)
      /\ \A s \in Rank : stage[s] # "over"
  BY OtherRanks, JobStays
<1>2. SameMosaic'
  BY <1>1 DEF TurnsInv, SameMosaic
<1>3. \A s \in Rank : Share(s)' = Share(s) /\ Channels(s)' = Channels(s)
  BY <1>1, JobStays
<1>4. \A s \in Rank : Progress(s)'
  BY <1>1, <1>3 DEF TurnsInv, Progress
<1>5. \A s \in Rank : WrittenSoFar(s)'
  <2> SUFFICES ASSUME NEW s \in Rank, s # r PROVE WrittenSoFar(s)'
    OBVIOUS
  <2>1. WrittenSoFar(s) /\ Written(s)' = Written(s)
    BY <1>1 DEF TurnsInv
  <2>2. \A k : Nth(s, k)' = Nth(s, k)
    BY <1>1, JobStays
  <2> QED
    BY <1>1, <1>3, <2>1, <2>2 DEF WrittenSoFar
<1> QED
  BY <1>1, <1>2, <1>4, <1>5 DEF TurnsInv

\* Without turns left over from earlier mosaics a rank and the one before it
\* have had as many channels in them.
LEMMA SameBefore ==
    ASSUME TurnsInv, NothingLeft, NEW r \in Rank, r # 0
    PROVE  Earlier(r) = Earlier(r - 1) /\ mosaic[r] = mosaic[r - 1]
<1>1. /\ job \in Jobs /\ r - 1 \in Rank /\ Share(r) \in Nat /\ Share(r - 1) \in Nat
      /\ mosaic[r] \in 1..job.mosaics /\ job.mosaics \in Nat
  BY RankNumbers, JobSizes DEF TurnsInv, TurnsTypes
<1>2. mosaic[r] = mosaic[r - 1]
  BY <1>1 DEF TurnsInv, SameMosaic
<1>3. CASE IsEven
  BY <1>1, <1>2, <1>3, EvenShares DEF Earlier
<1>4. CASE job.mosaics = 1
  <2>1. mosaic[r] - 1 = 0 /\ mosaic[r - 1] - 1 = 0
    BY <1>1, <1>2, <1>4
  <2>2. \A n \in Nat : 0 * n = 0
    OBVIOUS
  <2> QED
    BY <1>1, <1>2, <2>1, <2>2 DEF Earlier
<1> QED
  BY <1>2, <1>3, <1>4 DEF NothingLeft

\* A rank that has or has had a turn in this mosaic is behind the one before.
LEMMA BehindTheOneBefore ==
    ASSUME TurnsInv, NothingLeft, NEW r \in Rank, r # 0
    PROVE  Passed(r - 1) = turns[r] + Taken(r)
<1>1. Earlier(r - 1) + Passed(r - 1) = turns[r] + (Earlier(r) + Taken(r))
  BY DEF TurnsInv, Chained
<1>2. /\ Passed(r - 1) \in Nat /\ turns[r] \in Nat /\ Taken(r) \in Nat /\ Earlier(r) \in Nat
  BY RankNumbers DEF TurnsInv
<1>3. Earlier(r - 1) = Earlier(r)
  BY SameBefore
<1> QED
  BY <1>1, <1>2, <1>3

\* A rank begins a mosaic.
LEMMA StartKeeps ==
    ASSUME TurnsInv, NEW r \in Rank, Start(r)
    PROVE  TurnsInv'
<1>1. /\ Step(r) /\ TurnsTypes /\ job \in Jobs /\ job' = job /\ mosaic' = mosaic
      /\ turns' = turns /\ writes' = writes
  BY DEF Step, Start, TurnsInv, TurnsTypes
<1>2. /\ Rank' = Rank /\ Linmos' = Linmos /\ NothingLeft' = NothingLeft /\ Plane' = Plane
      /\ \A s : Channels(s)' = Channels(s) /\ Share(s)' = Share(s)
      /\ \A s, k : Nth(s, k)' = Nth(s, k)
  BY <1>1, JobStays
<1>3. Share(r) \in Nat /\ IsFiniteSet(Channels(r)) /\ (Channels(r) = {} => Share(r) = 0)
  BY <1>1, RanksChannels, FS_EmptySet DEF Share
<1>4. channel'[r] = 0 /\ stage'[r] \in {"gone", "turn", "barrier"}
      /\ (stage'[r] = "turn" => 0 < Share(r)) /\ (stage'[r] # "turn" => 0 = Share(r))
  BY <1>1, <1>3 DEF Start, TurnsTypes, GoOn, AfterChannels, Share
<1>5. existing' = IF r = 0 THEN existing \cup {mosaic[r]} ELSE existing
  BY DEF Start
<1>6. TurnsTypes'
  <2>1. stage' \in [Rank -> {"start", "turn", "write", "pass", "barrier", "gone", "over"}]
    BY <1>1 DEF Start, TurnsTypes, GoOn, AfterChannels
  <2>2. channel' \in [Rank -> Nat]
    BY <1>1 DEF Start, TurnsTypes
  <2>3. existing' \subseteq 1..job.mosaics
    BY <1>1, <1>5 DEF TurnsTypes
  <2> QED
    BY <1>1, <1>2, <2>1, <2>2, <2>3 DEF TurnsTypes
<1>7. \A s \in Rank : /\ Earlier(s)' = Earlier(s) /\ Passed(s)' = Passed(s)
                      /\ Taken(s)' = Taken(s) /\ Written(s)' = Written(s)
  <2>1. stage[r] = "start"
    BY DEF Start
  <2> QED
    BY <1>1, <1>4, <2>1, OtherRanks DEF Passed, Taken, Written
<1>8. OneTurn'
  <2> SUFFICES ASSUME ~Linmos PROVE Turn' = Turn
    BY <1>1, <1>2 DEF TurnsInv, OneTurn
  <2>1. {q \in Rank : stage'[q] \in {"write", "pass"}} = {q \in Rank : stage[q] \in {"write", "pass"}}
    <3>1. stage[r] = "start"
      BY DEF Start
    <3> QED
      BY <1>1, <1>4, <3>1, OtherRanks
  <2>2. {q \in {0} : channel'[q] = 0 /\ stage'[q] \in {"start", "turn"}} =
        {q \in {0} : channel[q] = 0 /\ stage[q] \in {"start", "turn"}}
    <3>1. 0 \in Rank /\ mosaic[r] \in 1..job.mosaics /\ job.mosaics = 1
      BY <1>1, JobSizes DEF TurnsTypes
    <3>2. CASE r = 0
      <4>1. stage[0] = "start" /\ channel[0] = 0
        BY <3>1, <3>2 DEF Start, TurnsInv, Progress
      <4>2. stage'[0] = "turn" /\ channel'[0] = 0
        BY <1>1, <1>4, <3>2, MasterHasChannel
      <4> QED
        BY <4>1, <4>2
    <3>3. CASE r # 0
      BY <1>1, <3>1, <3>3, OtherRanks
    <3> QED
      BY <3>2, <3>3
  <2> QED
    BY <1>1, <1>2, <2>1, <2>2 DEF Turn
<1>9. Created'
  BY <1>1, <1>2, <1>5, <1>7, OtherRanks, JobSizes DEF TurnsInv, Created
<1>10. OwnOnly' /\ WrittenSoFar(r)'
  <2>1. OwnOnly'
    BY <1>1, <1>2 DEF TurnsInv, OwnOnly
  <2> QED
    BY <1>1, <1>2, <1>7, <2>1 DEF TurnsInv, WrittenSoFar
<1>11. Progress(r)'
  BY <1>2, <1>3, <1>4 DEF Progress
<1>12. \A s \in Rank : Chained(s)'
  <2> SUFFICES ASSUME NEW s \in Rank PROVE Chained(s)'
    OBVIOUS
  <2>1. Chained(s) /\ (s # 0 => s - 1 \in Rank)
    BY <1>1, RankNumbers DEF TurnsInv
  <2> QED
    BY <1>1, <1>2, <1>7, <2>1 DEF Chained
<1> QED
  BY <1>1, <1>4, <1>6, <1>8, <1>9, <1>10, <1>11, <1>12, RankStep

\* Where the turn of the deconvolver is if a rank has it, or if a message is on
\* its way.
LEMMA TurnIsWith ==
    ASSUME TurnsInv, ~Linmos, NEW r \in Rank, stage[r] \in {"write", "pass"}
    PROVE  /\ \A q \in Rank : stage[q] \in {"write", "pass"} => q = r
           /\ \A q \in Rank : turns[q] = 0
           /\ ~(channel[0] = 0 /\ stage[0] \in {"start", "turn"})
<1>1. PICK x : Turn = {x}
  BY DEF TurnsInv, OneTurn
<1>2. \A q \in Rank : stage[q] \in {"write", "pass"} => <<"with", q>> \in Turn
  BY DEF Turn
<1>3. \A q \in Rank : turns[q] > 0 => <<"sent to", q>> \in Turn
  BY DEF Turn
<1>4. channel[0] = 0 /\ stage[0] \in {"start", "turn"} => <<"begins", 0>> \in Turn
  BY DEF Turn
<1>5. x = <<"with", r>>
  BY <1>1, <1>2
<1>6. \A q \in Rank : turns[q] \in Nat
  BY DEF TurnsInv, TurnsTypes
<1>7. \A q : <<"with", q>> = <<"with", r>> => q = r
  OBVIOUS
<1>8. \A q : <<"sent to", q>> # <<"with", r>> /\ <<"begins", q>> # <<"with", r>>
  OBVIOUS
<1> QED
  BY <1>1, <1>2, <1>3, <1>4, <1>5, <1>6, <1>7, <1>8

LEMMA TurnIsSent ==
    ASSUME TurnsInv, ~Linmos, NEW r \in Rank, turns[r] > 0
    PROVE  /\ \A q \in Rank : stage[q] \notin {"write", "pass"}
           /\ turns[r] = 1 /\ \A q \in Rank : q # r => turns[q] = 0
           /\ ~(channel[0] = 0 /\ stage[0] \in {"start", "turn"})
<1>1. PICK x : Turn = {x}
  BY DEF TurnsInv, OneTurn
<1>2. \A q \in Rank : stage[q] \in {"write", "pass"} => <<"with", q>> \in Turn
  BY DEF Turn
<1>3. \A q \in Rank : turns[q] > 0 => <<"sent to", q>> \in Turn
  BY DEF Turn
<1>4. channel[0] = 0 /\ stage[0] \in {"start", "turn"} => <<"begins", 0>> \in Turn
  BY DEF Turn
<1>5. x = <<"sent to", r>>
  BY <1>1, <1>3
<1>6. \A q \in Rank : turns[q] \in Nat /\ turns[q] <= 1
  BY DEF TurnsInv, TurnsTypes, OneTurn
<1>7. \A q : <<"sent to", q>> = <<"sent to", r>> => q = r
  OBVIOUS
<1>8. \A q : <<"with", q>> # <<"sent to", r>> /\ <<"begins", q>> # <<"sent to", r>>
  OBVIOUS
<1>9. \A q \in Rank : turns[q] > 0 => q = r
  BY <1>1, <1>3, <1>5, <1>7
<1>10. turns[r] = 1 /\ \A q \in Rank : q # r => turns[q] = 0
  BY <1>6, <1>9
<1>11. /\ \A q \in Rank : stage[q] \notin {"write", "pass"}
       /\ ~(channel[0] = 0 /\ stage[0] \in {"start", "turn"})
  BY <1>1, <1>2, <1>4, <1>5, <1>8
<1> QED
  BY <1>10, <1>11

LEMMA TurnBegins ==
    ASSUME TurnsInv, ~Linmos, channel[0] = 0, stage[0] = "turn"
    PROVE  /\ \A q \in Rank : stage[q] \notin {"write", "pass"}
           /\ \A q \in Rank : turns[q] = 0
<1>1. PICK x : Turn = {x}
  BY DEF TurnsInv, OneTurn
<1>2. \A q \in Rank : stage[q] \in {"write", "pass"} => <<"with", q>> \in Turn
  BY DEF Turn
<1>3. \A q \in Rank : turns[q] > 0 => <<"sent to", q>> \in Turn
  BY DEF Turn
<1>4. <<"begins", 0>> \in Turn
  BY DEF Turn
<1>5. x = <<"begins", 0>>
  BY <1>1, <1>4
<1>6. \A q \in Rank : turns[q] \in Nat
  BY DEF TurnsInv, TurnsTypes
<1>8. \A q : <<"with", q>> # <<"begins", 0>> /\ <<"sent to", q>> # <<"begins", 0>>
  OBVIOUS
<1> QED
  BY <1>1, <1>2, <1>3, <1>5, <1>6, <1>8

\* A rank takes its turn, and is behind the rank that passed it on.
LEMMA TakeTurnKeeps ==
    ASSUME TurnsInv, NEW r \in Rank, TakeTurn(r)
    PROVE  TurnsInv'
<1>1. /\ Step(r) /\ TurnsTypes /\ job \in Jobs /\ job' = job /\ mosaic' = mosaic
      /\ channel' = channel /\ existing' = existing /\ writes' = writes
      /\ stage[r] = "turn" /\ 0 \in Rank
  BY JobSizes DEF Step, TakeTurn, TurnsInv, TurnsTypes
<1>2. /\ Rank' = Rank /\ Linmos' = Linmos /\ NothingLeft' = NothingLeft /\ Plane' = Plane
      /\ \A s : Channels(s)' = Channels(s) /\ Share(s)' = Share(s)
      /\ \A s, k : Nth(s, k)' = Nth(s, k)
  BY <1>1, JobStays
<1>3. stage'[r] = "write" /\ stage' = [stage EXCEPT ![r] = "write"]
  BY <1>1 DEF TakeTurn, TurnsTypes, GoOn
<1>4. /\ \A s \in Rank : turns'[s] = IF s = r /\ Waits(r) THEN turns[s] - 1 ELSE turns[s]
      /\ Waits(r) => turns[r] > 0
      /\ turns' \in [Rank -> Nat]
  BY <1>1 DEF TakeTurn, TurnsTypes
<1>5. TurnsTypes'
  BY <1>1, <1>2, <1>3, <1>4 DEF TurnsTypes
<1>6. /\ \A s \in Rank : /\ Earlier(s)' = Earlier(s) /\ Passed(s)' = Passed(s)
                         /\ Written(s)' = Written(s)
      /\ \A s \in Rank : s # r => Taken(s)' = Taken(s)
      /\ Taken(r)' = Taken(r) + 1
  BY <1>1, <1>3, OtherRanks DEF Passed, Taken, Written
<1>7. OneTurn'
  <2> SUFFICES ASSUME ~Linmos PROVE (\A q \in Rank : turns'[q] <= 1) /\ Turn' = {<<"with", r>>}
    BY <1>2 DEF OneTurn
  <2>1. /\ \A q \in Rank : turns'[q] = 0
        /\ \A q \in Rank : stage[q] \notin {"write", "pass"}
        /\ r # 0 => ~(channel[0] = 0 /\ stage[0] \in {"start", "turn"})
    <3>1. CASE Waits(r)
      <4>1. turns[r] > 0
        BY <1>4, <3>1
      <4> QED
        BY <1>4, <3>1, <4>1, TurnIsSent
    <3>2. CASE ~Waits(r)
      <4>1. r = 0 /\ channel[0] = 0
        BY <3>2 DEF Waits
      <4> QED
        BY <1>1, <1>4, <3>2, <4>1, TurnBegins
    <3> QED
      BY <3>1, <3>2
  <2>2. {q \in Rank : stage'[q] \in {"write", "pass"}} = {r}
    BY <1>1, <1>3, <2>1, OtherRanks
  <2>3. {q \in Rank : turns'[q] > 0} = {}
    BY <2>1
  <2>4. {q \in {0} : channel'[q] = 0 /\ stage'[q] \in {"start", "turn"}} = {}
    BY <1>1, <1>3, <2>1, OtherRanks
  <2>5. Turn' = {<<"with", r>>}
    BY <1>2, <2>2, <2>3, <2>4 DEF Turn
  <2> QED
    BY <2>1, <2>5
<1>8. Created'
  <2>1. stage'[0] # "start" => mosaic[0] \in existing
    BY <1>1, <1>3, OtherRanks DEF TurnsInv, Created
  <2>2. ASSUME NEW s \in Rank, NothingLeft, Taken(s)' > 0 PROVE mosaic[s] \in existing
    <3>1. CASE s # r
      BY <1>6, <2>2, <3>1 DEF TurnsInv, Created
    <3>2. CASE s = r /\ r = 0
      BY <1>1, <3>2 DEF TurnsInv, Created
    <3>3. CASE s = r /\ r # 0
      <4>1. turns[r] > 0
        BY <1>4, <3>3 DEF Waits
      <4>2. /\ r - 1 \in Rank /\ turns[r] \in Nat /\ Taken(r) \in Nat /\ Passed(r - 1) \in Nat
            /\ Taken(r - 1) = Passed(r - 1) \/ Taken(r - 1) = Passed(r - 1) + 1
        BY <1>1, <3>3, RankNumbers DEF Taken
      <4>3. Taken(r - 1) > 0
        BY <2>2, <3>3, <4>1, <4>2, BehindTheOneBefore
      <4> QED
        BY <2>2, <3>3, <4>2, <4>3, SameBefore DEF TurnsInv, Created
    <3> QED
      BY <3>1, <3>2, <3>3
  <2> QED
    BY <1>1, <1>2, <2>1, <2>2 DEF Created
<1>9. OwnOnly' /\ WrittenSoFar(r)'
  <2>1. OwnOnly'
    BY <1>1, <1>2 DEF TurnsInv, OwnOnly
  <2> QED
    BY <1>1, <1>2, <1>6, <2>1 DEF TurnsInv, WrittenSoFar
<1>10. Progress(r)'
  BY <1>1, <1>2, <1>3 DEF TurnsInv, Progress
<1>11. \A s \in Rank : Chained(s)'
  <2> SUFFICES ASSUME NEW s \in Rank PROVE Chained(s)'
    OBVIOUS
  <2>1. /\ Chained(s) /\ (s # 0 => s - 1 \in Rank) /\ turns[s] \in Nat /\ Taken(s) \in Nat
        /\ Earlier(s) \in Nat
    BY <1>1, RankNumbers DEF TurnsInv
  <2>2. CASE s = 0
    <3>1. Linmos => turns'[0] = turns[0]
      BY <1>1, <1>4 DEF Waits
    <3> QED
      BY <1>2, <2>1, <2>2, <3>1 DEF Chained
  <2>3. CASE s # 0
    <3>1. turns'[s] + (Earlier(s) + Taken(s)') = turns[s] + (Earlier(s) + Taken(s))
      <4>1. CASE s = r
        <5>1. Waits(r)
          BY <2>3, <4>1 DEF Waits
        <5> QED
          BY <1>4, <1>6, <2>1, <4>1, <5>1
      <4>2. CASE s # r
        BY <1>4, <1>6, <4>2
      <4> QED
        BY <4>1, <4>2
    <3> QED
      BY <1>6, <2>1, <2>3, <3>1 DEF Chained
  <2> QED
    BY <2>2, <2>3
<1> QED
  BY <1>1, <1>3, <1>5, <1>7, <1>8, <1>9, <1>10, <1>11, RankStep

\* A rank writes the channel it has come to.
LEMMA WritePlaneKeeps ==
    ASSUME TurnsInv, NEW r \in Rank, WritePlane(r)
    PROVE  TurnsInv'
<1>1. /\ Step(r) /\ TurnsTypes /\ job \in Jobs /\ job' = job /\ mosaic' = mosaic
      /\ channel' = channel /\ existing' = existing /\ turns' = turns
      /\ stage[r] = "write" /\ 0 \in Rank
  BY JobSizes DEF Step, WritePlane, TurnsInv, TurnsTypes
<1>2. /\ Rank' = Rank /\ Linmos' = Linmos /\ NothingLeft' = NothingLeft /\ Plane' = Plane
      /\ \A s : Channels(s)' = Channels(s) /\ Share(s)' = Share(s)
      /\ \A s, k : Nth(s, k)' = Nth(s, k)
  BY <1>1, JobStays
<1>3. stage'[r] = "pass" /\ stage' = [stage EXCEPT ![r] = "pass"]
  BY <1>1 DEF WritePlane, TurnsTypes, GoOn
<1>4. writes' = writes \cup {<<mosaic[r], Nth(r, channel[r]), r>>}
  BY DEF WritePlane
<1>5. TurnsTypes'
  BY <1>1, <1>2, <1>3 DEF TurnsTypes
<1>6. /\ \A s \in Rank : /\ Earlier(s)' = Earlier(s) /\ Passed(s)' = Passed(s)
                         /\ Taken(s)' = Taken(s)
      /\ Written(r)' = channel[r] + 1 /\ Written(r) = channel[r]
  BY <1>1, <1>3, OtherRanks DEF Passed, Taken, Written
<1>7. OneTurn'
  <2>1. {q \in Rank : stage'[q] \in {"write", "pass"}} = {q \in Rank : stage[q] \in {"write", "pass"}}
    BY <1>1, <1>3, OtherRanks
  <2>2. {q \in {0} : channel'[q] = 0 /\ stage'[q] \in {"start", "turn"}} =
        {q \in {0} : channel[q] = 0 /\ stage[q] \in {"start", "turn"}}
    BY <1>1, <1>3, OtherRanks
  <2>3. Turn' = Turn
    BY <1>1, <1>2, <2>1, <2>2 DEF Turn
  <2> QED
    BY <1>1, <1>2, <2>3 DEF TurnsInv, OneTurn
<1>8. Created'
  BY <1>1, <1>2, <1>3, <1>6, OtherRanks DEF TurnsInv, Created
<1>9. Nth(r, channel[r]) \in Channels(r) /\ Channels(r) \subseteq Plane /\ channel[r] \in Nat
      /\ mosaic[r] \in 1..job.mosaics
  BY <1>1, NthIsOwn, RanksChannels DEF TurnsInv, TurnsTypes, Progress
<1>10. OwnOnly'
  <2>1. \A x \in writes' : /\ x \in (1..job.mosaics) \X Plane \X Rank
                           /\ x[2] \in Channels(x[3])
    BY <1>4, <1>9 DEF TurnsInv, OwnOnly
  <2> QED
    BY <1>1, <1>2, <2>1 DEF OwnOnly
<1>11. WrittenSoFar(r)'
  <2>1. \A m \in 1..(mosaic[r] - 1) : \A c \in Channels(r) : <<m, c, r>> \in writes'
    BY <1>4 DEF TurnsInv, WrittenSoFar
  <2>2. ASSUME NEW k \in 0..(Share(r) - 1), k < channel[r] + 1
        PROVE  <<mosaic[r], Nth(r, k), r>> \in writes'
    <3>1. CASE k = channel[r]
      BY <1>4, <3>1
    <3>2. CASE k # channel[r]
      <4>1. k < Written(r)
        BY <1>6, <1>9, <2>2, <3>2
      <4> QED
        BY <1>4, <4>1 DEF TurnsInv, WrittenSoFar
    <3> QED
      BY <3>1, <3>2
  <2> QED
    BY <1>1, <1>2, <1>6, <2>1, <2>2 DEF WrittenSoFar
<1>12. Progress(r)'
  BY <1>1, <1>2, <1>3 DEF TurnsInv, Progress
<1>13. \A s \in Rank : Chained(s)'
  <2> SUFFICES ASSUME NEW s \in Rank PROVE Chained(s)'
    OBVIOUS
  <2>1. Chained(s) /\ (s # 0 => s - 1 \in Rank)
    BY <1>1, RankNumbers DEF TurnsInv
  <2> QED
    BY <1>1, <1>2, <1>6, <2>1 DEF Chained
<1>14. writes \subseteq writes' /\ stage'[r] # "over"
  BY <1>3, <1>4
<1> QED
  BY <1>1, <1>5, <1>7, <1>8, <1>10, <1>11, <1>12, <1>13, <1>14, RankStep

\* A rank passes the turn on, to one rank or to none.
LEMMA PassTurnKeeps ==
    ASSUME TurnsInv, NEW r \in Rank, PassTurn(r)
    PROVE  TurnsInv'
<1>1. /\ Step(r) /\ TurnsTypes /\ job \in Jobs /\ job' = job /\ mosaic' = mosaic
      /\ existing' = existing /\ writes' = writes
      /\ stage[r] = "pass" /\ 0 \in Rank
  BY JobSizes DEF Step, PassTurn, TurnsInv, TurnsTypes
<1>2. /\ Rank' = Rank /\ Linmos' = Linmos /\ NothingLeft' = NothingLeft /\ Plane' = Plane
      /\ \A s : Channels(s)' = Channels(s) /\ Share(s)' = Share(s)
      /\ \A s, k : Nth(s, k)' = Nth(s, k)
  BY <1>1, JobStays
<1>3. /\ r \in Nat /\ channel[r] \in Nat /\ Share(r) \in Nat /\ channel[r] < Share(r)
  BY <1>1, RankNumbers DEF TurnsInv, Progress
<1>4. /\ stage'[r] = IF channel[r] + 1 < Share(r) THEN "turn" ELSE "barrier"
      /\ channel'[r] = channel[r] + 1
  BY <1>1 DEF PassTurn, TurnsTypes, GoOn, AfterChannels, Share
<1>5. \A s \in Rank : turns'[s] = IF s \in PassedTo(r) THEN turns[s] + 1 ELSE turns[s]
  BY DEF PassTurn
<1>6. TurnsTypes'
  <2>1. stage' \in [Rank -> {"start", "turn", "write", "pass", "barrier", "gone", "over"}]
    BY <1>1 DEF PassTurn, TurnsTypes, GoOn, AfterChannels
  <2>2. channel' \in [Rank -> Nat]
    BY <1>1 DEF PassTurn, TurnsTypes
  <2>3. turns' \in [Rank -> Nat]
    BY <1>1 DEF PassTurn, TurnsTypes
  <2> QED
    BY <1>1, <1>2, <2>1, <2>2, <2>3 DEF TurnsTypes
<1>7. /\ \A s \in Rank : /\ Earlier(s)' = Earlier(s) /\ Taken(s)' = Taken(s)
                         /\ Written(s)' = Written(s)
      /\ \A s \in Rank : s # r => Passed(s)' = Passed(s)
      /\ Passed(r)' = Passed(r) + 1
  BY <1>1, <1>4, OtherRanks DEF Passed, Taken, Written
<1>8. OneTurn'
  <2> SUFFICES ASSUME ~Linmos
               PROVE  (\A q \in Rank : turns'[q] <= 1) /\ \E x : Turn' = {x}
    BY <1>2 DEF OneTurn
  <2> DEFINE next == IF r + 1 \in Rank THEN r + 1 ELSE 0
  <2>1. PassedTo(r) = {next} /\ next \in Rank
    BY <1>1 DEF PassedTo
  <2> HIDE DEF next
  <2>2. /\ \A q \in Rank : stage[q] \in {"write", "pass"} => q = r
        /\ \A q \in Rank : turns[q] = 0
        /\ ~(channel[0] = 0 /\ stage[0] \in {"start", "turn"})
    BY <1>1, TurnIsWith
  <2>3. \A q \in Rank : turns'[q] = IF q = next THEN 1 ELSE 0
    BY <1>5, <2>1, <2>2
  <2>4. {q \in Rank : stage'[q] \in {"write", "pass"}} = {}
    <3>1. stage'[r] \notin {"write", "pass"}
      BY <1>4
    <3> QED
      BY <1>1, <2>2, <3>1, OtherRanks
  <2>5. {q \in Rank : turns'[q] > 0} = {next}
    BY <2>1, <2>3
  <2>6. {q \in {0} : channel'[q] = 0 /\ stage'[q] \in {"start", "turn"}} = {}
    <3>1. CASE r = 0
      BY <1>3, <1>4, <3>1
    <3>2. CASE r # 0
      BY <1>1, <2>2, <3>2, OtherRanks
    <3> QED
      BY <3>1, <3>2
  <2>7. Turn' = {<<"sent to", next>>}
    BY <1>2, <2>4, <2>5, <2>6 DEF Turn
  <2>8. \A q \in Rank : turns'[q] <= 1
    BY <2>3
  <2> QED
    BY <2>7, <2>8
<1>9. Created'
  BY <1>1, <1>2, <1>4, <1>7, OtherRanks DEF TurnsInv, Created
<1>10. OwnOnly' /\ WrittenSoFar(r)'
  <2>1. OwnOnly'
    BY <1>1, <1>2 DEF TurnsInv, OwnOnly
  <2> QED
    BY <1>1, <1>2, <1>7, <2>1 DEF TurnsInv, WrittenSoFar
<1>11. Progress(r)'
  BY <1>1, <1>2, <1>3, <1>4 DEF Progress
<1>12. \A s \in Rank : Chained(s)'
  <2> SUFFICES ASSUME NEW s \in Rank PROVE Chained(s)'
    OBVIOUS
  <2>1. /\ Chained(s) /\ (s # 0 => s - 1 \in Rank) /\ s \in Nat /\ turns[s] \in Nat
        /\ Taken(s) \in Nat /\ Earlier(s) \in Nat
    BY <1>1, RankNumbers DEF TurnsInv
  <2>2. CASE s = 0
    <3>1. Linmos => 0 \notin PassedTo(r)
      BY <1>3 DEF PassedTo
    <3> QED
      BY <1>1, <1>2, <1>5, <2>1, <2>2, <3>1 DEF Chained
  <2>3. CASE s # 0
    <3>1. s \in PassedTo(r) <=> s - 1 = r
      BY <1>3, <2>1, <2>3 DEF PassedTo
    <3>2. Earlier(s - 1) \in Nat /\ Passed(s - 1) \in Nat
      BY <1>1, <2>1, <2>3, RankNumbers
    <3>3. CASE s - 1 = r
      <4>1. turns'[s] = turns[s] + 1 /\ Passed(s - 1)' = Passed(s - 1) + 1
        BY <1>5, <1>7, <3>1, <3>3
      <4>2. Earlier(s - 1)' + Passed(s - 1)' = turns'[s] + (Earlier(s)' + Taken(s)')
        BY <1>7, <2>1, <2>3, <3>2, <4>1 DEF Chained
      <4> QED
        BY <2>3, <4>2 DEF Chained
    <3>4. CASE s - 1 # r
      <4>1. turns'[s] = turns[s] /\ Passed(s - 1)' = Passed(s - 1)
        BY <1>5, <1>7, <2>1, <2>3, <3>1, <3>4
      <4> QED
        BY <1>7, <2>1, <2>3, <4>1 DEF Chained
    <3> QED
      BY <3>3, <3>4
  <2> QED
    BY <2>2, <2>3
<1>13. stage'[r] # "over"
  BY <1>4
<1> QED
  BY <1>1, <1>6, <1>8, <1>9, <1>10, <1>11, <1>12, <1>13, RankStep

\* All go on to the next mosaic, or end.
LEMMA MosaicBarrierKeeps ==
    ASSUME TurnsInv, MosaicBarrier
    PROVE  TurnsInv'
<1>1. /\ TurnsTypes /\ job \in Jobs /\ job' = job /\ 0 \in Rank /\ job.mosaics \in Nat
      /\ channel' = channel /\ existing' = existing /\ writes' = writes /\ turns' = turns
      /\ \A s \in Rank : stage[s] = "barrier"
  BY JobSizes DEF MosaicBarrier, TurnsInv, TurnsTypes
<1>2. /\ Rank' = Rank /\ Linmos' = Linmos /\ NothingLeft' = NothingLeft /\ Plane' = Plane
      /\ \A s : Channels(s)' = Channels(s) /\ Share(s)' = Share(s)
      /\ \A s, k : Nth(s, k)' = Nth(s, k)
  BY <1>1, JobStays
<1>3. \A s \in Rank : /\ channel[s] = Share(s) /\ Passed(s) = Share(s) /\ Taken(s) = Share(s)
                      /\ Written(s) = Share(s) /\ Share(s) \in Nat /\ Earlier(s) \in Nat
                      /\ mosaic[s] \in 1..job.mosaics /\ mosaic[s] = mosaic[0] /\ mosaic[s] - 1 \in Nat
                      /\ (s # 0 => s - 1 \in Rank)
  BY <1>1, RankNumbers DEF TurnsInv, Progress, SameMosaic, Passed, Taken, Written
<1>4. CASE mosaic[0] < job.mosaics
  <2>1. \A s \in Rank : stage'[s] = "start" /\ mosaic'[s] = mosaic[s] + 1
    BY <1>4 DEF MosaicBarrier
  <2>2. TurnsTypes'
    <3>1. \A s \in Rank : mosaic[s] + 1 \in 1..job.mosaics
      BY <1>1, <1>3, <1>4
    <3> QED
      BY <1>1, <1>2, <1>4, <3>1 DEF MosaicBarrier, TurnsTypes
  <2>3. \A s \in Rank : /\ Passed(s)' = 0 /\ Taken(s)' = 0 /\ Written(s)' = 0
    BY <2>1 DEF Passed, Taken, Written
  <2>4. \A s \in Rank : Earlier(s)' = Earlier(s) + Share(s)
    <3> SUFFICES ASSUME NEW s \in Rank PROVE Earlier(s)' = Earlier(s) + Share(s)
      OBVIOUS
    <3> DEFINE m == mosaic[s] - 1
    <3>1. m \in Nat /\ mosaic'[s] - 1 = m + 1
      BY <1>1, <1>3, <2>1
    <3> HIDE DEF m
    <3>2. (m + 1) * Share(s) = m * Share(s) + Share(s)
      BY <1>3, <3>1, TimesMore
    <3> QED
      BY <1>2, <3>1, <3>2 DEF Earlier, m
  <2>5. SameMosaic'
    BY <1>2, <1>3, <2>1 DEF SameMosaic
  <2>6. OneTurn'
    <3>1. Linmos
      BY <1>1, <1>3, <1>4, JobSizes
    <3> QED
      BY <1>2, <3>1 DEF OneTurn
  <2>7. Created' /\ OwnOnly'
    BY <1>1, <1>2, <2>1, <2>3 DEF TurnsInv, Created, OwnOnly
  <2>8. \A s \in Rank : Progress(s)'
    <3>1. \A s \in Rank : mosaic'[s] # 1
      BY <1>1, <1>3, <2>1
    <3> QED
      BY <1>1, <1>2, <1>3, <2>1, <3>1 DEF Progress
  <2>9. \A s \in Rank : Chained(s)'
    <3> SUFFICES ASSUME NEW s \in Rank PROVE Chained(s)'
      OBVIOUS
    <3>1. Chained(s) /\ turns[s] \in Nat
      BY <1>1 DEF TurnsInv, TurnsTypes
    <3>2. CASE s = 0
      BY <1>1, <1>2, <3>1, <3>2 DEF Chained
    <3>3. CASE s # 0
      <4>1. s - 1 \in Rank /\ Earlier(s - 1) + Share(s - 1) = turns[s] + (Earlier(s) + Share(s))
        BY <1>3, <3>1, <3>3 DEF Chained
      <4>2. /\ Earlier(s - 1)' = Earlier(s - 1) + Share(s - 1) /\ Passed(s - 1)' = 0
            /\ Earlier(s)' = Earlier(s) + Share(s) /\ Taken(s)' = 0 /\ turns'[s] = turns[s]
        BY <1>1, <2>3, <2>4, <4>1
      <4>3. Earlier(s - 1)' + Passed(s - 1)' = turns'[s] + (Earlier(s)' + Taken(s)')
        BY <1>3, <3>1, <4>1, <4>2
      <4> QED
        BY <3>3, <4>3 DEF Chained
    <3> QED
      BY <3>2, <3>3
  <2>10. \A s \in Rank : WrittenSoFar(s)'
    <3> SUFFICES ASSUME NEW s \in Rank PROVE WrittenSoFar(s)'
      OBVIOUS
    <3>1. ASSUME NEW m \in 1..mosaic[s], NEW c \in Channels(s) PROVE <<m, c, s>> \in writes
      <4>1. CASE m = mosaic[s]
        <5>1. PICK k \in 0..(Share(s) - 1) : Nth(s, k) = c
          BY <1>1, NthIsEach
        <5>2. k < Written(s)
          BY <1>3
        <5> QED
          BY <4>1, <5>1, <5>2 DEF TurnsInv, WrittenSoFar
      <4>2. CASE m # mosaic[s]
        <5>1. m \in 1..(mosaic[s] - 1)
          BY <1>1, <1>3, <4>2
        <5> QED
          BY <5>1 DEF TurnsInv, WrittenSoFar
      <4> QED
        BY <4>1, <4>2
    <3>2. mosaic'[s] - 1 = mosaic[s]
      BY <1>1, <1>3, <2>1
    <3>3. \A k \in 0..(Share(s) - 1) : ~(k < 0)
      OBVIOUS
    <3> QED
      BY <1>1, <1>2, <2>3, <3>1, <3>2, <3>3 DEF WrittenSoFar
  <2> QED
    BY <1>2, <2>2, <2>5, <2>6, <2>7, <2>8, <2>9, <2>10 DEF TurnsInv
<1>5. CASE ~(mosaic[0] < job.mosaics)
  <2>1. mosaic' = mosaic /\ \A s \in Rank : stage'[s] = "over" /\ mosaic[s] = job.mosaics
    <3>1. \A s \in Rank : mosaic[s] = job.mosaics
      BY <1>1, <1>3, <1>5
    <3> QED
      BY <1>5, <3>1 DEF MosaicBarrier
  <2>2. TurnsTypes'
    BY <1>1, <1>2, <1>5, <2>1 DEF MosaicBarrier, TurnsTypes
  <2>3. \A s \in Rank : /\ Passed(s)' = Passed(s) /\ Taken(s)' = Taken(s) /\ Written(s)' = Written(s)
                        /\ Earlier(s)' = Earlier(s)
    BY <1>1, <1>2, <2>1 DEF Passed, Taken, Written, Earlier
  <2>4. SameMosaic'
    BY <1>1, <1>2, <2>1 DEF SameMosaic
  <2>5. OneTurn'
    <3>1. /\ {q \in Rank : stage[q] \in {"write", "pass"}} = {}
          /\ {q \in Rank : stage'[q] \in {"write", "pass"}} = {}
      BY <1>1, <2>1
    <3>2. /\ {q \in {0} : channel[q] = 0 /\ stage[q] \in {"start", "turn"}} = {}
          /\ {q \in {0} : channel'[q] = 0 /\ stage'[q] \in {"start", "turn"}} = {}
      BY <1>1, <2>1
    <3>3. Turn' = Turn
      BY <1>1, <1>2, <3>1, <3>2 DEF Turn
    <3> QED
      BY <1>1, <1>2, <3>3 DEF TurnsInv, OneTurn
  <2>6. Created' /\ OwnOnly'
    BY <1>1, <1>2, <2>1, <2>3 DEF TurnsInv, Created, OwnOnly
  <2>7. \A s \in Rank : Progress(s)'
    BY <1>1, <1>2, <1>3, <2>1 DEF Progress
  <2>8. \A s \in Rank : Chained(s)'
    BY <1>1, <1>2, <1>3, <2>3 DEF TurnsInv, Chained
  <2>9. \A s \in Rank : WrittenSoFar(s)'
    BY <1>1, <1>2, <2>1, <2>3 DEF TurnsInv, WrittenSoFar
  <2> QED
    BY <1>2, <2>2, <2>4, <2>5, <2>6, <2>7, <2>8, <2>9 DEF TurnsInv
<1> QED
  BY <1>4, <1>5

\* Every step keeps the invariant.
LEMMA TurnsStepKeeps == TurnsInv /\ [TurnsNext]_turnVars => TurnsInv'
<1> SUFFICES ASSUME TurnsInv, [TurnsNext]_turnVars PROVE TurnsInv'
  OBVIOUS
<1>1. ASSUME NEW r \in Rank, Step(r) PROVE TurnsInv'
  BY <1>1, StartKeeps, TakeTurnKeeps, WritePlaneKeeps, PassTurnKeeps DEF Step
<1>2. CASE MosaicBarrier
  BY <1>2, MosaicBarrierKeeps
<1>3. CASE UNCHANGED turnVars
  BY <1>3, TurnsStutter
<1> QED
  BY <1>1, <1>2, <1>3 DEF TurnsNext

\* The turns a rank has had and those that wait for it are those passed on to
\* it; the turn of the deconvolver is in one place.
THEOREM TurnsInvariance == TakingTurns => []TurnsInv
BY TurnsBegin, TurnsStepKeeps, PTL DEF TakingTurns

\* No more turns wait than there are channels in all mosaics.
LEMMA TurnsBounded ==
    ASSUME TurnsInv, NEW r \in Rank
    PROVE  turns[r] <= job.channels * job.mosaics
<1>1. /\ job \in Jobs /\ job.channels \in Nat \ {0} /\ job.mosaics \in Nat \ {0}
      /\ (~Linmos => job.mosaics = 1) /\ turns[r] \in Nat
  BY JobSizes DEF TurnsInv, TurnsTypes
<1>2. job.channels <= job.channels * job.mosaics /\ job.channels * job.mosaics \in Nat
  <2>1. 1 <= job.mosaics /\ 1 * job.channels = job.channels
        /\ job.channels * job.mosaics = job.mosaics * job.channels
    BY <1>1
  <2> QED
    BY <1>1, <2>1, TimesOrder
<1>3. CASE ~Linmos
  <2>1. turns[r] <= 1
    BY <1>3 DEF TurnsInv, OneTurn
  <2> QED
    BY <1>1, <1>2, <2>1
<1>4. CASE Linmos /\ r = 0
  BY <1>1, <1>2, <1>4 DEF TurnsInv, Chained
<1>5. CASE r # 0
  <2> DEFINE q == r - 1
  <2>1. /\ q \in Rank /\ Share(q) \in Nat /\ Share(q) <= job.channels /\ mosaic[q] - 1 \in Nat
        /\ mosaic[q] <= job.mosaics /\ mosaic[q] \in Nat
        /\ Earlier(q) \in Nat /\ Passed(q) \in Nat
        /\ Earlier(r) \in Nat /\ Taken(r) \in Nat
        /\ Earlier(q) + Passed(q) = turns[r] + (Earlier(r) + Taken(r))
    BY <1>1, <1>5, RankNumbers, RanksChannels DEF TurnsInv, Chained
  <2>2. Passed(q) <= Share(q)
    BY <2>1 DEF TurnsInv, Progress, Passed
  <2>3. ((mosaic[q] - 1) + 1) * Share(q) = (mosaic[q] - 1) * Share(q) + Share(q)
    BY <2>1, TimesMore
  <2>4. (mosaic[q] - 1) + 1 = mosaic[q]
    BY <2>1
  <2>5. mosaic[q] * Share(q) <= job.mosaics * Share(q) /\ job.mosaics * Share(q) \in Nat
    BY <1>1, <2>1, TimesOrder
  <2>6. Share(q) * job.mosaics <= job.channels * job.mosaics
        /\ Share(q) * job.mosaics = job.mosaics * Share(q)
    BY <1>1, <2>1, TimesOrder
  <2> HIDE DEF q
  <2>7. Earlier(q) + Share(q) <= job.channels * job.mosaics
    BY <1>2, <2>1, <2>3, <2>4, <2>5, <2>6 DEF Earlier
  <2> QED
    BY <1>1, <1>2, <2>1, <2>2, <2>7
<1> QED
  BY <1>3, <1>4, <1>5

\* The turns are handed out one by one and in the order of the ranks, from one
\* mosaic to the next: in the deconvolver there is one turn, and in linmos a
\* rank writes after the rank before it and into an image that exists.
THEOREM TurnsAreOrderly == TakingTurns => []OrderlyTurns
<1>1. TurnsInv => OrderlyTurns
  <2> SUFFICES ASSUME TurnsInv PROVE OrderlyTurns
    OBVIOUS
  <2>1. TurnsTypeOK
    <3>1. \A r \in Rank : turns[r] \in 0..(job.channels * job.mosaics)
      <4>1. job.channels * job.mosaics \in Nat
        BY JobSizes DEF TurnsInv, TurnsTypes
      <4> QED
        BY <4>1, TurnsBounded DEF TurnsInv, TurnsTypes
    <3>2. \A r \in Rank : channel[r] \in 0..Cardinality(Channels(r))
      BY RankNumbers DEF TurnsInv, Progress, Share
    <3>3. writes \subseteq (1..job.mosaics) \X Plane \X Rank
      BY DEF TurnsInv, OwnOnly
    <3> QED
      BY <3>1, <3>2, <3>3 DEF TurnsInv, TurnsTypes, TurnsTypeOK
  <2>2. OneAtATime
    <3>1. \A x : Cardinality({x}) = 1
      BY FS_Singleton
    <3> QED
      BY <3>1 DEF TurnsInv, OneTurn, OneAtATime
  <2>3. InTurn
    <3> SUFFICES ASSUME NEW r \in Rank, NothingLeft, stage[r] = "write"
                 PROVE  /\ mosaic[r] \in existing
                        /\ r # 0 => mosaic[r - 1] = mosaic[r] /\ channel[r - 1] > channel[r]
      BY DEF InTurn
    <3>1. Taken(r) = channel[r] + 1 /\ channel[r] \in Nat /\ turns[r] \in Nat
      BY RankNumbers DEF TurnsInv, Taken, Passed
    <3>2. mosaic[r] \in existing
      BY <3>1 DEF TurnsInv, Created
    <3>3. ASSUME r # 0 PROVE channel[r - 1] > channel[r]
      <4>1. r - 1 \in Rank /\ channel[r - 1] \in Nat
        BY <3>3, RankNumbers DEF TurnsInv
      <4>2. Passed(r - 1) = turns[r] + Taken(r)
        BY <3>3, BehindTheOneBefore
      <4>3. Passed(r - 1) <= channel[r - 1] /\ Passed(r - 1) \in Nat
        BY <4>1 DEF Passed
      <4> QED
        BY <3>1, <4>1, <4>2, <4>3
    <3> QED
      BY <3>2, <3>3, SameBefore
  <2> QED
    BY <2>1, <2>2, <2>3 DEF OrderlyTurns
<1> QED
  BY <1>1, TurnsInvariance, PTL

\* If the division is even, and in linmos in any case, no channel of a mosaic
\* is written by two ranks, and each has been written in the end.
THEOREM EachChannelOnce == TakingTurns => []ChannelsOnce
<1>1. TurnsInv => ChannelsOnce
  <2> SUFFICES ASSUME TurnsInv, Linmos \/ IsEven PROVE ChannelsOnce
    BY DEF ChannelsOnce
  <2>1. job \in Jobs
    BY DEF TurnsInv, TurnsTypes
  <2>2. ASSUME NEW x \in writes, NEW y \in writes, x[1] = y[1], x[2] = y[2] PROVE x = y
    <3>1. /\ x \in (1..job.mosaics) \X Plane \X Rank /\ x[2] \in Channels(x[3])
          /\ y \in (1..job.mosaics) \X Plane \X Rank /\ y[2] \in Channels(y[3])
      BY DEF TurnsInv, OwnOnly
    <3>2. x[3] = y[3]
      BY <2>1, <2>2, <3>1, OneOwner
    <3>3. x = <<x[1], x[2], x[3]>> /\ y = <<y[1], y[2], y[3]>>
      BY <3>1
    <3> QED
      BY <2>2, <3>2, <3>3
  <2>3. ASSUME AllOver, NEW m \in 1..job.mosaics, NEW c \in Plane
        PROVE  \E r \in Rank : <<m, c, r>> \in writes
    <3>1. PICK r \in Rank : c \in Channels(r)
      BY <2>1, EveryChannelGiven
    <3>2. /\ stage[r] = "over" /\ mosaic[r] = job.mosaics /\ Written(r) = Share(r)
          /\ job.mosaics \in Nat
      BY <2>1, <2>3, JobSizes DEF AllOver, TurnsInv, SameMosaic, Progress, Written, Passed
    <3>3. CASE m = job.mosaics
      <4>1. PICK k \in 0..(Share(r) - 1) : Nth(r, k) = c
        BY <2>1, <3>1, NthIsEach
      <4>2. k < Written(r)
        BY <2>1, <3>2, RanksChannels
      <4> QED
        BY <3>2, <3>3, <4>1, <4>2 DEF TurnsInv, WrittenSoFar
    <3>4. CASE m # job.mosaics
      <4>1. m \in 1..(mosaic[r] - 1)
        BY <3>2, <3>4
      <4> QED
        BY <3>1, <4>1 DEF TurnsInv, WrittenSoFar
    <3> QED
      BY <3>3, <3>4
  <2> QED
    BY <2>2, <2>3 DEF ChannelsOnce
<1> QED
  BY <1>1, TurnsInvariance, PTL
=============================================================================
