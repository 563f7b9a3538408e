----------------------- MODULE ContinuumWorker_proofs -----------------------
(***************************************************************************)
(* Two parts of ContinuumWorker, proved for units of any number and any    *)
(* names: the loop of compressWorkUnits keeps every channel it has looked  *)
(* at, and the flag files and copies of cacheWorkUnit always have an owner.*)
(***************************************************************************)
EXTENDS UnitCompression, TmpfsCache, SequenceTheorems, TLAPS

-----------------------------------------------------------------------------
(* Unit compression.                                                        *)

Unit == [set : DataSet \cup {NoData}, chan : Nat \cup {-1}, nchan : Nat]

CompressionType ==
    /\ units \in UnitLists
    /\ units \in Seq(AllocatedUnit) /\ Len(units) > 0
    /\ count \in 1..Len(units)
    /\ startUnit \in Unit
    /\ contiguous \in Nat
    /\ compressed \in Seq(Unit)

\* The count is the width of the unit that grows, or a unit was just begun
\* and the count starts from zero, one behind its width.
CountFits ==
    outcome = "loop" /\ count < Len(units) =>
        \/ contiguous = startUnit.nchan
        \/ contiguous = 0 /\ startUnit.nchan = 1

LoopInv == CompressionType /\ CountFits /\ KeptSoFar

\* A list covers what it covered before and the channels of the unit added.
LEMMA CoveredAppend ==
    ASSUME NEW S, NEW list \in Seq(S), NEW u \in S
    PROVE  Covered(Append(list, u)) = Covered(list) \cup Channels(u)
<1> DEFINE new == Append(list, u)
<1>1. /\ Len(new) = Len(list) + 1 /\ Len(list) \in Nat
      /\ new[Len(list) + 1] = u
      /\ \A i \in 1..Len(list) : new[i] = list[i]
  OBVIOUS
<1> HIDE DEF new
<1>2. Covered(new) \subseteq Covered(list) \cup Channels(u)
  <2> SUFFICES ASSUME NEW i \in 1..Len(new)
               PROVE  Channels(new[i]) \subseteq Covered(list) \cup Channels(u)
    BY DEF Covered
  <2>1. CASE i = Len(list) + 1
    BY <1>1, <2>1
  <2>2. CASE i # Len(list) + 1
    <3>1. i \in 1..Len(list) /\ new[i] = list[i]
      BY <1>1, <2>2
    <3> QED
      BY <3>1 DEF Covered
  <2> QED
    BY <2>1, <2>2
<1>3. Covered(list) \subseteq Covered(new)
  <2> SUFFICES ASSUME NEW i \in 1..Len(list)
               PROVE  Channels(list[i]) \subseteq Covered(new)
    BY DEF Covered
  <2>1. i \in 1..Len(new) /\ new[i] = list[i]
    BY <1>1
  <2> QED
    BY <2>1 DEF Covered
<1>4. Channels(u) \subseteq Covered(new)
  <2>1. Len(list) + 1 \in 1..Len(new) /\ new[Len(list) + 1] = u
    BY <1>1
  <2> QED
    BY <2>1 DEF Covered
<1> QED
  BY <1>2, <1>3, <1>4 DEF new

\* The units looked at grow by the one looked at next.
LEMMA CoveredNext ==
    ASSUME NEW S, NEW list \in Seq(S), NEW n \in 1..Len(list), n < Len(list)
    PROVE  Covered(SubSeq(list, 1, n + 1)) = Covered(SubSeq(list, 1, n)) \cup Channels(list[n + 1])
<1>1. SubSeq(list, 1, n) \in Seq(S) /\ list[n + 1] \in S
  OBVIOUS
<1>2. SubSeq(list, 1, n + 1) = Append(SubSeq(list, 1, n), list[n + 1])
  OBVIOUS
<1> QED
  BY <1>1, <1>2, CoveredAppend

\* A unit widened by one channel has the channel that follows it as well.
LEMMA ChannelsWider ==
    ASSUME NEW u \in Unit, NEW v \in AllocatedUnit,
           v.set = u.set, v.chan = u.chan + u.nchan
    PROVE  Channels([u EXCEPT !.nchan = u.nchan + 1]) = Channels(u) \cup Channels(v)
<1> DEFINE wide == [u EXCEPT !.nchan = u.nchan + 1]
           Channel(k) == [set |-> u.set, chan |-> u.chan + k, nchan |-> 1]
<1>1. wide.set = u.set /\ wide.chan = u.chan /\ wide.nchan = u.nchan + 1
  BY DEF Unit
<1>2. u.nchan \in Nat /\ u.chan \in Int
  BY DEF Unit
<1>3. v.nchan = 1 /\ v.chan \in Int
  BY DEF AllocatedUnit
<1>4. Channels(wide) = {Channel(k) : k \in 0..u.nchan}
  <2>1. wide.nchan - 1 = u.nchan
    BY <1>1, <1>2
  <2> HIDE DEF wide
  <2> QED
    BY <1>1, <2>1 DEF Channels
<1>5. Channels(u) = {Channel(k) : k \in 0..(u.nchan - 1)}
  BY DEF Channels
<1>6. Channels(v) = {Channel(u.nchan)}
  <2>1. 0..(v.nchan - 1) = {0} /\ v.chan + 0 = u.chan + u.nchan
    BY <1>2, <1>3
  <2> QED
    BY <2>1 DEF Channels
<1>7. 0..u.nchan = 0..(u.nchan - 1) \cup {u.nchan}
  BY <1>2
<1> HIDE DEF Channel, wide
<1>8. {Channel(k) : k \in 0..u.nchan} = {Channel(k) : k \in 0..(u.nchan - 1)} \cup {Channel(u.nchan)}
  BY <1>7
<1> QED
  BY <1>4, <1>5, <1>6, <1>8 DEF wide

\* A unit as it was allocated is one of those the loop handles.
LEMMA AllocatedIsUnit == AllocatedUnit \subseteq Unit
BY DEF AllocatedUnit, Unit

\* A unit is its data set, its first channel and its width.
LEMMA SameUnit ==
    ASSUME NEW u \in Unit, NEW v \in Unit,
           u.set = v.set, u.chan = v.chan, u.nchan = v.nchan
    PROVE  u = v
<1>1. /\ u = [set |-> u.set, chan |-> u.chan, nchan |-> u.nchan]
      /\ v = [set |-> v.set, chan |-> v.chan, nchan |-> v.nchan]
  BY DEF Unit
<1> QED
  BY <1>1

\* A unit with another width is a unit.
LEMMA WiderIsUnit ==
    ASSUME NEW u \in Unit, NEW n \in Nat
    PROVE  [u EXCEPT !.nchan = n] \in Unit
BY DEF Unit

\* There is a unit to look at until the end of the list.
LEMMA NextIsUnit ==
    ASSUME CompressionType, count < Len(units)
    PROVE  nextUnit \in AllocatedUnit /\ nextUnit \in Unit
<1>1. units \in Seq(AllocatedUnit) /\ count + 1 \in 1..Len(units)
  BY DEF CompressionType
<1>2. units[count + 1] \in AllocatedUnit
  BY <1>1
<1> QED
  BY <1>2, AllocatedIsUnit DEF nextUnit

\* A unit added to a list of units.
LEMMA AppendUnit ==
    ASSUME NEW list \in Seq(Unit), NEW u \in Unit
    PROVE  Append(list, u) \in Seq(Unit)
OBVIOUS

\* The part of a list that is its first unit.
LEMMA FirstAlone ==
    ASSUME NEW S, NEW list \in Seq(S), 1 \in 1..Len(list)
    PROVE  SubSeq(list, 1, 1) = <<list[1]>>
<1> DEFINE head == SubSeq(list, 1, 1)
           alone == <<list[1]>>
<1>1. head \in Seq(S) /\ alone \in Seq(S)
  OBVIOUS
<1>2. Len(head) = 1 /\ Len(alone) = 1
  OBVIOUS
<1>3. head[1] = list[1] /\ alone[1] = list[1]
  OBVIOUS
<1> HIDE DEF head, alone
<1>4. \A i \in 1..Len(head) : head[i] = alone[i]
  BY <1>2, <1>3
<1>5. head = alone
  BY <1>1, <1>2, <1>4, SeqEqual
<1> QED
  BY <1>5 DEF head, alone

\* The loop begins with the first unit and nothing in the new list.
LEMMA CompressionBegins == CompressionInit => LoopInv
<1> SUFFICES ASSUME CompressionInit PROVE LoopInv
  OBVIOUS
<1>1. units \in Seq(AllocatedUnit) /\ units # <<>>
  BY ListsAssumption DEF CompressionInit
<1>2. Len(units) > 0 /\ Len(units) \in Nat
  BY <1>1
<1>3. units[1] \in AllocatedUnit
  BY <1>1, <1>2
<1>4. CompressionType
  BY <1>1, <1>2, <1>3 DEF CompressionInit, CompressionType, AllocatedUnit, Unit
<1>5. CountFits
  BY <1>3 DEF CompressionInit, CountFits, AllocatedUnit
<1>6. KeptSoFar
  <2>1. SubSeq(units, 1, 1) = Append(<<>>, units[1]) /\ <<>> \in Seq(AllocatedUnit)
    <3>1. SubSeq(units, 1, 1) = <<units[1]>>
      <4>1. units \in Seq(AllocatedUnit) /\ 1 \in 1..Len(units)
        BY <1>1, <1>2
      <4> QED
        BY <4>1, FirstAlone
    <3>2. Append(<<>>, units[1]) = <<units[1]>>
      OBVIOUS
    <3> QED
      BY <3>1, <3>2
  <2>2. Covered(SubSeq(units, 1, 1)) = Covered(<<>>) \cup Channels(units[1])
    BY <1>3, <2>1, CoveredAppend
  <2> QED
    BY <2>2 DEF CompressionInit, KeptSoFar
<1> QED
  BY <1>4, <1>5, <1>6 DEF LoopInv

\* The next channel joins the unit, which is added at the end of the list.
LEMMA ExtendKeeps == LoopInv /\ Extend => LoopInv'
<1> SUFFICES ASSUME LoopInv, Extend PROVE LoopInv'
  OBVIOUS
<1> USE DEF LoopInv
<1>1. nextUnit \in AllocatedUnit /\ nextUnit \in Unit
  BY NextIsUnit DEF Extend
<1>2. Wider \in Unit
  <2>1. startUnit \in Unit /\ contiguous + 1 \in Nat
    BY DEF CompressionType
  <2> QED
    BY <2>1, WiderIsUnit DEF Wider
<1>3. CompressionType'
  <2>1. compressed' \in Seq(Unit) /\ startUnit' \in Unit
    BY <1>1, <1>2, AppendUnit DEF CompressionType, Extend
  <2> QED
    BY <2>1 DEF CompressionType, Extend
<1>4. CountFits'
  BY DEF CompressionType, Extend, CountFits, Wider, Unit
<1>5. Channels(Wider) = Channels(startUnit) \cup Channels(nextUnit)
  <2>1. CASE contiguous = startUnit.nchan
    BY <1>1, <2>1, ChannelsWider DEF CompressionType, Extend, Extends, Wider
  <2>2. CASE contiguous = 0 /\ startUnit.nchan = 1
    <3>1. nextUnit = startUnit /\ Wider = startUnit
      <4>1. startUnit \in Unit /\ Wider \in Unit /\ startUnit.chan \in Int
        BY <1>2 DEF CompressionType, Unit
      <4>2. nextUnit.set = startUnit.set /\ nextUnit.chan = startUnit.chan /\ nextUnit.nchan = 1
        BY <1>1, <2>2, <4>1 DEF Extend, Extends, AllocatedUnit
      <4>3. Wider.set = startUnit.set /\ Wider.chan = startUnit.chan /\ Wider.nchan = 1
        BY <2>2, <4>1 DEF Wider, Unit
      <4> QED
        BY <1>1, <2>2, <4>1, <4>2, <4>3, SameUnit
    <3> QED
      BY <3>1
  <2> QED
    BY <2>1, <2>2 DEF CountFits, Extend
<1>6. KeptSoFar'
  <2>1. Covered(SubSeq(units, 1, count + 1)) = Covered(SubSeq(units, 1, count)) \cup Channels(nextUnit)
    BY CoveredNext DEF CompressionType, Extend, nextUnit
  <2>2. Covered(Append(compressed, Wider)) = Covered(compressed) \cup Channels(Wider)
    BY <1>2, CoveredAppend DEF CompressionType
  <2>3. Covered(compressed') \cup Channels(startUnit') =
            Covered(compressed) \cup Channels(startUnit) \cup Channels(nextUnit)
    BY <1>5, <2>2 DEF Extend
  <2> QED
    BY <2>1, <2>3 DEF KeptSoFar, Extend
<1> QED
  BY <1>3, <1>4, <1>6

\* The unit is added and the next one begins.
LEMMA RestartKeeps == LoopInv /\ Restart => LoopInv'
<1> SUFFICES ASSUME LoopInv, Restart PROVE LoopInv'
  OBVIOUS
<1> USE DEF LoopInv
<1>1. nextUnit \in AllocatedUnit /\ nextUnit \in Unit
  BY NextIsUnit DEF Restart
<1>2. CompressionType'
  <2>1. compressed' \in Seq(Unit) /\ startUnit' \in Unit
    BY <1>1 DEF CompressionType, Restart, Added
  <2> QED
    BY <2>1 DEF CompressionType, Restart
<1>3. CountFits'
  BY <1>1 DEF Restart, CountFits, AllocatedUnit
<1>4. KeptSoFar'
  <2>1. Covered(SubSeq(units, 1, count + 1)) = Covered(SubSeq(units, 1, count)) \cup Channels(nextUnit)
    BY CoveredNext DEF CompressionType, Restart, nextUnit
  <2>2. Covered(Added) = Covered(compressed) \cup Channels(startUnit)
    BY CoveredAppend DEF CompressionType, Added
  <2> QED
    BY <2>1, <2>2 DEF KeptSoFar, Restart
<1> QED
  BY <1>2, <1>3, <1>4

\* Every step keeps the invariant.
LEMMA CompressionKeeps == LoopInv /\ [CompressionNext]_compressionVars => LoopInv'
<1> SUFFICES ASSUME LoopInv, [CompressionNext]_compressionVars PROVE LoopInv'
  OBVIOUS
<1>1. CASE Extend
  BY <1>1, ExtendKeeps
<1>2. CASE Restart
  BY <1>2, RestartKeeps
<1>3. CASE Replace
  <2>1. CompressionType'
    BY <1>3 DEF LoopInv, CompressionType, Replace
  <2>2. outcome' # "loop"
    BY <1>3 DEF Replace
  <2> QED
    BY <2>1, <2>2 DEF LoopInv, CountFits, KeptSoFar
<1>4. CASE UNCHANGED compressionVars
  BY <1>4 DEF compressionVars, LoopInv, CompressionType, CountFits, KeptSoFar
<1> QED
  BY <1>1, <1>2, <1>3, <1>4 DEF CompressionNext

\* Until the loop ends no channel of a unit it has looked at is missing, and
\* none is added: what is lost is lost after the last one was looked at.
THEOREM LoopKeepsEveryUnit == Compression => []KeptSoFar
<1>1. LoopInv => KeptSoFar
  BY DEF LoopInv
<1> QED
  BY CompressionBegins, CompressionKeeps, <1>1, PTL DEF Compression
-----------------------------------------------------------------------------
(* A list that is a single run.                                             *)

Grown(n) == [units[1] EXCEPT !.nchan = n]

\* While the list is a single run the first unit grows by each channel looked
\* at, and it is added when the last one was; a list of one stays as it is.
RunSoFar ==
    OneRun(units) =>
        /\ outcome # "refused"
        /\ outcome = "compressed" => count = Len(units)
        /\ \/ (count < Len(units) \/ Len(units) = 1)
              /\ compressed = <<>> /\ contiguous = count /\ startUnit = Grown(count)
           \/ count = Len(units) /\ Len(units) > 1 /\ compressed = <<Grown(count)>>

\* The unit that grew to n channels, widened by one, has n + 1.
LEMMA GrownWider ==
    ASSUME CompressionType, NEW n \in Nat, startUnit = Grown(n), contiguous = n
    PROVE  Wider = Grown(n + 1)
<1>1. units[1] \in AllocatedUnit
  BY DEF CompressionType
<1> QED
  BY <1>1 DEF Wider, Grown, AllocatedUnit

\* A unit that was allocated has one channel.
LEMMA GrownOne == ASSUME CompressionType PROVE Grown(1) = units[1]
<1>1. units[1] \in AllocatedUnit
  BY DEF CompressionType
<1>2. units[1] \in Unit /\ units[1].nchan = 1
  BY <1>1, AllocatedIsUnit DEF AllocatedUnit
<1>3. Grown(1) \in Unit
  BY <1>2, WiderIsUnit DEF Grown
<1>4. /\ Grown(1).set = units[1].set /\ Grown(1).chan = units[1].chan
      /\ Grown(1).nchan = units[1].nchan
  BY <1>2 DEF Grown, Unit
<1> QED
  BY <1>2, <1>3, <1>4, SameUnit

\* In a single run the next unit always joins the one that grows.
LEMMA RunExtends ==
    ASSUME CompressionType, RunSoFar, OneRun(units), count < Len(units)
    PROVE  Extends
<1>1. units[1] \in AllocatedUnit /\ count + 1 \in 1..Len(units) /\ count \in Nat
  BY DEF CompressionType
<1>2. nextUnit.set = units[1].set /\ nextUnit.chan = units[1].chan + (count + 1) - 1
  BY <1>1 DEF OneRun, nextUnit
<1>3. startUnit = Grown(count) /\ contiguous = count
  BY <1>1 DEF RunSoFar
<1>4. startUnit.set = units[1].set /\ startUnit.chan = units[1].chan
  BY <1>1, <1>3 DEF Grown, AllocatedUnit
<1>5. units[1].chan \in Int
  BY <1>1 DEF AllocatedUnit
<1> QED
  BY <1>1, <1>2, <1>3, <1>4, <1>5 DEF Extends

\* The first unit of the list has grown to one channel.
LEMMA RunInitially == CompressionInit => RunSoFar
<1> SUFFICES ASSUME CompressionInit PROVE RunSoFar
  OBVIOUS
<1>1. CompressionType
  BY CompressionBegins DEF LoopInv
<1>2. startUnit = Grown(1)
  BY <1>1, GrownOne DEF CompressionInit
<1>3. 1 < Len(units) \/ Len(units) = 1
  <2>1. units \in Seq(AllocatedUnit) /\ Len(units) > 0
    BY <1>1 DEF CompressionType
  <2>2. Len(units) \in Nat
    BY <2>1
  <2>3. \A n \in Nat : n > 0 => 1 < n \/ n = 1
    OBVIOUS
  <2> QED
    BY <2>1, <2>2, <2>3
<1> QED
  BY <1>2, <1>3 DEF CompressionInit, RunSoFar

\* Every step of the loop lets the unit grow, and the result is not refused.
LEMMA RunStep == LoopInv /\ RunSoFar /\ [CompressionNext]_compressionVars => RunSoFar'
<1> SUFFICES ASSUME LoopInv, RunSoFar, [CompressionNext]_compressionVars, OneRun(units)' PROVE RunSoFar'
  BY DEF RunSoFar
<1>1. CompressionType
  BY DEF LoopInv
<1>2. units' = units
  BY DEF CompressionNext, Extend, Restart, Replace, compressionVars
<1>3. OneRun(units)
  BY <1>2 DEF OneRun
<1>4. CASE Extend
  <2>1. count \in Nat /\ Len(units) \in Nat
    BY <1>1 DEF CompressionType
  <2>2. compressed = <<>> /\ contiguous = count /\ startUnit = Grown(count)
    BY <1>3, <1>4, <2>1 DEF RunSoFar, Extend
  <2>3. Wider = Grown(count + 1)
    BY <1>1, <2>1, <2>2, GrownWider
  <2>4. outcome' = "loop" /\ count' = count + 1 /\ contiguous' = count + 1
    BY <1>4, <2>2 DEF Extend
  <2>5. \A n : Grown(n)' = Grown(n)
    BY <1>2 DEF Grown
  <2>6. CASE count = Len(units) - 1
    <3>1. compressed' = <<Grown(count + 1)>>
      BY <1>4, <2>2, <2>3, <2>6 DEF Extend
    <3>2. count' = Len(units) /\ Len(units) > 1
      BY <1>1, <2>1, <2>4, <2>6 DEF CompressionType
    <3> QED
      BY <1>2, <2>4, <2>5, <3>1, <3>2 DEF RunSoFar
  <2>7. CASE count # Len(units) - 1
    <3>1. compressed' = <<>> /\ startUnit' = Grown(count + 1)
      BY <1>4, <2>2, <2>3, <2>7 DEF Extend
    <3>2. count' < Len(units)
      BY <1>4, <2>1, <2>4, <2>7 DEF Extend
    <3> QED
      BY <1>2, <2>4, <2>5, <3>1, <3>2 DEF RunSoFar
  <2> QED
    BY <2>6, <2>7
<1>5. CASE Restart
  BY <1>1, <1>3, <1>5, RunExtends DEF Restart
<1>6. CASE Replace
  <2>1. Len(compressed) < 2
    <3>1. compressed = <<>> \/ compressed = <<Grown(count)>>
      BY <1>3 DEF RunSoFar
    <3> QED
      BY <3>1
  <2>2. outcome' = "compressed" /\ count = Len(units)
    BY <1>6, <2>1 DEF Replace, Single
  <2> QED
    BY <1>3, <1>6, <2>2 DEF RunSoFar, Replace, Grown
<1>7. CASE UNCHANGED compressionVars
  BY <1>7 DEF compressionVars, RunSoFar, OneRun, Grown
<1> QED
  BY <1>4, <1>5, <1>6, <1>7 DEF CompressionNext

\* A list that is a single run is never refused and becomes the unit that has
\* all its channels, however long it is.
THEOREM SingleRunBecomesUnit == Compression => []RunBecomesUnit
<1>1. LoopInv /\ RunSoFar => RunBecomesUnit
  <2> SUFFICES ASSUME LoopInv, RunSoFar, OneRun(units), outcome = "compressed"
               PROVE  workUnits = <<[units[1] EXCEPT !.nchan = Len(units)]>>
    BY DEF RunBecomesUnit, RunSoFar
  <2>1. CompressionType /\ Len(units) \in Nat /\ count = Len(units)
    BY DEF LoopInv, CompressionType, RunSoFar
  <2>2. CASE Len(units) = 1
    <3>1. compressed = <<>>
      BY <2>1, <2>2 DEF RunSoFar
    <3>2. units = <<units[1]>>
      <4>1. units = SubSeq(units, 1, 1)
        BY <2>1, <2>2, SubSeqFull DEF CompressionType
      <4> QED
        BY <2>1, <2>2, <4>1, FirstAlone DEF CompressionType
    <3> QED
      BY <2>1, <2>2, <3>1, <3>2, GrownOne DEF workUnits, Grown
  <2>3. CASE Len(units) # 1
    <3>1. compressed = <<Grown(Len(units))>>
      BY <2>1, <2>3 DEF RunSoFar
    <3> QED
      BY <3>1 DEF workUnits, Grown
  <2> QED
    BY <2>2, <2>3
<1>2. Compression => []LoopInv
  BY CompressionBegins, CompressionKeeps, PTL DEF Compression
<1> QED
  BY RunInitially, RunStep, <1>1, <1>2, PTL DEF Compression
-----------------------------------------------------------------------------
(* The memory file system cache.                                            *)

\* The type of the cache's variables, functions of the workers.
CacheType == TypeOK /\ at \in [Worker -> Nat] /\ first \in [Worker -> Nat]

\* A worker in the middle of a channel is at a unit.
AtUnit == \A w \in Worker : pc[w] \notin {"next", "clear"} => at[w] <= Len(Units[w])

\* The flag file is there because w writes the copy, or because w failed to and
\* is back at the unit, where it cannot pass the flag file.
Owns(w, f) ==
    /\ at[w] <= Len(Units[w]) /\ Outms(w) = f
    /\ Writing(w) \/ (w \in failing /\ pc[w] \in {"next", "wait"})

FlagsOwned == \A f \in flags : \E w \in Worker : Owns(w, f)

\* w is about to remember the copy, or remembers it and will clear it yet,
\* unless its last channel failed.
Keeps(w, f) ==
    \/ pc[w] = "unflag" /\ Outms(w) = f
    \/ /\ f \in cached[w]
       /\ w \in failing \/ at[w] <= Len(Units[w]) \/ (pc[w] = "clear" /\ f \in todo[w])

CopiesKept == \A f \in File : copy[f] = "whole" => \E w \in Worker : Keeps(w, f)

CacheInv == CacheType /\ AtUnit /\ FlagsOwned /\ CopiesKept

\* The unit a worker is at names a file.
LEMMA UnitHasFile ==
    ASSUME CacheType, NEW w \in Worker, at[w] <= Len(Units[w])
    PROVE  Outms(w) \in File /\ at[w] \in 1..Len(Units[w])
<1>1. Len(Units[w]) \in Nat /\ at[w] \in Nat /\ 1 <= at[w]
  BY CacheAssumption DEF CacheType, TypeOK
<1>2. at[w] \in 1..Len(Units[w])
  BY <1>1
<1> QED
  BY <1>2 DEF File, Outms

\* The last unit of a worker is the last epoch of its channel.
LEMMA MoreEpochs ==
    ASSUME CacheType, NEW w \in Worker, at[w] <= Len(Units[w]), ~IsLast(w)
    PROVE  NextUnit(w) <= Len(Units[w]) /\ NextUnit(w) \in Nat
<1>1. Len(Units[w]) \in Nat /\ at[w] \in Nat /\ Units[w][Len(Units[w])].last
  BY CacheAssumption DEF CacheType
<1>2. at[w] # Len(Units[w])
  BY <1>1 DEF IsLast
<1> QED
  BY <1>1, <1>2 DEF NextUnit

\* A step of a worker changes nothing that another owns or keeps.
LEMMA OthersKept ==
    ASSUME CacheType, NEW w \in Worker, WorkerStep(w), NEW v \in Worker, v # w
    PROVE  /\ pc'[v] = pc[v] /\ at'[v] = at[v] /\ first'[v] = first[v]
           /\ cached'[v] = cached[v] /\ todo'[v] = todo[v]
           /\ v \in failing' <=> v \in failing
           /\ Outms(v)' = Outms(v)
           /\ \A f : Owns(v, f)' <=> Owns(v, f)
           /\ \A f : Keeps(v, f)' <=> Keeps(v, f)
<1>1. /\ pc'[v] = pc[v] /\ at'[v] = at[v] /\ first'[v] = first[v]
      /\ cached'[v] = cached[v] /\ todo'[v] = todo[v]
      /\ v \in failing' <=> v \in failing
  BY DEF CacheType, TypeOK, WorkerStep, Goto, Branch, places, Enter, Wait, Look, LookAgain,
         LookFlag, DropFlag, SplitChecks, SplitCreates, SplitEnds, SplitFails, Unflag, Open,
         NextEpoch, Imaged, ImagingFails, Remove, Cleared
<1>2. Outms(v)' = Outms(v)
  BY <1>1 DEF Outms
<1>3. Writing(v)' <=> Writing(v)
  BY <1>1 DEF Writing
<1>4. \A f : Owns(v, f)' <=> Owns(v, f)
  BY <1>1, <1>2, <1>3 DEF Owns
<1>5. \A f : Keeps(v, f)' <=> Keeps(v, f)
  BY <1>1, <1>2 DEF Keeps
<1> QED
  BY <1>1, <1>2, <1>4, <1>5

\* It is enough to look at the worker that takes the step.
LEMMA OwnStep ==
    ASSUME CacheInv, NEW w \in Worker, WorkerStep(w), CacheType',
           pc'[w] \notin {"next", "clear"} => at'[w] <= Len(Units[w]),
           \A f \in flags' : f \in flags \/ Owns(w, f)',
           \A f \in flags' : Owns(w, f) => Owns(w, f)',
           \A f \in File : copy'[f] = "whole" => copy[f] = "whole" \/ Keeps(w, f)',
           \A f \in File : copy'[f] = "whole" /\ Keeps(w, f) => Keeps(w, f)'
    PROVE  CacheInv'
<1>1. AtUnit'
  BY OthersKept DEF CacheInv, AtUnit
<1>2. FlagsOwned'
  <2> SUFFICES ASSUME NEW f \in flags' PROVE \E v \in Worker : Owns(v, f)'
    BY DEF FlagsOwned
  <2>1. CASE Owns(w, f)'
    BY <2>1
  <2>2. CASE f \in flags
    <3>1. PICK v \in Worker : Owns(v, f)
      BY <2>2 DEF CacheInv, FlagsOwned
    <3> QED
      BY <3>1, OthersKept DEF CacheInv
  <2> QED
    BY <2>1, <2>2
<1>3. CopiesKept'
  <2> SUFFICES ASSUME NEW f \in File, copy'[f] = "whole" PROVE \E v \in Worker : Keeps(v, f)'
    BY DEF CopiesKept, File
  <2>1. CASE Keeps(w, f)'
    BY <2>1
  <2>2. CASE copy[f] = "whole"
    <3>1. PICK v \in Worker : Keeps(v, f)
      BY <2>2 DEF CacheInv, CopiesKept
    <3> QED
      BY <3>1, OthersKept DEF CacheInv
  <2> QED
    BY <2>1, <2>2
<1> QED
  BY <1>1, <1>2, <1>3 DEF CacheInv

\* Nothing is cached, and nobody has failed.
LEMMA CacheBegins == Init => CacheInv
<1> SUFFICES ASSUME Init PROVE CacheInv
  OBVIOUS
<1>1. \A w \in Worker : Len(Units[w]) \in Nat \ {0}
  BY CacheAssumption
<1>2. CacheType
  BY <1>1 DEF Init, CacheType, TypeOK
<1> QED
  BY <1>2 DEF Init, CacheInv, AtUnit, FlagsOwned, CopiesKept

\* A step that only moves the worker: up to where the copy is written, or on to
\* reading it.
LEMMA MoveKeeps ==
    ASSUME CacheInv, NEW w \in Worker,
           \/ Enter(w) \/ Wait(w) \/ Look(w) \/ LookAgain(w) \/ LookFlag(w)
           \/ SplitChecks(w) \/ Open(w) \/ Cleared(w)
    PROVE  CacheInv'
<1>1. /\ WorkerStep(w)
      /\ flags' = flags /\ copy' = copy /\ cached' = cached /\ todo' = todo
      /\ at' = at /\ first' = first /\ failing' = failing
  BY DEF WorkerStep, Enter, Wait, Look, LookAgain, LookFlag, SplitChecks, Open, Cleared, places
<1>2. CacheType'
  <2>1. pc' \in [Worker -> {"next", "wait", "look", "lookAgain", "lookFlag", "drop", "split",
                            "create", "splitting", "unflag", "read", "reading", "clear"}]
    BY DEF CacheInv, CacheType, TypeOK, Goto, Branch, Enter, Wait, Look, LookAgain, LookFlag,
           SplitChecks, Open, Cleared
  <2> QED
    BY <1>1, <2>1 DEF CacheInv, CacheType, TypeOK
<1>3. Outms(w)' = Outms(w)
  BY <1>1 DEF Outms
<1>4. pc'[w] \notin {"next", "clear"} => at'[w] <= Len(Units[w])
  BY <1>1 DEF CacheInv, AtUnit, CacheType, TypeOK, Goto, Branch, Enter, Wait, Look, LookAgain,
         LookFlag, SplitChecks, Open, Cleared
<1>5. ASSUME NEW f \in flags', Owns(w, f) PROVE Owns(w, f)'
  <2>1. ~Wait(w)
    BY <1>1, <1>5 DEF Wait, Owns
  <2> QED
    BY <1>1, <1>3, <1>5, <2>1 DEF Owns, Writing, CacheInv, CacheType, TypeOK, Goto, Branch, Enter,
       Look, LookAgain, LookFlag, SplitChecks, Open, Cleared
<1>6. ASSUME NEW f \in File, Keeps(w, f) PROVE Keeps(w, f)'
  <2>1. pc[w] # "unflag"
    BY DEF Enter, Wait, Look, LookAgain, LookFlag, SplitChecks, Open, Cleared
  <2>2. f \in cached[w]
    BY <1>6, <2>1 DEF Keeps
  <2>3. CASE w \in failing \/ at[w] <= Len(Units[w])
    BY <1>1, <2>2, <2>3 DEF Keeps
  <2>4. CASE pc[w] = "clear" /\ f \in todo[w]
    BY <2>4 DEF Enter, Wait, Look, LookAgain, LookFlag, SplitChecks, Open, Cleared
  <2> QED
    BY <1>6, <2>1, <2>3, <2>4 DEF Keeps
<1> QED
  BY <1>1, <1>2, <1>4, <1>5, <1>6, OwnStep

\* The flag file is dropped by a worker that goes on to write.
LEMMA DropFlagKeeps ==
    ASSUME CacheInv, NEW w \in Worker, DropFlag(w)
    PROVE  CacheInv'
<1>1. WorkerStep(w) /\ at[w] <= Len(Units[w]) /\ CacheType
  BY DEF WorkerStep, DropFlag, CacheInv, AtUnit
<1>2. Outms(w) \in File /\ Outms(w)' = Outms(w)
  BY <1>1, UnitHasFile DEF DropFlag, places, Outms
<1>3. pc'[w] = "split"
  BY <1>1 DEF DropFlag, Goto, CacheType, TypeOK
<1>4. CacheType'
  BY <1>1, <1>2 DEF DropFlag, Goto, CacheType, TypeOK, places
<1>5. at'[w] <= Len(Units[w]) /\ Owns(w, Outms(w))'
  BY <1>1, <1>2, <1>3 DEF DropFlag, places, Owns, Writing
<1>6. \A f \in flags' : f \in flags \/ Owns(w, f)'
  BY <1>2, <1>5 DEF DropFlag, Owns
<1>7. \A f : Owns(w, f) => Owns(w, f)'
  BY <1>2, <1>5 DEF Owns
<1>8. \A f : Keeps(w, f) => Keeps(w, f)'
  BY <1>1 DEF Keeps, DropFlag, places
<1> QED
  BY <1>1, <1>4, <1>5, <1>6, <1>7, <1>8, OwnStep DEF DropFlag

\* The copy is created over what there is, and is not whole.
LEMMA SplitCreatesKeeps ==
    ASSUME CacheInv, NEW w \in Worker, SplitCreates(w)
    PROVE  CacheInv'
<1>1. WorkerStep(w) /\ at[w] <= Len(Units[w]) /\ CacheType
  BY DEF WorkerStep, SplitCreates, CacheInv, AtUnit
<1>2. Outms(w) \in File /\ Outms(w)' = Outms(w)
  BY <1>1, UnitHasFile DEF SplitCreates, places, Outms
<1>3. pc'[w] = "splitting"
  BY <1>1 DEF SplitCreates, Goto, CacheType, TypeOK
<1>4. CacheType'
  BY <1>1, <1>2 DEF SplitCreates, Goto, CacheType, TypeOK, places
<1>5. \A f : Owns(w, f) => Owns(w, f)'
  BY <1>1, <1>2, <1>3 DEF SplitCreates, places, Owns, Writing
<1>6. \A f \in File : copy'[f] = "whole" => copy[f] = "whole"
  BY <1>1, CacheAssumption DEF SplitCreates, CacheType, TypeOK
<1>7. \A f : Keeps(w, f) => Keeps(w, f)'
  BY <1>1 DEF Keeps, SplitCreates, places
<1>8. flags' = flags /\ at' = at
  BY DEF SplitCreates, places
<1> QED
  BY <1>1, <1>4, <1>5, <1>6, <1>7, <1>8, OwnStep

\* A copy that has become whole is about to be remembered.
LEMMA SplitEndsKeeps ==
    ASSUME CacheInv, NEW w \in Worker, SplitEnds(w)
    PROVE  CacheInv'
<1>1. WorkerStep(w) /\ at[w] <= Len(Units[w]) /\ CacheType
  BY DEF WorkerStep, SplitEnds, CacheInv, AtUnit
<1>2. Outms(w) \in File /\ Outms(w)' = Outms(w)
  BY <1>1, UnitHasFile DEF SplitEnds, places, Outms
<1>3. pc'[w] = "unflag"
  BY <1>1 DEF SplitEnds, Goto, CacheType, TypeOK
<1>4. CacheType'
  BY <1>1, <1>2 DEF SplitEnds, Goto, CacheType, TypeOK, places
<1>5. \A f : Owns(w, f) => Owns(w, f)'
  BY <1>1, <1>2, <1>3 DEF SplitEnds, places, Owns, Writing
<1>6. Keeps(w, Outms(w))'
  BY <1>2, <1>3 DEF Keeps
<1>7. \A f \in File : copy'[f] = "whole" => copy[f] = "whole" \/ Keeps(w, f)'
  BY <1>1, <1>2, <1>3 DEF Keeps, SplitEnds, CacheType, TypeOK
<1>8. \A f : Keeps(w, f) => Keeps(w, f)'
  BY <1>1 DEF Keeps, SplitEnds, places
<1>9. flags' = flags /\ at' = at
  BY DEF SplitEnds, places
<1> QED
  BY <1>1, <1>4, <1>5, <1>7, <1>8, <1>9, OwnStep

\* Whoever failed to write owns the flag file as the one it stops.
LEMMA SplitFailsKeeps ==
    ASSUME CacheInv, NEW w \in Worker, SplitFails(w)
    PROVE  CacheInv'
<1>1. WorkerStep(w) /\ at[w] <= Len(Units[w]) /\ CacheType
  BY DEF WorkerStep, SplitFails, CacheInv, AtUnit
<1>2. at' = at
  BY <1>1 DEF SplitFails, RetriedUnit, CacheType
<1>3. Outms(w) \in File /\ Outms(w)' = Outms(w)
  BY <1>1, <1>2, UnitHasFile DEF Outms
<1>4. pc'[w] = "next" /\ w \in failing'
  BY <1>1 DEF SplitFails, Goto, CacheType, TypeOK
<1>5. CacheType'
  BY <1>1, <1>2 DEF SplitFails, Goto, CacheType, TypeOK
<1>6. \A f : Owns(w, f) => Owns(w, f)'
  BY <1>1, <1>2, <1>3, <1>4 DEF Owns
<1>7. \A f : Keeps(w, f) => Keeps(w, f)'
  BY <1>4 DEF Keeps, SplitFails
<1>8. flags' = flags /\ copy' = copy
  BY DEF SplitFails
<1> QED
  BY <1>1, <1>2, <1>4, <1>5, <1>6, <1>7, <1>8, OwnStep

\* The flag file goes, and the copy is remembered.
LEMMA UnflagKeeps ==
    ASSUME CacheInv, NEW w \in Worker, Unflag(w)
    PROVE  CacheInv'
<1>1. WorkerStep(w) /\ at[w] <= Len(Units[w]) /\ CacheType
  BY DEF WorkerStep, Unflag, CacheInv, AtUnit
<1>2. Outms(w) \in File /\ Outms(w)' = Outms(w)
  BY <1>1, UnitHasFile DEF Unflag, places, Outms
<1>3. pc'[w] = "read" /\ cached'[w] = cached[w] \cup {Outms(w)}
  BY <1>1 DEF Unflag, Goto, Remembered, CacheType, TypeOK
<1>4. CacheType'
  BY <1>1, <1>2 DEF Unflag, Unflagged, Remembered, Goto, CacheType, TypeOK, places
<1>5. \A f \in flags' : f \in flags /\ ~Owns(w, f)
  BY DEF Owns, Unflag, Unflagged
<1>6. \A f : Keeps(w, f) => Keeps(w, f)'
  <2>1. \A f : Keeps(w, f) => f \in cached'[w]
    BY <1>3 DEF Keeps
  <2>2. at'[w] <= Len(Units[w])
    BY <1>1 DEF Unflag, places
  <2> QED
    BY <2>1, <2>2 DEF Keeps
<1>7. at' = at /\ copy' = copy
  BY DEF Unflag, places
<1> QED
  BY <1>1, <1>4, <1>5, <1>6, <1>7, OwnStep

\* The next epoch of the channel: there is one, and what is cached stays so.
LEMMA NextEpochKeeps ==
    ASSUME CacheInv, NEW w \in Worker, NextEpoch(w)
    PROVE  CacheInv'
<1>1. WorkerStep(w) /\ at[w] <= Len(Units[w]) /\ CacheType /\ pc[w] = "reading"
  BY DEF WorkerStep, NextEpoch, CacheInv, AtUnit
<1>2. NextUnit(w) <= Len(Units[w]) /\ NextUnit(w) \in Nat
  BY <1>1, MoreEpochs DEF NextEpoch
<1>3. at' = [at EXCEPT ![w] = NextUnit(w)] /\ pc'[w] = "next" /\ at'[w] = NextUnit(w)
  BY <1>1 DEF NextEpoch, Goto, CacheType, TypeOK
<1>4. CacheType'
  <2>1. at[w] \in Nat /\ first[w] \in 1..at[w] /\ Len(Units[w]) \in Nat
    BY <1>1, CacheAssumption DEF CacheType, TypeOK
  <2>2. NextUnit(w) \in 1..(Len(Units[w]) + 1) /\ first[w] \in 1..NextUnit(w)
    BY <1>2, <2>1 DEF NextUnit
  <2>3. \A v \in Worker : at'[v] \in 1..(Len(Units[v]) + 1) /\ first[v] \in 1..at'[v]
    BY <1>1, <1>3, <2>2 DEF CacheType, TypeOK
  <2> QED
    BY <1>1, <1>2, <1>3, <2>3 DEF NextEpoch, Goto, CacheType, TypeOK
<1>5. \A f : ~Owns(w, f)
  BY <1>1 DEF Owns, Writing
<1>6. \A f : Keeps(w, f) => Keeps(w, f)'
  BY <1>1, <1>2, <1>3 DEF Keeps, NextEpoch
<1>7. flags' = flags /\ copy' = copy
  BY DEF NextEpoch
<1> QED
  BY <1>1, <1>2, <1>3, <1>4, <1>5, <1>6, <1>7, OwnStep

\* A worker that goes to the unit after the channel is of the right type.
LEMMA PastChannelType ==
    ASSUME CacheType, NEW w \in Worker, at[w] <= Len(Units[w]),
           at' = [at EXCEPT ![w] = NextUnit(w)], first' = [first EXCEPT ![w] = NextUnit(w)]
    PROVE  /\ at' \in [Worker -> Nat] /\ first' \in [Worker -> Nat]
           /\ \A v \in Worker : at'[v] \in 1..(Len(Units[v]) + 1) /\ first'[v] \in 1..at'[v]
<1>1. at[w] \in Nat /\ at[w] >= 1 /\ Len(Units[w]) \in Nat
  BY CacheAssumption DEF CacheType, TypeOK
<1>2. NextUnit(w) \in Nat /\ NextUnit(w) \in 1..(Len(Units[w]) + 1) /\ NextUnit(w) \in 1..NextUnit(w)
  BY <1>1 DEF NextUnit
<1> QED
  BY <1>2 DEF CacheType, TypeOK

\* The channel is imaged: what is cached is still to be cleared.
LEMMA ImagedKeeps ==
    ASSUME CacheInv, NEW w \in Worker, Imaged(w)
    PROVE  CacheInv'
<1>1. WorkerStep(w) /\ at[w] <= Len(Units[w]) /\ CacheType /\ pc[w] = "reading"
  BY DEF WorkerStep, Imaged, CacheInv, AtUnit
<1>2. pc'[w] = "clear" /\ todo'[w] = cached[w]
  BY <1>1 DEF Imaged, Goto, CacheType, TypeOK
<1>3. CacheType'
  BY <1>1, PastChannelType DEF Imaged, Goto, CacheType, TypeOK
<1>4. \A f : ~Owns(w, f)
  BY <1>1 DEF Owns, Writing
<1>5. \A f : Keeps(w, f) => Keeps(w, f)'
  BY <1>1, <1>2 DEF Keeps, Imaged
<1>6. flags' = flags /\ copy' = copy
  BY DEF Imaged
<1> QED
  BY <1>1, <1>2, <1>3, <1>4, <1>5, <1>6, OwnStep

\* The channel fails: its copies are those of a worker whose channel failed.
LEMMA ImagingFailsKeeps ==
    ASSUME CacheInv, NEW w \in Worker, ImagingFails(w)
    PROVE  CacheInv'
<1>1. WorkerStep(w) /\ at[w] <= Len(Units[w]) /\ CacheType /\ pc[w] = "reading"
  BY DEF WorkerStep, ImagingFails, CacheInv, AtUnit
<1>2. pc'[w] = "next" /\ w \in failing'
  BY <1>1 DEF ImagingFails, Goto, CacheType, TypeOK
<1>3. CacheType'
  BY <1>1, PastChannelType DEF ImagingFails, Goto, CacheType, TypeOK
<1>4. \A f : ~Owns(w, f)
  BY <1>1 DEF Owns, Writing
<1>5. \A f : Keeps(w, f) => Keeps(w, f)'
  BY <1>1, <1>2 DEF Keeps, ImagingFails
<1>6. flags' = flags /\ copy' = copy
  BY DEF ImagingFails
<1> QED
  BY <1>1, <1>2, <1>3, <1>4, <1>5, <1>6, OwnStep

\* A copy that is removed has nobody to keep it.
LEMMA RemoveKeeps ==
    ASSUME CacheInv, NEW w \in Worker, Remove(w)
    PROVE  CacheInv'
<1>1. WorkerStep(w) /\ CacheType /\ pc[w] = "clear" /\ flags' = flags
      /\ pc' = pc /\ cached' = cached /\ at' = at /\ first' = first /\ failing' = failing
  BY DEF WorkerStep, Remove, CacheInv, places
<1>2. PICK g \in todo[w] : copy' = [copy EXCEPT ![g] = "none"]
                           /\ todo' = [todo EXCEPT ![w] = @ \ {g}]
  BY DEF Remove
<1>3. g \in File /\ todo'[w] = todo[w] \ {g}
  BY <1>1, <1>2 DEF CacheType, TypeOK
<1>4. CacheType'
  BY <1>1, <1>2, <1>3 DEF CacheType, TypeOK
<1>5. \A f : ~Owns(w, f)
  BY <1>1 DEF Owns, Writing
<1>6. \A f \in File : copy'[f] = "whole" => f # g /\ copy[f] = "whole"
  BY <1>1, <1>2, <1>3 DEF CacheType, TypeOK
<1>7. ASSUME NEW f \in File, f # g, Keeps(w, f) PROVE Keeps(w, f)'
  BY <1>1, <1>3, <1>7 DEF Keeps
<1> QED
  BY <1>1, <1>4, <1>5, <1>6, <1>7, OwnStep

\* Every step of every worker keeps the invariant.
LEMMA CacheStepKeeps == CacheInv /\ [Next]_vars => CacheInv'
<1> SUFFICES ASSUME CacheInv, [Next]_vars PROVE CacheInv'
  OBVIOUS
<1>1. ASSUME NEW w \in Worker, WorkerStep(w) PROVE CacheInv'
  BY <1>1, MoveKeeps, DropFlagKeeps, SplitCreatesKeeps, SplitEndsKeeps, SplitFailsKeeps,
     UnflagKeeps, NextEpochKeeps, ImagedKeeps, ImagingFailsKeeps, RemoveKeeps DEF WorkerStep
<1>2. ASSUME UNCHANGED vars PROVE CacheInv'
  BY <1>2 DEF vars, places, CacheInv, CacheType, TypeOK, AtUnit, FlagsOwned, Owns, Writing,
     CopiesKept, Keeps, Outms
<1> QED
  BY <1>1, <1>2 DEF Next

\* The inductive invariant holds of every behaviour of the cache.
LEMMA CacheInvariance == Spec => []CacheInv
BY CacheBegins, CacheStepKeeps, PTL DEF Spec

\* A flag file is never nobody's: a worker writes under it, or failed to and is
\* back at the same unit, stopped by it.
THEOREM FlagsAlwaysHaveOwners == Spec => []FlagsHaveOwners
<1>1. CacheInv => FlagsHaveOwners
  <2> SUFFICES ASSUME CacheInv, NEW f \in File, Stale(f)
               PROVE  \E w \in Worker : Blocked(w, f)
    BY DEF CacheInv, CacheType, FlagsHaveOwners, StaleFlagStopsItsOwner
  <2>1. PICK w \in Worker : Owns(w, f)
    BY DEF Stale, CacheInv, FlagsOwned
  <2> QED
    BY <2>1 DEF Stale, Owns, Blocked
<1> QED
  BY <1>1, CacheInvariance, PTL

\* When the workers are done there is no flag file, and the whole copies left
\* are remembered by a worker whose last channel failed.
THEOREM NothingIsLeftBehind == Spec => []NothingLeftBehind
<1>1. CacheInv => NothingLeftBehind
  <2> SUFFICES ASSUME CacheInv, Over PROVE NothingLeftBehind
    BY DEF NothingLeftBehind
  <2>1. \A w \in Worker : pc[w] = "next" /\ ~(at[w] <= Len(Units[w]))
    <3>1. \A w \in Worker : at[w] \in Nat /\ Len(Units[w]) \in Nat
      BY CacheAssumption DEF CacheInv, CacheType
    <3> QED
      BY <3>1 DEF Over, Done
  <2>2. flags = {}
    BY <2>1 DEF CacheInv, FlagsOwned, Owns
  <2>3. \A f \in File : copy[f] = "whole" => \E w \in failing : f \in cached[w]
    BY <2>1 DEF CacheInv, CopiesKept, Keeps
  <2> QED
    BY <2>2, <2>3 DEF NothingLeftBehind
<1> QED
  BY <1>1, CacheInvariance, PTL
=============================================================================
