--------------------- MODULE BandpassCalibration_proofs ---------------------
(***************************************************************************)
(* The master of the bandpass calibrator takes each model for what it is,  *)
(* and closes the table when it has every solution, for any number of      *)
(* workers and any division of the beams and channels among them.          *)
(***************************************************************************)
EXTENDS BandpassCalibration, FiniteSetTheorems, SequenceTheorems, TLAPS

\* What a worker sends for a unit.
Result(u) == [tag |-> BeamAndChannel(u), valid |-> quality[u] = NCycles,
              of |-> BeamAndChannel(u)]

\* The first of its units that the master does not have.
Awaited(w) == at[w] - Len(sent[w])

\* The notifications run ahead of the models by the one being sent, and what
\* is on its way are the last units the worker has been through.
InTransit(w) ==
    /\ notices[w] + Taken(w) = Len(sent[w]) + Announced(w)
    /\ First[w] <= Awaited(w) /\ at[w] <= First[w + 1]
    /\ \A i \in 1..Len(sent[w]) : sent[w][i] = Result(Awaited(w) + i - 1)

\* While it solves, the model has been good so far; then its mark tells
\* whether there is a solution.
Solving(w) ==
    /\ pc[w] \in {"solve", "notify", "send"} => HasMore(w)
    /\ pc[w] = "over" => ~HasMore(w)
    /\ pc[w] = "solve" =>
        /\ cycle[w] < NCycles
        /\ valid[w]
        /\ IF cycle[w] = 0 THEN equation[w] = None
           ELSE equation[w] = BeamAndChannel(at[w]) /\ cycle[w] <= quality[at[w]]
    /\ pc[w] \in {"notify", "send"} =>
        /\ equation[w] = BeamAndChannel(at[w])
        /\ valid[w] <=> quality[at[w]] = NCycles

\* The units the master has had the model of.
Received == {u \in Unit : \E w \in Worker : First[w] <= u /\ u < Awaited(w)}

\* It has counted them, and written those with a solution.
Written ==
    /\ chunk = Cardinality(Received)
    /\ table = {[at |-> BeamAndChannel(u), of |-> BeamAndChannel(u)] :
                    u \in {v \in Received : quality[v] = NCycles}}
    /\ mpc = "receive" => source \in Worker
    /\ mpc = "over" => chunk = NUnits

IInv ==
    /\ TypeOK
    /\ \A w \in Worker : InTransit(w) /\ Solving(w)
    /\ Written
-----------------------------------------------------------------------------
(* Units, their names and shares.                                          *)

LEMMA Sizes ==
    /\ NWorkers \in Nat \ {0} /\ NBeams \in Nat \ {0} /\ NChannels \in Nat \ {0}
    /\ NUnits \in Nat /\ NCycles \in Nat \ {0}
    /\ \A w \in Worker : w + 1 \in 1..(NWorkers + 1)
                         /\ First[w] \in 0..NUnits /\ First[w + 1] \in 0..NUnits
                         /\ First[w] <= First[w + 1]
    /\ Qualities \subseteq [Unit -> -1..NCycles]
  <1>1. NBeams * NChannels \in Nat
    BY ShareAssumption
  <1> QED
    BY <1>1, ShareAssumption DEF NUnits, Worker

\* A unit has a beam and a channel of its own.
LEMMA NamesDiffer ==
    ASSUME NEW u \in Unit, NEW v \in Unit, BeamAndChannel(u) = BeamAndChannel(v)
    PROVE  u = v
  <1>1. NBeams \in Nat \ {0} /\ u \in Nat /\ v \in Nat
    BY Sizes DEF Unit
  <1>2. u % NBeams \in 0..(NBeams - 1) /\ v % NBeams \in 0..(NBeams - 1)
    BY <1>1
  <1>3. u % NBeams = v % NBeams /\ u \div NBeams = v \div NBeams
    BY <1>2, ShareAssumption DEF BeamAndChannel
  <1>4. u = NBeams * (u \div NBeams) + (u % NBeams)
    BY <1>1
  <1>5. v = NBeams * (v \div NBeams) + (v % NBeams)
    BY <1>1
  <1> QED
    BY <1>3, <1>4, <1>5

\* No unit is in the shares of two workers.
LEMMA SharesApart ==
    ASSUME NEW v \in Worker, NEW w \in Worker, NEW u \in Unit,
           First[v] <= u, u < First[v + 1], First[w] <= u, u < First[w + 1]
    PROVE  v = w
  <1> USE Sizes DEF Worker, Unit
  <1>1. CASE v < w
    <2>1. First[v + 1] <= First[w]
      BY <1>1, ShareAssumption
    <2> QED
      BY <2>1
  <1>2. CASE w < v
    <2>1. First[w + 1] <= First[v]
      BY <1>2, ShareAssumption
    <2> QED
      BY <2>1
  <1> QED
    BY <1>1, <1>2

LEMMA Units == IsFiniteSet(Unit) /\ Cardinality(Unit) = NUnits
  BY Sizes, FS_Interval DEF Unit

\* The unit of a worker that has more.
LEMMA UnitAt ==
    ASSUME TypeOK, NEW w \in Worker, HasMore(w), First[w] <= at[w]
    PROVE  at[w] \in Unit /\ BeamAndChannel(at[w]) \in Element /\ at[w] + 1 \in 0..NUnits
           /\ quality[at[w]] \in -1..NCycles
  <1>1. at[w] \in Unit
    BY Sizes DEF TypeOK, HasMore, Unit
  <1>2. BeamAndChannel(at[w]) \in Element
    BY <1>1, Sizes DEF Element
  <1> QED
    BY <1>1, <1>2, Sizes DEF TypeOK, Unit

LEMMA ResultTyped ==
    ASSUME NEW u \in Unit
    PROVE  Result(u) \in Model
  BY DEF Result, Model, Element
-----------------------------------------------------------------------------
LEMMA Initially == Init => IInv
  <1> SUFFICES ASSUME Init PROVE IInv
    OBVIOUS
  <1>1. TypeOK
    BY Sizes DEF Init, TypeOK, None, Worker
  <1>2. ASSUME NEW w \in Worker PROVE InTransit(w) /\ Solving(w)
    <2>1. Len(sent[w]) = 0 /\ at[w] = First[w] /\ notices[w] = 0 /\ pc[w] = "unit" /\ mpc = "wait"
      BY DEF Init
    <2> QED
      BY <2>1, Sizes DEF InTransit, Solving, Taken, Announced, Awaited
  <1>3. Written
    <2>1. \A w \in Worker : Awaited(w) = First[w]
      BY Sizes DEF Init, Awaited
    <2>2. Received = {}
      BY <2>1, Sizes DEF Received, Unit
    <2> QED
      BY <2>2, FS_EmptySet DEF Init, Written
  <1> QED
    BY <1>1, <1>2, <1>3 DEF IInv
-----------------------------------------------------------------------------
(* The steps of a worker.                                                  *)

\* They leave what the master has and the other workers alone.
LEMMA OthersKeep ==
    ASSUME IInv, NEW w \in Worker, UNCHANGED masterVars, Awaited(w)' = Awaited(w),
           \A v \in Worker \ {w} :
               /\ notices'[v] = notices[v] /\ sent'[v] = sent[v] /\ pc'[v] = pc[v]
               /\ at'[v] = at[v] /\ cycle'[v] = cycle[v] /\ (valid'[v] <=> valid[v])
               /\ equation'[v] = equation[v]
    PROVE  /\ Written'
           /\ \A v \in Worker \ {w} : InTransit(v)' /\ Solving(v)'
  <1> USE DEF IInv, masterVars
  <1>1. \A v \in Worker : Awaited(v)' = Awaited(v)
    BY DEF Awaited
  <1>2. Written'
    <2>1. Received' = Received
      BY <1>1 DEF Received
    <2> QED
      BY <2>1 DEF Written
  <1>3. ASSUME NEW v \in Worker \ {w} PROVE InTransit(v)' /\ Solving(v)'
    <2>1. InTransit(v)'
      <3>1. Taken(v)' = Taken(v) /\ Announced(v)' = Announced(v)
        BY DEF Taken, Announced
      <3>2. \A i \in 1..Len(sent[v]) : Result(Awaited(v) + i - 1)' = Result(Awaited(v) + i - 1)
        BY <1>1 DEF Result
      <3> QED
        BY <1>1, <3>1, <3>2 DEF InTransit
    <2>2. Solving(v)'
      BY DEF Solving, HasMore
    <2> QED
      BY <2>1, <2>2
  <1> QED
    BY <1>2, <1>3

LEMMA StartUnitKeeps ==
    ASSUME IInv, NEW w \in Worker, StartUnit(w)
    PROVE  IInv'
  <1> USE DEF IInv, StartUnit, Goto, Set, ResetModel, ResetEquation
  <1>1. TypeOK'
    BY Sizes DEF TypeOK, masterVars
  <1>2. InTransit(w)' /\ Solving(w)'
    <2>1. /\ pc[w] = "unit" /\ pc'[w] \in {"solve", "failed"}
          /\ equation'[w] = None /\ valid'[w] /\ cycle'[w] = 0
      BY DEF TypeOK
    <2>2. InTransit(w)'
      <3>1. Taken(w)' = Taken(w) /\ Announced(w)' = Announced(w) /\ Awaited(w)' = Awaited(w)
        BY <2>1 DEF Taken, Announced, Awaited, masterVars
      <3>2. \A i \in 1..Len(sent[w]) : Result(Awaited(w) + i - 1)' = Result(Awaited(w) + i - 1)
        BY <3>1 DEF Result, masterVars
      <3> QED
        BY <3>1, <3>2 DEF InTransit
    <2>3. Solving(w)'
      BY <2>1, Sizes DEF Solving, HasMore
    <2> QED
      BY <2>2, <2>3
  <1>3. Written' /\ \A v \in Worker \ {w} : InTransit(v)' /\ Solving(v)'
    BY OthersKeep DEF TypeOK, Awaited
  <1> QED
    BY <1>1, <1>2, <1>3

LEMMA SolveUnitKeeps ==
    ASSUME IInv, NEW w \in Worker, SolveUnit(w)
    PROVE  IInv'
  <1> USE DEF IInv
  <1>1. HasMore(w) /\ First[w] <= at[w] /\ cycle[w] < NCycles /\ valid[w] /\ pc[w] = "solve"
    <2>1. Awaited(w) = at[w] - Len(sent[w]) /\ Len(sent[w]) \in Nat /\ at[w] \in Nat
          /\ First[w] \in Nat
      BY Sizes DEF TypeOK, Awaited
    <2> QED
      BY <2>1 DEF SolveUnit, Solving, InTransit
  <1>2. at[w] \in Unit /\ BeamAndChannel(at[w]) \in Element /\ quality[at[w]] \in -1..NCycles
    BY <1>1, UnitAt
  <1>3. cycle[w] \in 0..NCycles /\ NCycles \in Nat \ {0} /\ BeamAndChannel(at[w]) # None
    BY Sizes DEF TypeOK, BeamAndChannel, None
  <1>4. equation'[w] = BeamAndChannel(at[w]) /\ cycle'[w] = cycle[w] + 1
        /\ (valid'[w] <=> cycle[w] < quality[at[w]])
        /\ pc'[w] = IF cycle'[w] < NCycles /\ valid'[w] THEN "solve" ELSE "notify"
    <2>1. equation[w] = None \/ equation[w] = BeamAndChannel(at[w])
      BY <1>1 DEF Solving
    <2> QED
      BY <1>1, <2>1 DEF SolveUnit, Goto, Set, TypeOK
  <1>5. TypeOK'
    <2>1. cycle' \in [Worker -> 0..NCycles]
      BY <1>1, <1>3 DEF SolveUnit, Set, TypeOK
    <2>2. equation' \in [Worker -> {None} \cup Element]
      BY <1>2 DEF SolveUnit, Set, TypeOK
    <2>3. valid' \in [Worker -> BOOLEAN]
      BY DEF SolveUnit, Set, TypeOK
    <2>4. pc' \in [Worker -> {"unit", "solve", "notify", "send", "sent", "over", "failed"}]
      BY DEF SolveUnit, Set, Goto, TypeOK
    <2> QED
      BY <2>1, <2>2, <2>3, <2>4 DEF TypeOK, SolveUnit, masterVars
  <1>6. InTransit(w)'
    BY <1>1, <1>4 DEF InTransit, Taken, Announced, Result, Awaited, SolveUnit, masterVars
  <1>7. Solving(w)'
    <2>1. cycle[w] # 0 => cycle[w] <= quality[at[w]]
      BY <1>1 DEF Solving
    <2>2. CASE cycle'[w] < NCycles /\ valid'[w]
      BY <1>1, <1>2, <1>3, <1>4, <2>2 DEF Solving, HasMore, SolveUnit, masterVars
    <2>3. CASE cycle'[w] >= NCycles \/ ~valid'[w]
      <3>1. pc'[w] = "notify"
        BY <1>3, <1>4, <2>3
      <3>2. valid'[w] <=> quality[at[w]] = NCycles
        BY <1>1, <1>2, <1>3, <1>4, <2>3
      <3> QED
        BY <1>1, <1>4, <3>1, <3>2 DEF Solving, HasMore, SolveUnit, masterVars
    <2> QED
      BY <1>3, <1>4, <2>2, <2>3
  <1>8. Written' /\ \A v \in Worker \ {w} : InTransit(v)' /\ Solving(v)'
    BY OthersKeep DEF TypeOK, Awaited, SolveUnit, Goto, Set
  <1> QED
    BY <1>5, <1>6, <1>7, <1>8

\* A step that only moves the worker on, or announces a model.
LEMMA MovesOnKeep ==
    ASSUME IInv, NEW w \in Worker,
           NoDataAvailable(w) \/ Notify(w) \/ NextUnit(w) \/ FinishUnits(w)
    PROVE  IInv'
  <1> USE DEF IInv, NoDataAvailable, Notify, NextUnit, FinishUnits, Goto, Set
  <1>1. TypeOK'
    <2>1. pc' \in [Worker -> {"unit", "solve", "notify", "send", "sent", "over", "failed"}]
      BY DEF TypeOK
    <2>2. notices' \in [Worker -> Nat]
      BY DEF TypeOK
    <2> QED
      BY <2>1, <2>2 DEF TypeOK, masterVars
  <1>2. /\ sent'[w] = sent[w] /\ at'[w] = at[w] /\ cycle'[w] = cycle[w] /\ equation'[w] = equation[w]
        /\ notices[w] \in Nat /\ Len(sent[w]) \in Nat
        /\ (valid'[w] <=> valid[w]) /\ mpc' = mpc /\ source' = source /\ quality' = quality
    BY DEF TypeOK, masterVars
  <1>3. InTransit(w)'
    <2>1. notices'[w] + Taken(w)' = Len(sent'[w]) + Announced(w)'
      <3>1. Taken(w)' = Taken(w) /\ Taken(w) \in Nat
        BY <1>2 DEF Taken
      <3>2. CASE Notify(w)
        <4>1. notices'[w] = notices[w] + 1 /\ Announced(w) = 0 /\ Announced(w)' = 1
          BY <3>2 DEF TypeOK, Announced
        <4> QED
          BY <1>2, <3>1, <4>1 DEF InTransit
      <3>3. CASE NoDataAvailable(w) \/ NextUnit(w) \/ FinishUnits(w)
        <4>1. notices'[w] = notices[w] /\ Announced(w) = 0 /\ Announced(w)' = 0
          BY <3>3 DEF TypeOK, Announced
        <4> QED
          BY <1>2, <3>1, <4>1 DEF InTransit
      <3> QED
        BY <3>2, <3>3
    <2> QED
      BY <1>2, <2>1 DEF InTransit, Awaited, Result
  <1>4. Solving(w)'
    BY <1>2 DEF Solving, HasMore, TypeOK
  <1>5. Written' /\ \A v \in Worker \ {w} : InTransit(v)' /\ Solving(v)'
    BY <1>2, OthersKeep DEF TypeOK, Awaited
  <1> QED
    BY <1>1, <1>3, <1>4, <1>5

LEMMA SendModelKeeps ==
    ASSUME IInv, NEW w \in Worker, SendModel(w)
    PROVE  IInv'
  <1> USE DEF IInv
  <1> DEFINE m == Result(at[w])
  <1>1. /\ notices[w] \in Nat /\ Len(sent[w]) \in Nat /\ at[w] \in Nat /\ First[w] \in Nat
        /\ First[w + 1] \in Nat /\ sent[w] \in Seq(Model)
    BY Sizes DEF TypeOK
  <1>2. HasMore(w) /\ First[w] <= at[w] /\ pc[w] = "send"
    BY <1>1 DEF SendModel, Solving, InTransit, Awaited
  <1>3. at[w] \in Unit /\ at[w] + 1 \in 0..NUnits /\ m \in Model
    BY <1>2, UnitAt, ResultTyped
  <1>4. sent'[w] = Append(sent[w], m) /\ at'[w] = at[w] + 1 /\ pc'[w] = "sent"
    <2>1. Tag(w) = BeamAndChannel(at[w]) /\ equation[w] = BeamAndChannel(at[w])
      BY <1>2 DEF Solving, Tag
    <2>2. valid[w] = (quality[at[w]] = NCycles)
      <3>1. valid[w] <=> quality[at[w]] = NCycles
        BY <1>2 DEF Solving
      <3>2. valid[w] \in BOOLEAN
        BY DEF TypeOK
      <3> QED
        BY <3>1, <3>2
    <2>3. sent'[w] = Append(sent[w], [tag |-> Tag(w), valid |-> valid[w], of |-> equation[w]])
      BY DEF SendModel, Set, TypeOK
    <2> QED
      BY <2>1, <2>2, <2>3 DEF SendModel, Set, Goto, TypeOK, Result
  <1> HIDE DEF m
  <1>5. Len(sent'[w]) = Len(sent[w]) + 1 /\ sent'[w] \in Seq(Model)
        /\ \A i \in 1..Len(sent'[w]) : sent'[w][i] = IF i = Len(sent[w]) + 1 THEN m ELSE sent[w][i]
    BY <1>1, <1>3, <1>4, AppendProperties
  <1>6. TypeOK'
    <2>1. sent' \in [Worker -> Seq(Model)]
      BY <1>5 DEF SendModel, Set, TypeOK
    <2>2. at' \in [Worker -> 0..NUnits]
      BY <1>3 DEF SendModel, Set, TypeOK
    <2>3. pc' \in [Worker -> {"unit", "solve", "notify", "send", "sent", "over", "failed"}]
      BY DEF SendModel, Goto, TypeOK
    <2> QED
      BY <2>1, <2>2, <2>3 DEF TypeOK, SendModel, masterVars
  <1>7. Awaited(w)' = Awaited(w)
    BY <1>1, <1>4, <1>5 DEF Awaited
  <1>8. InTransit(w)'
    <2>1. notices'[w] + Taken(w)' = Len(sent'[w]) + Announced(w)'
      <3>1. Taken(w)' = Taken(w) /\ Taken(w) \in Nat /\ Announced(w) = 1 /\ Announced(w)' = 0
            /\ notices'[w] = notices[w]
        BY <1>2, <1>4 DEF Taken, Announced, SendModel, masterVars
      <3> QED
        BY <1>1, <1>5, <3>1 DEF InTransit
    <2>2. at'[w] <= First[w + 1]
      BY <1>1, <1>2, <1>4 DEF HasMore
    <2>3. ASSUME NEW i \in 1..Len(sent'[w])
          PROVE  sent'[w][i] = Result(Awaited(w) + i - 1)'
      <3>1. quality' = quality
        BY DEF SendModel, masterVars
      <3>2. CASE i = Len(sent[w]) + 1
        <4>1. Awaited(w) + i - 1 = at[w]
          BY <1>1, <3>2 DEF Awaited
        <4> QED
          BY <1>5, <1>7, <3>1, <3>2, <4>1 DEF m, Result
      <3>3. CASE i # Len(sent[w]) + 1
        <4>1. i \in 1..Len(sent[w])
          BY <1>1, <1>5, <3>3
        <4>2. sent'[w][i] = Result(Awaited(w) + i - 1)
          BY <1>5, <3>3, <4>1 DEF InTransit
        <4> QED
          BY <1>7, <3>1, <4>2 DEF Result
      <3> QED
        BY <3>2, <3>3
    <2> QED
      BY <1>7, <2>1, <2>2, <2>3 DEF InTransit
  <1>9. Solving(w)'
    BY <1>4 DEF Solving
  <1>10. Written' /\ \A v \in Worker \ {w} : InTransit(v)' /\ Solving(v)'
    BY <1>7, OthersKeep DEF TypeOK, SendModel, Set, Goto
  <1> QED
    BY <1>6, <1>8, <1>9, <1>10
-----------------------------------------------------------------------------
(* The steps of the master.                                                *)

\* They leave the workers alone.
LEMMA WorkersKeep ==
    ASSUME IInv, UNCHANGED <<quality, workerVars>>
    PROVE  \A w \in Worker : Solving(w)'
  BY DEF IInv, Solving, HasMore, workerVars

LEMMA WaitKeeps == IInv /\ WaitForNotification => IInv'
  <1> SUFFICES ASSUME IInv, WaitForNotification PROVE IInv'
    OBVIOUS
  <1> USE DEF IInv
  <1>1. PICK s \in Worker : /\ notices[s] > 0 /\ source' = s
                            /\ notices' = Set(notices, s, notices[s] - 1)
    BY DEF WaitForNotification
  <1>2. /\ notices' \in [Worker -> Nat] /\ mpc = "wait" /\ mpc' = "receive"
        /\ \A w \in Worker : notices'[w] = IF w = s THEN notices[w] - 1 ELSE notices[w]
    BY <1>1 DEF Set, TypeOK, WaitForNotification
  <1>3. TypeOK'
    BY <1>1, <1>2 DEF TypeOK, WaitForNotification, workerVars, Worker
  <1>4. Written'
    <2>1. Received' = Received
      BY DEF Received, Awaited, WaitForNotification, workerVars
    <2> QED
      BY <1>1, <1>2, <2>1 DEF Written, WaitForNotification
  <1>5. ASSUME NEW w \in Worker PROVE InTransit(w)'
    <2>1. Awaited(w)' = Awaited(w) /\ Announced(w)' = Announced(w)
      BY DEF Awaited, Announced, WaitForNotification, workerVars
    <2>2. \A i \in 1..Len(sent[w]) : Result(Awaited(w) + i - 1)' = Result(Awaited(w) + i - 1)
      BY <2>1 DEF Result, WaitForNotification
    <2>3. notices'[w] + Taken(w)' = notices[w] + Taken(w)
      <3>1. Taken(w) = 0 /\ Taken(w)' = IF w = s THEN 1 ELSE 0
        BY <1>1, <1>2 DEF Taken
      <3> QED
        BY <1>1, <1>2, <3>1 DEF TypeOK
    <2> QED
      BY <2>1, <2>2, <2>3 DEF InTransit, WaitForNotification, workerVars
  <1> QED
    BY <1>3, <1>4, <1>5, WorkersKeep DEF WaitForNotification

LEMMA CloseKeeps == IInv /\ CloseTable => IInv'
  <1> SUFFICES ASSUME IInv, CloseTable PROVE IInv'
    OBVIOUS
  <1> USE DEF IInv
  <1>1. TypeOK'
    BY DEF TypeOK, CloseTable, workerVars
  <1>2. Written'
    <2>1. Received' = Received
      BY DEF Received, Awaited, CloseTable, workerVars
    <2> QED
      BY <2>1 DEF Written, CloseTable, NumberOfWorkUnits, NUnits
  <1>3. ASSUME NEW w \in Worker PROVE InTransit(w)'
    <2>1. Awaited(w)' = Awaited(w) /\ Announced(w)' = Announced(w) /\ Taken(w)' = Taken(w)
      BY DEF Awaited, Announced, Taken, CloseTable, workerVars
    <2>2. \A i \in 1..Len(sent[w]) : Result(Awaited(w) + i - 1)' = Result(Awaited(w) + i - 1)
      BY <2>1 DEF Result, CloseTable
    <2> QED
      BY <2>1, <2>2 DEF InTransit, CloseTable, workerVars
  <1> QED
    BY <1>1, <1>2, <1>3, WorkersKeep DEF CloseTable

\* What the master takes is the result of the first unit it does not have from
\* that worker, and nobody else has sent it.
LEMMA TakesAwaited ==
    ASSUME IInv, ReceiveModel
    PROVE  LET u == Awaited(source) IN
           /\ source \in Worker /\ sent[source] \in Seq(Model) /\ sent[source] # <<>>
           /\ Head(sent[source]) = Result(u)
           /\ u \in Unit /\ u \notin Received
           /\ Awaited(source)' = u + 1
           /\ \A w \in Worker \ {source} : Awaited(w)' = Awaited(w)
           /\ Received' = Received \cup {u}
  <1> USE Sizes DEF IInv
  <1> DEFINE s == source
             u == Awaited(s)
  <1>1. s \in Worker /\ sent[s] \in Seq(Model) /\ sent[s] # <<>> /\ at[s] \in Nat
        /\ First[s] \in Nat /\ First[s + 1] \in 0..NUnits
    BY DEF ReceiveModel, Written, TypeOK
  <1>2. Len(sent[s]) \in Nat \ {0} /\ Head(sent[s]) = sent[s][1]
    BY <1>1
  <1>3. u = at[s] - Len(sent[s]) /\ u \in Int
    BY <1>1, <1>2 DEF Awaited
  <1>4. First[s] <= u /\ u < at[s] /\ at[s] <= First[s + 1]
    BY <1>1, <1>2, <1>3 DEF InTransit
  <1>5. u \in Unit
    BY <1>1, <1>3, <1>4 DEF Unit
  <1>6. Head(sent[s]) = Result(u)
    <2>1. sent[s][1] = Result(u + 1 - 1)
      BY <1>1, <1>2 DEF InTransit
    <2>2. u + 1 - 1 = u
      BY <1>3
    <2> QED
      BY <1>2, <2>1, <2>2
  <1>7. u \notin Received
    <2> SUFFICES ASSUME NEW w \in Worker, First[w] <= u, u < Awaited(w) PROVE FALSE
      BY DEF Received
    <2>1. Awaited(w) <= at[w] /\ at[w] <= First[w + 1] /\ at[w] \in Nat /\ Awaited(w) \in Int
      <3>1. at[w] \in Nat /\ Len(sent[w]) \in Nat /\ at[w] <= First[w + 1]
        BY DEF InTransit, TypeOK
      <3> QED
        BY <3>1 DEF Awaited
    <2>2. u < First[w + 1] /\ u < First[s + 1]
      BY <1>1, <1>3, <1>4, <2>1
    <2>3. w = s
      BY <1>1, <1>4, <1>5, <2>2, SharesApart
    <2> QED
      BY <1>3, <2>3
  <1>8. /\ Len(sent'[s]) = Len(sent[s]) - 1
        /\ \A w \in Worker \ {s} : sent'[w] = sent[w]
        /\ at' = at
    BY <1>1, HeadTailProperties DEF ReceiveModel, Set, TypeOK, workerVars
  <1>9. Awaited(s)' = u + 1
    <2>1. source' = source
      BY DEF ReceiveModel
    <2> QED
      BY <1>1, <1>2, <1>8, <2>1 DEF Awaited
  <1>10. \A w \in Worker \ {s} : Awaited(w)' = Awaited(w)
    BY <1>8 DEF Awaited
  <1>11. Received' = Received \cup {u}
    <2>1. \A v \in Unit : First[s] <= v /\ v < u + 1 <=> (First[s] <= v /\ v < u) \/ v = u
      BY <1>1, <1>3, <1>4 DEF Unit
    <2>2. \A v \in Unit : First[s] <= v /\ v < Awaited(s)' <=> (First[s] <= v /\ v < u) \/ v = u
      BY <1>9, <2>1
    <2>3. ASSUME NEW v \in Unit, NEW w \in Worker
          PROVE  First[w] <= v /\ v < Awaited(w)'
                     <=> (First[w] <= v /\ v < Awaited(w)) \/ (w = s /\ v = u)
      <3>1. CASE w = s
        <4>1. Awaited(w)' = u + 1
          BY <1>9, <3>1 DEF Awaited, ReceiveModel
        <4>2. Awaited(w) = u
          BY <3>1
        <4> HIDE DEF u
        <4> QED
          BY <2>1, <3>1, <4>1, <4>2
      <3>2. CASE w # s
        <4>1. Awaited(w)' = Awaited(w)
          BY <1>10, <3>2
        <4> QED
          BY <3>2, <4>1
      <3> QED
        BY <3>1, <3>2
    <2> HIDE DEF u
    <2> QED
      BY <1>1, <1>5, <2>3 DEF Received
  <1> QED
    BY <1>1, <1>5, <1>6, <1>7, <1>9, <1>10, <1>11

LEMMA ReceiveKeeps == IInv /\ ReceiveModel => IInv'
  <1> SUFFICES ASSUME IInv, ReceiveModel PROVE IInv'
    OBVIOUS
  <1> USE DEF IInv
  <1> DEFINE s == source
             u == Awaited(s)
             element == [at |-> BeamAndChannel(u), of |-> BeamAndChannel(u)]
  <1>1. /\ s \in Worker /\ sent[s] \in Seq(Model) /\ sent[s] # <<>> /\ Head(sent[s]) = Result(u)
        /\ u \in Unit /\ u \notin Received /\ Awaited(s)' = u + 1
        /\ \A w \in Worker \ {s} : Awaited(w)' = Awaited(w)
        /\ Received' = Received \cup {u}
    BY TakesAwaited
  <1>2. /\ Tail(sent[s]) \in Seq(Model) /\ Len(sent[s]) \in Nat \ {0}
        /\ Len(Tail(sent[s])) = Len(sent[s]) - 1
        /\ \A i \in 1..Len(Tail(sent[s])) : Tail(sent[s])[i] = sent[s][i + 1]
    BY <1>1, HeadTailProperties
  <1>3. /\ sent' \in [Worker -> Seq(Model)] /\ sent'[s] = Tail(sent[s])
        /\ \A w \in Worker \ {s} : sent'[w] = sent[w]
    BY <1>1, <1>2 DEF ReceiveModel, Set, TypeOK
  <1>4. mpc = "receive" /\ mpc' = "wait" /\ quality' = quality /\ notices' = notices
        /\ source' = source /\ chunk' = chunk + 1
        /\ table' = IF quality[u] = NCycles THEN table \cup {element} ELSE table
    <2>1. /\ Result(u).valid = (quality[u] = NCycles)
          /\ Result(u).tag = BeamAndChannel(u) /\ Result(u).of = BeamAndChannel(u)
      BY DEF Result
    <2>2. table' = IF Result(u).valid
                   THEN table \cup {[at |-> Result(u).tag, of |-> Result(u).of]} ELSE table
      BY <1>1 DEF ReceiveModel
    <2> QED
      BY <2>1, <2>2 DEF ReceiveModel
  <1>5. chunk' = Cardinality(Received') /\ chunk' \in 0..NUnits
    <2>1. Received \subseteq Unit /\ Received' \subseteq Unit
      BY <1>1 DEF Received
    <2>2. IsFiniteSet(Received) /\ IsFiniteSet(Received')
      BY <2>1, Units, FS_Subset
    <2>3. Cardinality(Received') = Cardinality(Received) + 1
      BY <1>1, <2>2, FS_AddElement
    <2>4. Cardinality(Received') \in Nat /\ Cardinality(Received') <= NUnits
      BY <2>1, <2>2, Units, FS_Subset, FS_CardinalityType
    <2> QED
      BY <1>4, <2>3, <2>4, Sizes DEF Written
  <1>6. Written'
    <2>1. table' = {[at |-> BeamAndChannel(x), of |-> BeamAndChannel(x)] :
                        x \in {v \in Received' : quality'[v] = NCycles}}
      BY <1>1, <1>4 DEF Written
    <2> QED
      BY <1>4, <1>5, <2>1 DEF Written, BeamAndChannel
  <1>7. TypeOK'
    <2>1. table' \subseteq [at : Element, of : Element]
      BY <1>1, <1>4 DEF TypeOK, Element
    <2> QED
      BY <1>3, <1>4, <1>5, <2>1 DEF TypeOK, ReceiveModel, workerVars
  <1>8. ASSUME NEW w \in Worker PROVE InTransit(w)'
    <2>1. /\ Announced(w)' = Announced(w) /\ at' = at /\ notices[w] \in Nat
          /\ Announced(w) \in Nat
      BY DEF Announced, ReceiveModel, workerVars, TypeOK
    <2>2. \A k \in Int : Result(k)' = Result(k)
      BY <1>4 DEF Result
    <2>3. CASE w = s
      <3>1. Taken(w) = 1 /\ Taken(w)' = 0
        BY <1>4, <2>3 DEF Taken
      <3>2. notices'[w] + Taken(w)' = Len(sent'[w]) + Announced(w)'
        <4>1. notices[w] + Taken(w) = Len(sent[w]) + Announced(w)
          BY DEF InTransit
        <4>2. Len(sent'[w]) = Len(sent[w]) - 1 /\ notices'[w] = notices[w]
          BY <1>2, <1>3, <1>4, <2>3
        <4> QED
          BY <1>2, <2>1, <2>3, <3>1, <4>1, <4>2
      <3>3. u \in Nat /\ First[w] \in Nat
        BY <1>1, Sizes DEF Unit
      <3>4. First[w] <= Awaited(w)' /\ at'[w] <= First[w + 1]
        <4>1. First[w] <= u /\ at[w] <= First[w + 1]
          BY <2>3 DEF InTransit
        <4>2. Awaited(w)' = u + 1
          BY <1>1, <1>4, <2>3
        <4> QED
          BY <2>1, <3>3, <4>1, <4>2
      <3>5. ASSUME NEW i \in 1..Len(sent'[w])
            PROVE  sent'[w][i] = Result(Awaited(w) + i - 1)'
        <4>1. sent'[w][i] = sent[w][i + 1] /\ i + 1 \in 1..Len(sent[w])
          BY <1>2, <1>3, <2>3
        <4>2. sent[w][i + 1] = Result(u + (i + 1) - 1)
          BY <2>3, <4>1 DEF InTransit
        <4>3. u + (i + 1) - 1 = (u + 1) + i - 1
          BY <3>3
        <4>4. sent'[w][i] = Result((u + 1) + i - 1)
          BY <4>1, <4>2, <4>3
        <4> QED
          BY <1>1, <1>4, <2>3, <4>4 DEF Result
      <3> QED
        BY <3>2, <3>4, <3>5 DEF InTransit
    <2>4. CASE w # s
      <3>1. Taken(w)' = Taken(w) /\ sent'[w] = sent[w] /\ Awaited(w)' = Awaited(w)
        BY <1>1, <1>3, <1>4, <2>4 DEF Taken
      <3>2. \A i \in 1..Len(sent[w]) : Result(Awaited(w) + i - 1)' = Result(Awaited(w) + i - 1)
        BY <1>4, <3>1 DEF Result
      <3> QED
        BY <1>4, <2>1, <3>1, <3>2 DEF InTransit
    <2> QED
      BY <2>3, <2>4
  <1> QED
    BY <1>4, <1>6, <1>7, <1>8, WorkersKeep DEF ReceiveModel
-----------------------------------------------------------------------------
LEMMA Stutter == IInv /\ UNCHANGED vars => IInv'
  <1> SUFFICES ASSUME IInv, UNCHANGED vars PROVE IInv'
    OBVIOUS
  <1> USE DEF vars, masterVars, IInv
  <1>1. TypeOK'
    BY DEF TypeOK, workerVars
  <1>2. Written'
    BY DEF Written, Received, Awaited, workerVars
  <1>3. ASSUME NEW w \in Worker PROVE InTransit(w)'
    <2>1. Awaited(w)' = Awaited(w) /\ Announced(w)' = Announced(w) /\ Taken(w)' = Taken(w)
      BY DEF Awaited, Announced, Taken, workerVars
    <2>2. \A i \in 1..Len(sent[w]) : Result(Awaited(w) + i - 1)' = Result(Awaited(w) + i - 1)
      BY <2>1 DEF Result
    <2> QED
      BY <2>1, <2>2 DEF InTransit, workerVars
  <1> QED
    BY <1>1, <1>2, <1>3, WorkersKeep

\* However the workers run ahead of the master and of each other, what is on
\* its way from each are the results of the units it went through last, and
\* the master has counted and written those before
\* (BPCalibratorParallel.cc:245-309, 333-404).
THEOREM Invariance == Spec => []IInv
  <1>1. IInv /\ [Next]_vars => IInv'
    <2> SUFFICES ASSUME IInv, [Next]_vars PROVE IInv'
      OBVIOUS
    <2>1. CASE Master
      BY <2>1, WaitKeeps, ReceiveKeeps, CloseKeeps DEF Master
    <2>2. CASE \E w \in Worker : WorkerStep(w)
      BY <2>2, StartUnitKeeps, SolveUnitKeeps, MovesOnKeep, SendModelKeeps DEF WorkerStep
    <2>3. CASE UNCHANGED vars
      BY <2>3, Stutter
    <2> QED
      BY <2>1, <2>2, <2>3 DEF Next
  <1> QED
    BY Initially, <1>1, PTL DEF Spec

\* The model the master receives after a notification is the one it was
\* notified of, and says truly of which beam and channel it is
\* (BPCalibratorParallel.cc:287-294, 301-309, 370-404).
THEOREM EveryModelAnnounced == Spec => []ModelsAnnounced
  <1>1. IInv => ModelsAnnounced
    <2> SUFFICES ASSUME IInv PROVE ModelsAnnounced
      OBVIOUS
    <2> USE DEF IInv
    <2>1. ASSUME NEW w \in Worker
          PROVE  /\ notices[w] + Taken(w) = Len(sent[w]) + Announced(w)
                 /\ Len(sent[w]) <= at[w] - First[w] /\ at[w] <= First[w + 1]
                 /\ \A i \in 1..Len(sent[w]) :
                     /\ sent[w][i].of = sent[w][i].tag
                     /\ sent[w][i].tag = BeamAndChannel(at[w] - Len(sent[w]) + i - 1)
      <3>1. at[w] \in Nat /\ First[w] \in Nat /\ Len(sent[w]) \in Nat
        BY Sizes DEF TypeOK
      <3>2. Len(sent[w]) <= at[w] - First[w]
        BY <3>1 DEF InTransit, Awaited
      <3>3. ASSUME NEW i \in 1..Len(sent[w])
            PROVE  /\ sent[w][i].of = sent[w][i].tag
                   /\ sent[w][i].tag = BeamAndChannel(at[w] - Len(sent[w]) + i - 1)
        <4>1. sent[w][i] = Result(Awaited(w) + i - 1)
          BY DEF InTransit
        <4>2. sent[w][i].of = BeamAndChannel(Awaited(w) + i - 1)
              /\ sent[w][i].tag = BeamAndChannel(Awaited(w) + i - 1)
          BY <4>1 DEF Result
        <4> QED
          BY <4>2 DEF Awaited
      <3> QED
        BY <3>2, <3>3 DEF InTransit
    <2> QED
      BY <2>1 DEF ModelsAnnounced
  <1> QED
    BY <1>1, Invariance, PTL

\* Without debug assertions, or with feeds less than the number of beams, a
\* worker fails only where there are no data, whatever beams it solves for
\* (BPCalibratorParallel.cc:350, 359, 691; BPCalibratorParallel.h:262-264).
THEOREM FailsForLackOfData ==
    ASSUME ~Debug \/ \A b \in 0..(NBeams - 1) : BeamIndex[b] < NBeams
    PROVE  Spec => []FailsOnlyWithoutData
  <1> USE DEF FailsOnlyWithoutData
  <1>1. Init => FailsOnlyWithoutData
    BY DEF Init
  <1>2. IInv /\ FailsOnlyWithoutData /\ [Next]_vars => FailsOnlyWithoutData'
    <2> SUFFICES ASSUME IInv, FailsOnlyWithoutData, [Next]_vars,
                        NEW w \in Worker, pc'[w] = "failed"
                 PROVE  quality'[at'[w]] = -1
      OBVIOUS
    <2> USE DEF IInv, Goto, Set
    <2>1. quality' = quality
      BY DEF Next, Master, WaitForNotification, ReceiveModel, CloseTable, WorkerStep, StartUnit,
         NoDataAvailable, SolveUnit, Notify, SendModel, NextUnit, FinishUnits, vars, masterVars
    <2>2. CASE pc[w] = "failed"
      <3>1. at'[w] = at[w]
        BY <2>2 DEF Next, Master, WaitForNotification, ReceiveModel, CloseTable, WorkerStep,
           StartUnit, NoDataAvailable, SolveUnit, Notify, SendModel, NextUnit, FinishUnits, vars,
           workerVars, TypeOK
      <3> QED
        BY <2>1, <2>2, <3>1
    <2>3. CASE pc[w] # "failed"
      <3>1. StartUnit(w) \/ NoDataAvailable(w)
        <4>1. PICK v \in Worker : WorkerStep(v)
          BY <2>3 DEF Next, Master, WaitForNotification, ReceiveModel, CloseTable, vars, workerVars
        <4>2. v = w
          BY <2>3, <4>1 DEF WorkerStep, StartUnit, NoDataAvailable, SolveUnit, Notify, SendModel,
             NextUnit, FinishUnits, TypeOK
        <4>3. ~(SolveUnit(w) \/ Notify(w) \/ SendModel(w) \/ NextUnit(w) \/ FinishUnits(w))
          BY DEF SolveUnit, Notify, SendModel, NextUnit, FinishUnits, TypeOK
        <4> QED
          BY <4>1, <4>2, <4>3 DEF WorkerStep
      <3>2. ~StartUnit(w)
        <4>1. at[w] % NBeams \in 0..(NBeams - 1)
          BY Sizes DEF TypeOK
        <4>2. ~AssertionFails(at[w])
          BY <4>1, Sizes, ShareAssumption DEF AssertionFails
        <4> QED
          BY <4>2 DEF StartUnit, TypeOK
      <3> QED
        BY <2>1, <3>1, <3>2 DEF NoDataAvailable, NoData
    <2> QED
      BY <2>2, <2>3
  <1> QED
    BY <1>1, <1>2, Invariance, PTL DEF Spec
-----------------------------------------------------------------------------
(* The refinement.                                                         *)

Solvable == {BeamAndChannel(u) : u \in Good}

\* The master writes each solution that there is once, in any order and made
\* from the data of its own beam and channel, and closes the table when it has
\* them all, for any shares and any data (BPCalibratorParallel.cc:245-309).
THEOREM TableImplemented == Spec => ImplementsTable
  <1>1. Init => Filled!TableInit
    BY DEF Init, Filled!TableInit
  <1>2. IInv /\ [Next]_vars => [Filled!WriteElement \/ Filled!Close]_(Filled!tableVars)
    <2> SUFFICES ASSUME IInv, [Next]_vars
                 PROVE  \/ Filled!WriteElement \/ Filled!Close
                        \/ UNCHANGED Filled!tableVars
      OBVIOUS
    <2> USE DEF IInv
    <2>1. quality' = quality
      BY DEF Next, Master, WaitForNotification, ReceiveModel, CloseTable, WorkerStep, StartUnit,
         NoDataAvailable, SolveUnit, Notify, SendModel, NextUnit, FinishUnits, vars, masterVars
    <2>2. Solvable' = Solvable
      BY <2>1 DEF Solvable, Good, BeamAndChannel
    <2>3. CASE ReceiveModel
      <3> DEFINE u == Awaited(source)
      <3>1. /\ u \in Unit /\ u \notin Received /\ Head(sent[source]) = Result(u)
        BY <2>3, TakesAwaited
      <3>2. (mpc = "over") = FALSE /\ (mpc' = "over") = FALSE
        BY <2>3 DEF ReceiveModel
      <3>3. CASE quality[u] = NCycles
        <4>1. BeamAndChannel(u) \in Solvable
          BY <3>1, <3>3 DEF Solvable, Good
        <4>2. table' = table \cup {Filled!Element(BeamAndChannel(u))}
          <5>1. Result(u).valid /\ Result(u).tag = BeamAndChannel(u)
                /\ Result(u).of = BeamAndChannel(u)
            BY <3>3 DEF Result
          <5> QED
            BY <2>3, <3>1, <5>1 DEF ReceiveModel, Filled!Element
        <4>3. ASSUME NEW e \in table PROVE e.at # BeamAndChannel(u)
          <5>1. PICK x \in Received : e = [at |-> BeamAndChannel(x), of |-> BeamAndChannel(x)]
            BY DEF Written
          <5>2. x \in Unit /\ x # u
            BY <3>1 DEF Received
          <5> QED
            BY <3>1, <5>1, <5>2, NamesDiffer
        <4>4. Filled!WriteElement
          BY <2>2, <3>2, <4>1, <4>2, <4>3 DEF Filled!WriteElement, Solvable
        <4> QED
          BY <4>4
      <3>4. CASE quality[u] # NCycles
        <4>1. table' = table
          <5>1. ~Result(u).valid
            BY <3>4 DEF Result
          <5> QED
            BY <2>3, <3>1, <5>1 DEF ReceiveModel
        <4> QED
          BY <2>2, <3>2, <4>1 DEF Filled!tableVars, Solvable
      <3> QED
        BY <3>3, <3>4
    <2>4. CASE CloseTable
      <3>1. Cardinality(Received) = NUnits
        BY <2>4 DEF Written, CloseTable, NumberOfWorkUnits, NUnits
      <3>2. Received = Unit
        <4>1. Received \subseteq Unit
          BY DEF Received
        <4> QED
          BY <3>1, <4>1, Units, FS_Subset
      <3>3. table = {Filled!Element(e) : e \in Solvable}
        BY <3>2 DEF Written, Solvable, Good, Filled!Element
      <3>4. table' = table /\ (mpc' = "over") = TRUE
        BY <2>4 DEF CloseTable
      <3>5. Filled!Close
        BY <2>2, <3>3, <3>4 DEF Filled!Close, Solvable
      <3> QED
        BY <3>5
    <2>5. CASE WaitForNotification \/ (\E w \in Worker : WorkerStep(w)) \/ UNCHANGED vars
      <3>1. table' = table /\ (mpc' = "over") = (mpc = "over")
        BY <2>5 DEF WaitForNotification, WorkerStep, StartUnit, NoDataAvailable, SolveUnit, Notify,
           SendModel, NextUnit, FinishUnits, vars, masterVars
      <3> QED
        BY <2>2, <3>1 DEF Filled!tableVars, Solvable
    <2> QED
      BY <2>3, <2>4, <2>5 DEF Next, Master
  <1> QED
    BY <1>1, <1>2, Invariance, PTL DEF Spec, ImplementsTable, Filled!Solved
=============================================================================
