------------------------ MODULE Calibration_proofs ------------------------
(***************************************************************************)
(* The calibration loop keeps master and workers in step, for any number   *)
(* of workers, cycles and chunks; and it does what one process would.      *)
(***************************************************************************)
EXTENDS Calibration, SequenceTheorems, TLAPS

Sum == [ne : NE, metadata : Metadata]

LEMMA SingleMessage ==
    ASSUME NEW S, NEW s \in Seq(S), Len(s) = 1
    PROVE  Head(s) = s[1] /\ Head(s) \in S /\ Tail(s) = <<>> /\ s # <<>>
  <1>1. Head(s) = s[1] /\ Head(s) \in S /\ s # <<>>
    OBVIOUS
  <1>2. Tail(s) \in Seq(S) /\ Len(Tail(s)) = 0
    BY <1>1
  <1> QED
    BY <1>1, <1>2, EmptySeq

LEMMA FirstMessage ==
    ASSUME NEW x
    PROVE  /\ Append(<<>>, x) = <<x>>
           /\ <<x>> # <<>> /\ Len(<<x>>) = 1 /\ <<x>>[1] = x
           /\ Head(<<x>>) = x /\ Tail(<<x>>) = <<>>
  OBVIOUS

LEMMA Typed == Init => TypeOK
  <1> SUFFICES ASSUME Init PROVE TypeOK
    OBVIOUS
  <1>1. Fresh(0) \in Models /\ Fresh(1) \in Models
    BY JobAssumption DEF Fresh, Models
  <1>2. job.chunks \in [Worker -> Nat \ {0}]
    BY JobAssumption DEF Init
  <1>3. mmetadata \in Metadata /\ metadata \in [Worker -> Metadata]
    BY DEF Init, NoMetadata, Metadata
  <1>4. cycle \in [Worker -> 0..(NCycles - 1)]
    BY JobAssumption DEF Init
  <1>5. models \in [Worker -> Seq(Models)] /\ sent \in [Worker -> Seq(Sum)]
    BY DEF Init
  <1> QED
    BY <1>1, <1>2, <1>3, <1>4, <1>5 DEF Init, TypeOK, Sum

THEOREM Initially == Init => IInv
  <1> SUFFICES ASSUME Init PROVE IInv
    OBVIOUS
  <1>1. TypeOK
    BY Typed
  <1>2. ASSUME NEW w \in Worker PROVE InStep(w) /\ AdapterAhead(w)
    BY JobAssumption DEF Init, InStep, AdapterAhead, Unanswered, OnItsWay, Stage, Awaited, Fresh
  <1>3. WrittenSoFar
    BY JobAssumption DEF Init, WrittenSoFar, Fresh
  <1> QED
    BY <1>1, <1>2, <1>3 DEF IInv
-----------------------------------------------------------------------------
(* The steps of the master.                                                *)

LEMMA TypedModel ==
    ASSUME TypeOK
    PROVE  /\ mmodel[1] \in Nat /\ mmodel[2] \in 0..NCycles /\ mmodel = <<mmodel[1], mmodel[2]>>
           /\ NCycles \in Nat \ {0} /\ NWorkers \in Nat \ {0} /\ 1 \in Worker
           /\ \A w \in Worker : job.chunks[w] \in Nat \ {0}
  <1>1. mmodel \in Nat \X (0..NCycles)
    BY DEF TypeOK, Models
  <1>2. job.chunks \in [Worker -> Nat \ {0}]
    BY JobAssumption DEF TypeOK
  <1> QED
    BY <1>1, <1>2, JobAssumption DEF Worker

LEMMA BroadcastKeeps == IInv /\ BroadcastModel => IInv'
  <1> SUFFICES ASSUME IInv, BroadcastModel PROVE IInv'
    OBVIOUS
  <1> USE TypedModel DEF IInv
  <1>1. ASSUME NEW w \in Worker
        PROVE  models[w] = <<>> /\ models'[w] = <<mmodel>> /\ Unanswered(w)
    <2>1. models[w] = <<>> /\ Unanswered(w)
      BY DEF BroadcastModel, InStep, Answered, Unanswered, OnItsWay
    <2> QED
      BY <2>1, FirstMessage DEF BroadcastModel
  <1>2. TypeOK'
    <2>1. models' \in [Worker -> Seq(Models)]
      BY <1>1 DEF BroadcastModel, TypeOK
    <2> QED
      BY <2>1 DEF BroadcastModel, TypeOK, workerVars
  <1>3. ASSUME NEW w \in Worker PROVE InStep(w)'
    <2>1. Unanswered(w)' /\ Unanswered(w) /\ ~Answered(w)
      BY <1>1, FirstMessage DEF BroadcastModel, Unanswered, OnItsWay, Answered
    <2>2. Stage(w)' = Stage(w) /\ pc'[w] = pc[w] /\ Awaited' = Awaited
      BY DEF BroadcastModel, workerVars, Stage, Awaited
    <2>3. mpc # "solve"
      BY DEF BroadcastModel
    <2> QED
      BY <2>1, <2>2, <2>3 DEF InStep, After
  <1>4. ASSUME NEW w \in Worker PROVE AdapterAhead(w)'
    BY DEF BroadcastModel, AdapterAhead, workerVars
  <1>5. WrittenSoFar'
    BY DEF BroadcastModel, WrittenSoFar
  <1> QED
    BY <1>2, <1>3, <1>4, <1>5

\* What the master takes is for this cycle.
LEMMA TakesAnswers ==
    ASSUME IInv, SolveNE, NEW w \in Worker
    PROVE  /\ Answered(w) /\ Received(w) = [of |-> mmodel[1], with |-> mmodel]
           /\ Head(sent[w]) \in Sum /\ Tail(sent[w]) = <<>>
  <1>1. sent[w] \in Seq(Sum) /\ sent[w] # <<>> /\ InStep(w)
    BY DEF IInv, TypeOK, Sum, SolveNE
  <1>2. Answered(w)
    BY <1>1 DEF InStep, Unanswered
  <1>3. Len(sent[w]) = 1
    BY <1>2 DEF Answered
  <1>4. Head(sent[w]) = sent[w][1] /\ Head(sent[w]) \in Sum /\ Tail(sent[w]) = <<>>
    BY <1>1, <1>3, SingleMessage
  <1> QED
    BY <1>2, <1>4 DEF Received, Answered

LEMMA SolveKeeps == IInv /\ SolveNE => IInv'
  <1> SUFFICES ASSUME IInv, SolveNE PROVE IInv'
    OBVIOUS
  <1> USE TypedModel DEF IInv
  <1>1. mpc = "solve" /\ mmodel[2] < NCycles
    BY DEF SolveNE, WrittenSoFar
  <1>2. mmodel' \in Models /\ mmodel'[1] = mmodel[1] /\ mmodel'[2] = mmodel[2] + 1
    BY <1>1 DEF SolveNE, Solved, Models
  <1>3. ASSUME NEW w \in Worker
        PROVE  Answered(w) /\ sent'[w] = <<>> /\ models'[w] = <<>> /\ Unanswered(w)'
    <2>1. Answered(w) /\ Tail(sent[w]) = <<>>
      BY TakesAnswers
    <2>2. mpc' # "solve"
      BY DEF SolveNE
    <2> QED
      BY <2>1, <2>2 DEF SolveNE, Answered, Unanswered, OnItsWay
  <1>4. Awaited' = After(mmodel)
    BY <1>1, <1>2 DEF Awaited, After, Solved, Fresh, SolveNE
  <1>5. TypeOK'
    <2>1. mmetadata' \in Metadata
      <3>1. Head(sent[1]).metadata \in Metadata /\ mmetadata \in Metadata
        BY TakesAnswers DEF Sum, TypeOK
      <3> QED
        BY <3>1 DEF SolveNE, Merge, Metadata
    <2>2. mne' \in [Worker -> NE \cup {<<>>}]
      BY TakesAnswers DEF SolveNE, Sum, Received
    <2>3. sent' \in [Worker -> Seq(Sum)]
      <3>1. <<>> \in Seq(Sum)
        OBVIOUS
      <3>2. sent' = [w \in Worker |-> <<>>]
        BY TakesAnswers DEF SolveNE
      <3> QED
        BY <3>1, <3>2
    <2> QED
      BY <1>2, <2>1, <2>2, <2>3 DEF SolveNE, TypeOK, workerVars, Sum
  <1>6. ASSUME NEW w \in Worker PROVE InStep(w)'
    <2>1. \/ pc[w] = "sent" /\ Stage(w) = mmodel
          \/ pc[w] = "model" /\ Stage(w) = After(mmodel)
          \/ pc[w] = "over"
      BY <1>3, <1>1 DEF InStep, Unanswered, OnItsWay, Answered
    <2>2. Stage(w)' = Stage(w) /\ pc'[w] = pc[w]
      BY DEF SolveNE, workerVars, Stage
    <2>3. CASE pc[w] = "sent" /\ Stage(w) = mmodel
      BY <1>3, <1>4, <2>2, <2>3 DEF InStep, After
    <2>4. CASE pc[w] = "model" /\ Stage(w) = After(mmodel)
      BY <1>3, <1>4, <2>2, <2>4 DEF InStep
    <2>5. CASE pc[w] = "over"
      BY <1>3, <2>2, <2>5 DEF InStep
    <2> QED
      BY <2>1, <2>3, <2>4, <2>5
  <1>7. ASSUME NEW w \in Worker PROVE AdapterAhead(w)'
    BY DEF SolveNE, workerVars, AdapterAhead
  <1>8. WrittenSoFar'
    BY <1>1, <1>2 DEF SolveNE, WrittenSoFar
  <1> QED
    BY <1>5, <1>6, <1>7, <1>8

LEMMA WriteKeeps == IInv /\ WriteModel => IInv'
  <1> SUFFICES ASSUME IInv, WriteModel PROVE IInv'
    OBVIOUS
  <1> USE TypedModel DEF IInv
  <1>1. TypeOK'
    <2>1. [ne |-> mne, time |-> mmetadata.minTime]
              \in [ne : [Worker -> NE \cup {<<>>}], time : Nat]
      BY DEF TypeOK, Metadata
    <2>2. written' \in Seq([ne : [Worker -> NE \cup {<<>>}], time : Nat])
      BY <2>1 DEF TypeOK, WriteModel
    <2> QED
      BY <2>2 DEF TypeOK, WriteModel, workerVars
  <1>2. ASSUME NEW w \in Worker PROVE InStep(w)'
    <2>1. Unanswered(w)' /\ Unanswered(w) /\ ~Answered(w)
      BY DEF WriteModel, InStep, Answered, Unanswered, OnItsWay
    <2>2. Stage(w)' = Stage(w) /\ pc'[w] = pc[w] /\ Awaited' = Awaited
      BY DEF WriteModel, workerVars, Stage, Awaited
    <2>3. mpc # "solve"
      BY DEF WriteModel
    <2> QED
      BY <2>1, <2>2, <2>3 DEF InStep, After
  <1>3. ASSUME NEW w \in Worker PROVE AdapterAhead(w)'
    BY DEF WriteModel, workerVars, AdapterAhead
  <1>4. WrittenSoFar'
    <2>1. Len(written') = Len(written) + 1
      BY DEF WriteModel, TypeOK
    <2>2. Len(written) = mmodel[1] - 1 /\ mmodel[2] = NCycles
      BY DEF WriteModel, WrittenSoFar
    <2>3. mpc' = "next" /\ mmodel' = mmodel
      BY DEF WriteModel
    <2> QED
      BY <2>1, <2>2, <2>3 DEF WrittenSoFar
  <1> QED
    BY <1>1, <1>2, <1>3, <1>4

LEMMA NextIntervalKeeps == IInv /\ NextInterval => IInv'
  <1> SUFFICES ASSUME IInv, NextInterval PROVE IInv'
    OBVIOUS
  <1> USE TypedModel DEF IInv
  <1>1. mmodel[2] = NCycles /\ mpc = "next"
    BY DEF NextInterval, WrittenSoFar
  <1>2. mmodel' = mmodel \/ mmodel' = Fresh(mmodel[1] + 1)
    BY DEF NextInterval
  <1>3. Awaited' = Awaited
    BY <1>1, <1>2 DEF Awaited, Fresh
  <1>4. TypeOK'
    <2>1. mmodel' \in Models
      <3>1. mmodel[1] + 1 \in Nat /\ 0 \in 0..NCycles
        BY JobAssumption
      <3>a. mmodel \in Models
        BY DEF TypeOK
      <3>2. Fresh(mmodel[1] + 1) \in Models
        BY <3>1 DEF Fresh, Models
      <3>3. CASE mmodel' = mmodel
        BY <3>a, <3>3
      <3>4. CASE mmodel' = Fresh(mmodel[1] + 1)
        BY <3>2, <3>4
      <3> QED
        BY <1>2, <3>3, <3>4
    <2>2. mmetadata' \in Metadata
      BY DEF TypeOK, NextInterval, RemoveFlag, Metadata
    <2> QED
      BY <2>1, <2>2 DEF TypeOK, NextInterval, workerVars
  <1>5. ASSUME NEW w \in Worker PROVE InStep(w)'
    <2>1. Unanswered(w)' /\ Unanswered(w) /\ ~Answered(w)
      BY <1>1 DEF NextInterval, InStep, Answered, Unanswered, OnItsWay
    <2>2. Stage(w)' = Stage(w) /\ pc'[w] = pc[w]
      BY DEF NextInterval, workerVars, Stage
    <2> QED
      BY <1>1, <1>3, <2>1, <2>2 DEF InStep, After
  <1>6. ASSUME NEW w \in Worker PROVE AdapterAhead(w)'
    BY DEF NextInterval, workerVars, AdapterAhead
  <1>7. WrittenSoFar'
    BY <1>1 DEF NextInterval, WrittenSoFar, Fresh
  <1> QED
    BY <1>4, <1>5, <1>6, <1>7
-----------------------------------------------------------------------------
(* The steps of a worker.                                                  *)

\* A step of one worker leaves the others where they are.
LEMMA OthersKeep ==
    ASSUME IInv, NEW w \in Worker, NEW u \in Worker, u # w, UNCHANGED <<job, masterVars>>,
           models'[u] = models[u], sent'[u] = sent[u], pc'[u] = pc[u], cycle'[u] = cycle[u],
           model'[u] = model[u], chunk'[u] = chunk[u], equation'[u] = equation[u],
           metadata'[u] = metadata[u]
    PROVE  InStep(u)' /\ AdapterAhead(u)'
  <1>1. Stage(u)' = Stage(u) /\ Awaited' = Awaited /\ OnItsWay' = OnItsWay /\ mpc' = mpc
        /\ mmodel' = mmodel
    BY DEF Stage, Awaited, OnItsWay, masterVars
  <1>2. (Answered(u)' <=> Answered(u)) /\ (Unanswered(u)' <=> Unanswered(u))
    BY <1>1 DEF Answered, Unanswered
  <1>3. InStep(u)'
    BY <1>1, <1>2 DEF IInv, InStep, After
  <1>4. AdapterAhead(u)'
    BY DEF IInv, AdapterAhead
  <1> QED
    BY <1>3, <1>4

LEMMA ReceiveModelKeeps ==
    ASSUME IInv, NEW w \in Worker, ReceiveModel(w)
    PROVE  IInv'
  <1> USE TypedModel DEF IInv
  <1>1. models[w] = <<mmodel>> /\ mpc = "solve" /\ sent[w] = <<>> /\ Stage(w) = Awaited
    BY DEF ReceiveModel, InStep, Answered, Unanswered, OnItsWay
  <1>2. mmodel[2] # NCycles /\ Awaited = mmodel
    BY <1>1 DEF WrittenSoFar, Awaited
  <1>3. Head(models[w]) = mmodel /\ Tail(models[w]) = <<>>
    BY <1>1, FirstMessage
  <1>4. models' = [models EXCEPT ![w] = <<>>] /\ model' = [model EXCEPT ![w] = mmodel]
        /\ pc' = [pc EXCEPT ![w] = "calc"]
    BY <1>3 DEF ReceiveModel, Set, Goto
  <1>5. TypeOK'
    <2>1. <<>> \in Seq(Models) /\ mmodel \in Models
      BY DEF TypeOK
    <2>2. models' \in [Worker -> Seq(Models)] /\ model' \in [Worker -> Models]
      BY <1>4, <2>1 DEF TypeOK
    <2>3. pc' \in [Worker -> {"model", "calc", "sent", "over"}]
      BY <1>4 DEF TypeOK
    <2> QED
      BY <2>2, <2>3 DEF TypeOK, ReceiveModel, masterVars
  <1>6. InStep(w)' /\ AdapterAhead(w)'
    <2>1. models'[w] = <<>> /\ model'[w] = mmodel /\ pc'[w] = "calc"
      BY <1>4 DEF TypeOK
    <2>2. Stage(w)' = mmodel /\ mmodel' = mmodel /\ mpc' = mpc /\ sent' = sent
      BY <1>1, <1>2 DEF Stage, ReceiveModel, masterVars
    <2>3. InStep(w)'
      BY <2>1, <2>2, <1>1 DEF InStep
    <2>4. pc[w] = "model"
      BY DEF ReceiveModel
    <2>5. AdapterAhead(w)'
      BY <2>1, <2>4 DEF AdapterAhead, ReceiveModel
    <2> QED
      BY <2>3, <2>5
  <1>7. ASSUME NEW u \in Worker, u # w PROVE InStep(u)' /\ AdapterAhead(u)'
    BY <1>4, <1>7, OthersKeep DEF ReceiveModel, TypeOK
  <1>8. WrittenSoFar'
    BY DEF ReceiveModel, WrittenSoFar, masterVars
  <1> QED
    BY <1>5, <1>6, <1>7, <1>8

\* A worker calculates with the model of this cycle, and from the data of this
\* interval.
LEMMA CalculatesThisCycle ==
    ASSUME IInv, NEW w \in Worker, CalcNE(w)
    PROVE  /\ pc[w] = "calc" /\ sent[w] = <<>> /\ models[w] = <<>> /\ mpc = "solve"
           /\ model[w] = mmodel /\ Stage(w) = mmodel
           /\ equation'[w] = mmodel[1] /\ cycle[w] = mmodel[2]
           /\ equation'[w] \in 1..job.chunks[w]
  <1>1. /\ pc[w] = "calc" /\ sent[w] = <<>> /\ models[w] = <<>> /\ mpc = "solve"
        /\ model[w] = mmodel /\ Stage(w) = mmodel
    BY DEF IInv, CalcNE, InStep
  <1>2. cycle[w] = mmodel[2]
    BY <1>1, TypedModel DEF IInv, Stage
  <1>3. equation'[w] = (IF equation[w] = 0 THEN chunk[w] ELSE equation[w])
    <2>1. equation \in [Worker -> Nat]
      BY DEF IInv, TypeOK
    <2> QED
      BY <2>1 DEF CalcNE, CreateEquation, ReuseEquation, Set
  <1>4. equation'[w] = mmodel[1]
    BY <1>1, <1>3, TypedModel DEF IInv, Stage
  <1>5. equation'[w] \in 1..job.chunks[w]
    BY <1>3, TypedModel DEF IInv, TypeOK
  <1> QED
    BY <1>1, <1>2, <1>4, <1>5

LEMMA CalcNEKeeps ==
    ASSUME IInv, NEW w \in Worker, CalcNE(w)
    PROVE  IInv'
  <1> USE TypedModel DEF IInv
  <1> DEFINE sum == [ne |-> [of |-> equation'[w], with |-> model[w]], metadata |-> metadata'[w]]
  <1>1. sent' = [sent EXCEPT ![w] = <<sum>>] /\ pc' = [pc EXCEPT ![w] = "sent"]
    BY CalculatesThisCycle, FirstMessage DEF CalcNE, Set, Goto
  <1>2. metadata'[w] \in Metadata /\ chunk'[w] \in 1..job.chunks[w]
    <2>0. chunk \in [Worker -> Nat] /\ metadata \in [Worker -> Metadata]
          /\ chunk[w] \in 1..job.chunks[w] /\ job.chunks[w] \in Nat
      BY DEF TypeOK
    <2>1. CASE CreateEquation(w)
      <3>1. chunk'[w] \in 1..job.chunks[w]
        BY <2>0, <2>1 DEF CreateEquation, Set, MoreData
      <3>2. metadata'[w] = [flag |-> IF MoreData(w) THEN "more" ELSE "last",
                            minTime |-> chunk[w]]
        BY <2>0, <2>1 DEF CreateEquation, Set
      <3>3. metadata'[w] \in Metadata
        BY <2>0, <3>2 DEF Metadata
      <3> QED
        BY <3>1, <3>3
    <2>2. CASE ReuseEquation(w)
      <3>1. metadata'[w] = [metadata[w] EXCEPT !.minTime = equation[w]] /\ chunk' = chunk
        BY <2>0, <2>2 DEF ReuseEquation
      <3>2. metadata'[w] \in Metadata
        BY <2>0, <3>1 DEF Metadata, TypeOK
      <3> QED
        BY <2>0, <3>1, <3>2
    <2> QED
      BY <2>1, <2>2 DEF CalcNE
  <1>3. TypeOK'
    <2>1. sum \in Sum
      BY <1>2, CalculatesThisCycle DEF Sum, NE, TypeOK
    <2>2. <<sum>> \in Seq(Sum)
      BY <2>1
    <2>3. sent' \in [Worker -> Seq(Sum)]
      BY <1>1, <2>2 DEF TypeOK, Sum
    <2>4. pc' \in [Worker -> {"model", "calc", "sent", "over"}]
      BY <1>1 DEF TypeOK
    <2>5. ASSUME NEW u \in Worker
          PROVE  chunk'[u] \in 1..job.chunks[u] /\ equation'[u] \in 0..job.chunks[u]
                 /\ metadata'[u] \in Metadata
      <3>1. CASE u = w
        BY <3>1, <1>2, CalculatesThisCycle
      <3>2. CASE u # w
        BY <3>2 DEF CalcNE, CreateEquation, ReuseEquation, Set, TypeOK
      <3> QED
        BY <3>1, <3>2
    <2>6. chunk' \in [Worker -> Nat] /\ equation' \in [Worker -> Nat]
          /\ metadata' \in [Worker -> Metadata]
      <3>1. DOMAIN chunk' = Worker /\ DOMAIN equation' = Worker /\ DOMAIN metadata' = Worker
            /\ chunk' = [u \in Worker |-> chunk'[u]]
            /\ equation' = [u \in Worker |-> equation'[u]]
            /\ metadata' = [u \in Worker |-> metadata'[u]]
        BY DEF TypeOK, CalcNE, CreateEquation, ReuseEquation, Set
      <3>2. \A u \in Worker : chunk'[u] \in Nat /\ equation'[u] \in Nat
        BY <2>5
      <3> QED
        BY <2>5, <3>1, <3>2
    <2>7. job' = job /\ mpc' = mpc /\ mmodel' = mmodel /\ mne' = mne /\ mmetadata' = mmetadata
          /\ written' = written /\ models' = models /\ cycle' = cycle /\ model' = model
      BY DEF CalcNE, masterVars
    <2> QED
      BY <2>3, <2>4, <2>5, <2>6, <2>7 DEF TypeOK, Sum
  <1>4. InStep(w)'
    <2>1. pc'[w] = "sent" /\ sent'[w] = <<sum>>
      BY <1>1 DEF TypeOK
    <2>2. mpc' = "solve" /\ mmodel' = mmodel /\ models'[w] = <<>>
      BY CalculatesThisCycle DEF CalcNE, masterVars
    <2>3. sum.ne = [of |-> mmodel[1], with |-> mmodel]
      BY CalculatesThisCycle
    <2>4. Answered(w)'
      BY <2>1, <2>2, <2>3, FirstMessage DEF Answered
    <2>5. Stage(w)' = mmodel
      BY CalculatesThisCycle DEF Stage, CalcNE
    <2> QED
      BY <2>1, <2>2, <2>4, <2>5 DEF InStep
  <1>5. AdapterAhead(w)'
    <2>1. CASE CreateEquation(w)
      BY <2>1, <1>1 DEF CreateEquation, CalcNE, MoreData, AdapterAhead, Set, TypeOK
    <2>2. CASE ReuseEquation(w)
      <3>1. metadata'[w].flag = metadata[w].flag
        BY <2>2 DEF ReuseEquation, TypeOK, Metadata
      <3>2. chunk'[w] = chunk[w] /\ equation'[w] = equation[w] /\ equation[w] # 0 /\ job' = job
        BY <2>2 DEF ReuseEquation, CalcNE
      <3>3. pc[w] # "over"
        BY DEF CalcNE
      <3> QED
        BY <3>1, <3>2, <3>3 DEF AdapterAhead
    <2> QED
      BY <2>1, <2>2 DEF CalcNE
  <1>6. ASSUME NEW u \in Worker, u # w PROVE InStep(u)' /\ AdapterAhead(u)'
    <2>1. chunk'[u] = chunk[u] /\ equation'[u] = equation[u] /\ metadata'[u] = metadata[u]
      <3>1. CASE CreateEquation(w)
        BY <1>6, <3>1 DEF CreateEquation, Set, TypeOK
      <3>2. CASE ReuseEquation(w)
        BY <1>6, <3>2 DEF ReuseEquation, Set, TypeOK
      <3> QED
        BY <3>1, <3>2 DEF CalcNE
    <2>2. UNCHANGED <<job, masterVars>> /\ models'[u] = models[u] /\ cycle'[u] = cycle[u]
          /\ model'[u] = model[u]
      BY DEF CalcNE
    <2>3. sent'[u] = sent[u] /\ pc'[u] = pc[u]
      BY <1>1, <1>6 DEF TypeOK
    <2> QED
      BY <2>1, <2>2, <2>3, <1>6, OthersKeep
  <1>7. WrittenSoFar'
    BY DEF CalcNE, WrittenSoFar, masterVars
  <1> QED
    BY <1>3, <1>4, <1>5, <1>6, <1>7

LEMMA NextCycleKeeps ==
    ASSUME IInv, NEW w \in Worker, NextCycle(w)
    PROVE  IInv'
  <1> USE TypedModel DEF IInv
  <1>0. /\ pc[w] = "sent" /\ cycle \in [Worker -> 0..(NCycles - 1)] /\ NCycles \in Nat \ {0}
        /\ equation[w] # 0
    BY DEF NextCycle, TypeOK, AdapterAhead
  <1>1. /\ cycle'[w] \in 0..(NCycles - 1) /\ cycle' = [cycle EXCEPT ![w] = cycle'[w]]
        /\ pc'[w] \in {"model", "over"} /\ pc' = [pc EXCEPT ![w] = pc'[w]]
        /\ equation'[w] \in {0, equation[w]} /\ equation' = [equation EXCEPT ![w] = equation'[w]]
        /\ metadata'[w] \in Metadata /\ metadata' = [metadata EXCEPT ![w] = metadata'[w]]
    <2>1. RemoveFlag(metadata[w]) \in Metadata
      BY DEF TypeOK, RemoveFlag, Metadata
    <2>2. CASE cycle[w] + 1 < NCycles
      <3>1. /\ cycle' = [cycle EXCEPT ![w] = cycle[w] + 1] /\ pc' = [pc EXCEPT ![w] = "model"]
            /\ equation' = equation /\ metadata' = metadata
        BY <2>2 DEF NextCycle, Set, Goto
      <3>2. pc \in [Worker -> {"model", "calc", "sent", "over"}] /\ equation \in [Worker -> Nat]
            /\ metadata \in [Worker -> Metadata]
        BY DEF TypeOK
      <3>3. cycle[w] + 1 \in 0..(NCycles - 1)
        BY <1>0, <2>2
      <3>4. cycle'[w] = cycle[w] + 1
        BY <1>0, <3>1
      <3> QED
        BY <3>1, <3>2, <3>3, <3>4
    <2>3. CASE ~(cycle[w] + 1 < NCycles)
      <3>1. /\ cycle' = [cycle EXCEPT ![w] = 0]
            /\ metadata' = [metadata EXCEPT ![w] = RemoveFlag(metadata[w])]
            /\ \/ pc' = [pc EXCEPT ![w] = "model"] /\ equation' = [equation EXCEPT ![w] = 0]
               \/ pc' = [pc EXCEPT ![w] = "over"] /\ equation' = equation
        BY <2>3 DEF NextCycle, Set, Goto, InitEquation
      <3>2. pc \in [Worker -> {"model", "calc", "sent", "over"}] /\ equation \in [Worker -> Nat]
            /\ metadata \in [Worker -> Metadata]
        BY DEF TypeOK
      <3>3. cycle'[w] = 0 /\ 0 \in 0..(NCycles - 1) /\ metadata'[w] = RemoveFlag(metadata[w])
        BY <1>0, <3>1, <3>2
      <3> QED
        BY <2>1, <3>1, <3>2, <3>3
    <2> QED
      BY <2>2, <2>3
  <1>2. TypeOK'
    <2>1. cycle' \in [Worker -> 0..(NCycles - 1)]
      BY <1>1, <1>0
    <2>2. pc' \in [Worker -> {"model", "calc", "sent", "over"}]
      BY <1>1 DEF TypeOK
    <2>3. metadata' \in [Worker -> Metadata]
      BY <1>1 DEF TypeOK
    <2>a. equation \in [Worker -> Nat] /\ equation'[w] \in Nat
      <3>1. equation \in [Worker -> Nat] /\ equation[w] \in Nat
        BY DEF TypeOK
      <3> QED
        BY <1>1, <3>1
    <2>b. \A u \in Worker : equation[u] \in 0..job.chunks[u] /\ 0 \in 0..job.chunks[u]
      <3>1. \A u \in Worker : equation[u] \in 0..job.chunks[u]
        BY DEF TypeOK
      <3>2. \A n \in Nat \ {0} : 0 \in 0..n
        OBVIOUS
      <3> QED
        BY <3>1, <3>2
    <2>4. equation' \in [Worker -> Nat]
      BY <1>1, <2>a
    <2>5. ASSUME NEW u \in Worker PROVE equation'[u] \in 0..job.chunks[u]
      <3>1. equation'[u] \in {0, equation[u]}
        BY <1>1, <2>a
      <3> QED
        BY <2>b, <3>1
    <2>6. job' = job /\ mpc' = mpc /\ mmodel' = mmodel /\ mne' = mne /\ mmetadata' = mmetadata
          /\ written' = written /\ models' = models /\ sent' = sent /\ model' = model
          /\ chunk' = chunk
      BY DEF NextCycle, masterVars
    <2> QED
      BY <2>1, <2>2, <2>3, <2>4, <2>5, <2>6 DEF TypeOK
  <1>3. InStep(w)'
    <2>1. (Answered(w)' <=> Answered(w)) /\ (Unanswered(w)' <=> Unanswered(w)) /\ Awaited' = Awaited
          /\ mmodel' = mmodel
      BY DEF NextCycle, masterVars, Answered, Unanswered, OnItsWay, Awaited
    <2>2. CASE pc'[w] = "over"
      BY <1>0, <2>1, <2>2 DEF InStep
    <2>3. CASE pc'[w] = "model"
      <3>1. Stage(w)' = After(Stage(w))
        <4>1. CASE cycle[w] + 1 < NCycles
          <5>1. cycle'[w] = cycle[w] + 1 /\ equation' = equation
            BY <1>0, <4>1 DEF NextCycle, Set
          <5> QED
            BY <1>0, <4>1, <5>1 DEF Stage, After, Solved
        <4>2. CASE ~(cycle[w] + 1 < NCycles)
          <5>1. cycle'[w] = 0 /\ equation'[w] = 0 /\ chunk' = chunk /\ NextChunkFlag(metadata[w])
            BY <1>0, <2>3, <4>2 DEF NextCycle, Set, Goto, TypeOK, InitEquation
          <5>2. chunk[w] = equation[w] + 1
            BY <5>1, <1>0 DEF AdapterAhead, NextChunkFlag
          <5> QED
            BY <1>0, <4>2, <5>1, <5>2 DEF Stage, After, Fresh
        <4> QED
          BY <4>1, <4>2
      <3> QED
        BY <1>0, <2>1, <2>3, <3>1 DEF InStep
    <2> QED
      BY <1>1, <2>2, <2>3
  <1>4. AdapterAhead(w)'
    <2>1. CASE pc'[w] = "over"
      <3>1. equation'[w] # 0
        BY <1>0, <2>1 DEF NextCycle, Goto, TypeOK
      <3> QED
        BY <2>1, <3>1 DEF AdapterAhead
    <2>2. CASE pc'[w] = "model"
      <3>1. chunk' = chunk /\ job' = job
        BY DEF NextCycle
      <3>2. equation'[w] = 0 \/ (equation'[w] = equation[w] /\ metadata'[w] = metadata[w])
        BY <1>0, <2>2 DEF NextCycle, Goto, TypeOK, Set, InitEquation
      <3> QED
        BY <1>0, <2>2, <3>1, <3>2 DEF AdapterAhead
    <2> QED
      BY <1>1, <2>1, <2>2
  <1>5. ASSUME NEW u \in Worker, u # w PROVE InStep(u)' /\ AdapterAhead(u)'
    <2>1. cycle'[u] = cycle[u] /\ pc'[u] = pc[u] /\ equation'[u] = equation[u]
          /\ metadata'[u] = metadata[u]
      BY <1>1, <1>5 DEF TypeOK
    <2>2. UNCHANGED <<job, masterVars>> /\ models'[u] = models[u] /\ sent'[u] = sent[u]
          /\ model'[u] = model[u] /\ chunk'[u] = chunk[u]
      BY DEF NextCycle
    <2> QED
      BY <2>1, <2>2, <1>5, OthersKeep
  <1>6. WrittenSoFar'
    BY DEF NextCycle, WrittenSoFar, masterVars
  <1> QED
    BY <1>2, <1>3, <1>4, <1>5, <1>6

LEMMA Stutter == IInv /\ UNCHANGED vars => IInv'
  <1> SUFFICES ASSUME IInv, UNCHANGED vars PROVE IInv'
    OBVIOUS
  <1> USE DEF vars, masterVars, workerVars, IInv
  <1>1. TypeOK'
    BY DEF TypeOK
  <1>2. ASSUME NEW w \in Worker PROVE InStep(w)' /\ AdapterAhead(w)'
    BY DEF InStep, AdapterAhead, Answered, Unanswered, OnItsWay, Stage, Awaited, After
  <1>3. WrittenSoFar'
    BY DEF WrittenSoFar
  <1> QED
    BY <1>1, <1>2, <1>3
-----------------------------------------------------------------------------
\* Whatever the workers and the master are at, and however many measurement
\* sets, intervals and cycles there are: what is on its way is for the cycle
\* that the master is in (ccalibrator.cc:79-108).
THEOREM Invariance == Spec => []IInv
  <1>1. IInv /\ [Next]_vars => IInv'
    <2> SUFFICES ASSUME IInv, [Next]_vars PROVE IInv'
      OBVIOUS
    <2>1. CASE Master
      BY <2>1, BroadcastKeeps, SolveKeeps, WriteKeeps, NextIntervalKeeps DEF Master
    <2>2. CASE \E w \in Worker : WorkerStep(w)
      BY <2>2, ReceiveModelKeeps, CalcNEKeeps, NextCycleKeeps DEF WorkerStep
    <2>3. CASE UNCHANGED vars
      BY <2>3, Stutter
    <2> QED
      BY <2>1, <2>2, <2>3 DEF Next
  <1> QED
    BY Initially, <1>1, PTL DEF Spec

LEMMA PartsAppended ==
    ASSUME NEW S, NEW R, \A r \in R : r.ne \in S, NEW s \in Seq(R), NEW x \in R
    PROVE  [i \in 1..Len(Append(s, x)) |-> Append(s, x)[i].ne]
               = Append([i \in 1..Len(s) |-> s[i].ne], x.ne)
  <1> DEFINE t == [i \in 1..Len(s) |-> s[i].ne]
             more == [i \in 1..Len(Append(s, x)) |-> Append(s, x)[i].ne]
  <1>0. \A f, n : n \in Nat /\ f \in [1..n -> S] => f \in Seq(S) /\ Len(f) = n
    OBVIOUS
  <1>1. t \in Seq(S) /\ Len(t) = Len(s) /\ x.ne \in S
    <2>1. t \in [1..Len(s) -> S] /\ Len(s) \in Nat
      <3>1. ASSUME NEW i \in 1..Len(s) PROVE s[i].ne \in S
        <4>1. s[i] \in R
          BY ElementOfSeq
        <4> QED
          BY <4>1
      <3> QED
        BY <3>1
    <2> HIDE DEF t
    <2> QED
      BY <1>0, <2>1
  <1>2. Len(Append(s, x)) = Len(s) + 1 /\ Append(s, x) \in Seq(R)
    OBVIOUS
  <1>3. more \in Seq(S) /\ Len(more) = Len(s) + 1
    <2>1. more \in [1..(Len(s) + 1) -> S] /\ Len(s) + 1 \in Nat
      <3>1. ASSUME NEW i \in 1..(Len(s) + 1) PROVE Append(s, x)[i].ne \in S
        <4>1. Append(s, x)[i] \in R
          BY <1>2, ElementOfSeq
        <4> QED
          BY <4>1
      <3> QED
        BY <1>2, <3>1
    <2> HIDE DEF more
    <2> QED
      BY <1>0, <2>1
  <1>4. Append(t, x.ne) \in Seq(S) /\ Len(Append(t, x.ne)) = Len(s) + 1
    BY <1>1
  <1>5. ASSUME NEW i \in 1..(Len(s) + 1) PROVE more[i] = Append(t, x.ne)[i]
    <2>1. CASE i = Len(s) + 1
      BY <1>1, <1>2, <2>1
    <2>2. CASE i \in 1..Len(s)
      BY <1>1, <1>2, <2>2
    <2> QED
      BY <2>1, <2>2
  <1> HIDE DEF more, t
  <1>6. more = Append(t, x.ne)
    BY <1>3, <1>4, <1>5, SeqEqual
  <1> QED
    BY <1>6 DEF more, t

\* Master and workers together solve what one process would that has all the
\* data: each refinement uses, of every worker, the data of the interval and
\* the model of the cycle, and each interval is written once, in order
\* (CalibratorParallel.cc:702-853, 1063-1109).
THEOREM SolvingImplemented == Spec => ImplementsSolving
  <1> DEFINE parts == [i \in 1..Len(written) |-> written[i].ne]
  <1>1. Init => Together!SolvingInit
    <2> SUFFICES ASSUME Init PROVE Together!SolvingInit
      OBVIOUS
    <2>1. parts = <<>>
      BY DEF Init
    <2> QED
      BY <2>1 DEF Init, Fresh, Together!SolvingInit, Together!NotUsed
  <1>2. IInv /\ [Next]_vars =>
            [Together!Refine \/ Together!WriteSolution \/ Together!NextInterval]_(Together!solvingVars)
    <2> SUFFICES ASSUME IInv, [Next]_vars
                 PROVE  \/ Together!Refine \/ Together!WriteSolution \/ Together!NextInterval
                        \/ UNCHANGED Together!solvingVars
      OBVIOUS
    <2> USE TypedModel DEF IInv
    <2>0. written \in Seq([ne : [Worker -> NE \cup {<<>>}], time : Nat]) /\ Len(parts) = Len(written)
      BY DEF TypeOK
    <2>1. CASE SolveNE
      <3>1. mmodel[2] < NCycles
        BY <2>1 DEF SolveNE, WrittenSoFar
      <3>2. mne' = Together!All(mmodel[1], mmodel[2])
        BY <2>1, TakesAnswers DEF SolveNE, Together!All
      <3>3. mmodel'[1] = mmodel[1] /\ mmodel'[2] = mmodel[2] + 1 /\ written' = written
        BY <2>1 DEF SolveNE, Solved
      <3>4. Together!Refine
        BY <3>1, <3>2, <3>3 DEF Together!Refine
      <3> QED
        BY <3>4
    <2>2. CASE WriteModel
      <3>1. mmodel[2] = NCycles /\ Len(written) < mmodel[1]
        BY <2>2 DEF WriteModel, WrittenSoFar
      <3>2. parts' = Append(parts, mne)
        <4> DEFINE solution == [ne |-> mne, time |-> mmetadata.minTime]
        <4>1. solution \in [ne : [Worker -> NE \cup {<<>>}], time : Nat]
          BY DEF TypeOK, Metadata
        <4>2. written' = Append(written, solution) /\ solution.ne = mne
          BY <2>2 DEF WriteModel
        <4>3. \A r \in [ne : [Worker -> NE \cup {<<>>}], time : Nat] :
                  r.ne \in [Worker -> NE \cup {<<>>}]
          OBVIOUS
        <4> HIDE DEF solution
        <4> QED
          BY <2>0, <4>1, <4>2, <4>3, PartsAppended
      <3>3. mmodel' = mmodel /\ mne' = mne
        BY <2>2 DEF WriteModel
      <3>4. Together!WriteSolution
        BY <2>0, <3>1, <3>2, <3>3 DEF Together!WriteSolution
      <3> QED
        BY <3>4
    <2>3. CASE NextInterval
      <3>1. mmodel[2] = NCycles /\ Len(written) = mmodel[1]
        BY <2>3 DEF NextInterval, WrittenSoFar
      <3>2. mne' = mne /\ written' = written
        BY <2>3 DEF NextInterval
      <3>3. CASE mmodel' = mmodel
        BY <3>2, <3>3 DEF Together!solvingVars
      <3>4. CASE mmodel' = Fresh(mmodel[1] + 1)
        <4>1. mmodel'[1] = mmodel[1] + 1 /\ mmodel'[2] = 0
          BY <3>4 DEF Fresh
        <4>2. Together!NextInterval
          BY <2>0, <3>1, <3>2, <4>1 DEF Together!NextInterval
        <4> QED
          BY <4>2
      <3> QED
        BY <2>3, <3>3, <3>4 DEF NextInterval
    <2>4. CASE BroadcastModel \/ UNCHANGED vars \/ \E w \in Worker : WorkerStep(w)
      <3>1. mmodel' = mmodel /\ mne' = mne /\ written' = written
        BY <2>4 DEF BroadcastModel, WorkerStep, ReceiveModel, CalcNE, NextCycle, vars, masterVars
      <3> QED
        BY <3>1 DEF Together!solvingVars
    <2> QED
      BY <2>1, <2>2, <2>3, <2>4 DEF Next, Master
  <1> QED
    BY <1>1, <1>2, Invariance, PTL DEF Spec, ImplementsSolving, Together!Solves
=============================================================================
