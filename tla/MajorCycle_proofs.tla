------------------------- MODULE MajorCycle_proofs -------------------------
(***************************************************************************)
(* Master and workers of the continuum loop stay in the same cycle, for    *)
(* any workers, units, cycles and failures; and together they do what one  *)
(* processor would that leaves out the units that fail.  The last part is  *)
(* about NEReduction, for any workers and groups: the tree, which          *)
(* MajorCycle takes as one step, gathers the parts of all workers once.    *)
(***************************************************************************)
EXTENDS MajorCycle, NEReduction, SequenceTheorems, WellFoundedInduction, TLAPS

Single(v) == [u \in Version |-> IF u = v THEN 1 ELSE 0]
Zero == [u \in Version |-> 0]
OnceMore(g, v) == [g EXCEPT ![v] = @ + 1]

\* Unit i went into e once, with version v, or is one that failed.
OnceOrFailed(e, w, i, v) == e[i] = Single(v) \/ (i \in CanFail[w] /\ e[i] = Zero)

\* The normal equations of a cycle with version v, when all units have been
\* merged, and when only the first has been.
Complete(e, w, v) == \A i \in Unit(w) : OnceOrFailed(e, w, i, v)
Begun(e, w, v) == OnceOrFailed(e, w, 1, v) /\ \A i \in Unit(w) \ {1} : e[i] = Zero

\* The normal equations of a worker are those of its cycle.
Computed(w) ==
    /\ pc[w] = "units" => Begun(ne[w], w, model[w])
    /\ pc[w] = "send" => Complete(ne[w], w, model[w])

\* What the worker has been sent and not yet taken, if it has none of this
\* cycle.
OnItsWay == IF mpc = "broadcast" THEN <<>> ELSE <<Message>>

\* A worker that waits for model v, or is on its way to do so.
Awaits(w, v) ==
    /\ mmodel = v /\ mpc # "written"
    /\ models[w] = OnItsWay /\ sent[w] = <<>>

\* It has sent its normal equations of this cycle, which the master waits for.
Answered(w) ==
    /\ mpc \in {"solve", "residuals"} /\ models[w] = <<>>
    /\ Len(sent[w]) = 1 /\ Complete(sent[w][1], w, mmodel)

\* Where the master and a worker can be at the same time: the version of the
\* model, the number of the cycle and whether it is the last always agree.
InStep(w) ==
    \/ /\ pc[w] \in {"start", "first"} /\ Awaits(w, 0)
       /\ cycle[w] = 0 /\ (stopping[w] <=> NCycles = 0)
    \/ /\ pc[w] \in {"units", "send"} /\ mpc \in {"solve", "residuals"}
       /\ models[w] = <<>> /\ sent[w] = <<>>
       /\ model[w] = mmodel /\ cycle[w] = mmodel /\ (stopping[w] <=> MasterStops)
    \/ /\ pc[w] \in {"sent", "barrier"} /\ Answered(w)
       /\ model[w] = mmodel /\ cycle[w] = mmodel /\ (stopping[w] <=> MasterStops)
    \/ /\ pc[w] = "next" /\ mpc = "solve" /\ Answered(w)
       /\ model[w] = mmodel /\ cycle[w] = mmodel /\ ~stopping[w]
    \/ /\ pc[w] \in {"sent", "barrier", "next"} /\ Awaits(w, cycle[w] + 1)
       /\ model[w] = cycle[w] /\ ~stopping[w]
    \/ /\ pc[w] \in {"final", "over"} /\ mpc = "residuals" /\ Answered(w)
       /\ model[w] = mmodel /\ stopping[w]
    \/ /\ pc[w] \in {"sent", "barrier", "final", "over"} /\ mpc = "written"
       /\ models[w] = <<>> /\ sent[w] = <<>>
       /\ model[w] = mmodel /\ stopping[w]
    \/ pc[w] = "first" /\ aborted

\* The master waits for the equations of a cycle that is the last or not; and
\* knows no residual before it has solved.
MasterInStep ==
    /\ mpc = "solve" => ~MasterStops
    /\ mpc \in {"residuals", "written"} => MasterStops
    /\ mmodel = 0 => ~below

Functions ==
    /\ mne = [w \in Worker |-> mne[w]] /\ ne = [w \in Worker |-> ne[w]]
    /\ models = [w \in Worker |-> models[w]] /\ sent = [w \in Worker |-> sent[w]]

IInv ==
    /\ TypeOK /\ Functions /\ MasterInStep /\ NothingStale
    /\ \A w \in Worker : InStep(w) /\ Computed(w)
-----------------------------------------------------------------------------
(* Normal equations.                                                       *)

LEMMA Constants ==
    /\ NCycles \in Nat /\ 0 \in Version
    /\ \A w \in Worker : UnitCount[w] \in Nat \ {0} /\ 1 \in Unit(w) /\ CanFail[w] \subseteq Unit(w)
  BY CycleAssumption DEF Version, Unit

LEMMA AddedIsNE ==
    ASSUME NEW w \in Worker, NEW e \in NE(w), NEW us \in SUBSET Unit(w), NEW v \in Version
    PROVE  /\ Added(e, us, v) \in NE(w)
           /\ \A i \in us : Added(e, us, v)[i] = OnceMore(e[i], v)
           /\ \A i \in Unit(w) \ us : Added(e, us, v)[i] = e[i]
  <1>1. \A i \in Unit(w) : e[i] \in [Version -> Nat]
    BY DEF NE
  <1>2. ASSUME NEW i \in us
        PROVE  Added(e, us, v)[i] = OnceMore(e[i], v) /\ Added(e, us, v)[i] \in [Version -> Nat]
    BY <1>1 DEF Added, NE, OnceMore
  <1>3. ASSUME NEW i \in Unit(w) \ us
        PROVE  Added(e, us, v)[i] = e[i] /\ Added(e, us, v)[i] \in [Version -> Nat]
    BY <1>1 DEF Added, NE, OnceMore
  <1>4. Added(e, us, v) \in NE(w)
    BY <1>2, <1>3 DEF Added, NE
  <1> QED
    BY <1>2, <1>3, <1>4

LEMMA FromZero ==
    ASSUME NEW v \in Version
    PROVE  Zero \in [Version -> Nat] /\ OnceMore(Zero, v) = Single(v)
  BY DEF Zero, Single, OnceMore

\* The first unit, or nothing where it may fail, begins a cycle.
LEMMA BeginsCycle ==
    ASSUME NEW w \in Worker, NEW good \in SUBSET {1}, {1} \ CanFail[w] \subseteq good,
           NEW v \in Version
    PROVE  Added(NoNE(w), good, v) \in NE(w) /\ Begun(Added(NoNE(w), good, v), w, v)
  <1> DEFINE e == NoNE(w)
             us == good
             f == Added(e, us, v)
  <1>1. e \in NE(w) /\ \A i \in Unit(w) : e[i] = Zero
    BY DEF NoNE, NE, Zero
  <1>2. us \in SUBSET Unit(w) /\ 1 \in Unit(w) /\ us \subseteq {1} /\ {1} \ CanFail[w] \subseteq us
    BY Constants
  <1> HIDE DEF e, us
  <1>3. /\ f \in NE(w)
        /\ \A i \in us : f[i] = OnceMore(e[i], v)
        /\ \A i \in Unit(w) \ us : f[i] = e[i]
    BY <1>1, <1>2, AddedIsNE
  <1> HIDE DEF f
  <1>4. ASSUME NEW i \in Unit(w) \ {1} PROVE f[i] = Zero
    <2>1. i \in Unit(w) \ us
      BY <1>2
    <2>2. f[i] = e[i]
      BY <1>3, <2>1
    <2> QED
      BY <1>1, <2>2
  <1>5. OnceOrFailed(f, w, 1, v)
    <2>1. CASE 1 \in us
      BY <1>1, <1>2, <1>3, <2>1, FromZero DEF OnceOrFailed
    <2>2. CASE 1 \notin us
      BY <1>1, <1>2, <1>3, <2>2 DEF OnceOrFailed
    <2> QED
      BY <2>1, <2>2
  <1>6. f \in NE(w) /\ Begun(f, w, v)
    BY <1>3, <1>4, <1>5 DEF Begun
  <1> QED
    BY <1>6 DEF e, f, us

\* The other units complete it.
LEMMA CompletesCycle ==
    ASSUME NEW w \in Worker, NEW e \in NE(w), NEW v \in Version, Begun(e, w, v),
           NEW good \in Surviving(w, Unit(w) \ {1})
    PROVE  Added(e, good, v) \in NE(w) /\ Complete(Added(e, good, v), w, v)
  <1> DEFINE f == Added(e, good, v)
  <1>1. good \in SUBSET Unit(w) /\ 1 \notin good /\ (Unit(w) \ {1}) \ CanFail[w] \subseteq good
    BY DEF Surviving
  <1>2. /\ f \in NE(w)
        /\ \A i \in good : f[i] = OnceMore(e[i], v)
        /\ \A i \in Unit(w) \ good : f[i] = e[i]
    BY <1>1, AddedIsNE
  <1> HIDE DEF f
  <1>3. ASSUME NEW i \in Unit(w) PROVE OnceOrFailed(f, w, i, v)
    <2>1. CASE i = 1
      BY <1>1, <1>2, <2>1 DEF Begun, OnceOrFailed
    <2>2. CASE i \in good
      BY <1>1, <1>2, <2>2, FromZero DEF Begun, OnceOrFailed
    <2>3. CASE i # 1 /\ i \notin good
      BY <1>1, <1>2, <2>3 DEF Begun, OnceOrFailed
    <2> QED
      BY <2>1, <2>2, <2>3
  <1> QED
    BY <1>2, <1>3 DEF Complete, f
-----------------------------------------------------------------------------
(* Initial states, and steps of the master.                                *)

Notice == [version : Version, below : BOOLEAN]
Place == {"start", "first", "units", "send", "sent", "barrier", "next", "final", "over"}

LEMMA SingleMessage ==
    ASSUME NEW x
    PROVE  /\ Append(<<>>, x) = <<x>>
           /\ <<x>> # <<>> /\ Len(<<x>>) = 1 /\ <<x>>[1] = x
           /\ Head(<<x>>) = x /\ Tail(<<x>>) = <<>>
           /\ \A S : x \in S => <<x>> \in Seq(S)
  OBVIOUS

LEMMA OnlyMessage ==
    ASSUME NEW S, NEW s \in Seq(S), Len(s) = 1
    PROVE  Head(s) = s[1] /\ Head(s) \in S /\ Tail(s) = <<>> /\ s # <<>>
  <1>1. Head(s) = s[1] /\ Head(s) \in S /\ s # <<>>
    OBVIOUS
  <1>2. Tail(s) \in Seq(S) /\ Len(Tail(s)) = 0
    BY <1>1
  <1> QED
    BY <1>1, <1>2, EmptySeq

LEMMA Initially == Init => IInv
  <1> SUFFICES ASSUME Init PROVE IInv
    OBVIOUS
  <1> USE Constants
  <1>1. \A w \in Worker : NoNE(w) \in NE(w)
    BY DEF NoNE, NE
  <1>2. TypeOK
    <2>1. stopping \in [Worker -> BOOLEAN]
      BY DEF Init
    <2>2. below \in BOOLEAN /\ aborted \in BOOLEAN
      BY DEF Init
    <2>3. /\ mpc = "broadcast" /\ mmodel \in Version
          /\ pc \in [Worker -> {"start"}] /\ cycle \in [Worker -> Version]
          /\ model \in [Worker -> Version]
      BY DEF Init
    <2>4. ASSUME NEW w \in Worker
          PROVE  /\ mne[w] \in NE(w) /\ ne[w] \in NE(w)
                 /\ models[w] = <<>> /\ sent[w] = <<>>
      BY <1>1 DEF Init
    <2>5. \A S : <<>> \in Seq(S)
      OBVIOUS
    <2> QED
      BY <2>1, <2>2, <2>3, <2>4, <2>5 DEF TypeOK
  <1>3. Functions
    BY DEF Init, Functions
  <1>4. MasterInStep /\ NothingStale
    BY DEF Init, MasterInStep, NothingStale, Merged
  <1>5. ASSUME NEW w \in Worker PROVE InStep(w) /\ Computed(w)
    BY DEF Init, InStep, Awaits, OnItsWay, Computed
  <1> QED
    BY <1>2, <1>3, <1>4, <1>5 DEF IInv

LEMMA BroadcastKeeps == IInv /\ ~aborted /\ BroadcastModel => IInv'
  <1> SUFFICES ASSUME IInv, ~aborted, BroadcastModel PROVE IInv'
    OBVIOUS
  <1> USE Constants DEF IInv
  <1>1. Message \in Notice /\ Message' = Message /\ mpc = "broadcast"
    BY DEF Message, Notice, TypeOK, BroadcastModel
  <1>2. ASSUME NEW w \in Worker
        PROVE  /\ models[w] = <<>> /\ sent[w] = <<>> /\ models'[w] = <<Message>>
               /\ \/ pc[w] \in {"start", "first"} /\ Awaits(w, 0)
                  \/ pc[w] \in {"sent", "barrier", "next"} /\ Awaits(w, cycle[w] + 1)
    <2>1. InStep(w)
      OBVIOUS
    <2>2. models[w] = <<>> /\ sent[w] = <<>>
      BY <1>1, <2>1 DEF InStep, Awaits, OnItsWay, Answered
    <2>3. \/ pc[w] \in {"start", "first"} /\ Awaits(w, 0)
          \/ pc[w] \in {"sent", "barrier", "next"} /\ Awaits(w, cycle[w] + 1)
      BY <1>1, <2>1 DEF InStep, Answered
    <2>4. models'[w] = <<Message>>
      BY <2>2, SingleMessage DEF BroadcastModel, Broadcast
    <2> QED
      BY <2>2, <2>3, <2>4
  <1>3. mpc' \in {"solve", "residuals"} /\ mmodel' = mmodel /\ (mpc' = "residuals" <=> MasterStops)
    BY DEF BroadcastModel
  <1>4. TypeOK'
    <2>1. ASSUME NEW w \in Worker PROVE models'[w] \in Seq(Notice)
      BY <1>1, <1>2, SingleMessage
    <2> QED
      BY <1>3, <2>1 DEF BroadcastModel, TypeOK, workerVars, Notice
  <1>5. Functions'
    BY DEF BroadcastModel, Functions, workerVars
  <1>6. MasterInStep' /\ NothingStale'
    BY <1>3 DEF BroadcastModel, MasterInStep, MasterStops, NothingStale, Merged
  <1>7. ASSUME NEW w \in Worker PROVE InStep(w)' /\ Computed(w)'
    <2>1. OnItsWay' = <<Message>> /\ sent'[w] = <<>>
      BY <1>1, <1>2, <1>3 DEF OnItsWay, BroadcastModel
    <2>2. \A v : Awaits(w, v) => Awaits(w, v)'
      BY <2>1, <1>2, <1>3 DEF Awaits
    <2>3. pc' = pc /\ cycle' = cycle /\ stopping' = stopping /\ model' = model /\ ne' = ne
      BY DEF BroadcastModel, workerVars
    <2>4. InStep(w)'
      <3>1. CASE pc[w] \in {"start", "first"} /\ Awaits(w, 0)
        BY <3>1, <2>2, <2>3 DEF InStep
      <3>2. CASE pc[w] \in {"sent", "barrier", "next"} /\ Awaits(w, cycle[w] + 1)
        <4>1. Awaits(w, cycle[w] + 1)' /\ pc'[w] \in {"sent", "barrier", "next"}
          BY <3>2, <2>1, <2>3, <1>2, <1>3 DEF Awaits
        <4>2. model[w] = cycle[w] /\ ~stopping[w]
          BY <3>2, <1>1 DEF InStep, Answered
        <4> QED
          BY <4>1, <4>2, <2>3 DEF InStep
      <3> QED
        BY <3>1, <3>2, <1>2
    <2>5. Computed(w)'
      BY <2>3 DEF Computed
    <2> QED
      BY <2>4, <2>5
  <1> QED
    BY <1>4, <1>5, <1>6, <1>7

\* What the master takes are the equations of its own cycle, of every worker.
LEMMA TakesAnswers ==
    ASSUME IInv, ~aborted, mpc \in {"solve", "residuals"}, ReceiveNE, NEW w \in Worker
    PROVE  /\ Answered(w) /\ mne'[w] \in NE(w) /\ Complete(mne'[w], w, mmodel)
           /\ sent'[w] = <<>>
           /\ model[w] = mmodel
           /\ \/ pc[w] \in {"sent", "barrier"} /\ cycle[w] = mmodel /\ (stopping[w] <=> MasterStops)
              \/ pc[w] = "next" /\ cycle[w] = mmodel /\ ~stopping[w]
              \/ pc[w] \in {"final", "over"} /\ mpc = "residuals" /\ stopping[w]
  <1>1. InStep(w) /\ sent[w] # <<>> /\ sent[w] \in Seq(NE(w))
    BY DEF IInv, ReceiveNE, TypeOK
  <1>2. /\ Answered(w) /\ model[w] = mmodel
        /\ \/ pc[w] \in {"sent", "barrier"} /\ cycle[w] = mmodel /\ (stopping[w] <=> MasterStops)
           \/ pc[w] = "next" /\ cycle[w] = mmodel /\ ~stopping[w]
           \/ pc[w] \in {"final", "over"} /\ mpc = "residuals" /\ stopping[w]
    BY <1>1 DEF InStep, Awaits
  <1>3. Head(sent[w]) = sent[w][1] /\ sent[w][1] \in NE(w) /\ Tail(sent[w]) = <<>>
    BY <1>1, <1>2, OnlyMessage DEF Answered
  <1>4. Reduced(w) = sent[w][1]
    BY <1>3 DEF Reduced, NE
  <1>5. mne'[w] = sent[w][1] /\ sent'[w] = <<>>
    BY <1>3, <1>4 DEF ReceiveNE
  <1> QED
    BY <1>2, <1>3, <1>5 DEF Answered

\* Then they are as they should be.
LEMMA ReceivedFresh ==
    ASSUME IInv, ~aborted, mpc \in {"solve", "residuals"}, ReceiveNE, Expected' = mmodel
    PROVE  NothingStale'
  <1>1. ASSUME NEW w \in Worker, NEW i \in Unit(w)
        PROVE  Once(w, i, Expected)' \/ (i \in CanFail[w] /\ Missing(w, i)')
    <2>1. OnceOrFailed(mne'[w], w, i, mmodel)
      BY TakesAnswers DEF Complete
    <2> QED
      BY <2>1 DEF OnceOrFailed, Once, Missing, Single, Zero
  <1> QED
    BY <1>1 DEF NothingStale, ReceiveNE

LEMMA SolveKeeps == IInv /\ ~aborted /\ Solve => IInv'
  <1> SUFFICES ASSUME IInv, ~aborted, Solve PROVE IInv'
    OBVIOUS
  <1> USE Constants DEF IInv
  <1>1. mpc = "solve" /\ mpc' = "broadcast" /\ ReceiveNE /\ ~MasterStops
    BY DEF Solve, MasterInStep
  <1>2. mmodel' = mmodel + 1 /\ mmodel' \in Version /\ mmodel \in Nat
    BY <1>1 DEF Solve, MasterStops, TypeOK, Version
  <1>3. ASSUME NEW w \in Worker
        PROVE  /\ mne'[w] \in NE(w) /\ sent'[w] = <<>> /\ models'[w] = <<>>
               /\ pc[w] \in {"sent", "barrier", "next"}
               /\ model[w] = mmodel /\ cycle[w] = mmodel /\ ~stopping[w]
    <2>1. models[w] = <<>>
      BY <1>1, TakesAnswers DEF Answered
    <2> QED
      BY <1>1, <2>1, TakesAnswers DEF Solve
  <1>4. UNCHANGED <<models, pc, cycle, model, stopping, ne, aborted>>
    BY DEF Solve, workerVars
  <1>5. TypeOK'
    <2>1. \A w \in Worker : sent'[w] \in Seq(NE(w))
      BY <1>3, EmptySeq
    <2>2. below' \in BOOLEAN
      BY DEF Solve
    <2> QED
      BY <1>1, <1>2, <1>3, <1>4, <2>1, <2>2 DEF TypeOK
  <1>6. Functions'
    BY <1>4 DEF Functions, Solve, ReceiveNE
  <1>7. MasterInStep' /\ NothingStale'
    <2>1. Expected' = mmodel
      BY <1>1, <1>2 DEF Expected
    <2>2. MasterInStep'
      BY <1>1, <1>2 DEF MasterInStep
    <2> QED
      BY <1>1, <2>1, <2>2, ReceivedFresh
  <1>8. ASSUME NEW w \in Worker PROVE InStep(w)' /\ Computed(w)'
    <2>1. Awaits(w, cycle[w] + 1)'
      BY <1>1, <1>2, <1>3, <1>4 DEF Awaits, OnItsWay
    <2>2. InStep(w)'
      BY <1>3, <1>4, <2>1 DEF InStep
    <2>3. Computed(w)'
      BY <1>4 DEF Computed
    <2> QED
      BY <2>2, <2>3
  <1> QED
    BY <1>5, <1>6, <1>7, <1>8

LEMMA ResidualsKeep == IInv /\ ~aborted /\ ReceiveResiduals => IInv'
  <1> SUFFICES ASSUME IInv, ~aborted, ReceiveResiduals PROVE IInv'
    OBVIOUS
  <1> USE Constants DEF IInv
  <1>1. mpc = "residuals" /\ mpc' = "written" /\ ReceiveNE /\ MasterStops /\ mmodel' = mmodel
    BY DEF ReceiveResiduals, MasterInStep
  <1>2. ASSUME NEW w \in Worker
        PROVE  /\ mne'[w] \in NE(w) /\ sent'[w] = <<>> /\ models'[w] = <<>>
               /\ pc[w] \in {"sent", "barrier", "final", "over"}
               /\ model[w] = mmodel /\ stopping[w]
    <2>1. models[w] = <<>> /\ pc[w] # "next"
      BY <1>1, TakesAnswers DEF Answered, InStep, Awaits
    <2> QED
      BY <1>1, <2>1, TakesAnswers DEF ReceiveResiduals
  <1>3. UNCHANGED <<models, pc, cycle, model, stopping, ne, aborted, below>>
    BY DEF ReceiveResiduals, workerVars
  <1>4. TypeOK'
    <2>1. \A w \in Worker : sent'[w] \in Seq(NE(w))
      BY <1>2, EmptySeq
    <2> QED
      BY <1>1, <1>2, <1>3, <2>1 DEF TypeOK
  <1>5. Functions'
    BY <1>3 DEF Functions, ReceiveResiduals, ReceiveNE
  <1>6. MasterInStep' /\ NothingStale'
    <2>1. Expected' = mmodel
      BY <1>1 DEF Expected
    <2>2. MasterInStep'
      BY <1>1, <1>3 DEF MasterInStep, MasterStops
    <2> QED
      BY <1>1, <2>1, <2>2, ReceivedFresh
  <1>7. ASSUME NEW w \in Worker PROVE InStep(w)' /\ Computed(w)'
    <2>1. InStep(w)'
      BY <1>1, <1>2, <1>3 DEF InStep
    <2>2. Computed(w)'
      BY <1>3 DEF Computed
    <2> QED
      BY <2>1, <2>2
  <1> QED
    BY <1>4, <1>5, <1>6, <1>7
-----------------------------------------------------------------------------
(* Steps of a worker.                                                      *)

\* A step of one worker leaves the others where they are.
LEMMA OthersKeep ==
    ASSUME IInv, NEW w \in Worker, NEW u \in Worker, u # w, UNCHANGED masterVars,
           models'[u] = models[u], sent'[u] = sent[u], pc'[u] = pc[u], cycle'[u] = cycle[u],
           model'[u] = model[u], (stopping'[u] <=> stopping[u]), ne'[u] = ne[u],
           aborted => aborted'
    PROVE  InStep(u)' /\ Computed(u)'
  <1>1. mpc' = mpc /\ mmodel' = mmodel /\ (MasterStops' <=> MasterStops) /\ OnItsWay' = OnItsWay
    BY DEF masterVars, MasterStops, OnItsWay, Message
  <1>2. /\ Answered(u)' <=> Answered(u)
        /\ Awaits(u, 0)' <=> Awaits(u, 0)
        /\ Awaits(u, cycle[u] + 1)' <=> Awaits(u, cycle[u] + 1)
    BY <1>1 DEF Answered, Awaits
  <1>3. InStep(u)'
    BY <1>1, <1>2 DEF IInv, InStep
  <1>4. Computed(u)'
    BY DEF IInv, Computed
  <1> QED
    BY <1>3, <1>4

\* The part of the invariant about the master alone.
LEMMA MasterKeeps ==
    ASSUME MasterInStep, NothingStale, UNCHANGED masterVars
    PROVE  MasterInStep' /\ NothingStale'
  BY DEF MasterInStep, MasterStops, NothingStale, Merged, Once, Missing, Expected, masterVars

\* The model that a worker receives is the one of the cycle it goes into.
LEMMA TakesModel ==
    ASSUME IInv, ~aborted, NEW w \in Worker, Receive(w), pc[w] \in {"first", "next"}
    PROVE  /\ mpc \in {"solve", "residuals"} /\ sent[w] = <<>>
           /\ Head(models[w]) = Message /\ Head(models[w]).version = mmodel
           /\ (Head(models[w]).below <=> below)
           /\ models' = [models EXCEPT ![w] = <<>>] /\ models'[w] = <<>>
           /\ model' = [model EXCEPT ![w] = mmodel] /\ model'[w] = mmodel
           /\ \/ pc[w] = "first" /\ mmodel = 0 /\ cycle[w] = 0 /\ (stopping[w] <=> NCycles = 0)
              \/ pc[w] = "next" /\ mmodel = cycle[w] + 1
  <1>1. models[w] # <<>> /\ InStep(w)
    BY DEF Receive, IInv
  <1>2. /\ mpc # "broadcast" /\ mpc # "written" /\ models[w] = <<Message>> /\ sent[w] = <<>>
        /\ \/ pc[w] = "first" /\ mmodel = 0 /\ cycle[w] = 0 /\ (stopping[w] <=> NCycles = 0)
           \/ pc[w] = "next" /\ mmodel = cycle[w] + 1
    BY <1>1 DEF InStep, Awaits, OnItsWay, Answered
  <1>3. Head(models[w]) = Message /\ Tail(models[w]) = <<>>
    BY <1>2, SingleMessage
  <1>4. Message.version = mmodel /\ Message.below = below
    BY DEF Message
  <1>5. w \in DOMAIN models /\ w \in DOMAIN model
    BY DEF IInv, Functions, TypeOK
  <1> QED
    BY <1>2, <1>3, <1>4, <1>5 DEF Receive, IInv, TypeOK

\* A worker that has begun the cycle of the master.
LEMMA BegunCycle ==
    ASSUME IInv, NEW w \in Worker, UNCHANGED <<masterVars, sent>>,
           mpc \in {"solve", "residuals"}, sent[w] = <<>>,
           models' = [models EXCEPT ![w] = <<>>],
           model' = [model EXCEPT ![w] = mmodel],
           pc' = [pc EXCEPT ![w] = "units"],
           NEW e \in NE(w), Begun(e, w, mmodel), ne' = [ne EXCEPT ![w] = e],
           cycle' = [cycle EXCEPT ![w] = mmodel],
           NEW last \in BOOLEAN, last <=> MasterStops,
           stopping' = [stopping EXCEPT ![w] = last],
           aborted' = aborted
    PROVE  IInv'
  <1> USE Constants DEF IInv
  <1>1. mmodel \in Version
    BY DEF TypeOK
  <1>2. TypeOK'
    <2>1. /\ pc' \in [Worker -> Place] /\ cycle' \in [Worker -> Version]
          /\ model' \in [Worker -> Version]
      BY <1>1 DEF TypeOK, Place
    <2>2. stopping' \in [Worker -> BOOLEAN]
      BY DEF TypeOK
    <2>3. ASSUME NEW u \in Worker PROVE models'[u] \in Seq(Notice) /\ ne'[u] \in NE(u)
      BY EmptySeq DEF Functions, TypeOK, Notice
    <2> QED
      BY <2>1, <2>2, <2>3 DEF TypeOK, masterVars, Place, Notice
  <1>3. Functions'
    BY DEF Functions, masterVars
  <1>4. MasterInStep' /\ NothingStale'
    BY MasterKeeps
  <1>5. ASSUME NEW u \in Worker, u # w PROVE InStep(u)' /\ Computed(u)'
    BY <1>5, OthersKeep DEF Functions, TypeOK
  <1>6. /\ models'[w] = <<>> /\ sent'[w] = <<>> /\ model'[w] = mmodel /\ pc'[w] = "units"
        /\ ne'[w] = e /\ cycle'[w] = mmodel /\ stopping'[w] = last
    BY DEF Functions, TypeOK
  <1>7. mpc' = mpc /\ mmodel' = mmodel /\ (MasterStops' <=> MasterStops)
    BY DEF masterVars, MasterStops
  <1>8. InStep(w)' /\ Computed(w)'
    BY <1>6, <1>7 DEF InStep, Computed
  <1> QED
    BY <1>2, <1>3, <1>4, <1>5, <1>8

LEMMA FirstModelKeeps ==
    ASSUME IInv, ~aborted, NEW w \in Worker, FirstModel(w)
    PROVE  IInv'
  <1> USE Constants
  <1> DEFINE e == Added(NoNE(w), {1}, mmodel)
  <1>1. pc[w] = "first" /\ Receive(w)
    BY DEF FirstModel
  <1>2. mmodel \in Version /\ mmodel = 0 /\ cycle[w] = 0 /\ (stopping[w] <=> NCycles = 0)
    BY <1>1, TakesModel
  <1>3. e \in NE(w) /\ Begun(e, w, mmodel)
    BY <1>2, BeginsCycle
  <1>4. ne' = [ne EXCEPT ![w] = e]
    BY <1>1, TakesModel DEF FirstModel
  <1>5. stopping[w] \in BOOLEAN /\ (stopping[w] <=> MasterStops)
    BY <1>2 DEF IInv, MasterInStep, MasterStops, TypeOK
  <1>6. cycle' = [cycle EXCEPT ![w] = mmodel] /\ stopping' = [stopping EXCEPT ![w] = stopping[w]]
    BY <1>2 DEF FirstModel, IInv, TypeOK
  <1> HIDE DEF e
  <1>7. /\ mpc \in {"solve", "residuals"} /\ sent[w] = <<>>
        /\ models' = [models EXCEPT ![w] = <<>>] /\ model' = [model EXCEPT ![w] = mmodel]
    BY <1>1, TakesModel
  <1>8. UNCHANGED <<masterVars, sent, aborted>> /\ pc' = [pc EXCEPT ![w] = "units"]
    BY DEF FirstModel, Goto
  <1> QED
    BY <1>3, <1>4, <1>5, <1>6, <1>7, <1>8, BegunCycle

LEMMA NextModelKeeps ==
    ASSUME IInv, ~aborted, NEW w \in Worker, NextModel(w)
    PROVE  IInv'
  <1> USE Constants
  <1>1. pc[w] = "next" /\ Receive(w)
    BY DEF NextModel
  <1>2. mmodel \in Version /\ mmodel = cycle[w] + 1
    BY <1>1, TakesModel DEF IInv, TypeOK
  <1>3. Head(models[w]).version = mmodel /\ (Head(models[w]).below <=> below)
    BY <1>1, TakesModel
  <1>4. PICK good \in Surviving(w, {1}) : ne' = [ne EXCEPT ![w] = Added(NoNE(w), good, mmodel)]
    BY <1>3 DEF NextModel, Restarted
  <1> DEFINE e == Added(NoNE(w), good, mmodel)
             last == WorkerStops(w, Head(models[w]).below)
  <1>5. e \in NE(w) /\ Begun(e, w, mmodel)
    BY <1>2, BeginsCycle DEF Surviving
  <1>6. ne' = [ne EXCEPT ![w] = e]
    BY <1>4
  <1>7. last \in BOOLEAN /\ (last <=> MasterStops)
    BY <1>2, <1>3 DEF WorkerStops, MasterStops
  <1>8. stopping' = [stopping EXCEPT ![w] = last]
    BY DEF NextModel
  <1>9. cycle' = [cycle EXCEPT ![w] = mmodel]
    BY <1>2 DEF NextModel
  <1> HIDE DEF e, last
  <1>10. /\ mpc \in {"solve", "residuals"} /\ sent[w] = <<>>
         /\ models' = [models EXCEPT ![w] = <<>>] /\ model' = [model EXCEPT ![w] = mmodel]
    BY <1>1, TakesModel
  <1>11. UNCHANGED <<masterVars, sent, aborted>> /\ pc' = [pc EXCEPT ![w] = "units"]
    BY DEF NextModel, Goto
  <1> QED
    BY <1>5, <1>6, <1>7, <1>8, <1>9, <1>10, <1>11, BegunCycle

LEMMA FirstModelFailsKeeps ==
    ASSUME IInv, ~aborted, NEW w \in Worker, FirstModelFails(w)
    PROVE  IInv'
  <1> USE Constants DEF IInv
  <1>1. pc[w] = "first" /\ Receive(w) /\ aborted'
    BY DEF FirstModelFails
  <1>2. /\ models' = [models EXCEPT ![w] = <<>>]
        /\ model' = [model EXCEPT ![w] = mmodel] /\ mmodel \in Version
    BY <1>1, TakesModel DEF TypeOK
  <1>3. UNCHANGED <<masterVars, sent, pc, cycle, stopping, ne>> /\ aborted' = TRUE
    BY DEF FirstModelFails
  <1>4. TypeOK'
    <2>1. ASSUME NEW u \in Worker PROVE models'[u] \in Seq(Notice)
      BY <1>2, EmptySeq DEF Functions, TypeOK, Notice
    <2>2. model' \in [Worker -> Version]
      BY <1>2 DEF TypeOK
    <2> QED
      BY <1>3, <2>1, <2>2 DEF TypeOK, masterVars, Notice
  <1>5. Functions'
    BY <1>2, <1>3 DEF Functions, masterVars
  <1>6. MasterInStep' /\ NothingStale'
    BY <1>3, MasterKeeps
  <1>7. ASSUME NEW u \in Worker, u # w PROVE InStep(u)' /\ Computed(u)'
    BY <1>1, <1>2, <1>3, <1>7, OthersKeep DEF Functions, TypeOK
  <1>8. InStep(w)' /\ Computed(w)'
    BY <1>1, <1>3 DEF InStep, Computed
  <1> QED
    BY <1>4, <1>5, <1>6, <1>7, <1>8

LEMMA MergeUnitsKeeps ==
    ASSUME IInv, ~aborted, NEW w \in Worker, MergeUnits(w)
    PROVE  IInv'
  <1> USE Constants DEF IInv
  <1>1. PICK good \in Surviving(w, Unit(w) \ {1}) :
            ne' = [ne EXCEPT ![w] = Added(ne[w], good, model[w])]
    BY DEF MergeUnits
  <1> DEFINE e == Added(ne[w], good, model[w])
  <1>2. pc[w] = "units" /\ UNCHANGED <<masterVars, models, sent, cycle, model, stopping, aborted>>
        /\ pc' = [pc EXCEPT ![w] = "send"]
    BY DEF MergeUnits, Goto
  <1>3. e \in NE(w) /\ Complete(e, w, model[w])
    BY <1>2, CompletesCycle DEF Computed, TypeOK
  <1> HIDE DEF e
  <1>4. ne' = [ne EXCEPT ![w] = e]
    BY <1>1 DEF e
  <1>5. TypeOK'
    <2>1. ASSUME NEW u \in Worker PROVE ne'[u] \in NE(u)
      BY <1>3, <1>4 DEF Functions, TypeOK
    <2>2. pc' \in [Worker -> Place]
      BY <1>2 DEF TypeOK, Place
    <2> QED
      BY <1>2, <2>1, <2>2 DEF TypeOK, masterVars, Place
  <1>6. Functions'
    BY <1>2, <1>4 DEF Functions, masterVars
  <1>7. MasterInStep' /\ NothingStale'
    BY <1>2, MasterKeeps
  <1>8. ASSUME NEW u \in Worker, u # w PROVE InStep(u)' /\ Computed(u)'
    BY <1>2, <1>4, <1>8, OthersKeep DEF Functions, TypeOK
  <1>9. InStep(w)' /\ Computed(w)'
    <2>1. pc'[w] = "send" /\ ne'[w] = e
      BY <1>2, <1>4 DEF Functions, TypeOK
    <2>2. mpc' = mpc /\ mmodel' = mmodel /\ (MasterStops' <=> MasterStops)
      BY <1>2 DEF masterVars, MasterStops
    <2> QED
      BY <1>2, <1>3, <2>1, <2>2 DEF InStep, Computed
  <1> QED
    BY <1>5, <1>6, <1>7, <1>8, <1>9

LEMMA SendNEKeeps ==
    ASSUME IInv, ~aborted, NEW w \in Worker, SendNE(w)
    PROVE  IInv'
  <1> USE Constants DEF IInv
  <1>1. pc[w] = "send" /\ UNCHANGED <<masterVars, models, cycle, model, stopping, ne, aborted>>
        /\ pc' = [pc EXCEPT ![w] = "sent"]
    BY DEF SendNE, Goto
  <1>2. /\ mpc \in {"solve", "residuals"} /\ models[w] = <<>> /\ sent[w] = <<>>
        /\ model[w] = mmodel /\ cycle[w] = mmodel /\ (stopping[w] <=> MasterStops)
        /\ Complete(ne[w], w, mmodel)
    BY <1>1 DEF InStep, Computed
  <1>3. sent' = [sent EXCEPT ![w] = <<ne[w]>>]
    BY <1>2, SingleMessage DEF SendNE
  <1>4. TypeOK'
    <2>1. ASSUME NEW u \in Worker PROVE sent'[u] \in Seq(NE(u))
      BY <1>3, SingleMessage DEF Functions, TypeOK
    <2>2. pc' \in [Worker -> Place]
      BY <1>1 DEF TypeOK, Place
    <2> QED
      BY <1>1, <2>1, <2>2 DEF TypeOK, masterVars, Place
  <1>5. Functions'
    BY <1>1, <1>3 DEF Functions, masterVars
  <1>6. MasterInStep' /\ NothingStale'
    BY <1>1, MasterKeeps
  <1>7. ASSUME NEW u \in Worker, u # w PROVE InStep(u)' /\ Computed(u)'
    BY <1>1, <1>3, <1>7, OthersKeep DEF Functions, TypeOK
  <1>8. InStep(w)' /\ Computed(w)'
    <2>1. pc'[w] = "sent" /\ sent'[w] = <<ne[w]>>
      BY <1>1, <1>3 DEF Functions, TypeOK
    <2>2. mpc' = mpc /\ mmodel' = mmodel /\ (MasterStops' <=> MasterStops)
      BY <1>1 DEF masterVars, MasterStops
    <2>3. Answered(w)'
      BY <1>1, <1>2, <2>1, <2>2, SingleMessage DEF Answered
    <2> QED
      BY <1>1, <1>2, <2>1, <2>2, <2>3 DEF InStep, Computed
  <1> QED
    BY <1>4, <1>5, <1>6, <1>7, <1>8

\* Going on from one place to another that the invariant does not tell from it.
LEMMA GoingOnKeeps ==
    ASSUME IInv, ~aborted, pc' \in [Worker -> Place],
           UNCHANGED <<masterVars, models, sent, cycle, model, stopping, ne, aborted>>,
           \A u \in Worker :
               \/ pc'[u] = pc[u]
               \/ pc[u] = "start" /\ pc'[u] = "first"
               \/ pc[u] = "sent" /\ pc'[u] = "barrier"
               \/ pc[u] = "barrier" /\ pc'[u] = IF stopping[u] THEN "final" ELSE "next"
               \/ pc[u] = "final" /\ pc'[u] = "over"
    PROVE  IInv'
  <1> USE Constants DEF IInv
  <1>1. TypeOK' /\ Functions'
    BY DEF TypeOK, Functions, Place, masterVars
  <1>2. MasterInStep' /\ NothingStale'
    BY MasterKeeps
  <1>3. mpc' = mpc /\ mmodel' = mmodel /\ (MasterStops' <=> MasterStops) /\ OnItsWay' = OnItsWay
    BY DEF masterVars, MasterStops, OnItsWay, Message
  <1>4. ASSUME NEW u \in Worker PROVE InStep(u)' /\ Computed(u)'
    <2>1. /\ Answered(u)' <=> Answered(u)
          /\ Awaits(u, 0)' <=> Awaits(u, 0)
          /\ Awaits(u, cycle[u] + 1)' <=> Awaits(u, cycle[u] + 1)
      BY <1>3 DEF Answered, Awaits
    <2>2. Answered(u) => mpc = "residuals" \/ (mpc = "solve" /\ ~MasterStops)
      BY DEF Answered, MasterInStep
    <2>3. mpc = "residuals" => MasterStops
      BY DEF MasterInStep
    <2>4. InStep(u)'
      BY <1>3, <2>1, <2>2, <2>3 DEF InStep
    <2>5. Computed(u)'
      BY DEF Computed
    <2> QED
      BY <2>4, <2>5
  <1> QED
    BY <1>1, <1>2, <1>4

LEMMA SendReturnsKeeps ==
    ASSUME IInv, ~aborted, NEW w \in Worker, SendReturns(w)
    PROVE  IInv'
  <1>1. pc' \in [Worker -> Place] /\ \A u \in Worker : pc'[u] = IF u = w THEN "barrier" ELSE pc[u]
    BY DEF IInv, TypeOK, SendReturns, Goto, Place
  <1> QED
    BY <1>1, GoingOnKeeps DEF SendReturns

LEMMA BarriersKeep ==
    ASSUME IInv, ~aborted, StartBarrier \/ CycleBarrier \/ FinalBarrier
    PROVE  IInv'
  <1>1. CASE StartBarrier
    BY <1>1, GoingOnKeeps DEF StartBarrier, Barrier, Place
  <1>2. CASE CycleBarrier
    BY <1>2, GoingOnKeeps DEF CycleBarrier, Barrier, Place
  <1>3. CASE FinalBarrier
    BY <1>3, GoingOnKeeps DEF FinalBarrier, Barrier, Place
  <1> QED
    BY <1>1, <1>2, <1>3
-----------------------------------------------------------------------------
LEMMA Stutter == IInv /\ UNCHANGED vars => IInv'
  <1> SUFFICES ASSUME IInv, UNCHANGED vars PROVE IInv'
    OBVIOUS
  <1> USE DEF vars, workerVars, IInv
  <1>1. TypeOK' /\ Functions'
    BY DEF TypeOK, Functions, masterVars
  <1>2. MasterInStep' /\ NothingStale'
    BY MasterKeeps
  <1>3. ASSUME NEW w \in Worker PROVE InStep(w)' /\ Computed(w)'
    BY DEF InStep, Computed, Awaits, Answered, OnItsWay, Message, MasterStops, masterVars
  <1> QED
    BY <1>1, <1>2, <1>3

\* Whatever fails where, and however the messages are buffered, the version of
\* the model, the number of the cycle and the normal equations on their way
\* agree between the master and each worker (ContinuumMaster.cc:186-268,
\* ContinuumWorker.cc:938-1177).
THEOREM Invariance == Spec => []IInv
  <1>1. IInv /\ [Next]_vars => IInv'
    <2> SUFFICES ASSUME IInv, [Next]_vars PROVE IInv'
      OBVIOUS
    <2>1. CASE ~aborted /\ Master
      BY <2>1, BroadcastKeeps, SolveKeeps, ResidualsKeep DEF Master
    <2>2. CASE ~aborted /\ \E w \in Worker : WorkerStep(w)
      BY <2>2, FirstModelKeeps, FirstModelFailsKeeps, MergeUnitsKeeps, SendNEKeeps,
         SendReturnsKeeps, NextModelKeeps DEF WorkerStep
    <2>3. CASE ~aborted /\ (StartBarrier \/ CycleBarrier \/ FinalBarrier)
      BY <2>3, BarriersKeep
    <2>4. CASE UNCHANGED vars
      BY <2>4, Stutter
    <2> QED
      BY <2>1, <2>2, <2>3, <2>4 DEF Next
  <1> QED
    BY Initially, <1>1, PTL DEF Spec

\* Master and workers agree on the cycle and on whether it is the last, and
\* what is solved has each unit once, with the model of its cycle
\* (ContinuumMaster.cc:198-258, ContinuumWorker.cc:1065-1177).
THEOREM StaysInCycle == Spec => []SameCycle
  <1>1. IInv => SameCycle
    <2> SUFFICES ASSUME IInv PROVE SameCycle
      OBVIOUS
    <2> USE Constants DEF IInv
    <2>1. ASSUME NEW w \in Worker, pc[w] \in {"send", "sent", "barrier"}
          PROVE  IF stopping[w]
                 THEN mpc \in {"residuals", "written"} /\ model[w] = mmodel /\ models[w] = <<>>
                 ELSE mpc \in {"solve", "broadcast", "residuals"} /\ model[w] < NCycles
      <3>1. mpc = "solve" => ~MasterStops
        BY DEF MasterInStep
      <3>2. mpc = "residuals" => MasterStops
        BY DEF MasterInStep
      <3>3. mpc \in {"broadcast", "solve", "residuals", "written"} /\ mmodel \in 0..NCycles
        BY DEF TypeOK, Version
      <3>4. InStep(w)
        OBVIOUS
      <3>5. ~MasterStops => mmodel < NCycles
        BY <3>3 DEF MasterStops
      <3>6. CASE stopping[w]
        <4>1. mpc \in {"residuals", "written"} /\ model[w] = mmodel /\ models[w] = <<>>
          BY <2>1, <3>1, <3>4, <3>6 DEF InStep, Answered, Awaits
        <4> QED
          BY <3>6, <4>1
      <3>7. CASE ~stopping[w]
        <4>1. mpc # "written"
          BY <2>1, <3>4, <3>7 DEF InStep, Answered, Awaits
        <4>2. CASE Awaits(w, cycle[w] + 1) /\ model[w] = cycle[w]
          BY <3>3, <3>7, <4>1, <4>2 DEF Awaits, TypeOK, Version
        <4>3. CASE model[w] = mmodel /\ ~MasterStops
          BY <3>3, <3>5, <3>7, <4>1, <4>3
        <4> QED
          BY <2>1, <3>4, <3>7, <4>1, <4>2, <4>3 DEF InStep
      <3> QED
        BY <3>6, <3>7
    <2>2. AgreeToStop
      BY <2>1 DEF AgreeToStop
    <2> QED
      BY <2>2 DEF SameCycle
  <1> QED
    BY <1>1, Invariance, PTL
-----------------------------------------------------------------------------
(* The refinement.                                                         *)

\* What the master received is a use of all the data with its model.
LEMMA UsesModel ==
    ASSUME IInv, ~aborted, mpc \in {"solve", "residuals"}, ReceiveNE
    PROVE  [d \in DatumOf |-> Used(d)'] \in Serially!WithModel(mmodel)
  <1> USE Constants
  <1>1. mmodel \in Version
    BY DEF IInv, TypeOK
  <1>2. ASSUME NEW d \in DatumOf
        PROVE  \/ Used(d)' = {mmodel}
               \/ Used(d)' = {} /\ d[2] \in CanFail[d[1]]
    <2> PICK w \in Worker : d \in {w} \X Unit(w)
      BY DEF DatumOf
    <2> PICK i \in Unit(w) : d = <<w, i>>
      OBVIOUS
    <2>2. OnceOrFailed(mne'[w], w, i, mmodel)
      BY TakesAnswers DEF Complete
    <2>3. Used(d)' = {v \in Version : mne'[w][i][v] > 0}
      BY DEF Used
    <2>4. CASE mne'[w][i] = Single(mmodel)
      BY <1>1, <2>3, <2>4 DEF Single
    <2>5. CASE mne'[w][i] = Zero /\ i \in CanFail[w]
      BY <2>3, <2>5 DEF Zero
    <2> QED
      BY <2>2, <2>4, <2>5 DEF OnceOrFailed
  <1> QED
    BY <1>2 DEF Serially!WithModel

\* The processes do what one processor would, for any workers, units and
\* failures: every solution is made of all the data that do not fail, used with
\* the model before (ContinuumMaster.cc:186-268, ContinuumWorker.cc:938-1177).
THEOREM SerialImplemented == Spec => ImplementsSerial
  <1>1. Init => Serially!SerialInit
    <2> SUFFICES ASSUME Init PROVE Serially!SerialInit
      OBVIOUS
    <2>1. ASSUME NEW d \in DatumOf PROVE Used(d) = {}
      <3> PICK w \in Worker : d \in {w} \X Unit(w)
        BY DEF DatumOf
      <3> PICK i \in Unit(w) : d = <<w, i>>
        OBVIOUS
      <3>2. \A v \in Version : mne[w][i][v] = 0
        BY DEF Init, NoNE
      <3> QED
        BY <3>2 DEF Used
    <2> QED
      BY <2>1 DEF Init, Serially!SerialInit
  <1>2. IInv /\ [Next]_vars =>
            [Serially!SolveAll \/ Serially!FinalResiduals]_(Serially!serialVars)
    <2> SUFFICES ASSUME IInv, [Next]_vars
                 PROVE  \/ Serially!SolveAll \/ Serially!FinalResiduals
                        \/ UNCHANGED Serially!serialVars
      OBVIOUS
    <2> USE Constants
    <2>1. CASE ~aborted /\ Solve
      <3>1. mpc = "solve" /\ ReceiveNE /\ ~MasterStops /\ mmodel \in 0..NCycles
        BY <2>1 DEF Solve, IInv, MasterInStep, TypeOK, Version
      <3>2. [d \in DatumOf |-> Used(d)'] \in Serially!WithModel(mmodel)
        BY <2>1, <3>1, UsesModel
      <3>3. mmodel < NCycles /\ ~below /\ mmodel' = mmodel + 1 /\ below' \in BOOLEAN
            /\ mpc' = "broadcast"
        BY <2>1, <3>1 DEF MasterStops, Solve
      <3>4. Serially!SolveAll
        BY <3>1, <3>2, <3>3 DEF Serially!SolveAll
      <3> QED
        BY <3>4
    <2>2. CASE ~aborted /\ ReceiveResiduals
      <3>1. mpc = "residuals" /\ ReceiveNE /\ MasterStops
        BY <2>2 DEF ReceiveResiduals, IInv, MasterInStep
      <3>2. [d \in DatumOf |-> Used(d)'] \in Serially!WithModel(mmodel)
        BY <2>2, <3>1, UsesModel
      <3>3. mmodel' = mmodel /\ (below' <=> below) /\ below' = below /\ mpc' = "written"
        BY <2>2 DEF ReceiveResiduals
      <3>4. Serially!FinalResiduals
        BY <3>1, <3>2, <3>3 DEF Serially!FinalResiduals, MasterStops
      <3> QED
        BY <3>4
    <2>3. CASE \/ BroadcastModel \/ UNCHANGED vars \/ \E w \in Worker : WorkerStep(w)
               \/ StartBarrier \/ CycleBarrier \/ FinalBarrier
      <3>1. mne' = mne /\ mmodel' = mmodel /\ below' = below
        BY <2>3 DEF BroadcastModel, WorkerStep, FirstModel, FirstModelFails, MergeUnits, SendNE,
           SendReturns, NextModel, StartBarrier, CycleBarrier, FinalBarrier, Barrier, vars,
           masterVars
      <3>2. (mpc' = "written") = (mpc = "written")
        BY <2>3 DEF BroadcastModel, WorkerStep, FirstModel, FirstModelFails, MergeUnits, SendNE,
           SendReturns, NextModel, StartBarrier, CycleBarrier, FinalBarrier, Barrier, vars,
           masterVars
      <3>3. [d \in DatumOf |-> Used(d)'] = [d \in DatumOf |-> Used(d)]
        BY <3>1 DEF Used
      <3> QED
        BY <3>1, <3>2, <3>3 DEF Serially!serialVars
    <2> QED
      BY <2>1, <2>2, <2>3 DEF Next, Master
  <1> QED
    BY <1>1, <1>2, Invariance, PTL DEF Spec, ImplementsSerial, Serially!Serial
-----------------------------------------------------------------------------
(* Halving.  That log2 is what its definition says has to be proved, since *)
(* the definition is recursive.                                            *)

LEMMA SmallestNumber ==
    ASSUME NEW S, S \subseteq Nat, S # {}
    PROVE  \E m \in S : \A n \in S : m <= n
<1> DEFINE Below == OpToRel(<, Nat)
<1>1. PICK m \in S : \A n \in S : ~(<<n, m>> \in Below)
  BY NatLessThanWellFounded, WFMin
<1>2. \A n \in S : n < m => <<n, m>> \in Below
  BY DEF OpToRel
<1>3. \A n \in S : ~(n < m)
  <2> HIDE DEF Below
  <2> QED
    BY <1>1, <1>2
<1> QED
  BY <1>3

LEMMA Half ==
    /\ \A n \in Nat \ {0, 1} : n \div 2 \in Nat \ {0} /\ n \div 2 < n
    /\ \A m \in Nat : (2 * m) \div 2 = m /\ (2 * m + 1) \div 2 = m
    /\ \A n \in Nat : n = 2 * (n \div 2) \/ n = 2 * (n \div 2) + 1
    /\ \A m, n \in Nat : m <= n => m \div 2 \in Nat /\ n \div 2 \in Nat /\ m \div 2 <= n \div 2
  OBVIOUS

\* The function on 0..n that halving defines: there is one, and no other.
Halves(h, n) ==
    /\ h \in [0..n -> Nat]
    /\ \A i \in 0..n : h[i] = IF i < 2 THEN 0 ELSE h[i \div 2] + 1

LEMMA HalvesUnique ==
    ASSUME NEW m \in Nat, NEW n \in Nat, NEW g, NEW h, Halves(g, m), Halves(h, n),
           NEW k \in Nat, k <= m, k <= n
    PROVE  g[k] = h[k]
<1> SUFFICES ASSUME g[k] # h[k] PROVE FALSE
  OBVIOUS
<1> DEFINE S == {i \in Nat : i <= m /\ i <= n /\ g[i] # h[i]}
<1>1. PICK i \in S : \A j \in S : i <= j
  <2>1. k \in S /\ S \subseteq Nat
    OBVIOUS
  <2> HIDE DEF S
  <2> QED
    BY <2>1, SmallestNumber
<1>2. i \in Nat /\ i <= m /\ i <= n /\ g[i] # h[i] /\ i \in 0..m /\ i \in 0..n
  OBVIOUS
<1>3. i \notin {0, 1}
  BY <1>2 DEF Halves
<1>4. i \div 2 \in Nat /\ i \div 2 < i
  BY <1>2, <1>3, Half
<1>5. g[i \div 2] = h[i \div 2]
  <2> DEFINE j == i \div 2
  <2>1. j \in Nat /\ j < i
    BY <1>4
  <2> HIDE DEF j
  <2>2. ~(i <= j) /\ j <= m /\ j <= n
    BY <1>2, <2>1
  <2>3. g[j] = h[j]
    BY <1>1, <2>1, <2>2
  <2> QED
    BY <2>3 DEF j
<1>6. ~(i < 2)
  BY <1>2, <1>3
<1> QED
  BY <1>2, <1>5, <1>6 DEF Halves

LEMMA HalvesExists == \A n \in Nat : \E h : Halves(h, n)
<1> SUFFICES ASSUME NEW n \in Nat, ~\E h : Halves(h, n) PROVE FALSE
  OBVIOUS
<1> DEFINE S == {i \in Nat : ~\E h : Halves(h, i)}
<1>1. PICK i \in S : \A j \in S : i <= j
  <2>1. n \in S /\ S \subseteq Nat
    OBVIOUS
  <2> HIDE DEF S
  <2> QED
    BY <2>1, SmallestNumber
<1>2. i \in Nat /\ ~\E h : Halves(h, i)
  OBVIOUS
<1>3. CASE i < 2
  <2> DEFINE h == [j \in 0..i |-> 0]
  <2>1. Halves(h, i)
    BY <1>2, <1>3 DEF Halves
  <2> QED
    BY <1>2, <2>1
<1>4. CASE ~(i < 2)
  <2>1. i - 1 \in Nat /\ ~(i <= i - 1)
    BY <1>2, <1>4
  <2>2. PICK g : Halves(g, i - 1)
    BY <1>1, <2>1
  <2>3. i \div 2 \in 0..(i - 1)
    BY <1>2, <1>4, Half
  <2> DEFINE h == [j \in 0..i |-> IF j < i THEN g[j] ELSE g[i \div 2] + 1]
  <2>4. h \in [0..i -> Nat]
    <3>1. \A j \in 0..i : j < i => j \in 0..(i - 1)
      BY <1>2
    <3>2. \A j \in 0..(i - 1) : g[j] \in Nat
      BY <2>2 DEF Halves
    <3>3. g[i \div 2] + 1 \in Nat
      BY <2>3, <3>2
    <3> QED
      BY <3>1, <3>2, <3>3
  <2>5. ASSUME NEW j \in 0..i PROVE h[j] = IF j < 2 THEN 0 ELSE h[j \div 2] + 1
    <3>1. CASE j < i
      <4>1. j \in 0..(i - 1) /\ j \in Nat
        BY <1>2, <3>1
      <4>2. h[j] = IF j < 2 THEN 0 ELSE g[j \div 2] + 1
        BY <2>2, <3>1, <4>1 DEF Halves
      <4>3. ~(j < 2) => j \div 2 \in 0..i /\ j \div 2 < i
        BY <1>2, <3>1, <4>1, Half
      <4> QED
        BY <4>2, <4>3
    <3>2. CASE ~(j < i)
      <4>1. j = i
        BY <1>2, <3>2
      <4>2. i \div 2 \in 0..i /\ i \div 2 < i
        BY <1>2, <2>3
      <4> QED
        BY <1>4, <4>1, <4>2
    <3> QED
      BY <3>1, <3>2
  <2>6. Halves(h, i)
    BY <2>4, <2>5 DEF Halves
  <2> QED
    BY <1>2, <2>6
<1> QED
  BY <1>3, <1>4

LEMMA Log2Def ==
    /\ log2 \in [Nat -> Nat]
    /\ \A n \in Nat : log2[n] = IF n < 2 THEN 0 ELSE log2[n \div 2] + 1
<1> DEFINE Upto(n) == CHOOSE h : Halves(h, n)
           f == [n \in Nat |-> Upto(n)[n]]
<1>1. \A n \in Nat : Halves(Upto(n), n)
  BY HalvesExists
<1> HIDE DEF Upto
<1>2. \A n \in Nat : f[n] \in Nat
  <2>1. ASSUME NEW n \in Nat PROVE Upto(n)[n] \in Nat
    BY <1>1 DEF Halves
  <2> QED
    BY <2>1
<1>3. ASSUME NEW n \in Nat PROVE f[n] = IF n < 2 THEN 0 ELSE f[n \div 2] + 1
  <2>1. Upto(n)[n] = IF n < 2 THEN 0 ELSE Upto(n)[n \div 2] + 1
    BY <1>1 DEF Halves
  <2>2. ASSUME ~(n < 2) PROVE Upto(n)[n \div 2] = f[n \div 2]
    <3>1. n \div 2 \in Nat /\ n \div 2 <= n /\ n \div 2 <= n \div 2
      BY <2>2, Half
    <3>2. Upto(n)[n \div 2] = Upto(n \div 2)[n \div 2]
      BY <1>1, <3>1, HalvesUnique
    <3> QED
      BY <3>1, <3>2
  <2> QED
    BY <2>1, <2>2
<1>4. f = [n \in Nat |-> IF n < 2 THEN 0 ELSE f[n \div 2] + 1]
  <2> DEFINE F == [n \in Nat |-> IF n < 2 THEN 0 ELSE f[n \div 2] + 1]
  <2>1. \A n \in Nat : f[n] = F[n]
    BY <1>3
  <2> QED
    BY <2>1
<1> HIDE DEF f
<1>5. log2 = [n \in Nat |-> IF n < 2 THEN 0 ELSE log2[n \div 2] + 1]
  BY <1>4 DEF log2
<1>6. \A n \in Nat : log2[n] = IF n < 2 THEN 0 ELSE log2[n \div 2] + 1
  BY <1>5
<1>7. \A n \in Nat : log2[n] \in Nat
  <2> SUFFICES ASSUME NEW n \in Nat, log2[n] \notin Nat PROVE FALSE
    OBVIOUS
  <2> DEFINE S == {i \in Nat : log2[i] \notin Nat}
  <2>1. PICK i \in S : \A j \in S : i <= j
    <3>1. n \in S /\ S \subseteq Nat
      OBVIOUS
    <3> HIDE DEF S
    <3> QED
      BY <3>1, SmallestNumber
  <2>2. i \in Nat /\ log2[i] \notin Nat
    OBVIOUS
  <2>3. ~(i < 2) /\ log2[i] = log2[i \div 2] + 1
    BY <1>6, <2>2
  <2>4. i \div 2 \in Nat /\ ~(i <= i \div 2)
    BY <2>2, <2>3, Half
  <2>5. log2[i \div 2] \in Nat
    BY <2>1, <2>4
  <2> QED
    BY <2>2, <2>3, <2>5
<1>8. log2 \in [Nat -> Nat]
  BY <1>5, <1>7
<1> QED
  BY <1>6, <1>8

LEMMA Log2Grows == \A m, n \in Nat : m <= n => log2[m] <= log2[n]
<1> SUFFICES ASSUME NEW m \in Nat, NEW n \in Nat, m <= n, ~(log2[m] <= log2[n]) PROVE FALSE
  OBVIOUS
<1> DEFINE S == {i \in Nat : \E j \in Nat : i <= j /\ ~(log2[i] <= log2[j])}
<1>1. PICK i \in S : \A j \in S : i <= j
  <2>1. m \in S /\ S \subseteq Nat
    OBVIOUS
  <2> HIDE DEF S
  <2> QED
    BY <2>1, SmallestNumber
<1>2. PICK j \in Nat : i <= j /\ ~(log2[i] <= log2[j])
  OBVIOUS
<1>3. i \in Nat /\ log2[i] \in Nat /\ log2[j] \in Nat
  BY Log2Def
<1>4. ~(i < 2)
  BY <1>2, <1>3, Log2Def
<1>5. ~(j < 2)
  BY <1>2, <1>3, <1>4
<1>6. log2[i] = log2[i \div 2] + 1 /\ log2[j] = log2[j \div 2] + 1
  BY <1>3, <1>4, <1>5, Log2Def
<1>7. i \div 2 \in Nat /\ j \div 2 \in Nat /\ i \div 2 <= j \div 2 /\ ~(i <= i \div 2)
  BY <1>2, <1>3, <1>4, Half
<1>8. log2[i \div 2] <= log2[j \div 2]
  BY <1>1, <1>7
<1>9. log2[i \div 2] \in Nat /\ log2[j \div 2] \in Nat
  BY <1>7, Log2Def
<1> QED
  BY <1>2, <1>6, <1>8, <1>9

LEMMA Log2OfDouble ==
    ASSUME NEW m \in Nat \ {0}, NEW n \in Nat, 2 * m <= n
    PROVE  log2[m] < log2[n]
<1>1. 2 * m \in Nat /\ ~(2 * m < 2) /\ (2 * m) \div 2 = m
  BY Half
<1>2. log2[2 * m] = log2[m] + 1
  BY <1>1, Log2Def
<1>3. log2[2 * m] <= log2[n]
  BY <1>1, Log2Grows
<1>4. log2[m] \in Nat /\ log2[n] \in Nat
  BY Log2Def
<1> QED
  BY <1>2, <1>3, <1>4
-----------------------------------------------------------------------------
(* The tree.                                                               *)

LEMMA Multiples ==
    ASSUME NEW a \in Nat, NEW b \in Nat, NEW P \in Nat, a <= b
    PROVE  a * P <= b * P /\ a * P \in Nat /\ b * P \in Nat
<1>1. PICK d \in Nat : b = a + d
  <2>1. b - a \in Nat /\ b = a + (b - a)
    OBVIOUS
  <2> QED
    BY <2>1
<1>2. (a + d) * P = a * P + d * P /\ d * P \in Nat /\ a * P \in Nat
  OBVIOUS
<1>3. \A x, y \in Nat : x <= x + y
  OBVIOUS
<1> QED
  BY <1>1, <1>2, <1>3

LEMMA GroupSize ==
    ASSUME nGroups \in GroupCounts
    PROVE  /\ NWorkers \in Nat \ {0} /\ nGroups \in Nat \ {0} /\ Size \in Nat \ {0}
           /\ NWorkers = nGroups * Size
<1>1. /\ NWorkers \in Nat \ {0} /\ nGroups \in Nat \ {0} /\ nGroups <= NWorkers
      /\ NWorkers % nGroups = 0
  BY ReductionAssumption
<1>2. \A x \in Nat, N \in Nat \ {0} : x \div N \in Nat /\ x = N * (x \div N) + (x % N)
  BY ONLY TRUE
<1>3. Size \in Nat /\ NWorkers = nGroups * Size + (NWorkers % nGroups)
  BY <1>1, <1>2 DEF Size
<1>4. nGroups * Size \in Nat
  BY <1>1, <1>3
<1>5. NWorkers = nGroups * Size
  BY <1>1, <1>3, <1>4
<1>6. Size # 0
  <2>1. nGroups * 0 = 0
    BY <1>1
  <2> QED
    BY <1>1, <1>5, <2>1
<1> QED
  BY <1>1, <1>3, <1>5, <1>6

LEMMA PlaceInTree ==
    ASSUME nGroups \in GroupCounts, NEW w \in Rank
    PROVE  /\ Group(w) \in Nat /\ Group(w) < nGroups /\ RankInGroup(w) \in 1..Size
           /\ w = TrueRank(Group(w), RankInGroup(w))
<1> DEFINE q == (w - 1) \div Size
           r == (w - 1) % Size
<1>1. /\ NWorkers \in Nat /\ nGroups \in Nat \ {0} /\ Size \in Nat \ {0}
      /\ NWorkers = nGroups * Size /\ w - 1 \in Nat /\ w \in Nat /\ w - 1 < NWorkers
  BY GroupSize DEF Rank
<1>2. q \in Nat /\ r \in Nat /\ r < Size /\ w - 1 = q * Size + r
  <2>1. \A x \in Nat, N \in Nat \ {0} :
           x \div N \in Nat /\ x % N \in Nat /\ x % N < N /\ x = (x \div N) * N + (x % N)
    BY ONLY TRUE
  <2> QED
    BY ONLY <1>1, <2>1
<1> HIDE DEF q, r
<1>3. q * Size \in Nat
  BY <1>1, <1>2
<1>4. q < nGroups
  <2> SUFFICES ASSUME nGroups <= q PROVE FALSE
    BY <1>1, <1>2
  <2>1. nGroups * Size <= q * Size
    BY <1>1, <1>2, Multiples
  <2> QED
    BY <1>1, <1>2, <1>3, <2>1
<1>5. Group(w) = q
  BY DEF Group, q
<1>6. RankInGroup(w) = r + 1
  <2>1. RankInGroup(w) = w - q * Size
    BY <1>5 DEF RankInGroup
  <2> QED
    BY <1>1, <1>2, <1>3, <2>1
<1>7. TrueRank(q, r + 1) = (r + 1) + q * Size
  BY DEF TrueRank
<1> QED
  BY <1>1, <1>2, <1>3, <1>4, <1>5, <1>6, <1>7

LEMMA RankOfPlace ==
    ASSUME nGroups \in GroupCounts, NEW g \in Nat, g < nGroups, NEW r \in 1..Size
    PROVE  /\ TrueRank(g, r) \in Rank /\ Group(TrueRank(g, r)) = g
           /\ RankInGroup(TrueRank(g, r)) = r
<1> DEFINE w == TrueRank(g, r)
           b == g * Size
<1>1. /\ NWorkers \in Nat /\ nGroups \in Nat \ {0} /\ Size \in Nat \ {0}
      /\ NWorkers = nGroups * Size
  BY GroupSize
<1>2. b \in Nat /\ b + Size <= NWorkers /\ w = r + b
  <2>1. (g + 1) * Size <= nGroups * Size
    BY <1>1, Multiples
  <2>2. (g + 1) * Size = g * Size + Size /\ g * Size \in Nat
    BY <1>1
  <2> QED
    BY <1>1, <2>1, <2>2 DEF TrueRank
<1>3. (w - 1) \div Size = g
  <2>1. \A x, y \in Nat, N \in Nat \ {0} : y < N => (x * N + y) \div N = x
    BY ONLY TRUE
  <2>2. r - 1 \in Nat /\ r - 1 < Size /\ w - 1 = b + (r - 1)
    <3> HIDE DEF b, w
    <3> QED
      BY <1>1, <1>2
  <2>3. (b + (r - 1)) \div Size = g
    BY ONLY <1>1, <2>1, <2>2, g \in Nat
  <2> HIDE DEF w
  <2> QED
    BY <2>2, <2>3
<1> HIDE DEF b, w
<1>4. w \in Rank
  BY <1>1, <1>2 DEF Rank
<1>5. Group(w) = g
  BY <1>3 DEF Group
<1>6. RankInGroup(w) = w - b
  BY <1>5 DEF RankInGroup, b
<1>7. RankInGroup(w) = r
  BY <1>1, <1>2, <1>6
<1> QED
  BY <1>4, <1>5, <1>7 DEF w

LEMMA SamePlace ==
    ASSUME nGroups \in GroupCounts, NEW v \in Rank, NEW w \in Rank,
           Group(v) = Group(w), RankInGroup(v) = RankInGroup(w)
    PROVE  v = w
  BY PlaceInTree

LEMMA RootPlace ==
    ASSUME nGroups \in GroupCounts, NEW g \in Nat, g < nGroups
    PROVE  Root(g) \in Rank /\ Group(Root(g)) = g /\ RankInGroup(Root(g)) = 1
<1>1. 1 \in 1..Size
  BY GroupSize
<1> QED
  BY <1>1, RankOfPlace DEF Root

\* A rank has a parent above it, unless it is the root of its group.
LEMMA ParentPlace ==
    ASSUME nGroups \in GroupCounts, NEW w \in Rank
    PROVE  \/ RankInGroup(w) = 1 /\ Parent(w) = 0 /\ w = Root(Group(w))
           \/ /\ RankInGroup(w) # 1 /\ Parent(w) \in Rank /\ Group(Parent(w)) = Group(w)
              /\ RankInGroup(Parent(w)) = RankInGroup(w) \div 2
              /\ RankInGroup(Parent(w)) < RankInGroup(w)
<1>1. /\ Group(w) \in Nat /\ Group(w) < nGroups /\ RankInGroup(w) \in 1..Size /\ Size \in Nat
      /\ RankInGroup(w) \in Nat \ {0}
  BY PlaceInTree, GroupSize
<1>2. CASE RankInGroup(w) = 1
  <2>1. Parent(w) = 0
    BY <1>2 DEF Parent
  <2>2. w = Root(Group(w))
    BY <1>2, PlaceInTree DEF Root
  <2> QED
    BY <1>2, <2>1, <2>2
<1>3. CASE RankInGroup(w) # 1
  <2> DEFINE p == RankInGroup(w) \div 2
  <2>1. p \in Nat \ {0} /\ p < RankInGroup(w)
    BY <1>1, <1>3, Half
  <2> HIDE DEF p
  <2>2. p \in 1..Size
    BY <1>1, <2>1
  <2>3. Parent(w) = TrueRank(Group(w), p)
    BY <2>1 DEF Parent, p
  <2> QED
    BY <1>1, <1>3, <2>1, <2>2, <2>3, RankOfPlace DEF p
<1> QED
  BY <1>2, <1>3

\* Its children are at the two places below it.
LEMMA ChildPlace ==
    ASSUME nGroups \in GroupCounts, NEW w \in Rank, NEW c \in Rank
    PROVE  Parent(c) = w <=> Group(c) = Group(w) /\ RankInGroup(c) \in {Left(w), Right(w)}
<1>1. /\ Size \in Nat /\ RankInGroup(w) \in Nat \ {0} /\ RankInGroup(c) \in Nat \ {0}
      /\ w # 0
  BY PlaceInTree, GroupSize DEF Rank
<1>2. ASSUME Parent(c) = w
      PROVE  Group(c) = Group(w) /\ RankInGroup(c) \in {Left(w), Right(w)}
  <2>1. Group(c) = Group(w) /\ RankInGroup(w) = RankInGroup(c) \div 2
    BY <1>1, <1>2, ParentPlace
  <2> QED
    BY <1>1, <2>1, Half DEF Left, Right
<1>3. ASSUME Group(c) = Group(w), RankInGroup(c) \in {Left(w), Right(w)}
      PROVE  Parent(c) = w
  <2>1. RankInGroup(c) \div 2 = RankInGroup(w) /\ RankInGroup(c) # 1
    BY <1>1, <1>3, Half DEF Left, Right
  <2>2. Parent(c) \in Rank /\ Group(Parent(c)) = Group(w) /\ RankInGroup(Parent(c)) = RankInGroup(w)
    BY <1>3, <2>1, ParentPlace
  <2> QED
    BY <2>2, SamePlace
<1> QED
  BY <1>2, <1>3

LEMMA ChildExists ==
    ASSUME nGroups \in GroupCounts, NEW w \in Rank, NEW n \in {Left(w), Right(w)}
    PROVE  /\ Exists(n) => /\ TrueRank(Group(w), n) \in Rank /\ Parent(TrueRank(Group(w), n)) = w
                           /\ RankInGroup(TrueRank(Group(w), n)) = n
           /\ ~Exists(n) => \A c \in Rank : ~(Parent(c) = w /\ RankInGroup(c) = n)
<1>1. /\ Size \in Nat /\ RankInGroup(w) \in Nat \ {0} /\ Group(w) \in Nat /\ Group(w) < nGroups
  BY PlaceInTree, GroupSize
<1>2. n \in Nat \ {0}
  BY <1>1 DEF Left, Right
<1>3. ASSUME Exists(n)
      PROVE  /\ TrueRank(Group(w), n) \in Rank /\ Parent(TrueRank(Group(w), n)) = w
             /\ RankInGroup(TrueRank(Group(w), n)) = n
  <2>1. n \in 1..Size
    BY <1>1, <1>2, <1>3 DEF Exists
  <2>2. /\ TrueRank(Group(w), n) \in Rank /\ Group(TrueRank(Group(w), n)) = Group(w)
        /\ RankInGroup(TrueRank(Group(w), n)) = n
    BY <1>1, <2>1, RankOfPlace
  <2> QED
    BY <2>2, ChildPlace
<1>4. ASSUME ~Exists(n), NEW c \in Rank, RankInGroup(c) = n PROVE FALSE
  <2>1. n \in 1..Size
    BY <1>4, PlaceInTree
  <2> QED
    BY <1>1, <1>4, <2>1 DEF Exists
<1> QED
  BY <1>3, <1>4

\* Nobody is below the lowest level.
LEMMA DepthInTree ==
    ASSUME nGroups \in GroupCounts, NEW w \in Rank
    PROVE  /\ Depth(w) \in Nat /\ Height \in Nat /\ Depth(w) <= Height
           /\ Depth(w) = Height => \A c \in Rank : Parent(c) # w
<1>1. RankInGroup(w) \in 1..Size /\ Size \in Nat /\ RankInGroup(w) \in Nat \ {0}
  BY PlaceInTree, GroupSize
<1>2. Depth(w) \in Nat /\ Height \in Nat /\ Depth(w) <= Height
  BY <1>1, Log2Def, Log2Grows DEF Depth, Height
<1>3. ASSUME NEW c \in Rank, Parent(c) = w PROVE Depth(w) < Height
  <2>1. RankInGroup(c) \in {Left(w), Right(w)} /\ RankInGroup(c) \in 1..Size
    BY <1>3, ChildPlace, PlaceInTree
  <2>2. 2 * RankInGroup(w) <= Size
    BY <1>1, <2>1 DEF Left, Right
  <2> QED
    BY <1>1, <2>2, Log2OfDouble DEF Depth, Height
<1> QED
  BY <1>2, <1>3
-----------------------------------------------------------------------------
(* An inductive invariant.                                                 *)

\* A rank has sent its part of the sum asked for, and somebody has received it.
Done(w) == round[w] = asked /\ ~Holding(w)
Got(w) == Done(w) /\ mail[w] = <<>>

\* How far a rank is says which of its children have been received from.
RankInv(w) ==
    /\ round[w] \in {asked - 1, asked}
    /\ Holding(w) => round[w] = asked /\ asked > 0
    /\ at[w] = "right" => level[w] = Depth(w) + 1
    /\ at[w] = "sent" => level[w] = Depth(w)
    /\ \/ mail[w] = <<>>
       \/ /\ Done(w) /\ asked > 0
          /\ mail[w] = <<Head(mail[w])>> /\ Head(mail[w]).to = Parent(w)
    /\ \A c \in Rank : Parent(c) = w =>
        /\ Done(w) => Got(c)
        /\ at[w] = "level" /\ level[w] = Depth(w) => Got(c)
        /\ at[w] = "right" /\ RankInGroup(c) = Left(w) => Got(c)

\* The places there are when nobody has sent more than one message.
Slots == {<<0, 0>>} \cup (Rank \X {0, 1})
Content(x) == IF x[2] = 1 /\ mail[x[1]] = <<>> THEN EmptyBag ELSE PartsAt(x)
OnlyAt(p, x) ==
    \A y \in Slots : (p \in DOMAIN Content(y) <=> y = x) /\ (y = x => Content(y)[p] = 1)
Nowhere(p) == \A y \in Slots : p \notin DOMAIN Content(y)
InOneSlot ==
    \A p \in Part :
        IF p[2] = asked /\ round[p[1]] = asked THEN \E x \in Slots : OnlyAt(p, x) ELSE Nowhere(p)

AreFunctions ==
    /\ sum = [p \in DOMAIN sum |-> sum[p]]
    /\ merged = [w \in Rank |-> merged[w]]
    /\ mail = [w \in Rank |-> mail[w]]

MasterInv ==
    /\ theGroup < nGroups => asked > 0
    /\ \A g \in 0..(theGroup - 1) : Got(Root(g))

ReductionInvariant ==
    /\ ReductionTypeOK /\ AreFunctions
    /\ \A w \in Rank : RankInv(w)
    /\ MasterInv /\ InOneSlot
-----------------------------------------------------------------------------
(* What a step leaves alone.                                               *)

LEMMA OneMessage ==
    ASSUME NEW m
    PROVE  /\ <<m>> # <<>> /\ Len(<<m>>) = 1 /\ Head(<<m>>) = m /\ Tail(<<m>>) = <<>>
           /\ Append(<<>>, m) = <<m>> /\ <<m>>[1] = m /\ Len(<<>>) = 0
  OBVIOUS

\* A bag made of two has of each part what they have.
LEMMA SumOfBags ==
    ASSUME NEW a, NEW b
    PROVE  /\ DOMAIN (a (+) b) = DOMAIN a \cup DOMAIN b
           /\ a (+) b = [p \in DOMAIN (a (+) b) |-> (a (+) b)[p]]
           /\ IsNE(a) /\ IsNE(b) => IsNE(a (+) b)
           /\ IsNE(a) => \A p \in DOMAIN a : p \notin DOMAIN b => (a (+) b)[p] = a[p]
           /\ IsNE(b) => \A p \in DOMAIN b : p \notin DOMAIN a => (a (+) b)[p] = b[p]
<1>1. DOMAIN (a (+) b) = DOMAIN a \cup DOMAIN b
  BY DEF (+)
<1>2. \A p \in DOMAIN (a (+) b) : (a (+) b)[p] =
          (IF p \in DOMAIN a THEN a[p] ELSE 0) + (IF p \in DOMAIN b THEN b[p] ELSE 0)
  BY <1>1 DEF (+)
<1>3. a (+) b = [p \in DOMAIN (a (+) b) |-> (a (+) b)[p]]
  BY DEF (+)
<1>4. ASSUME IsNE(a), IsNE(b) PROVE IsNE(a (+) b)
  BY <1>1, <1>2, <1>4 DEF IsNE
<1>5. ASSUME IsNE(a), NEW p \in DOMAIN a, p \notin DOMAIN b PROVE (a (+) b)[p] = a[p]
  BY <1>1, <1>2, <1>5 DEF IsNE
<1>6. ASSUME IsNE(b), NEW p \in DOMAIN b, p \notin DOMAIN a PROVE (a (+) b)[p] = b[p]
  BY <1>1, <1>2, <1>6 DEF IsNE
<1> QED
  BY <1>1, <1>3, <1>4, <1>5, <1>6

LEMMA NoParts == DOMAIN EmptyBag = {} /\ IsNE(EmptyBag) /\ EmptyBag = [p \in {} |-> EmptyBag[p]]
  BY DEF EmptyBag, SetToBag, IsNE

\* What is in the slots.
LEMMA SlotContent ==
    ASSUME ReductionInvariant
    PROVE  /\ Content(<<0, 0>>) = sum
           /\ \A w \in Rank :
                /\ Content(<<w, 0>>) = IF Holding(w) THEN merged[w] ELSE EmptyBag
                /\ Content(<<w, 1>>) = IF mail[w] = <<>> THEN EmptyBag ELSE Head(mail[w]).ne
<1>1. \A w \in Rank : w # 0
  BY DEF Rank
<1>2. ASSUME NEW w \in Rank, mail[w] # <<>> PROVE mail[w][1] = Head(mail[w])
  <2>1. mail[w] = <<Head(mail[w])>>
    BY <1>2 DEF ReductionInvariant, RankInv
  <2>2. \A m : mail[w] = <<m>> => mail[w][1] = m
    OBVIOUS
  <2> QED
    BY <2>1, <2>2
<1> QED
  BY <1>1, <1>2 DEF Content, PartsAt

\* Moving the parts of one place to another keeps each in one place.
LEMMA PartsMove ==
    ASSUME InOneSlot, UNCHANGED <<asked, round>>,
           NEW src \in Slots, NEW dst \in Slots, src # dst,
           \A x \in Slots : x \notin {src, dst} => Content(x)' = Content(x),
           DOMAIN Content(src)' = {},
           DOMAIN Content(dst)' = DOMAIN Content(dst) \cup DOMAIN Content(src),
           \A p \in DOMAIN Content(dst) : p \notin DOMAIN Content(src) =>
                Content(dst)'[p] = Content(dst)[p],
           \A p \in DOMAIN Content(src) : p \notin DOMAIN Content(dst) =>
                Content(dst)'[p] = Content(src)[p]
    PROVE  InOneSlot'
<1> SUFFICES ASSUME NEW p \in Part
             PROVE  IF p[2] = asked /\ round[p[1]] = asked
                    THEN \E x \in Slots : OnlyAt(p, x)'
                    ELSE Nowhere(p)'
  BY DEF InOneSlot, Part
<1>1. CASE p[2] = asked /\ round[p[1]] = asked
  <2>1. PICK x \in Slots : OnlyAt(p, x)
    BY <1>1 DEF InOneSlot
  <2> DEFINE z == IF x = src THEN dst ELSE x
  <2>2. z \in Slots
    OBVIOUS
  <2>3. ASSUME NEW y \in Slots
        PROVE  /\ p \in DOMAIN Content(y)' <=> y = z
               /\ y = z => Content(y)'[p] = 1
    <3>1. CASE y \notin {src, dst}
      BY <2>1, <3>1 DEF OnlyAt
    <3>2. CASE y = src
      BY <3>2
    <3>3. CASE y = dst
      <4>1. /\ p \in DOMAIN Content(dst) <=> dst = x
            /\ p \in DOMAIN Content(src) <=> src = x
            /\ dst = x => Content(dst)[p] = 1
            /\ src = x => Content(src)[p] = 1
        BY <2>1 DEF OnlyAt
      <4> QED
        BY <3>3, <4>1
    <3> QED
      BY <3>1, <3>2, <3>3
  <2>4. OnlyAt(p, z)'
    BY <2>3 DEF OnlyAt, Slots
  <2> QED
    BY <1>1, <2>2, <2>4
<1>2. CASE ~(p[2] = asked /\ round[p[1]] = asked)
  <2>1. Nowhere(p)
    BY <1>2 DEF InOneSlot
  <2>2. ASSUME NEW y \in Slots PROVE p \notin DOMAIN Content(y)'
    BY <2>1 DEF Nowhere
  <2> QED
    BY <1>2, <2>2 DEF Nowhere, Slots
<1> QED
  BY <1>1, <1>2

LEMMA PartsStay ==
    ASSUME InOneSlot, UNCHANGED <<asked, round>>, \A x \in Slots : Content(x)' = Content(x)
    PROVE  InOneSlot'
<1>1. ASSUME NEW p \in Part
      PROVE  /\ Nowhere(p) => Nowhere(p)'
             /\ \A x \in Slots : OnlyAt(p, x) => OnlyAt(p, x)'
  BY DEF Nowhere, OnlyAt, Slots
<1> QED
  BY <1>1 DEF InOneSlot, Part

\* Ranks that keep their place, and what they have been received from.
LEMMA RankStays ==
    ASSUME NEW w \in Rank, RankInv(w), UNCHANGED <<nGroups, asked>>,
           at'[w] = at[w], level'[w] = level[w], round'[w] = round[w],
           mail'[w] \in {mail[w], <<>>},
           \A c \in Rank : Got(c) => Got(c)'
    PROVE  RankInv(w)'
<1>1. /\ Depth(w)' = Depth(w) /\ Parent(w)' = Parent(w) /\ Rank' = Rank
      /\ Left(w)' = Left(w)
      /\ \A c \in Rank : Parent(c)' = Parent(c) /\ RankInGroup(c)' = RankInGroup(c)
  BY DEF Depth, RankInGroup, Group, Size, Parent, TrueRank, Rank, Left
<1>2. (Holding(w)' <=> Holding(w)) /\ (Done(w)' <=> Done(w))
  BY <1>1 DEF Holding, Done
<1>3. \/ mail'[w] = <<>>
      \/ /\ Done(w)' /\ asked' > 0
         /\ mail'[w] = <<Head(mail'[w])>> /\ Head(mail'[w]).to = Parent(w)'
  BY <1>1, <1>2 DEF RankInv
<1>4. ASSUME NEW c \in Rank, Parent(c) = w
      PROVE  /\ Done(w)' => Got(c)'
             /\ at'[w] = "level" /\ level'[w] = Depth(w)' => Got(c)'
             /\ at'[w] = "right" /\ RankInGroup(c)' = Left(w)' => Got(c)'
  BY <1>1, <1>2, <1>4 DEF RankInv
<1> QED
  BY <1>1, <1>2, <1>3, <1>4 DEF RankInv
-----------------------------------------------------------------------------
(* The steps.                                                              *)

LEMMA InitReduction == ReductionInit => ReductionInvariant
<1> SUFFICES ASSUME ReductionInit PROVE ReductionInvariant
  OBVIOUS
<1>1. /\ nGroups \in GroupCounts /\ asked = 0 /\ theGroup = nGroups /\ sum = EmptyBag
      /\ round = [w \in Rank |-> 0] /\ at = [w \in Rank |-> "idle"]
      /\ level = [w \in Rank |-> -1] /\ merged = [w \in Rank |-> EmptyBag]
      /\ mail = [w \in Rank |-> <<>>]
  BY DEF ReductionInit
<1>2. nGroups \in Nat /\ Rounds \in Nat /\ NWorkers \in Nat
  BY <1>1, GroupSize, ReductionAssumption
<1>3. \A w \in Rank : ~Holding(w) /\ Done(w) /\ Got(w) /\ Depth(w) \in Nat /\ Height \in Nat
  BY <1>1, DepthInTree DEF Holding, Done, Got
<1>4. ReductionTypeOK
  <2>1. level \in [Rank -> -1..Height]
    <3>1. \A w \in Rank : -1 \in -1..Height
      BY <1>3
    <3> QED
      BY <1>1, <3>1
  <2>2. \A w \in Rank : IsNE(merged[w]) /\ Len(mail[w]) = 0
    BY <1>1, NoParts, OneMessage
  <2>3. \A w \in Rank : \A i \in 1..Len(mail[w]) : mail[w][i].to \in 0..NWorkers /\ IsNE(mail[w][i].ne)
    BY <2>2
  <2> QED
    BY <1>1, <1>2, <2>1, <2>2, <2>3, NoParts DEF ReductionTypeOK
<1>5. AreFunctions
  BY <1>1, NoParts DEF AreFunctions
<1>6. ASSUME NEW w \in Rank PROVE RankInv(w)
  BY <1>1, <1>3 DEF RankInv
<1>7. MasterInv
  <2>1. ASSUME NEW g \in 0..(theGroup - 1) PROVE Got(Root(g))
    <3>1. g \in Nat /\ g < nGroups
      BY <1>1, <1>2
    <3> QED
      BY <1>1, <1>3, <3>1, RootPlace
  <2> QED
    BY <1>1, <1>2, <2>1 DEF MasterInv
<1>8. InOneSlot
  <2>1. ASSUME NEW p \in Part PROVE p[2] # asked
    BY <1>1, <1>2 DEF Part
  <2>2. ASSUME NEW x \in Slots PROVE DOMAIN Content(x) = {}
    BY <1>1, <1>3, NoParts DEF Slots, Content, PartsAt
  <2> QED
    BY <2>1, <2>2 DEF InOneSlot, Nowhere
<1> QED
  BY <1>4, <1>5, <1>6, <1>7, <1>8 DEF ReductionInvariant

\* A step of one rank.
LEMMA RankSteps ==
    ASSUME ReductionInvariant, NEW v \in Rank, UNCHANGED <<nGroups, asked, theGroup, sum>>,
           \A w \in Rank : w # v =>
                /\ at'[w] = at[w] /\ level'[w] = level[w] /\ round'[w] = round[w]
                /\ mail'[w] \in {mail[w], <<>>},
           Got(v) => Got(v)',
           ReductionTypeOK', AreFunctions', InOneSlot',
           (\A c \in Rank : Got(c) => Got(c)') => RankInv(v)'
    PROVE  ReductionInvariant'
<1>1. ASSUME NEW c \in Rank, Got(c) PROVE Got(c)'
  <2>1. CASE c = v
    BY <1>1, <2>1
  <2>2. CASE c # v
    <3>1. Depth(c)' = Depth(c)
      BY DEF Depth, RankInGroup, Group, Size
    <3> QED
      BY <1>1, <2>2, <3>1 DEF Got, Done, Holding
  <2> QED
    BY <2>1, <2>2
<1>2. ASSUME NEW w \in Rank PROVE RankInv(w)'
  <2>1. CASE w = v
    BY <1>1, <2>1
  <2>2. CASE w # v
    <3>1. RankInv(w)
      BY DEF ReductionInvariant
    <3> QED
      BY <1>1, <2>2, <3>1, RankStays
  <2> QED
    BY <2>1, <2>2
<1>3. MasterInv'
  <2>1. nGroups \in GroupCounts /\ theGroup \in 0..nGroups /\ MasterInv
    BY DEF ReductionInvariant, ReductionTypeOK
  <2>2. nGroups \in Nat
    BY <2>1, GroupSize
  <2>3. ASSUME NEW g \in 0..(theGroup - 1) PROVE Got(Root(g))'
    <3>1. Got(Root(g)) /\ g \in Nat /\ g < nGroups
      BY <2>1, <2>2 DEF MasterInv
    <3>2. Root(g) \in Rank /\ Root(g)' = Root(g)
      BY <2>1, <3>1, RootPlace DEF Root, TrueRank, Size
    <3> DEFINE r == Root(g)
    <3>3. r' = r /\ r \in Rank /\ Got(r)
      BY <3>1, <3>2
    <3>4. Depth(r)' = Depth(r)
      BY <3>3 DEF Depth, RankInGroup, Group, Size
    <3> HIDE DEF r
    <3>5. ASSUME NEW c \in Rank, c = r PROVE Got(c)'
      BY <1>1, <3>3, <3>5
    <3> QED
      BY <3>3, <3>5 DEF r, Got, Done, Holding
  <2> QED
    BY <2>1, <2>3 DEF MasterInv
<1>4. (\A w \in Rank : RankInv(w))'
  BY <1>2 DEF Rank
<1> QED
  BY <1>3, <1>4 DEF ReductionInvariant

LEMMA RankTypes ==
    ASSUME ReductionInvariant, NEW v \in Rank
    PROVE  /\ nGroups \in GroupCounts /\ asked \in 0..Rounds /\ asked \in Nat /\ round[v] \in Nat
           /\ level[v] \in Int /\ -1 <= level[v] /\ level[v] <= Height
           /\ Depth(v) \in Nat /\ Height \in Nat /\ Depth(v) <= Height
           /\ IsNE(merged[v])
           /\ mail[v] # <<>> => IsNE(Head(mail[v]).ne)
           /\ RankInv(v) /\ (round[v] = asked \/ round[v] = asked - 1)
<1>1. ReductionTypeOK /\ RankInv(v)
  BY DEF ReductionInvariant
<1>2. nGroups \in GroupCounts /\ asked \in 0..Rounds /\ Rounds \in Nat /\ round[v] \in 0..Rounds
      /\ level[v] \in -1..Height /\ IsNE(merged[v])
      /\ \A i \in 1..Len(mail[v]) : IsNE(mail[v][i].ne)
  BY <1>1, ReductionAssumption DEF ReductionTypeOK
<1>3. Depth(v) \in Nat /\ Height \in Nat /\ Depth(v) <= Height
  BY <1>2, DepthInTree
<1>4. ASSUME mail[v] # <<>> PROVE IsNE(Head(mail[v]).ne)
  <2>1. mail[v] = <<Head(mail[v])>>
    BY <1>1, <1>4 DEF RankInv
  <2>2. \A m : mail[v] = <<m>> => Len(mail[v]) = 1 /\ mail[v][1] = m
    BY OneMessage
  <2>3. Len(mail[v]) = 1 /\ mail[v][1] = Head(mail[v])
    BY <2>1, <2>2
  <2> QED
    BY <1>2, <2>3
<1>5. round[v] = asked \/ round[v] = asked - 1
  BY <1>1 DEF RankInv
<1> QED
  BY <1>1, <1>2, <1>3, <1>4, <1>5

LEMMA TypesStay ==
    ASSUME ReductionTypeOK, UNCHANGED nGroups, asked' \in 0..Rounds, theGroup' \in 0..nGroups,
           IsNE(sum'), round' \in [Rank -> 0..Rounds],
           at' \in [Rank -> {"idle", "level", "right", "sent"}],
           level' \in [Rank -> -1..Height], \A w \in Rank : IsNE(merged'[w]),
           \A w \in Rank : \/ mail'[w] \in {mail[w], <<>>}
                           \/ \E m : mail'[w] = <<m>> /\ m.to \in 0..NWorkers /\ IsNE(m.ne)
    PROVE  ReductionTypeOK'
<1>1. Height' = Height /\ Rank' = Rank
  BY DEF Height, Size, Rank
<1>2. ASSUME NEW w \in Rank, NEW i \in 1..Len(mail'[w])
      PROVE  mail'[w][i].to \in 0..NWorkers /\ IsNE(mail'[w][i].ne)
  <2>1. CASE mail'[w] = mail[w]
    BY <1>2, <2>1 DEF ReductionTypeOK
  <2>2. CASE mail'[w] = <<>>
    BY <1>2, <2>2
  <2>3. ASSUME NEW m, mail'[w] = <<m>>, m.to \in 0..NWorkers, IsNE(m.ne)
        PROVE  mail'[w][i].to \in 0..NWorkers /\ IsNE(mail'[w][i].ne)
    <3>1. Len(mail'[w]) = 1 /\ mail'[w][1] = m
      BY <2>3, OneMessage
    <3>2. i = 1
      BY <1>2, <3>1
    <3> QED
      BY <2>3, <3>1, <3>2
  <2> QED
    BY <2>1, <2>2, <2>3
<1>3. nGroups' \in GroupCounts /\ nGroups' = nGroups
  BY DEF ReductionTypeOK
<1>4. \A w \in Rank' : \A i \in 1..Len(mail'[w]) :
          mail'[w][i].to \in 0..NWorkers /\ IsNE(mail'[w][i].ne)
  BY <1>1, <1>2
<1> HIDE DEF ReductionTypeOK
<1>5. (\A w \in Rank : IsNE(merged[w]))' /\ IsNE(sum)'
  BY DEF IsNE, Part, Rank
<1>6. (\A w \in Rank : \A i \in 1..Len(mail[w]) : mail[w][i].to \in 0..NWorkers /\ IsNE(mail[w][i].ne))'
  BY <1>4 DEF IsNE, Part, Rank
<1> QED
  BY <1>1, <1>3, <1>5, <1>6 DEF ReductionTypeOK

LEMMA CalcNEStep ==
    ASSUME ReductionInvariant, NEW v \in Rank, CalcNE(v) PROVE ReductionInvariant'
<1> DEFINE own == SetToBag({<<v, asked>>})
<1>0. ReductionTypeOK /\ AreFunctions /\ InOneSlot
  BY DEF ReductionInvariant
<1>1. /\ at[v] = "idle" /\ round[v] < asked
      /\ round' = [round EXCEPT ![v] = asked] /\ merged' = [merged EXCEPT ![v] = own]
      /\ level' = [level EXCEPT ![v] = Height] /\ at' = [at EXCEPT ![v] = "level"]
      /\ UNCHANGED <<nGroups, asked, theGroup, sum, mail>>
  BY DEF CalcNE, MoveTo
<1>2. /\ nGroups \in GroupCounts /\ asked \in 0..Rounds /\ asked \in Nat /\ round[v] = asked - 1
      /\ Depth(v) \in Nat /\ Height \in Nat /\ Depth(v) <= Height /\ RankInv(v) /\ asked > 0
  BY <1>1, RankTypes
<1>3. ~Holding(v) /\ ~Done(v) /\ ~Got(v) /\ mail[v] = <<>>
  BY <1>1, <1>2 DEF Holding, Done, Got, RankInv
<1>4. /\ at \in [Rank -> {"idle", "level", "right", "sent"}] /\ level \in [Rank -> -1..Height]
      /\ round \in [Rank -> 0..Rounds] /\ (\A w \in Rank : IsNE(merged[w]))
      /\ theGroup \in 0..nGroups /\ IsNE(sum)
  BY <1>0 DEF ReductionTypeOK
<1>5. merged = [w \in Rank |-> merged[w]] /\ mail = [w \in Rank |-> mail[w]]
      /\ sum = [p \in DOMAIN sum |-> sum[p]]
  BY <1>0 DEF AreFunctions
<1>6. /\ at'[v] = "level" /\ level'[v] = Height /\ round'[v] = asked /\ merged'[v] = own
      /\ \A w \in Rank : w # v => at'[w] = at[w] /\ level'[w] = level[w] /\ round'[w] = round[w]
                                  /\ merged'[w] = merged[w]
  BY <1>1, <1>4, <1>5
<1>7. <<v, asked>> \in Part /\ DOMAIN own = {<<v, asked>>} /\ own[<<v, asked>>] = 1 /\ IsNE(own)
  BY <1>2 DEF Part, SetToBag, IsNE
<1> HIDE DEF own
<1>8. ReductionTypeOK'
  <2>1. \A w \in Rank : IsNE(merged'[w])
    BY <1>4, <1>6, <1>7
  <2>2. level' \in [Rank -> -1..Height]
    BY <1>1, <1>2, <1>4
  <2>3. round' \in [Rank -> 0..Rounds] /\ at' \in [Rank -> {"idle", "level", "right", "sent"}]
    BY <1>1, <1>2, <1>4
  <2> QED
    BY <1>0, <1>1, <1>2, <1>4, <2>1, <2>2, <2>3, TypesStay
<1>9. AreFunctions'
  <2>1. merged' = [w \in Rank |-> merged'[w]]
    BY <1>1, <1>5
  <2> QED
    BY <1>1, <1>5, <2>1 DEF AreFunctions, Rank
<1>10. /\ Depth(v)' = Depth(v) /\ Rank' = Rank /\ Parent(v)' = Parent(v)
       /\ \A w \in Rank : Depth(w)' = Depth(w) /\ Parent(w)' = Parent(w)
  BY <1>1 DEF Depth, RankInGroup, Group, Size, Parent, TrueRank, Rank
<1>11. Holding(v)' /\ \A w \in Rank : w # v => (Holding(w)' <=> Holding(w))
  BY <1>2, <1>6, <1>10 DEF Holding
<1>12. (\A c \in Rank : Got(c) => Got(c)') => RankInv(v)'
  <2>1. ~Done(v)'
    BY <1>11 DEF Done
  <2>2. ASSUME NEW c \in Rank, Parent(c) = v PROVE ~(level'[v] = Depth(v))
    BY <1>2, <1>6, <2>2, DepthInTree
  <2> QED
    BY <1>1, <1>2, <1>3, <1>6, <1>10, <1>11, <2>1, <2>2 DEF RankInv
<1>13. InOneSlot'
  <2> DEFINE own0 == <<v, asked>>
             here == <<v, 0>>
  <2>1. here \in Slots /\ Content(here)' = own
    BY <1>6, <1>11 DEF Slots, Content, PartsAt, Rank
  <2>2. DOMAIN Content(here) = {}
    BY <1>3, NoParts DEF Content, PartsAt, Rank
  <2>3. ASSUME NEW x \in Slots, x # here PROVE Content(x)' = Content(x)
    <3>1. CASE x = <<0, 0>>
      BY <1>1, <3>1 DEF Content, PartsAt
    <3>2. CASE x \in Rank \X {1}
      BY <1>1, <3>2 DEF Content, PartsAt, Rank
    <3>3. ASSUME NEW w \in Rank, x = <<w, 0>> PROVE Content(x)' = Content(x)
      <4>1. w # v /\ w # 0
        BY <2>3, <3>3 DEF Rank
      <4>2. Content(x) = IF Holding(w) THEN merged[w] ELSE EmptyBag
        BY <3>3, <4>1 DEF Content, PartsAt
      <4>3. Content(x)' = IF Holding(w)' THEN merged'[w] ELSE EmptyBag
        BY <3>3, <4>1 DEF Content, PartsAt
      <4> QED
        BY <1>6, <1>11, <4>1, <4>2, <4>3
    <3> QED
      BY <2>3, <3>1, <3>2, <3>3 DEF Slots
  <2>4. ASSUME NEW p \in Part, p = own0
        PROVE  p[2] = asked' /\ round'[p[1]] = asked' /\ OnlyAt(p, here)'
    <3>1. Nowhere(p)
      BY <1>0, <1>2, <2>4 DEF InOneSlot
    <3>2. ASSUME NEW y \in Slots
          PROVE  (p \in DOMAIN Content(y)' <=> y = here) /\ (y = here => Content(y)'[p] = 1)
      BY <1>7, <2>1, <2>3, <2>4, <3>1 DEF Nowhere
    <3> QED
      BY <1>1, <1>6, <2>4, <3>2 DEF OnlyAt, Slots
  <2>5. ASSUME NEW p \in Part, p # own0
        PROVE  /\ p[2] = asked' /\ round'[p[1]] = asked' <=> p[2] = asked /\ round[p[1]] = asked
               /\ \A x \in Slots : OnlyAt(p, x) => OnlyAt(p, x)'
               /\ Nowhere(p) => Nowhere(p)'
    <3>1. p[2] = asked => p[1] # v /\ p[1] \in Rank
      BY <2>5 DEF Part
    <3>2. \A y \in Slots : p \in DOMAIN Content(y)' <=> p \in DOMAIN Content(y)
      BY <1>7, <2>1, <2>2, <2>3, <2>5
    <3>3. \A y \in Slots : p \in DOMAIN Content(y) => Content(y)'[p] = Content(y)[p]
      BY <2>2, <2>3
    <3>4. ASSUME NEW x \in Slots, OnlyAt(p, x) PROVE OnlyAt(p, x)'
      <4>1. ASSUME NEW y \in Slots
            PROVE  (p \in DOMAIN Content(y)' <=> y = x) /\ (y = x => Content(y)'[p] = 1)
        BY <3>2, <3>3, <3>4 DEF OnlyAt
      <4> QED
        BY <4>1 DEF OnlyAt, Slots
    <3>5. Nowhere(p) => Nowhere(p)'
      BY <3>2 DEF Nowhere, Slots
    <3> QED
      BY <1>1, <1>6, <3>1, <3>4, <3>5
  <2>6. ASSUME NEW p \in Part
        PROVE  IF p[2] = asked' /\ round'[p[1]] = asked'
               THEN \E x \in Slots : OnlyAt(p, x)' ELSE Nowhere(p)'
    <3>1. CASE p = own0
      BY <2>1, <2>4, <3>1
    <3>2. CASE p # own0
      BY <1>0, <2>5, <3>2 DEF InOneSlot
    <3> QED
      BY <3>1, <3>2
  <2> QED
    BY <2>6 DEF InOneSlot, Part, Slots
<1> QED
  BY <1>1, <1>3, <1>6, <1>8, <1>9, <1>12, <1>13, RankSteps

\* A rank moves on and touches no normal equations.
LEMMA QuietStep ==
    ASSUME ReductionInvariant, NEW v \in Rank,
           UNCHANGED <<nGroups, asked, theGroup, sum, round, merged, mail>>,
           at' \in [Rank -> {"idle", "level", "right", "sent"}], level' \in [Rank -> -1..Height],
           \A w \in Rank : w # v => at'[w] = at[w] /\ level'[w] = level[w],
           Holding(v)' <=> Holding(v),
           (\A c \in Rank : Got(c) => Got(c)') => RankInv(v)'
    PROVE  ReductionInvariant'
<1>1. ReductionTypeOK /\ AreFunctions /\ InOneSlot
  BY DEF ReductionInvariant
<1>2. ReductionTypeOK'
  <2>1. /\ round' \in [Rank -> 0..Rounds] /\ (\A w \in Rank : IsNE(merged'[w]))
        /\ theGroup' \in 0..nGroups /\ IsNE(sum') /\ asked' \in 0..Rounds
        /\ \A w \in Rank : mail'[w] = mail[w]
    BY <1>1 DEF ReductionTypeOK
  <2> QED
    BY ONLY <1>1, <2>1, TypesStay, UNCHANGED nGroups, level' \in [Rank -> -1..Height],
       at' \in [Rank -> {"idle", "level", "right", "sent"}]
<1>3. AreFunctions'
  BY <1>1 DEF AreFunctions, Rank
<1>4. \A w \in Rank : Holding(w)' <=> Holding(w)
  <2>1. \A w \in Rank : Depth(w)' = Depth(w)
    BY DEF Depth, RankInGroup, Group, Size
  <2> QED
    BY <2>1 DEF Holding
<1>5. Got(v) => Got(v)'
  BY <1>4 DEF Got, Done
<1>6. InOneSlot'
  <2>1. ASSUME NEW x \in Slots PROVE Content(x)' = Content(x)
    <3>1. x = <<0, 0>> \/ \E w \in Rank : x[1] = w /\ w # 0
      BY DEF Slots, Rank
    <3> QED
      BY <1>4, <3>1 DEF Content, PartsAt
  <2> QED
    BY <1>1, <2>1, PartsStay
<1> QED
  BY <1>2, <1>3, <1>5, <1>6, RankSteps

LEMMA SitOutStep ==
    ASSUME ReductionInvariant, NEW v \in Rank, SitOut(v) PROVE ReductionInvariant'
<1>1. /\ at[v] = "level" /\ level[v] >= 0 /\ Depth(v) # level[v] /\ Depth(v) # level[v] - 1
      /\ level' = [level EXCEPT ![v] = @ - 1]
      /\ UNCHANGED <<nGroups, asked, theGroup, sum, round, at, merged, mail>>
  BY DEF SitOut, Levels, NextLevel
<1>2. level \in [Rank -> -1..Height] /\ at \in [Rank -> {"idle", "level", "right", "sent"}]
  BY DEF ReductionInvariant, ReductionTypeOK
<1>3. /\ level[v] \in Int /\ level[v] <= Height /\ Depth(v) \in Nat /\ Height \in Nat /\ RankInv(v)
  BY RankTypes
<1>4. level[v] - 1 \in -1..Height
  BY <1>1, <1>3
<1>5. /\ level' \in [Rank -> -1..Height] /\ level'[v] = level[v] - 1
      /\ \A w \in Rank : w # v => at'[w] = at[w] /\ level'[w] = level[w]
  BY <1>1, <1>2, <1>4
<1>6. /\ Depth(v)' = Depth(v) /\ Parent(v)' = Parent(v) /\ Left(v)' = Left(v) /\ Rank' = Rank
      /\ \A w \in Rank : Parent(w)' = Parent(w) /\ RankInGroup(w)' = RankInGroup(w)
  BY <1>1 DEF Depth, RankInGroup, Group, Size, Parent, TrueRank, Rank, Left
<1>7. Holding(v)' <=> Holding(v)
  BY <1>1, <1>3, <1>5, <1>6 DEF Holding
<1>8. ASSUME \A c \in Rank : Got(c) => Got(c)' PROVE RankInv(v)'
  <2>1. Done(v)' <=> Done(v)
    BY <1>1, <1>7 DEF Done
  <2>2. level'[v] # Depth(v)
    BY <1>1, <1>3, <1>5
  <2> QED
    BY <1>1, <1>3, <1>5, <1>6, <1>7, <1>8, <2>1, <2>2 DEF RankInv
<1> QED
  BY <1>1, <1>2, <1>5, <1>7, <1>8, QuietStep

LEMMA SendEndsStep ==
    ASSUME ReductionInvariant, NEW v \in Rank, SendEnds(v) PROVE ReductionInvariant'
<1>1. /\ at[v] = "sent" /\ level' = [level EXCEPT ![v] = @ - 1] /\ at' = [at EXCEPT ![v] = "level"]
      /\ UNCHANGED <<nGroups, asked, theGroup, sum, round, merged, mail>>
  BY DEF SendEnds, MoveTo, NextLevel
<1>2. level \in [Rank -> -1..Height] /\ at \in [Rank -> {"idle", "level", "right", "sent"}]
  BY DEF ReductionInvariant, ReductionTypeOK
<1>3. /\ Depth(v) \in Nat /\ Height \in Nat /\ Depth(v) <= Height /\ RankInv(v) /\ level[v] = Depth(v)
  BY <1>1, RankTypes DEF RankInv
<1>4. level[v] - 1 \in -1..Height
  BY <1>3
<1>5. /\ level' \in [Rank -> -1..Height] /\ level'[v] = Depth(v) - 1 /\ at'[v] = "level"
      /\ at' \in [Rank -> {"idle", "level", "right", "sent"}]
      /\ \A w \in Rank : w # v => at'[w] = at[w] /\ level'[w] = level[w]
  BY <1>1, <1>2, <1>3, <1>4
<1>6. /\ Depth(v)' = Depth(v) /\ Parent(v)' = Parent(v) /\ Left(v)' = Left(v) /\ Rank' = Rank
      /\ \A w \in Rank : Parent(w)' = Parent(w) /\ RankInGroup(w)' = RankInGroup(w)
  BY <1>1 DEF Depth, RankInGroup, Group, Size, Parent, TrueRank, Rank, Left
<1>7. ~Holding(v)' /\ ~Holding(v)
  BY <1>1, <1>3, <1>5, <1>6 DEF Holding
<1>8. ASSUME \A c \in Rank : Got(c) => Got(c)' PROVE RankInv(v)'
  <2>1. Done(v)' <=> Done(v)
    BY <1>1, <1>7 DEF Done
  <2>2. level'[v] # Depth(v)
    BY <1>3, <1>5
  <2> QED
    BY <1>1, <1>3, <1>5, <1>6, <1>7, <1>8, <2>1, <2>2 DEF RankInv
<1> QED
  BY <1>1, <1>5, <1>7, <1>8, QuietStep

LEMMA LeaveStep ==
    ASSUME ReductionInvariant, NEW v \in Rank, Leave(v) PROVE ReductionInvariant'
<1>1. /\ at[v] = "level" /\ ~(level[v] >= 0) /\ at' = [at EXCEPT ![v] = "idle"]
      /\ UNCHANGED <<nGroups, asked, theGroup, sum, round, level, merged, mail>>
  BY DEF Leave, Levels, MoveTo
<1>2. level \in [Rank -> -1..Height] /\ at \in [Rank -> {"idle", "level", "right", "sent"}]
  BY DEF ReductionInvariant, ReductionTypeOK
<1>3. Depth(v) \in Nat /\ level[v] \in Int /\ RankInv(v)
  BY RankTypes
<1>5. /\ at'[v] = "idle" /\ at' \in [Rank -> {"idle", "level", "right", "sent"}]
      /\ \A w \in Rank : w # v => at'[w] = at[w] /\ level'[w] = level[w]
  BY <1>1, <1>2
<1>6. /\ Depth(v)' = Depth(v) /\ Parent(v)' = Parent(v) /\ Left(v)' = Left(v) /\ Rank' = Rank
      /\ \A w \in Rank : Parent(w)' = Parent(w) /\ RankInGroup(w)' = RankInGroup(w)
  BY <1>1 DEF Depth, RankInGroup, Group, Size, Parent, TrueRank, Rank, Left
<1>7. ~Holding(v)' /\ ~Holding(v)
  BY <1>1, <1>3, <1>5, <1>6 DEF Holding
<1>8. ASSUME \A c \in Rank : Got(c) => Got(c)' PROVE RankInv(v)'
  <2>1. Done(v)' <=> Done(v)
    BY <1>1, <1>7 DEF Done
  <2> QED
    BY <1>1, <1>3, <1>5, <1>6, <1>7, <1>8, <2>1 DEF RankInv
<1> QED
  BY <1>1, <1>2, <1>5, <1>7, <1>8, QuietStep

\* A rank receives from the child at one of the places below it, if there is one.
LEMMA MergeStep ==
    ASSUME ReductionInvariant, NEW v \in Rank, NEW n \in {Left(v), Right(v)}, Merge(v, n),
           UNCHANGED <<nGroups, asked, theGroup, sum, round>>,
           at' \in [Rank -> {"idle", "level", "right", "sent"}], level' \in [Rank -> -1..Height],
           \A w \in Rank : w # v => at'[w] = at[w] /\ level'[w] = level[w],
           Holding(v), Holding(v)',
           /\ \A c \in Rank : Got(c) => Got(c)'
           /\ \A c \in Rank : Parent(c) = v /\ RankInGroup(c) = n => Got(c)'
           /\ mail'[v] \in {mail[v], <<>>}
           => RankInv(v)'
    PROVE  ReductionInvariant'
<1>1. ReductionTypeOK /\ AreFunctions /\ InOneSlot /\ nGroups \in GroupCounts
  BY DEF ReductionInvariant, ReductionTypeOK
<1>2. \A w \in Rank : Depth(w)' = Depth(w) /\ (Holding(w)' <=> Holding(w))
  <2>1. \A w \in Rank : Depth(w)' = Depth(w)
    BY DEF Depth, RankInGroup, Group, Size
  <2> QED
    BY <2>1 DEF Holding
<1>3. \A w \in Rank : Done(w)' <=> Done(w)
  BY <1>2 DEF Done
<1>4. CASE ~Exists(n)
  <2>1. UNCHANGED <<merged, mail>>
    BY <1>4 DEF Merge
  <2>2. \A c \in Rank : ~(Parent(c) = v /\ RankInGroup(c) = n)
    BY <1>1, <1>4, ChildExists
  <2>3. (\A c \in Rank : Got(c) => Got(c)') => RankInv(v)'
    BY <2>1, <2>2
  <2> QED
    BY <2>1, <2>3, QuietStep
<1>5. CASE Exists(n)
  <2>1. PICK c \in Rank : c = TrueRank(Group(v), n) /\ Parent(c) = v /\ RankInGroup(c) = n
    BY <1>1, <1>5, ChildExists
  <2>0. PICK m : m = Head(mail[c])
    OBVIOUS
  <2>2. /\ mail[c] # <<>> /\ merged' = [merged EXCEPT ![v] = @ (+) m.ne]
        /\ mail' = [mail EXCEPT ![c] = Tail(@)]
    BY <1>5, <2>0, <2>1 DEF Merge, From, Take
  <2>3. /\ mail[c] = <<m>> /\ Done(c) /\ IsNE(m.ne) /\ IsNE(merged[v])
    BY <2>0, <2>1, <2>2, RankTypes DEF RankInv
  <2>4. Tail(mail[c]) = <<>>
    BY <2>3, OneMessage
  <2>5. c # v
    BY <2>3 DEF Done
  <2>6. merged = [w \in Rank |-> merged[w]] /\ mail = [w \in Rank |-> mail[w]]
        /\ sum = [p \in DOMAIN sum |-> sum[p]]
    BY <1>1 DEF AreFunctions
  <2>7. /\ mail'[c] = <<>> /\ \A w \in Rank : w # c => mail'[w] = mail[w]
        /\ merged'[v] = merged[v] (+) m.ne /\ \A w \in Rank : w # v => merged'[w] = merged[w]
        /\ mail' = [w \in Rank |-> mail'[w]] /\ merged' = [w \in Rank |-> merged'[w]]
    BY <2>1, <2>2, <2>4, <2>6
  <2>8. AreFunctions'
    BY <2>6, <2>7 DEF AreFunctions, Rank
  <2>9. ReductionTypeOK'
    <3>1. \A w \in Rank : IsNE(merged'[w])
      <4>1. IsNE(merged[v] (+) m.ne)
        BY <2>3, SumOfBags
      <4>2. \A w \in Rank : IsNE(merged[w])
        BY <1>1 DEF ReductionTypeOK
      <4> QED
        BY <2>7, <4>1, <4>2
    <3>2. /\ round' \in [Rank -> 0..Rounds] /\ theGroup' \in 0..nGroups /\ IsNE(sum')
          /\ asked' \in 0..Rounds
      BY <1>1 DEF ReductionTypeOK
    <3>3. \A w \in Rank : mail'[w] \in {mail[w], <<>>}
      BY <2>7
    <3> QED
      BY ONLY <1>1, <3>1, <3>2, <3>3, TypesStay, UNCHANGED nGroups,
         level' \in [Rank -> -1..Height], at' \in [Rank -> {"idle", "level", "right", "sent"}]
  <2>10. \A w \in Rank : Got(w) => Got(w)'
    BY <1>3, <2>7 DEF Got
  <2>11. ASSUME NEW w \in Rank, Parent(w) = v, RankInGroup(w) = n PROVE Got(w)'
    <3>1. w = c
      BY <1>1, <2>1, <2>11, ChildPlace, SamePlace
    <3> QED
      BY <1>3, <2>3, <2>7, <3>1 DEF Got
  <2>12. RankInv(v)'
    BY <2>1, <2>5, <2>7, <2>10, <2>11
  <2>13. InOneSlot'
    <3> DEFINE src == <<c, 1>>
               dst == <<v, 0>>
    <3>1. src \in Slots /\ dst \in Slots /\ src # dst
      BY <2>1 DEF Slots
    <3>2. /\ Content(src) = m.ne /\ Content(dst) = merged[v]
      BY <2>0, <2>1, <2>2, SlotContent
    <3>3. c # 0 /\ v # 0
      BY <2>1 DEF Rank
    <3>4. DOMAIN Content(src)' = {}
      BY <2>7, NoParts DEF Content
    <3>5. Content(dst)' = merged[v] (+) m.ne
      BY <2>7, <3>3 DEF Content, PartsAt
    <3>6. ASSUME NEW x \in Slots, x \notin {src, dst} PROVE Content(x)' = Content(x)
      <4>1. CASE x = <<0, 0>>
        BY <4>1 DEF Content, PartsAt
      <4>2. ASSUME NEW w \in Rank, x = <<w, 0>> PROVE Content(x)' = Content(x)
        <5>1. w # v /\ w # 0
          BY <3>6, <4>2 DEF Rank
        <5> QED
          BY <1>2, <2>7, <4>2, <5>1 DEF Content, PartsAt
      <4>3. ASSUME NEW w \in Rank, x = <<w, 1>> PROVE Content(x)' = Content(x)
        <5>1. w # c /\ w # 0
          BY <3>6, <4>3 DEF Rank
        <5> QED
          BY <2>7, <4>3, <5>1 DEF Content, PartsAt
      <4> QED
        BY <4>1, <4>2, <4>3 DEF Slots
    <3>7. /\ DOMAIN Content(dst)' = DOMAIN Content(dst) \cup DOMAIN Content(src)
          /\ \A p \in DOMAIN Content(dst) : p \notin DOMAIN Content(src) =>
                 Content(dst)'[p] = Content(dst)[p]
          /\ \A p \in DOMAIN Content(src) : p \notin DOMAIN Content(dst) =>
                 Content(dst)'[p] = Content(src)[p]
      <4>1. /\ DOMAIN (merged[v] (+) m.ne) = DOMAIN merged[v] \cup DOMAIN m.ne
            /\ \A p \in DOMAIN merged[v] : p \notin DOMAIN m.ne =>
                   (merged[v] (+) m.ne)[p] = merged[v][p]
            /\ \A p \in DOMAIN m.ne : p \notin DOMAIN merged[v] =>
                   (merged[v] (+) m.ne)[p] = m.ne[p]
        <5> DEFINE a == merged[v]
                   b == m.ne
        <5>1. IsNE(a) /\ IsNE(b)
          BY <2>3
        <5> HIDE DEF a, b
        <5>2. DOMAIN (a (+) b) = DOMAIN a \cup DOMAIN b
          BY ONLY SumOfBags
        <5>3. \A p \in DOMAIN a : p \notin DOMAIN b => (a (+) b)[p] = a[p]
          BY ONLY <5>1, SumOfBags
        <5>4. \A p \in DOMAIN b : p \notin DOMAIN a => (a (+) b)[p] = b[p]
          BY ONLY <5>1, SumOfBags
        <5> QED
          BY ONLY <5>2, <5>3, <5>4 DEF a, b
      <4> HIDE DEF src, dst
      <4> QED
        BY ONLY <3>2, <3>5, <4>1
    <3>8. UNCHANGED <<asked, round>>
      OBVIOUS
    <3> HIDE DEF src, dst
    <3> QED
      BY <1>1, <3>1, <3>4, <3>6, <3>7, <3>8, PartsMove
  <2> QED
    BY <2>5, <2>7, <2>8, <2>9, <2>10, <2>12, <2>13, RankSteps
<1> QED
  BY <1>4, <1>5

LEMMA ReceiveLeftStep ==
    ASSUME ReductionInvariant, NEW v \in Rank, ReceiveLeft(v) PROVE ReductionInvariant'
<1>1. /\ at[v] = "level" /\ level[v] >= 0 /\ Depth(v) = level[v] - 1
      /\ Merge(v, Left(v)) /\ at' = [at EXCEPT ![v] = "right"]
      /\ UNCHANGED <<nGroups, asked, theGroup, sum, round, level>>
  BY DEF ReceiveLeft, Levels, MoveTo
<1>2. level \in [Rank -> -1..Height] /\ at \in [Rank -> {"idle", "level", "right", "sent"}]
  BY DEF ReductionInvariant, ReductionTypeOK
<1>3. level[v] \in Int /\ Depth(v) \in Nat /\ RankInv(v) /\ asked \in Nat
  BY RankTypes
<1>4. /\ at'[v] = "right" /\ at' \in [Rank -> {"idle", "level", "right", "sent"}]
      /\ \A w \in Rank : w # v => at'[w] = at[w] /\ level'[w] = level[w]
  BY <1>1, <1>2
<1>5. /\ Depth(v)' = Depth(v) /\ Parent(v)' = Parent(v) /\ Left(v)' = Left(v) /\ Rank' = Rank
      /\ \A w \in Rank : Parent(w)' = Parent(w) /\ RankInGroup(w)' = RankInGroup(w)
  BY <1>1 DEF Depth, RankInGroup, Group, Size, Parent, TrueRank, Rank, Left
<1>6. Holding(v)' /\ Holding(v)
  BY <1>1, <1>3, <1>4 DEF Holding
<1>7. mail[v] = <<>> /\ round[v] = asked /\ asked > 0
  BY <1>3, <1>6 DEF RankInv, Done
<1>8. ASSUME \A c \in Rank : Got(c) => Got(c)',
             \A c \in Rank : Parent(c) = v /\ RankInGroup(c) = Left(v) => Got(c)',
             mail'[v] \in {mail[v], <<>>}
      PROVE  RankInv(v)'
  <2>1. ~Done(v)' /\ mail'[v] = <<>> /\ round'[v] = asked'
    BY <1>1, <1>6, <1>7, <1>8 DEF Done
  <2>2. level'[v] = Depth(v)' + 1
    BY <1>1, <1>3, <1>5
  <2> QED
    BY <1>1, <1>4, <1>5, <1>7, <1>8, <2>1, <2>2 DEF RankInv
<1> QED
  BY <1>1, <1>2, <1>4, <1>6, <1>8, MergeStep

LEMMA ReceiveRightStep ==
    ASSUME ReductionInvariant, NEW v \in Rank, ReceiveRight(v) PROVE ReductionInvariant'
<1>1. /\ at[v] = "right" /\ Merge(v, Right(v))
      /\ at' = [at EXCEPT ![v] = "level"] /\ level' = [level EXCEPT ![v] = @ - 1]
      /\ UNCHANGED <<nGroups, asked, theGroup, sum, round>>
  BY DEF ReceiveRight, MoveTo, NextLevel
<1>2. level \in [Rank -> -1..Height] /\ at \in [Rank -> {"idle", "level", "right", "sent"}]
      /\ nGroups \in GroupCounts
  BY DEF ReductionInvariant, ReductionTypeOK
<1>3. /\ level[v] = Depth(v) + 1 /\ Depth(v) \in Nat /\ Height \in Nat /\ Depth(v) <= Height
      /\ RankInv(v) /\ asked \in Nat
  BY <1>1, RankTypes DEF RankInv
<1>4. /\ at'[v] = "level" /\ at' \in [Rank -> {"idle", "level", "right", "sent"}]
      /\ level'[v] = Depth(v) /\ level' \in [Rank -> -1..Height]
      /\ \A w \in Rank : w # v => at'[w] = at[w] /\ level'[w] = level[w]
  <2>1. level[v] - 1 \in -1..Height /\ level[v] - 1 = Depth(v)
    BY <1>3
  <2> QED
    BY <1>1, <1>2, <2>1
<1>5. /\ Depth(v)' = Depth(v) /\ Parent(v)' = Parent(v) /\ Left(v)' = Left(v) /\ Rank' = Rank
      /\ \A w \in Rank : Parent(w)' = Parent(w) /\ RankInGroup(w)' = RankInGroup(w)
  BY <1>1 DEF Depth, RankInGroup, Group, Size, Parent, TrueRank, Rank, Left
<1>6. Holding(v)' /\ Holding(v)
  BY <1>1, <1>3, <1>4, <1>5 DEF Holding
<1>7. mail[v] = <<>> /\ round[v] = asked /\ asked > 0
  BY <1>3, <1>6 DEF RankInv, Done
<1>8. ASSUME \A c \in Rank : Got(c) => Got(c)',
             \A c \in Rank : Parent(c) = v /\ RankInGroup(c) = Right(v) => Got(c)',
             mail'[v] \in {mail[v], <<>>}
      PROVE  RankInv(v)'
  <2>1. ~Done(v)' /\ mail'[v] = <<>> /\ round'[v] = asked'
    BY <1>1, <1>6, <1>7, <1>8 DEF Done
  <2>2. ASSUME NEW c \in Rank, Parent(c) = v PROVE Got(c)'
    <3>1. RankInGroup(c) \in {Left(v), Right(v)}
      BY <1>2, <2>2, ChildPlace
    <3>2. RankInGroup(c) = Left(v) => Got(c)
      BY <1>1, <1>3, <2>2 DEF RankInv
    <3> QED
      BY <1>8, <2>2, <3>1, <3>2
  <2> QED
    BY <1>1, <1>4, <1>5, <1>7, <2>1, <2>2 DEF RankInv
<1> QED
  BY <1>1, <1>4, <1>6, <1>8, MergeStep

LEMMA SendUpStep ==
    ASSUME ReductionInvariant, NEW v \in Rank, SendUp(v) PROVE ReductionInvariant'
<1>0. ReductionTypeOK /\ AreFunctions /\ InOneSlot /\ nGroups \in GroupCounts
  BY DEF ReductionInvariant, ReductionTypeOK
<1>1. /\ at[v] = "level" /\ Depth(v) = level[v]
      /\ mail' = [mail EXCEPT ![v] = Append(@, [to |-> Parent(v), ne |-> merged[v]])]
      /\ at' = [at EXCEPT ![v] = "sent"]
      /\ UNCHANGED <<nGroups, asked, theGroup, sum, round, level, merged>>
  BY DEF SendUp, MoveTo
<1>2. /\ level \in [Rank -> -1..Height] /\ at \in [Rank -> {"idle", "level", "right", "sent"}]
      /\ round \in [Rank -> 0..Rounds] /\ (\A w \in Rank : IsNE(merged[w]))
      /\ theGroup \in 0..nGroups /\ IsNE(sum) /\ asked \in 0..Rounds
  BY <1>0 DEF ReductionTypeOK
<1>3. level[v] \in Int /\ Depth(v) \in Nat /\ RankInv(v) /\ asked \in Nat
  BY RankTypes
<1>4. Holding(v)
  BY <1>1, <1>3 DEF Holding
<1>5. mail[v] = <<>> /\ round[v] = asked /\ asked > 0 /\ ~Got(v)
  BY <1>3, <1>4 DEF RankInv, Done, Got
<1>6. PICK m : m = [to |-> Parent(v), ne |-> merged[v]]
  OBVIOUS
<1>7. m.to = Parent(v) /\ m.ne = merged[v] /\ m.to \in 0..NWorkers
  <2>1. Parent(v) \in 0..NWorkers
    <3>1. NWorkers \in Nat
      BY <1>0, GroupSize
    <3> QED
      BY <1>0, <3>1, ParentPlace DEF Rank
  <2> QED
    BY <1>6, <2>1
<1>8. /\ mail = [w \in Rank |-> mail[w]] /\ merged = [w \in Rank |-> merged[w]]
      /\ sum = [p \in DOMAIN sum |-> sum[p]]
  BY <1>0 DEF AreFunctions
<1>9. /\ mail'[v] = <<m>> /\ mail' = [w \in Rank |-> mail'[w]] /\ at'[v] = "sent"
      /\ \A w \in Rank : w # v => at'[w] = at[w] /\ mail'[w] = mail[w]
      /\ at' \in [Rank -> {"idle", "level", "right", "sent"}]
  <2>1. Append(mail[v], m) = <<m>>
    BY <1>5, OneMessage
  <2> QED
    BY <1>1, <1>2, <1>6, <1>8, <2>1
<1>10. /\ Depth(v)' = Depth(v) /\ Parent(v)' = Parent(v) /\ Left(v)' = Left(v) /\ Rank' = Rank
       /\ \A w \in Rank : Parent(w)' = Parent(w) /\ RankInGroup(w)' = RankInGroup(w)
                          /\ Depth(w)' = Depth(w)
  BY <1>1 DEF Depth, RankInGroup, Group, Size, Parent, TrueRank, Rank, Left
<1>11. ~Holding(v)' /\ \A w \in Rank : w # v => (Holding(w)' <=> Holding(w))
  BY <1>1, <1>9, <1>10 DEF Holding
<1>12. ReductionTypeOK'
  <2>1. \A w \in Rank : \/ mail'[w] \in {mail[w], <<>>}
                        \/ \E x : mail'[w] = <<x>> /\ x.to \in 0..NWorkers /\ IsNE(x.ne)
    BY <1>2, <1>7, <1>9
  <2>2. /\ round' \in [Rank -> 0..Rounds] /\ level' \in [Rank -> -1..Height]
        /\ (\A w \in Rank : IsNE(merged'[w])) /\ theGroup' \in 0..nGroups /\ IsNE(sum')
        /\ asked' \in 0..Rounds /\ UNCHANGED nGroups
    BY <1>1, <1>2
  <2> QED
    BY ONLY <1>0, <1>9, <2>1, <2>2, TypesStay
<1>13. AreFunctions'
  BY <1>1, <1>8, <1>9 DEF AreFunctions, Rank
<1>14. ASSUME \A c \in Rank : Got(c) => Got(c)' PROVE RankInv(v)'
  <2>1. Done(v)'
    BY <1>1, <1>5, <1>11 DEF Done
  <2>2. mail'[v] = <<Head(mail'[v])>> /\ Head(mail'[v]).to = Parent(v)'
    <3>1. Head(<<m>>) = m
      BY OneMessage
    <3> QED
      BY <1>7, <1>9, <1>10, <3>1
  <2>3. \A c \in Rank : Parent(c) = v => Got(c)'
    BY <1>1, <1>3, <1>14 DEF RankInv
  <2> QED
    BY <1>1, <1>5, <1>9, <1>10, <1>11, <2>1, <2>2, <2>3 DEF RankInv
<1>15. InOneSlot'
  <2> DEFINE src == <<v, 0>>
             dst == <<v, 1>>
  <2>1. src \in Slots /\ dst \in Slots /\ src # dst /\ v # 0
    BY DEF Slots, Rank
  <2>2. Content(src) = merged[v] /\ Content(dst) = EmptyBag
    BY <1>4, <1>5, SlotContent
  <2>3. Content(src)' = EmptyBag
    BY <1>11, <2>1 DEF Content, PartsAt
  <2>4. Content(dst)' = merged[v]
    <3>1. <<m>>[1] = m /\ <<m>> # <<>>
      BY OneMessage
    <3>2. dst[1] = v /\ dst[2] = 1 /\ mail'[v] # <<>> /\ mail'[v][1] = m
      BY <1>9, <3>1
    <3>3. Content(dst)' = mail'[v][1].ne
      BY <2>1, <3>2 DEF Content, PartsAt
    <3> QED
      BY <1>7, <3>2, <3>3
  <2>5. ASSUME NEW x \in Slots, x \notin {src, dst} PROVE Content(x)' = Content(x)
    <3>1. CASE x = <<0, 0>>
      BY <1>1, <3>1 DEF Content, PartsAt
    <3>2. ASSUME NEW w \in Rank, NEW i \in {0, 1}, x = <<w, i>> PROVE Content(x)' = Content(x)
      <4>1. w # v /\ w # 0
        BY <2>5, <3>2 DEF Rank
      <4> QED
        BY <1>1, <1>9, <1>11, <3>2, <4>1 DEF Content, PartsAt
    <3> QED
      BY <3>1, <3>2 DEF Slots
  <2>6. /\ DOMAIN Content(dst)' = DOMAIN Content(dst) \cup DOMAIN Content(src)
        /\ \A p \in DOMAIN Content(dst) : p \notin DOMAIN Content(src) =>
               Content(dst)'[p] = Content(dst)[p]
        /\ \A p \in DOMAIN Content(src) : p \notin DOMAIN Content(dst) =>
               Content(dst)'[p] = Content(src)[p]
        /\ DOMAIN Content(src)' = {}
    BY <2>2, <2>3, <2>4, NoParts
  <2>7. UNCHANGED <<asked, round>>
    BY <1>1
  <2> HIDE DEF src, dst
  <2> QED
    BY <1>0, <2>1, <2>5, <2>6, <2>7, PartsMove
<1>16. Got(v) => Got(v)'
  BY <1>5
<1> QED
  BY <1>1, <1>9, <1>12, <1>13, <1>14, <1>15, <1>16, RankSteps

\* When the master has received from all groups, nothing is under way: from the
\* root of each tree on down, whoever has been received from has received from
\* its children.
LEMMA AllGot ==
    ASSUME ReductionInvariant, theGroup = nGroups, NEW w \in Rank PROVE Got(w)
<1> SUFFICES ASSUME ~Got(w) PROVE FALSE
  OBVIOUS
<1> DEFINE S == {RankInGroup(v) : v \in {u \in Rank : ~Got(u)}}
<1>1. nGroups \in GroupCounts /\ MasterInv /\ nGroups \in Nat
  BY GroupSize DEF ReductionInvariant, ReductionTypeOK
<1>2. \A v \in Rank : RankInGroup(v) \in Nat
  BY <1>1, PlaceInTree, GroupSize
<1>3. PICK r \in S : \A n \in S : r <= n
  <2>1. S \subseteq Nat /\ S # {}
    BY <1>2
  <2> HIDE DEF S
  <2> QED
    BY <2>1, SmallestNumber
<1>4. PICK v \in Rank : ~Got(v) /\ r = RankInGroup(v)
  OBVIOUS
<1>5. CASE v = Root(Group(v))
  <2>1. Group(v) \in 0..(theGroup - 1)
    BY <1>1, PlaceInTree
  <2> QED
    BY <1>1, <1>4, <1>5, <2>1 DEF MasterInv
<1>6. CASE v # Root(Group(v))
  <2>1. Parent(v) \in Rank /\ RankInGroup(Parent(v)) < RankInGroup(v)
    BY <1>1, <1>6, ParentPlace
  <2>2. Got(Parent(v))
    <3>1. RankInGroup(Parent(v)) \notin S
      BY <1>2, <1>3, <1>4, <2>1
    <3> QED
      BY <2>1, <3>1
  <2>3. RankInv(Parent(v))
    BY <2>1 DEF ReductionInvariant
  <2> QED
    BY <1>4, <2>2, <2>3 DEF RankInv, Got
<1> QED
  BY <1>5, <1>6

LEMMA AskForSumStep == ReductionInvariant /\ AskForSum => ReductionInvariant'
<1> SUFFICES ASSUME ReductionInvariant, AskForSum PROVE ReductionInvariant'
  OBVIOUS
<1>0. ReductionTypeOK /\ AreFunctions
  BY DEF ReductionInvariant
<1>1. /\ theGroup = nGroups /\ asked < Rounds /\ asked' = asked + 1 /\ sum' = EmptyBag /\ theGroup' = 0
      /\ UNCHANGED <<nGroups, round, at, level, merged, mail>>
  BY DEF AskForSum, Empty
<1>2. asked \in Nat /\ asked + 1 \in 0..Rounds /\ nGroups \in Nat \ {0} /\ nGroups \in GroupCounts
  <2>1. asked \in 0..Rounds /\ Rounds \in Nat /\ nGroups \in GroupCounts
    BY <1>0, ReductionAssumption DEF ReductionTypeOK
  <2> QED
    BY <1>1, <2>1, GroupSize
<1>3. \A w \in Rank : Got(w) /\ round[w] = asked /\ ~Holding(w) /\ mail[w] = <<>>
  BY <1>1, AllGot DEF Got, Done
<1>4. ReductionTypeOK'
  <2>1. /\ round' \in [Rank -> 0..Rounds] /\ level' \in [Rank -> -1..Height]
        /\ at' \in [Rank -> {"idle", "level", "right", "sent"}]
        /\ (\A w \in Rank : IsNE(merged'[w])) /\ theGroup' \in 0..nGroups /\ IsNE(sum')
        /\ asked' \in 0..Rounds /\ UNCHANGED nGroups
        /\ \A w \in Rank : mail'[w] \in {mail[w], <<>>}
    BY <1>0, <1>1, <1>2, NoParts DEF ReductionTypeOK
  <2> QED
    BY ONLY <1>0, <2>1, TypesStay
<1>5. AreFunctions'
  BY <1>0, <1>1, NoParts DEF AreFunctions, Rank
<1>6. \A w \in Rank : /\ ~Holding(w)' /\ ~Done(w)' /\ Depth(w)' = Depth(w)
                      /\ Depth(w) \in Nat /\ level[w] \in Int
  <2>1. \A w \in Rank : Depth(w)' = Depth(w)
    BY <1>1 DEF Depth, RankInGroup, Group, Size
  <2>2. \A w \in Rank : round'[w] # asked'
    BY <1>1, <1>2, <1>3
  <2> QED
    BY <1>1, <1>3, <2>1, <2>2, RankTypes DEF Holding, Done
<1>7. ASSUME NEW w \in Rank PROVE RankInv(w)'
  <2>1. RankInv(w)
    BY DEF ReductionInvariant
  <2>2. at[w] # "right" /\ ~(at[w] = "level" /\ level[w] = Depth(w))
    BY <1>3, <1>6 DEF Holding
  <2> QED
    BY <1>1, <1>2, <1>3, <1>6, <2>1, <2>2 DEF RankInv
<1>8. MasterInv'
  BY <1>1, <1>2 DEF MasterInv
<1>9. InOneSlot'
  <2>1. ASSUME NEW p \in Part PROVE ~(p[2] = asked' /\ round'[p[1]] = asked')
    BY <1>1, <1>2, <1>3 DEF Part
  <2>2. ASSUME NEW x \in Slots PROVE DOMAIN Content(x)' = {}
    <3>1. CASE x = <<0, 0>>
      BY <1>1, <3>1, NoParts DEF Content, PartsAt
    <3>2. ASSUME NEW w \in Rank, NEW i \in {0, 1}, x = <<w, i>> PROVE DOMAIN Content(x)' = {}
      <4>1. w # 0 /\ mail'[w] = <<>> /\ ~Holding(w)'
        BY <1>1, <1>3, <1>6 DEF Rank
      <4> QED
        BY <3>2, <4>1, NoParts DEF Content, PartsAt
    <3> QED
      BY <3>1, <3>2 DEF Slots
  <2> QED
    BY <2>1, <2>2 DEF InOneSlot, Nowhere, Part, Slots
<1>10. (\A w \in Rank : RankInv(w))'
  BY <1>7 DEF Rank
<1> QED
  BY <1>4, <1>5, <1>8, <1>9, <1>10 DEF ReductionInvariant

LEMMA ReceiveFromGroupStep == ReductionInvariant /\ ReceiveFromGroup => ReductionInvariant'
<1> SUFFICES ASSUME ReductionInvariant, ReceiveFromGroup PROVE ReductionInvariant'
  OBVIOUS
<1>0. ReductionTypeOK /\ AreFunctions /\ InOneSlot /\ MasterInv
  BY DEF ReductionInvariant
<1>1. nGroups \in GroupCounts /\ theGroup \in Nat /\ theGroup < nGroups /\ nGroups \in Nat
  <2>1. nGroups \in GroupCounts /\ theGroup \in 0..nGroups /\ theGroup < nGroups
    BY <1>0 DEF ReductionTypeOK, ReceiveFromGroup
  <2> QED
    BY <2>1, GroupSize
<1>2. PICK r \in Rank : r = Root(theGroup)
  BY <1>1, RootPlace
<1>3. PICK m : m = Head(mail[r])
  OBVIOUS
<1>4. /\ mail[r] # <<>> /\ sum' = sum (+) m.ne /\ mail' = [mail EXCEPT ![r] = Tail(@)]
      /\ theGroup' = theGroup + 1
      /\ UNCHANGED <<nGroups, asked, round, at, level, merged>>
  BY <1>2, <1>3 DEF ReceiveFromGroup, From, Take
<1>5. mail[r] = <<m>> /\ Done(r) /\ IsNE(m.ne) /\ IsNE(sum)
  BY <1>0, <1>2, <1>3, <1>4, RankTypes DEF RankInv, ReductionTypeOK
<1>6. /\ mail = [w \in Rank |-> mail[w]] /\ merged = [w \in Rank |-> merged[w]]
      /\ sum = [p \in DOMAIN sum |-> sum[p]]
  BY <1>0 DEF AreFunctions
<1>7. /\ mail'[r] = <<>> /\ mail' = [w \in Rank |-> mail'[w]]
      /\ \A w \in Rank : w # r => mail'[w] = mail[w]
  <2>1. Tail(mail[r]) = <<>>
    BY <1>5, OneMessage
  <2> QED
    BY <1>4, <1>6, <2>1
<1>8. /\ sum' = [p \in DOMAIN sum' |-> sum'[p]] /\ IsNE(sum')
      /\ DOMAIN sum' = DOMAIN sum \cup DOMAIN m.ne
      /\ \A p \in DOMAIN sum : p \notin DOMAIN m.ne => sum'[p] = sum[p]
      /\ \A p \in DOMAIN m.ne : p \notin DOMAIN sum => sum'[p] = m.ne[p]
  <2> DEFINE b == m.ne
  <2>1. IsNE(b) /\ sum' = sum (+) b
    BY <1>4, <1>5
  <2> HIDE DEF b
  <2>2. /\ sum' = [p \in DOMAIN sum' |-> sum'[p]] /\ IsNE(sum (+) b)
        /\ DOMAIN sum' = DOMAIN sum \cup DOMAIN b
        /\ \A p \in DOMAIN sum : p \notin DOMAIN b => sum'[p] = sum[p]
        /\ \A p \in DOMAIN b : p \notin DOMAIN sum => sum'[p] = b[p]
    <3>1. IsNE(sum) /\ IsNE(b)
      BY ONLY <1>5, <2>1
    <3>2. sum (+) b = [p \in DOMAIN (sum (+) b) |-> (sum (+) b)[p]]
      BY ONLY SumOfBags
    <3>3. IsNE(sum (+) b) /\ DOMAIN (sum (+) b) = DOMAIN sum \cup DOMAIN b
      BY ONLY <3>1, SumOfBags
    <3>4. \A p \in DOMAIN sum : p \notin DOMAIN b => (sum (+) b)[p] = sum[p]
      BY ONLY <3>1, SumOfBags
    <3>5. \A p \in DOMAIN b : p \notin DOMAIN sum => (sum (+) b)[p] = b[p]
      BY ONLY <3>1, SumOfBags
    <3> QED
      BY ONLY <2>1, <3>2, <3>3, <3>4, <3>5
  <2> QED
    BY ONLY <2>1, <2>2 DEF b
<1>9. ReductionTypeOK'
  <2>1. /\ round' \in [Rank -> 0..Rounds] /\ level' \in [Rank -> -1..Height]
        /\ at' \in [Rank -> {"idle", "level", "right", "sent"}]
        /\ (\A w \in Rank : IsNE(merged'[w])) /\ asked' \in 0..Rounds /\ UNCHANGED nGroups
    BY <1>0, <1>4 DEF ReductionTypeOK
  <2>2. theGroup' \in 0..nGroups
    BY <1>1, <1>4
  <2>3. \A w \in Rank : mail'[w] \in {mail[w], <<>>}
    BY <1>7
  <2> QED
    BY ONLY <1>0, <1>8, <2>1, <2>2, <2>3, TypesStay
<1>10. AreFunctions'
  BY <1>4, <1>6, <1>7, <1>8 DEF AreFunctions, Rank
<1>11. \A w \in Rank : /\ Holding(w)' <=> Holding(w)
                       /\ Done(w)' <=> Done(w)
  <2>1. \A w \in Rank : Depth(w)' = Depth(w)
    BY <1>4 DEF Depth, RankInGroup, Group, Size
  <2> QED
    BY <1>4, <2>1 DEF Holding, Done
<1>12. (\A w \in Rank : Got(w) => Got(w)') /\ Got(r)'
  BY <1>5, <1>7, <1>11 DEF Got
<1>13. \A w \in Rank : RankInv(w)'
  <2> SUFFICES ASSUME NEW w \in Rank PROVE RankInv(w)'
    OBVIOUS
  <2>1. RankInv(w) /\ mail'[w] \in {mail[w], <<>>}
    BY <1>7 DEF ReductionInvariant
  <2> QED
    BY ONLY <1>4, <1>12, <2>1, RankStays, w \in Rank
<1>14. MasterInv'
  <2>1. asked' > 0
    BY <1>0, <1>1, <1>4 DEF MasterInv
  <2>2. ASSUME NEW g \in 0..(theGroup' - 1) PROVE Got(Root(g))'
    <3>1. PICK w \in Rank : w = Root(g)
      <4>1. g \in Nat /\ g < nGroups
        BY <1>1, <1>4
      <4> QED
        BY <1>1, <4>1, RootPlace
    <3>2. Root(g)' = w
      BY <1>4, <3>1 DEF Root, TrueRank, Size
    <3>3. Got(w)'
      <4>1. CASE g = theGroup
        BY <1>2, <1>12, <3>1, <4>1
      <4>2. CASE g # theGroup
        <5>1. g \in 0..(theGroup - 1)
          BY <1>1, <1>4, <4>2
        <5> QED
          BY <1>0, <1>12, <3>1, <5>1 DEF MasterInv
      <4> QED
        BY <4>1, <4>2
    <3> QED
      BY <3>2, <3>3 DEF Got, Done, Holding, Depth, RankInGroup, Group, Size
  <2> QED
    BY <2>1, <2>2 DEF MasterInv
<1>15. InOneSlot'
  <2> DEFINE src == <<r, 1>>
             dst == <<0, 0>>
  <2>1. src \in Slots /\ dst \in Slots /\ src # dst /\ r # 0
    BY DEF Slots, Rank
  <2>2. Content(src) = m.ne /\ Content(dst) = sum
    BY <1>3, <1>4, SlotContent
  <2>3. DOMAIN Content(src)' = {}
    BY <1>7, NoParts DEF Content
  <2>4. Content(dst)' = sum'
    BY DEF Content, PartsAt
  <2>5. ASSUME NEW x \in Slots, x \notin {src, dst} PROVE Content(x)' = Content(x)
    <3>1. ASSUME NEW w \in Rank, x = <<w, 0>> PROVE Content(x)' = Content(x)
      <4>1. w # 0
        BY DEF Rank
      <4> QED
        BY <1>4, <1>11, <3>1, <4>1 DEF Content, PartsAt
    <3>2. ASSUME NEW w \in Rank, x = <<w, 1>> PROVE Content(x)' = Content(x)
      <4>1. w # 0 /\ w # r
        BY <2>5, <3>2 DEF Rank
      <4> QED
        BY <1>7, <3>2, <4>1 DEF Content, PartsAt
    <3> QED
      BY <2>5, <3>1, <3>2 DEF Slots
  <2>6. /\ DOMAIN Content(dst)' = DOMAIN Content(dst) \cup DOMAIN Content(src)
        /\ \A p \in DOMAIN Content(dst) : p \notin DOMAIN Content(src) =>
               Content(dst)'[p] = Content(dst)[p]
        /\ \A p \in DOMAIN Content(src) : p \notin DOMAIN Content(dst) =>
               Content(dst)'[p] = Content(src)[p]
    <3> HIDE DEF src, dst
    <3> QED
      BY ONLY <1>8, <2>2, <2>4
  <2>7. UNCHANGED <<asked, round>>
    BY <1>4
  <2> HIDE DEF src, dst
  <2> QED
    BY <1>0, <2>1, <2>3, <2>5, <2>6, <2>7, PartsMove
<1>16. (\A w \in Rank : RankInv(w))'
  BY <1>13 DEF Rank
<1> QED
  BY <1>9, <1>10, <1>14, <1>15, <1>16 DEF ReductionInvariant

LEMMA NextReduction ==
    ReductionInvariant /\ [ReductionNext]_reductionVars => ReductionInvariant'
<1> SUFFICES ASSUME ReductionInvariant, [ReductionNext]_reductionVars PROVE ReductionInvariant'
  OBVIOUS
<1>1. CASE UNCHANGED reductionVars
  <2>1. UNCHANGED <<nGroups, asked, theGroup, sum, round, at, level, merged, mail>>
    BY <1>1 DEF reductionVars
  <2>2. 1 \in Rank
    BY ReductionAssumption DEF Rank
  <2>3. level \in [Rank -> -1..Height] /\ at \in [Rank -> {"idle", "level", "right", "sent"}]
    BY DEF ReductionInvariant, ReductionTypeOK
  <2>4. Holding(1)' <=> Holding(1)
    BY <2>1 DEF Holding, Depth, RankInGroup, Group, Size
  <2>5. RankInv(1)
    BY <2>2 DEF ReductionInvariant
  <2>6. ASSUME \A c \in Rank : Got(c) => Got(c)' PROVE RankInv(1)'
    BY <2>1, <2>2, <2>5, <2>6, RankStays
  <2> QED
    BY <2>1, <2>2, <2>3, <2>4, <2>6, QuietStep
<1>2. ASSUME NEW v \in Rank, RankStep(v) PROVE ReductionInvariant'
  BY <1>2, CalcNEStep, SitOutStep, ReceiveLeftStep, ReceiveRightStep, SendUpStep, SendEndsStep,
     LeaveStep DEF RankStep
<1> QED
  BY <1>1, <1>2, AskForSumStep, ReceiveFromGroupStep DEF ReductionNext

\* Wherever the ranks are in the loop over the levels of the tree
\* (MEParallel::reduceNE), each part is in one place, a rank is at most one sum
\* behind, and whoever has sent has received all that its children sent.
THEOREM ReductionInvariance == Reduction => []ReductionInvariant
<1> QED
  BY InitReduction, NextReduction, PTL DEF Reduction
-----------------------------------------------------------------------------
(* What follows.                                                           *)

LEMMA WholeSum ==
    ASSUME ReductionInvariant, theGroup = nGroups, asked > 0
    PROVE  sum = SetToBag({<<w, asked>> : w \in Rank})
<1>1. /\ asked \in 1..Rounds /\ IsNE(sum) /\ sum = [p \in DOMAIN sum |-> sum[p]] /\ InOneSlot
      /\ Rounds \in Nat
  BY ReductionAssumption DEF ReductionInvariant, ReductionTypeOK, AreFunctions
<1>2. \A w \in Rank : round[w] = asked /\ ~Holding(w) /\ mail[w] = <<>>
  BY AllGot DEF Got, Done
<1>3. ASSUME NEW x \in Slots, x # <<0, 0>> PROVE DOMAIN Content(x) = {}
  <2>1. PICK w \in Rank, i \in {0, 1} : x = <<w, i>>
    BY <1>3 DEF Slots
  <2> QED
    BY <1>2, <2>1, NoParts, SlotContent
<1>4. <<0, 0>> \in Slots /\ Content(<<0, 0>>) = sum
  BY SlotContent DEF Slots
<1>5. ASSUME NEW p \in Part
      PROVE  /\ p \in DOMAIN sum <=> p[2] = asked
             /\ p \in DOMAIN sum => sum[p] = 1
  <2>1. p[1] \in Rank
    BY DEF Part
  <2>2. CASE p[2] = asked
    <3>1. PICK x \in Slots : OnlyAt(p, x)
      BY <1>1, <1>2, <2>1, <2>2 DEF InOneSlot
    <3>2. x = <<0, 0>>
      BY <1>3, <3>1 DEF OnlyAt
    <3> QED
      BY <1>4, <2>2, <3>1, <3>2 DEF OnlyAt
  <2>3. CASE p[2] # asked
    <3>1. Nowhere(p)
      BY <1>1, <2>3 DEF InOneSlot
    <3> QED
      BY <1>4, <2>3, <3>1 DEF Nowhere
  <2> QED
    BY <2>2, <2>3
<1>6. DOMAIN sum = {<<w, asked>> : w \in Rank}
  <2>1. DOMAIN sum \subseteq Part
    BY <1>1 DEF IsNE
  <2>2. \A w \in Rank : <<w, asked>> \in Part /\ <<w, asked>>[2] = asked
    BY <1>1 DEF Part
  <2>3. \A p \in Part : p[2] = asked => \E w \in Rank : p = <<w, asked>>
    BY DEF Part
  <2> QED
    BY <1>5, <2>1, <2>2, <2>3
<1>7. \A p \in DOMAIN sum : sum[p] = 1
  BY <1>1, <1>5 DEF IsNE
<1> QED
  BY <1>1, <1>6, <1>7 DEF SetToBag

LEMMA WholeRound ==
    ReductionInvariant /\ theGroup = nGroups =>
        /\ \A w \in Rank : round[w] = asked
        /\ asked > 0 => sum = SetToBag({<<w, asked>> : w \in Rank})
  BY AllGot, WholeSum DEF Got, Done

LEMMA OnePlaceEach == ReductionInvariant => PartsInOnePlace
<1> SUFFICES ASSUME ReductionInvariant PROVE PartsInOnePlace
  OBVIOUS
<1>1. ASSUME NEW w \in Rank
      PROVE  Len(mail[w]) = IF mail[w] = <<>> THEN 0 ELSE 1
  <2>1. mail[w] = <<>> \/ mail[w] = <<Head(mail[w])>>
    BY DEF ReductionInvariant, RankInv
  <2>2. \A m : mail[w] = <<m>> => Len(mail[w]) = 1 /\ mail[w] # <<>>
    BY OneMessage
  <2> QED
    BY <2>1, <2>2, OneMessage
<1>2. ASSUME NEW x PROVE x \in Places <=> x \in Slots /\ ~(x[2] = 1 /\ mail[x[1]] = <<>>)
  <2>1. \A w \in Rank : \A i : i \in 0..Len(mail[w]) <=> i = 0 \/ (i = 1 /\ mail[w] # <<>>)
    BY <1>1
  <2>2. x \in Places <=> x = <<0, 0>> \/ \E w \in Rank : \E i \in 0..Len(mail[w]) : x = <<w, i>>
    BY DEF Places
  <2>3. x \in Slots <=> x = <<0, 0>> \/ \E w \in Rank : \E i \in {0, 1} : x = <<w, i>>
    BY DEF Slots
  <2>4. CASE x = <<0, 0>>
    BY <2>2, <2>3, <2>4
  <2>5. CASE x # <<0, 0>>
    <3>1. ASSUME x \in Places PROVE x \in Slots /\ ~(x[2] = 1 /\ mail[x[1]] = <<>>)
      <4>1. PICK w \in Rank : \E i \in 0..Len(mail[w]) : x = <<w, i>>
        BY <2>2, <2>5, <3>1
      <4>2. PICK i \in 0..Len(mail[w]) : x = <<w, i>>
        BY <4>1
      <4> QED
        BY <2>1, <2>3, <4>2
    <3>2. ASSUME x \in Slots, ~(x[2] = 1 /\ mail[x[1]] = <<>>) PROVE x \in Places
      <4>1. PICK w \in Rank : \E i \in {0, 1} : x = <<w, i>>
        BY <2>3, <2>5, <3>2
      <4>2. PICK i \in {0, 1} : x = <<w, i>>
        BY <4>1
      <4>3. i \in 0..Len(mail[w])
        BY <2>1, <3>2, <4>2
      <4> QED
        BY <2>2, <4>2, <4>3
    <3> QED
      BY <3>1, <3>2
  <2> QED
    BY <2>4, <2>5
<1>3. \A x \in Places : x \in Slots /\ PartsAt(x) = Content(x)
  BY <1>2 DEF Content
<1>4. \A x \in Slots : x \notin Places => DOMAIN Content(x) = {}
  BY <1>2, NoParts DEF Content
<1>5. ASSUME NEW p \in Part
      PROVE  IF p[2] = asked /\ round[p[1]] = asked
             THEN \E x \in Places : /\ {y \in Places : p \in DOMAIN PartsAt(y)} = {x}
                                    /\ PartsAt(x)[p] = 1
             ELSE {y \in Places : p \in DOMAIN PartsAt(y)} = {}
  <2>1. CASE p[2] = asked /\ round[p[1]] = asked
    <3>1. PICK x \in Slots : OnlyAt(p, x)
      BY <2>1 DEF ReductionInvariant, InOneSlot
    <3>2. x \in Places /\ PartsAt(x)[p] = 1
      BY <1>3, <1>4, <3>1 DEF OnlyAt
    <3>3. \A y \in Places : p \in DOMAIN PartsAt(y) <=> y = x
      BY <1>3, <3>1 DEF OnlyAt
    <3>4. {y \in Places : p \in DOMAIN PartsAt(y)} = {x}
      BY <3>2, <3>3
    <3> QED
      BY <2>1, <3>2, <3>4
  <2>2. CASE ~(p[2] = asked /\ round[p[1]] = asked)
    <3>1. Nowhere(p)
      BY <2>2 DEF ReductionInvariant, InOneSlot
    <3>2. {y \in Places : p \in DOMAIN PartsAt(y)} = {}
      BY <1>3, <3>1 DEF Nowhere
    <3> QED
      BY <2>2, <3>2
  <2> QED
    BY <2>1, <2>2
<1> QED
  BY <1>5 DEF PartsInOnePlace

LEMMA NothingLeft == ReductionInvariant => NothingForMe
<1> SUFFICES ASSUME ReductionInvariant, NEW w \in Rank, at[w] = "idle", round[w] = asked,
                    NEW v \in Rank, From(w, v)
             PROVE  FALSE
  BY DEF NothingForMe
<1>1. RankInv(w) /\ RankInv(v)
  BY DEF ReductionInvariant
<1>2. Done(w)
  BY DEF Done, Holding
<1>3. mail[v] # <<>> /\ Parent(v) = w
  BY <1>1 DEF From, RankInv
<1>4. Got(v)
  BY <1>1, <1>2, <1>3 DEF RankInv
<1> QED
  BY <1>3, <1>4 DEF Got

\* One reduction does not reach into the next (MEParallel::reduceNE): each part
\* is in one place, the sum of the master has all of them once it has received
\* from all groups, and no rank leaves a message of its children for later.
THEOREM ReductionsStayApart == Reduction => []ReductionsApart
<1>1. ReductionInvariant => ReductionsApart
  BY WholeSum, OnePlaceEach, NothingLeft DEF ReductionsApart, SumIsWhole, ReductionInvariant
<1> QED
  BY <1>1, ReductionInvariance, PTL

\* A reduction is what Gathering says: every worker gives its part once, and
\* the master has the parts of all (MEParallel::reduceNE, broadcastModel).
THEOREM GatheringImplemented == Reduction => ImplementsGathering
<1>0. Collected!EmptyBag = EmptyBag /\ \A S : Collected!SetToBag(S) = SetToBag(S)
  BY DEF Collected!EmptyBag, EmptyBag, Collected!SetToBag, SetToBag
<1>1. ReductionInit => Collected!GatheringInit
  <2> SUFFICES ASSUME ReductionInit PROVE Collected!GatheringInit
    OBVIOUS
  <2>1. asked = 0 /\ theGroup = nGroups /\ sum = EmptyBag /\ round = [w \in Rank |-> 0]
    BY DEF ReductionInit
  <2> QED
    BY <1>0, <2>1 DEF Collected!GatheringInit
<1>2. ReductionInvariant /\ ReductionInvariant' /\ [ReductionNext]_reductionVars =>
          [Collected!Ask \/ Collected!Gather \/ \E w \in Rank : Collected!Give(w)]_(Collected!gatheringVars)
  <2> SUFFICES ASSUME ReductionInvariant, ReductionInvariant', [ReductionNext]_reductionVars
               PROVE  \/ Collected!Ask \/ Collected!Gather
                      \/ \E w \in Rank : Collected!Give(w)
                      \/ UNCHANGED Collected!gatheringVars
    OBVIOUS
  <2> DEFINE same == UNCHANGED <<nGroups, asked, theGroup, sum, round>>
  <2>1. /\ asked \in Nat /\ nGroups \in Nat \ {0} /\ theGroup \in 0..nGroups /\ MasterInv
        /\ round \in [Rank -> 0..Rounds] /\ theGroup \in Nat
    BY GroupSize, ReductionAssumption DEF ReductionInvariant, ReductionTypeOK
  <2>2. ASSUME same PROVE UNCHANGED Collected!gatheringVars
    BY <2>2 DEF Collected!gatheringVars
  <2>3. CASE AskForSum
    <3>1. /\ theGroup = nGroups /\ asked' = asked + 1 /\ theGroup' = 0
          /\ UNCHANGED <<nGroups, round>>
      BY <2>3 DEF AskForSum
    <3>2. asked = 0 \/ sum # EmptyBag
      <4> SUFFICES ASSUME asked > 0 PROVE sum # EmptyBag
        BY <2>1
      <4>1. sum = SetToBag({<<w, asked>> : w \in Rank}) /\ 1 \in Rank
        BY <3>1, WholeRound, ReductionAssumption DEF Rank
      <4>2. <<1, asked>> \in DOMAIN sum
        BY <4>1 DEF SetToBag
      <4> QED
        BY <4>2, NoParts
    <3> QED
      BY <1>0, <2>1, <3>1, <3>2 DEF Collected!Ask
  <2>4. CASE ReceiveFromGroup
    <3>1. /\ theGroup < nGroups /\ theGroup' = theGroup + 1 /\ UNCHANGED <<nGroups, asked, round>>
      BY <2>4 DEF ReceiveFromGroup
    <3>2. theGroup # nGroups /\ asked > 0
      BY <2>1, <3>1 DEF MasterInv
    <3>3. CASE theGroup' = nGroups
      <4>1. /\ (theGroup = nGroups)' => (\A w \in Rank : round[w] = asked)'
            /\ (theGroup = nGroups)' =>
                   (asked > 0 => sum = SetToBag({<<w, asked>> : w \in Rank}))'
        BY WholeRound, PTL
      <4>2. /\ \A w \in Rank : round[w] = asked
            /\ sum' = SetToBag({<<w, asked>> : w \in Rank})
        BY <3>1, <3>2, <3>3, <4>1 DEF Rank
      <4> QED
        BY <1>0, <3>1, <3>2, <3>3, <4>2 DEF Collected!Gather
    <3>4. CASE theGroup' # nGroups
      BY <3>1, <3>2, <3>4 DEF Collected!gatheringVars
    <3> QED
      BY <3>3, <3>4
  <2>5. ASSUME NEW v \in Rank, CalcNE(v) PROVE Collected!Give(v)
    <3>1. /\ round[v] < asked /\ round' = [round EXCEPT ![v] = asked]
          /\ UNCHANGED <<nGroups, asked, theGroup, sum>>
      BY <2>5 DEF CalcNE
    <3> QED
      BY <3>1 DEF Collected!Give
  <2>6. ASSUME NEW v \in Rank, RankStep(v), ~CalcNE(v) PROVE same
    BY <2>6 DEF RankStep, SitOut, ReceiveLeft, ReceiveRight, SendUp, SendEnds, Leave
  <2>7. UNCHANGED reductionVars => same
    BY DEF reductionVars
  <2> QED
    BY <2>2, <2>3, <2>4, <2>5, <2>6, <2>7 DEF ReductionNext
<1> QED
  BY <1>1, <1>2, ReductionInvariance, PTL DEF Reduction, ImplementsGathering, Collected!Gathered
=============================================================================
