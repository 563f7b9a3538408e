----------------------- MODULE GriddedImaging_proofs -----------------------
(***************************************************************************)
(* The gridded imager meets in its collective calls, and its groups do     *)
(* together what one processor does with the whole model, for any numbers  *)
(* of groups, workers, images, chunks and cycles.                          *)
(***************************************************************************)
EXTENDS GriddedImaging, FiniteSetTheorems, WellFoundedInduction, TLAPS

\* What a group is sent of the present model, and what a worker answers.
Part(g) == [images |-> ImagesOf(g), version |-> version,
            content |-> content \cap ImagesOf(g), peak |-> peak]
Answer(g) == [images |-> ImagesOf(g), version |-> version, subtracted |-> {content}]

\* The present model has been sent to the worker.
Dealt(w) ==
    /\ ~interrupted
    /\ mpc \in {"solve", "final", "over"} \/ (mpc = "broadcast" /\ turn > w[1])

Stops == LeavesLoop(version, peak)

\* The worker waits for the present model, or is on its way to do so.
Awaits(w) ==
    /\ \/ pc[w] = "model" /\ cycle[w] = version
       \/ pc[w] = "sent" /\ cycle[w] + 1 = version /\ ~last[w]
    /\ mpc # "over" /\ sent[w] = <<>>
    /\ casts[w] = IF Dealt(w) THEN <<Part(w[1])>> ELSE <<>>

\* It works on its part of the present model.
Works(w) ==
    /\ pc[w] \in {"calc", "flag", "data", "update", "grid"}
    /\ Dealt(w) /\ mpc # "over" /\ casts[w] = <<>> /\ sent[w] = <<>>
    /\ cycle[w] = version /\ model[w] = Part(w[1]) /\ (last[w] <=> Stops)
    /\ pc[w] # "calc" => equation[w] = Part(w[1])

\* It has sent its normal equations.
Answered(w) ==
    /\ \/ pc[w] = "sent" /\ cycle[w] = version /\ (last[w] <=> Stops)
       \/ pc[w] = "model" /\ cycle[w] = version + 1 /\ ~Stops
       \/ pc[w] = "over" /\ Stops
    /\ Dealt(w) /\ casts[w] = <<>>
    /\ sent[w] = IF mpc = "over" THEN <<>> ELSE <<Answer(w[1])>>

InStep(w) == Awaits(w) \/ Works(w) \/ Answered(w)

\* What a worker has done in this cycle is right.
Computed(w) ==
    /\ pc[w] = "flag" => /\ Grouped /\ chunk[w] = 1 /\ subtracted[w] = {}
                         /\ degrid[w] <=> equation[w].content # {}
    /\ pc[w] \in {"data", "update", "grid"} =>
        /\ degrid[w] <=> content # {}
        /\ chunk[w] \in 1..(job.chunks[w[2]] + 1)
        /\ pc[w] # "data" => chunk[w] <= job.chunks[w[2]]
        /\ subtracted[w] = IF chunk[w] = 1 THEN {} ELSE {content}
    /\ pc[w] = "update" => Grouped /\ degrid[w] /\ predicted[w] = equation[w].content
    /\ pc[w] = "grid" => predicted[w] = content

\* How many collective calls it has been through for the present model, if
\* there is something to predict.
HasAnswered(w) == sent[w] # <<>> \/ mpc = "over"

Passed(w) ==
    IF HasAnswered(w) THEN job.chunks[w[2]] + 1
    ELSE IF pc[w] \in {"data", "update"} THEN chunk[w]
    ELSE IF pc[w] = "grid" THEN chunk[w] + 1
    ELSE 0

PeersMatch ==
    Grouped => \A p \in Position : \A v, w \in Peers(p) :
        /\ Passed(v) = 0 <=> Passed(w) = 0
        /\ content # {} => Passed(v) = Passed(w)

\* The master.
MasterInStep ==
    /\ version = IF interrupted THEN mcycle + 1 ELSE mcycle
    /\ interrupted => mpc = "final"
    /\ mpc = "solve" => ~Stops
    /\ mpc \in {"final", "over"} /\ ~interrupted => Stops
    /\ mpc # "broadcast" => turn = 1
    /\ TooFewImages => mpc \in {"broadcast", "refused"} /\ turn = 1

Functions ==
    /\ cycle = [w \in Worker |-> cycle[w]] /\ chunk = [w \in Worker |-> chunk[w]]
    /\ model = [w \in Worker |-> model[w]] /\ equation = [w \in Worker |-> equation[w]]
    /\ predicted = [w \in Worker |-> predicted[w]]
    /\ subtracted = [w \in Worker |-> subtracted[w]]
    /\ casts = [w \in Worker |-> casts[w]] /\ sent = [w \in Worker |-> sent[w]]

IInv ==
    /\ TypeOK /\ Functions /\ MasterInStep /\ PeersMatch
    /\ \A w \in Worker : InStep(w) /\ Computed(w)
-----------------------------------------------------------------------------
(* Sizes, images and groups.                                               *)

LEMMA Sizes ==
    ASSUME TypeOK
    PROVE  /\ job.groups \in Nat \ {0} /\ job.images \in Nat \ {0}
           /\ job.cycles \in Nat /\ MaxCycles \in Nat /\ job.cycles <= MaxCycles
           /\ \A p \in Position : job.chunks[p] \in Nat \ {0}
           /\ 1 \in Group /\ Group \subseteq Nat /\ Image \subseteq Nat
           /\ \A w \in Worker : w[1] \in Group /\ w[2] \in Position
           /\ \E w \in Worker : TRUE
  <1>1. /\ job.groups \in Nat \ {0} /\ job.perGroup \in Nat \ {0} /\ job.images \in Nat \ {0}
        /\ job.cycles \in Nat /\ MaxCycles \in Nat /\ job.cycles <= MaxCycles
        /\ job.chunks \in [1..job.perGroup -> Nat \ {0}]
    BY JobsAssumption DEF TypeOK
  <1>2. <<1, 1>> \in Worker
    BY <1>1 DEF Worker, Group, Position
  <1> QED
    BY <1>1, <1>2 DEF Position, Group, Worker, Image

LEMMA Smallest ==
    ASSUME NEW S, S \subseteq Nat, S # {}
    PROVE  \E m \in S : \A n \in S : m <= n
  <1> DEFINE Below == OpToRel(<, Nat)
  <1>1. PICK m \in S : \A n \in S : ~(<<n, m>> \in Below)
    BY NatLessThanWellFounded, WFMin
  <1>2. \A n \in S : n < m => <<n, m>> \in Below
    BY DEF OpToRel
  <1>3. \A n \in S : ~(n < m)
    <2> HIDE DEF Below
    <2> QED
      BY <1>1, <1>2
  <1> QED
    BY <1>3

LEMMA Multiples ==
    ASSUME NEW g \in Nat, NEW h \in Nat, NEW k \in Nat, g <= h
    PROVE  g * k <= h * k
  <1>1. PICK d \in Nat : h = g + d
    <2>1. h - g \in Nat /\ h = g + (h - g)
      OBVIOUS
    <2> QED
      BY <2>1
  <1>2. (g + d) * k = g * k + d * k
    OBVIOUS
  <1>3. d * k \in Nat /\ g * k \in Nat
    OBVIOUS
  <1> QED
    BY <1>1, <1>2, <1>3

\* Every image is dealt to one group (SynParallel.cc:157-185).
LEMMA DealtOnce ==
    ASSUME TypeOK, NEW i \in Image
    PROVE  \E g \in Group : i \in ImagesOf(g) /\ \A h \in Group : i \in ImagesOf(h) => h = g
  <1> DEFINE P == PerGroup
             G == job.groups
             S == {g \in Group : g = G \/ i <= g * P}
  <1>1. G \in Nat \ {0} /\ P \in Nat /\ i \in Nat \ {0} /\ Group = 1..G
    BY Sizes DEF PerGroup, Group, Image
  <1>2. \A g \in Group : i \in ImagesOf(g) <=> ((g - 1) * P < i /\ (g < G => i <= g * P))
    BY DEF ImagesOf
  <1> HIDE DEF P, G
  <1>3. PICK g \in S : \A h \in S : g <= h
    <2>1. G \in S
      BY <1>1
    <2>2. S \subseteq Nat
      BY <1>1
    <2> QED
      BY <2>1, <2>2, Smallest
  <1>4. (g - 1) * P < i
    <2>1. CASE g = 1
      <3>1. (g - 1) * P = 0
        BY <1>1, <2>1
      <3> QED
        BY <1>1, <3>1
    <2>2. CASE g # 1
      <3>1. g - 1 \in Group /\ g - 1 \notin S
        BY <1>1, <1>3, <2>2
      <3>2. ~(i <= (g - 1) * P) /\ (g - 1) * P \in Nat
        BY <1>1, <3>1
      <3> QED
        BY <1>1, <3>2
    <2> QED
      BY <2>1, <2>2
  <1>5. i \in ImagesOf(g)
    BY <1>1, <1>2, <1>3, <1>4
  <1>6. ASSUME NEW a \in Group, NEW b \in Group, i \in ImagesOf(a), i \in ImagesOf(b), a < b
        PROVE  FALSE
    <2>1. a < G /\ a <= b - 1 /\ a \in Nat /\ b - 1 \in Nat
      BY <1>1, <1>6
    <2>2. i <= a * P /\ (b - 1) * P < i
      BY <1>2, <1>6, <2>1
    <2>3. a * P <= (b - 1) * P /\ a * P \in Nat /\ (b - 1) * P \in Nat
      BY <1>1, <2>1, Multiples
    <2> QED
      BY <1>1, <2>2, <2>3
  <1> QED
    BY <1>1, <1>3, <1>5, <1>6

\* The parts of the content make up the whole.
LEMMA WholeContent ==
    ASSUME TypeOK
    PROVE  /\ content = UNION {content \cap ImagesOf(g) : g \in Group}
           /\ (content = {}) <=> \A g \in Group : content \cap ImagesOf(g) = {}
           /\ ~Grouped => \A w \in Worker : content \cap ImagesOf(w[1]) = content
  <1>1. \A i \in content : \E g \in Group : i \in ImagesOf(g)
    BY DealtOnce DEF TypeOK
  <1>2. content = UNION {content \cap ImagesOf(g) : g \in Group}
    <2>1. \A i \in content : \E g \in Group : i \in content \cap ImagesOf(g)
      BY <1>1
    <2> QED
      BY <2>1
  <1>3. ASSUME ~Grouped, NEW w \in Worker PROVE content \cap ImagesOf(w[1]) = content
    <2>1. \A g \in Group : w[1] = g
      BY <1>3, Sizes DEF Grouped, Group
    <2> QED
      BY <1>1, <2>1
  <1>4. (content = {}) <=> \A g \in Group : content \cap ImagesOf(g) = {}
    BY <1>1
  <1> QED
    BY <1>2, <1>3, <1>4
-----------------------------------------------------------------------------
(* What a step leaves alone.                                               *)

OwnState(w) ==
    <<pc[w], cycle[w], model[w], last[w], equation[w], degrid[w], chunk[w], predicted[w],
      subtracted[w], casts[w], sent[w]>>

LEMMA SameWorker ==
    ASSUME NEW w \in Worker, UNCHANGED <<job, version, content, peak>>, UNCHANGED OwnState(w),
           Dealt(w)' <=> Dealt(w), mpc' = "over" <=> mpc = "over"
    PROVE  /\ InStep(w) => InStep(w)'
           /\ Computed(w) => Computed(w)'
           /\ Passed(w)' = Passed(w)
  <1> USE DEF OwnState
  <1>1. /\ Part(w[1])' = Part(w[1]) /\ Answer(w[1])' = Answer(w[1]) /\ Stops' = Stops
        /\ Grouped' = Grouped
    BY DEF Part, Answer, Stops, LeavesLoop, ImagesOf, Image, PerGroup, Grouped
  <1>2. InStep(w) => InStep(w)'
    BY <1>1 DEF InStep, Awaits, Works, Answered
  <1>3. Computed(w) => Computed(w)'
    BY <1>1 DEF Computed
  <1>4. Passed(w)' = Passed(w)
    BY DEF Passed, HasAnswered
  <1> QED
    BY <1>2, <1>3, <1>4

-----------------------------------------------------------------------------
(* The steps of a worker on its own.                                       *)

Place == {"model", "calc", "flag", "data", "update", "grid", "sent", "over"}

Typed(w) ==
    /\ cycle[w] \in 0..job.cycles /\ chunk[w] \in 0..(job.chunks[w[2]] + 1)
    /\ model[w] \in Models /\ equation[w] \in Models
    /\ predicted[w] \subseteq Image /\ subtracted[w] \subseteq SUBSET Image
    /\ \A i \in 1..Len(casts[w]) : casts[w][i] \in Models
    /\ \A i \in 1..Len(sent[w]) : IsNE(sent[w][i])

MasterTyped ==
    /\ job \in Jobs
    /\ mpc \in {"broadcast", "solve", "final", "over", "refused"}
    /\ turn \in Group /\ mcycle \in 0..job.cycles /\ version \in 0..job.cycles
    /\ content \subseteq Image /\ peak \in {"none", "above", "below"}
    /\ signalled \in BOOLEAN /\ interrupted \in BOOLEAN
    /\ mne # <<>> => DOMAIN mne = Worker /\ \A w \in Worker : IsNE(mne[w])

WorkersTyped ==
    /\ pc \in [Worker -> Place] /\ last \in [Worker -> BOOLEAN] /\ degrid \in [Worker -> BOOLEAN]
    /\ \A w \in Worker : Typed(w)

LEMMA Types == (TypeOK <=> MasterTyped /\ WorkersTyped) /\ (TypeOK' <=> MasterTyped' /\ WorkersTyped')
  BY DEF TypeOK, MasterTyped, WorkersTyped, Typed, Place

LEMMA Messages ==
    ASSUME TypeOK, NEW w \in Worker
    PROVE  /\ Part(w[1]) \in Models /\ IsNE(Answer(w[1]))
           /\ Part(w[1]).content = content \cap ImagesOf(w[1]) /\ Part(w[1]).peak = peak
           /\ Part(w[1]).images = ImagesOf(w[1]) /\ Part(w[1]).version = version
  <1>1. version \in 0..MaxCycles /\ ImagesOf(w[1]) \subseteq Image /\ content \subseteq Image
    BY Sizes DEF TypeOK, ImagesOf
  <1>2. Part(w[1]) \in Models
    BY <1>1 DEF Part, Models, TypeOK
  <1>3. IsNE(Answer(w[1]))
    BY <1>1 DEF Answer, IsNE
  <1> QED
    BY <1>2, <1>3 DEF Part

LEMMA SameSizes ==
    ASSUME UNCHANGED job
    PROVE  /\ Worker' = Worker /\ Group' = Group /\ Position' = Position /\ Image' = Image
           /\ Models' = Models /\ Grouped' = Grouped
           /\ \A g : ImagesOf(g)' = ImagesOf(g)
           /\ \A p : Peers(p)' = Peers(p)
           /\ \A m : IsNE(m)' <=> IsNE(m)
           /\ TooFewImages' <=> TooFewImages
  BY DEF Worker, Group, Position, Image, Models, Grouped, ImagesOf, PerGroup, Peers, IsNE,
         TooFewImages

LEMMA OneTyped ==
    ASSUME TypeOK, NEW w \in Worker, UNCHANGED <<job, masterVars>>,
           \A u \in Worker \ {w} : UNCHANGED OwnState(u),
           pc' \in [Worker -> Place], last' \in [Worker -> BOOLEAN],
           degrid' \in [Worker -> BOOLEAN], Typed(w)'
    PROVE  TypeOK'
  <1>1. MasterTyped /\ WorkersTyped
    BY Types
  <1>2. ASSUME NEW u \in Worker \ {w} PROVE Typed(u)'
    <2>1. Typed(u)
      BY <1>1 DEF WorkersTyped
    <2> QED
      BY <2>1, SameSizes DEF Typed, OwnState, IsNE
  <1>3. WorkersTyped'
    BY <1>2, SameSizes DEF WorkersTyped
  <1>4. MasterTyped'
    BY <1>1, SameSizes DEF MasterTyped, masterVars, IsNE
  <1> QED
    BY <1>3, <1>4, Types

\* A step of one worker.
StepOf(w) ==
    /\ UNCHANGED <<job, masterVars>> /\ \A u \in Worker \ {w} : UNCHANGED OwnState(u)
    /\ pc' \in [Worker -> Place] /\ last' \in [Worker -> BOOLEAN]
    /\ degrid' \in [Worker -> BOOLEAN] /\ Functions'

LEMMA StepsOfOne ==
    ASSUME IInv, NEW w \in Worker, WorkerStep(w)
    PROVE  StepOf(w)
  <1>1. /\ pc \in [Worker -> Place] /\ last \in [Worker -> BOOLEAN]
        /\ degrid \in [Worker -> BOOLEAN] /\ Functions /\ UNCHANGED <<job, masterVars>>
        /\ Worker' = Worker
    <2>1. UNCHANGED <<job, masterVars>>
      BY DEF WorkerStep, ReceiveModel, StartEquations, Predict, Grid, SendNE, NextCycle
    <2>2. TypeOK /\ Functions
      BY DEF IInv
    <2> QED
      BY <2>1, <2>2, Types, SameSizes DEF WorkersTyped
  <1> USE DEF Functions, OwnState, StepOf, Set, Goto, Place
  <1>2. CASE ReceiveModel(w)
    <2>1. LeavesLoop(cycle[w], Head(casts[w]).peak) \in BOOLEAN
      BY DEF LeavesLoop
    <2> QED
      BY <1>1, <1>2, <2>1 DEF ReceiveModel
  <1>3. CASE StartEquations(w)
    <2>1. degrid' = [degrid EXCEPT ![w] = equation'[w].content # {}]
          /\ BeforeData(degrid'[w]) \in {"flag", "data"}
      BY <1>3 DEF StartEquations, BeforeData
    <2>2. (equation'[w].content # {}) \in BOOLEAN
      OBVIOUS
    <2>3. degrid' \in [Worker -> BOOLEAN]
      BY <1>1, <2>1, <2>2
    <2> QED
      BY <1>1, <1>3, <2>1, <2>3 DEF StartEquations
  <1>4. CASE Predict(w)
    BY <1>1, <1>4 DEF Predict
  <1>5. CASE Grid(w)
    BY <1>1, <1>5 DEF Grid
  <1>6. CASE SendNE(w)
    BY <1>1, <1>6 DEF SendNE
  <1>7. CASE NextCycle(w)
    BY <1>1, <1>7 DEF NextCycle
  <1> QED
    BY <1>2, <1>3, <1>4, <1>5, <1>6, <1>7 DEF WorkerStep

LEMMA WorkerKeeps ==
    ASSUME IInv, NEW w \in Worker, StepOf(w), Typed(w)', InStep(w)', Computed(w)',
           Grouped => /\ Passed(w)' = 0 <=> Passed(w) = 0
                      /\ content # {} => Passed(w)' = Passed(w)
    PROVE  IInv'
  <1> USE DEF masterVars
  <1>1. /\ UNCHANGED <<job, mpc, turn, mcycle, version, content, peak, interrupted>>
        /\ Functions' /\ MasterInStep /\ TypeOK
        /\ \A u \in Worker : Dealt(u)' <=> Dealt(u)
    BY DEF Dealt, StepOf, IInv
  <1>2. ASSUME NEW u \in Worker \ {w}
        PROVE  InStep(u)' /\ Computed(u)' /\ Passed(u)' = Passed(u)
    BY <1>1, SameWorker DEF StepOf, IInv
  <1>3. \A u \in Worker : InStep(u)' /\ Computed(u)'
    BY <1>2
  <1>4. MasterInStep'
    BY <1>1, SameSizes DEF MasterInStep, Stops, LeavesLoop
  <1>5. PeersMatch'
    <2>1. SUFFICES ASSUME Grouped, NEW p \in Position, NEW u \in Peers(p), NEW v \in Peers(p)
                   PROVE  /\ Passed(u)' = 0 <=> Passed(v)' = 0
                          /\ content # {} => Passed(u)' = Passed(v)'
      BY <1>1, SameSizes DEF PeersMatch
    <2>2. u \in Worker /\ v \in Worker
      BY DEF Peers
    <2>3. /\ Passed(u) = 0 <=> Passed(v) = 0
          /\ content # {} => Passed(u) = Passed(v)
      BY <2>1 DEF PeersMatch, IInv
    <2>4. \A x \in Worker : /\ Passed(x)' = 0 <=> Passed(x) = 0
                            /\ content # {} => Passed(x)' = Passed(x)
      BY <1>2, <2>1
    <2> QED
      BY <2>2, <2>3, <2>4
  <1>6. TypeOK'
    BY <1>1, OneTyped DEF StepOf
  <1> QED
    BY <1>1, <1>3, <1>4, <1>5, <1>6, SameSizes DEF IInv

\* What the places of a worker tell.
LEMMA AtPlace ==
    ASSUME IInv, NEW w \in Worker
    PROVE  /\ Typed(w) /\ Computed(w) /\ InStep(w) /\ (mpc = "over" => Answered(w))
           /\ pc[w] \in {"calc", "flag", "data", "update", "grid"} => Works(w)
           /\ casts[w] # <<>> => Awaits(w) /\ Dealt(w)
           /\ Works(w) => ~HasAnswered(w)
           /\ Awaits(w) => Passed(w) = 0
           /\ Answered(w) => HasAnswered(w)
           /\ job.chunks[w[2]] \in Nat \ {0}
  <1>1. Typed(w) /\ Computed(w) /\ InStep(w) /\ job.chunks[w[2]] \in Nat \ {0}
    BY Types, Sizes DEF IInv, WorkersTyped
  <1>2. <<Answer(w[1])>> # <<>>
    OBVIOUS
  <1> QED
    BY <1>1, <1>2 DEF InStep, Awaits, Works, Answered, HasAnswered, Passed

LEMMA ReceiveModelKeeps ==
    ASSUME IInv, NEW w \in Worker, ReceiveModel(w)
    PROVE  IInv'
  <1> USE AtPlace
  <1>1. /\ pc[w] = "model" /\ cycle[w] = version /\ Dealt(w) /\ mpc # "over"
        /\ sent[w] = <<>> /\ casts[w] = <<Part(w[1])>>
    BY DEF ReceiveModel, Awaits
  <1>2. Head(casts[w]) = Part(w[1]) /\ Tail(casts[w]) = <<>>
    BY <1>1
  <1>3. StepOf(w)
    BY StepsOfOne DEF WorkerStep
  <1>4. /\ pc'[w] = "calc" /\ model'[w] = Part(w[1]) /\ casts'[w] = <<>>
        /\ last'[w] <=> Stops
        /\ UNCHANGED <<job, masterVars, sent, cycle, equation, degrid, chunk, predicted, subtracted>>
    <2>1. pc \in [Worker -> Place] /\ last \in [Worker -> BOOLEAN] /\ Functions /\ TypeOK
      BY Types DEF IInv, WorkersTyped
    <2>2. LeavesLoop(cycle[w], Head(casts[w]).peak) <=> Stops
      BY <1>1, <1>2, <2>1, Messages DEF Stops
    <2>3. last' = [last EXCEPT ![w] = LeavesLoop(cycle[w], Head(casts[w]).peak)]
      BY DEF ReceiveModel, Set
    <2>4. last'[w] = LeavesLoop(cycle[w], Head(casts[w]).peak)
      BY <2>1, <2>3
    <2>5. pc'[w] = "calc" /\ model'[w] = Part(w[1]) /\ casts'[w] = <<>>
      BY <1>2, <2>1 DEF ReceiveModel, Goto, Set, Functions
    <2> QED
      BY <2>2, <2>4, <2>5 DEF ReceiveModel
  <1>5. Part(w[1])' = Part(w[1]) /\ Stops' = Stops /\ Dealt(w)' = Dealt(w) /\ Models' = Models
    BY <1>4, SameSizes DEF Part, Stops, LeavesLoop, Dealt, masterVars
  <1>6. InStep(w)'
    BY <1>1, <1>4, <1>5 DEF InStep, Works, masterVars
  <1>7. Typed(w)'
    <2>1. Part(w[1]) \in Models
      BY Messages DEF IInv
    <2> QED
      BY <1>4, <1>5, <2>1, SameSizes DEF Typed, IsNE
  <1>8. Computed(w)' /\ Passed(w) = 0 /\ Passed(w)' = 0
    BY <1>1, <1>4 DEF Computed, Passed, HasAnswered, masterVars
  <1> QED
    BY <1>3, <1>6, <1>7, <1>8, WorkerKeeps

LEMMA StartEquationsKeeps ==
    ASSUME IInv, NEW w \in Worker, StartEquations(w)
    PROVE  IInv'
  <1> USE AtPlace
  <1>1. pc[w] = "calc" /\ Works(w)
    BY DEF StartEquations
  <1>2. StepOf(w)
    BY StepsOfOne DEF WorkerStep
  <1>3. /\ pc'[w] = IF Grouped THEN "flag" ELSE "data"
        /\ equation'[w] = Part(w[1]) /\ chunk'[w] = 1 /\ subtracted'[w] = {}
        /\ degrid'[w] <=> equation'[w].content # {}
        /\ UNCHANGED <<job, masterVars, casts, sent, cycle, model, last, predicted>>
    <2>1. pc \in [Worker -> Place] /\ degrid \in [Worker -> BOOLEAN] /\ Functions
      BY Types DEF IInv, WorkersTyped
    <2>2. equation' = [equation EXCEPT ![w] = model[w]] /\ chunk' = [chunk EXCEPT ![w] = 1]
          /\ subtracted' = [subtracted EXCEPT ![w] = {}]
          /\ degrid' = [degrid EXCEPT ![w] = equation'[w].content # {}]
          /\ pc' = [pc EXCEPT ![w] = IF Grouped THEN "flag" ELSE "data"]
          /\ UNCHANGED <<job, masterVars, casts, sent, cycle, model, last, predicted>>
      BY DEF StartEquations, Set, Goto, Parameters, BeforeData
    <2>3. equation'[w] = model[w] /\ chunk'[w] = 1 /\ subtracted'[w] = {}
      BY <2>1, <2>2 DEF Functions
    <2>4. (degrid'[w] <=> equation'[w].content # {})
          /\ pc'[w] = IF Grouped THEN "flag" ELSE "data"
      BY <2>1, <2>2
    <2> QED
      BY <1>1, <2>2, <2>3, <2>4 DEF Works
  <1>4. Part(w[1])' = Part(w[1]) /\ Stops' = Stops /\ Dealt(w)' = Dealt(w) /\ Models' = Models
        /\ Grouped' = Grouped
    BY <1>3, SameSizes DEF Part, Stops, LeavesLoop, Dealt, masterVars
  <1>5. InStep(w)'
    BY <1>1, <1>3, <1>4 DEF InStep, Works, masterVars
  <1>6. Typed(w)'
    <2>1. Part(w[1]) \in Models
      BY Messages DEF IInv
    <2> QED
      BY <1>3, <1>4, <2>1, SameSizes DEF Typed, IsNE
  <1>7. Computed(w)'
    <2>1. ~Grouped => (degrid'[w] <=> content # {})
      BY <1>3, WholeContent, Messages DEF IInv
    <2> QED
      BY <1>3, <1>4, <2>1 DEF Computed, masterVars
  <1>8. Grouped => Passed(w)' = 0 /\ Passed(w) = 0
    BY <1>1, <1>3 DEF Passed, HasAnswered, Works, masterVars
  <1> QED
    BY <1>2, <1>5, <1>6, <1>7, <1>8, WorkerKeeps

LEMMA PredictKeeps ==
    ASSUME IInv, NEW w \in Worker, Predict(w)
    PROVE  IInv'
  <1> USE AtPlace
  <1>1. pc[w] = "data" /\ Works(w) /\ chunk[w] <= job.chunks[w[2]]
        /\ equation[w] = Part(w[1]) /\ Typed(w) /\ Computed(w)
    BY DEF Predict, Works
  <1>2. StepOf(w)
    BY StepsOfOne DEF WorkerStep
  <1>3. /\ pc'[w] = IF degrid[w] /\ Grouped THEN "update" ELSE "grid"
        /\ predicted'[w] = IF degrid[w] THEN equation[w].content ELSE {}
        /\ UNCHANGED <<job, masterVars, casts, sent, cycle, model, last, equation, degrid,
                       chunk, subtracted>>
    <2>1. pc \in [Worker -> Place] /\ Functions
      BY Types DEF IInv, WorkersTyped
    <2> QED
      BY <2>1 DEF Predict, Set, Goto, Functions
  <1>4. Part(w[1])' = Part(w[1]) /\ Stops' = Stops /\ Dealt(w)' = Dealt(w) /\ Models' = Models
        /\ Grouped' = Grouped
    BY <1>3, SameSizes DEF Part, Stops, LeavesLoop, Dealt, masterVars
  <1>5. InStep(w)'
    BY <1>1, <1>3, <1>4 DEF InStep, Works, masterVars
  <1>6. Typed(w)'
    <2>1. content \cap ImagesOf(w[1]) \subseteq Image
      BY DEF IInv, TypeOK
    <2>2. predicted'[w] \subseteq Image
      BY <1>1, <1>3, <2>1, Messages DEF IInv
    <2> QED
      BY <1>1, <1>3, <1>4, <2>2, SameSizes DEF Typed, IsNE
  <1>7. Computed(w)'
    <2>1. ~Grouped => equation[w].content = content
      BY <1>1, WholeContent, Messages DEF IInv
    <2>2. pc'[w] = "grid" => predicted'[w] = content
      BY <1>1, <1>3, <2>1 DEF Computed
    <2>3. pc'[w] = "update" => Grouped /\ degrid[w] /\ predicted'[w] = equation[w].content
      BY <1>3
    <2> QED
      BY <1>1, <1>3, <1>4, <2>2, <2>3 DEF Computed, masterVars
  <1>8. Grouped => /\ Passed(w)' # 0 /\ Passed(w) # 0
                   /\ content # {} => Passed(w)' = Passed(w)
    <2>1. chunk[w] \in Nat \ {0} /\ (degrid[w] <=> content # {}) /\ ~HasAnswered(w)
      BY <1>1 DEF Computed
    <2>2. ~HasAnswered(w)'
      BY <1>3, <2>1 DEF HasAnswered, masterVars
    <2>3. Passed(w) = chunk[w]
      BY <1>1, <2>1 DEF Passed
    <2>4. Passed(w)' = IF pc'[w] = "update" THEN chunk[w] ELSE chunk[w] + 1
      BY <1>3, <2>2 DEF Passed
    <2> QED
      BY <1>3, <2>1, <2>3, <2>4
  <1> QED
    BY <1>2, <1>5, <1>6, <1>7, <1>8, WorkerKeeps

LEMMA GridKeeps ==
    ASSUME IInv, NEW w \in Worker, Grid(w)
    PROVE  IInv'
  <1> USE AtPlace
  <1>1. pc[w] = "grid" /\ Works(w) /\ Typed(w) /\ Computed(w) /\ job.chunks[w[2]] \in Nat \ {0}
    BY DEF Grid, Works
  <1>2. StepOf(w)
    BY StepsOfOne DEF WorkerStep
  <1>3. /\ pc'[w] = "data" /\ chunk'[w] = chunk[w] + 1
        /\ subtracted'[w] = subtracted[w] \cup {predicted[w]}
        /\ UNCHANGED <<job, masterVars, casts, sent, cycle, model, last, equation, degrid, predicted>>
    <2>1. pc \in [Worker -> Place] /\ Functions
      BY Types DEF IInv, WorkersTyped
    <2> QED
      BY <2>1 DEF Grid, Set, Goto, Functions
  <1>4. Part(w[1])' = Part(w[1]) /\ Stops' = Stops /\ Dealt(w)' = Dealt(w) /\ Models' = Models
        /\ Grouped' = Grouped
    BY <1>3, SameSizes DEF Part, Stops, LeavesLoop, Dealt, masterVars
  <1>5. InStep(w)'
    BY <1>1, <1>3, <1>4 DEF InStep, Works, masterVars
  <1>6. /\ chunk[w] \in 1..job.chunks[w[2]] /\ chunk'[w] \in 2..(job.chunks[w[2]] + 1)
        /\ subtracted'[w] = {content} /\ predicted[w] = content
        /\ degrid[w] <=> content # {}
    BY <1>1, <1>3 DEF Computed
  <1>7. Typed(w)'
    BY <1>1, <1>3, <1>4, <1>6, SameSizes DEF Typed, IsNE
  <1>8. Computed(w)'
    BY <1>3, <1>6 DEF Computed, masterVars
  <1>9. Passed(w)' = Passed(w)
    <2>1. ~HasAnswered(w) /\ ~HasAnswered(w)'
      BY <1>1, <1>3 DEF HasAnswered, masterVars
    <2> QED
      BY <1>1, <1>3, <2>1 DEF Passed
  <1> QED
    BY <1>2, <1>5, <1>7, <1>8, <1>9, WorkerKeeps

LEMMA SendNEKeeps ==
    ASSUME IInv, NEW w \in Worker, SendNE(w)
    PROVE  IInv'
  <1> USE AtPlace
  <1>1. pc[w] = "data" /\ Works(w) /\ Typed(w) /\ Computed(w) /\ job.chunks[w[2]] \in Nat \ {0}
        /\ chunk[w] > job.chunks[w[2]] /\ equation[w] = Part(w[1])
    BY DEF SendNE, Works
  <1>2. StepOf(w)
    BY StepsOfOne DEF WorkerStep
  <1>3. chunk[w] = job.chunks[w[2]] + 1 /\ chunk[w] # 1 /\ subtracted[w] = {content}
    BY <1>1 DEF Computed
  <1>4. /\ pc'[w] = "sent" /\ sent'[w] = <<Answer(w[1])>>
        /\ UNCHANGED <<job, masterVars, casts, cycle, model, last, equation, degrid, chunk,
                       predicted, subtracted>>
    <2>1. pc \in [Worker -> Place] /\ Functions
      BY Types DEF IInv, WorkersTyped
    <2>2. [images |-> equation[w].images, version |-> equation[w].version,
           subtracted |-> subtracted[w]] = Answer(w[1])
      BY <1>1, <1>3, Messages DEF Answer, IInv
    <2>3. sent'[w] = Append(sent[w], Answer(w[1])) /\ sent[w] = <<>>
      BY <1>1, <2>1, <2>2 DEF SendNE, Set, Functions, Works
    <2> QED
      BY <2>1, <2>3 DEF SendNE, Goto
  <1>5. Answer(w[1])' = Answer(w[1]) /\ Stops' = Stops /\ Dealt(w)' = Dealt(w) /\ Models' = Models
    BY <1>4, SameSizes DEF Answer, Stops, LeavesLoop, Dealt, masterVars
  <1>6. Answered(w)'
    BY <1>1, <1>4, <1>5 DEF Answered, Works, masterVars
  <1>7. Typed(w)'
    <2>1. IsNE(Answer(w[1])) /\ \A i \in 1..Len(sent'[w]) : sent'[w][i] = Answer(w[1])
      BY <1>4, Messages DEF IInv
    <2>2. \A i \in 1..Len(sent'[w]) : IsNE(sent[w][i])'
      BY <2>1, <1>4 DEF IsNE, Image
    <2> QED
      BY <1>1, <1>4, <1>5, <2>2, SameSizes DEF Typed
  <1>8. Computed(w)'
    BY <1>4 DEF Computed
  <1>9. Passed(w)' = Passed(w)
    <2>1. ~HasAnswered(w) /\ HasAnswered(w)'
      BY <1>1, <1>4 DEF HasAnswered
    <2> QED
      BY <1>1, <1>3, <1>4, <2>1 DEF Passed
  <1> QED
    BY <1>2, <1>6, <1>7, <1>8, <1>9, WorkerKeeps DEF InStep

LEMMA NextCycleKeeps ==
    ASSUME IInv, NEW w \in Worker, NextCycle(w)
    PROVE  IInv'
  <1> USE AtPlace
  <1>1. pc[w] = "sent" /\ Typed(w) /\ InStep(w) /\ ~Works(w)
    BY DEF NextCycle, Works
  <1>2. StepOf(w)
    BY StepsOfOne DEF WorkerStep
  <1>3. /\ pc'[w] = IF last[w] THEN "over" ELSE "model"
        /\ cycle'[w] = IF last[w] THEN cycle[w] ELSE cycle[w] + 1
        /\ UNCHANGED <<job, masterVars, casts, sent, model, last, equation, degrid, chunk,
                       predicted, subtracted>>
    <2>1. pc \in [Worker -> Place] /\ Functions
      BY Types DEF IInv, WorkersTyped
    <2> QED
      BY <2>1 DEF NextCycle, Set, Goto, Functions
  <1>4. Part(w[1])' = Part(w[1]) /\ Answer(w[1])' = Answer(w[1]) /\ Stops' = Stops
        /\ Dealt(w)' = Dealt(w) /\ Models' = Models
    BY <1>3, SameSizes DEF Part, Answer, Stops, LeavesLoop, Dealt, masterVars
  <1>5. InStep(w)'
    <2>1. CASE Awaits(w)
      BY <1>1, <1>3, <1>4, <2>1 DEF InStep, Awaits, masterVars
    <2>2. CASE Answered(w)
      BY <1>1, <1>3, <1>4, <2>2 DEF InStep, Answered, masterVars
    <2> QED
      BY <1>1, <2>1, <2>2 DEF InStep
  <1>6. cycle'[w] \in 0..job.cycles
    <2>1. version \in 0..job.cycles /\ job.cycles \in Nat /\ cycle[w] \in 0..job.cycles
      BY <1>1, Sizes DEF IInv, TypeOK, Typed
    <2>2. CASE Awaits(w)
      BY <1>1, <1>3, <2>1, <2>2 DEF Awaits
    <2>3. CASE Answered(w)
      BY <1>1, <1>3, <2>1, <2>3 DEF Answered, Stops, LeavesLoop
    <2> QED
      BY <1>1, <2>2, <2>3 DEF InStep
  <1>7. Typed(w)'
    BY <1>1, <1>3, <1>4, <1>6, SameSizes DEF Typed, IsNE
  <1>8. Computed(w)'
    BY <1>3 DEF Computed
  <1>9. Passed(w)' = Passed(w)
    BY <1>1, <1>3 DEF Passed, HasAnswered, masterVars
  <1> QED
    BY <1>2, <1>5, <1>7, <1>8, <1>9, WorkerKeeps
-----------------------------------------------------------------------------
(* The collective calls.                                                   *)

LEMMA CollectiveKeeps ==
    ASSUME IInv, NEW p \in Position,
           UNCHANGED <<job, masterVars, casts, sent, cycle, model, last, equation, chunk, subtracted>>,
           pc' \in [Worker -> Place], degrid' \in [Worker -> BOOLEAN],
           predicted' = [w \in Worker |-> predicted'[w]],
           \A u \in Worker \ Peers(p) : UNCHANGED OwnState(u),
           \A u \in Peers(p) :
               /\ {pc[u], pc'[u]} \subseteq {"flag", "data", "update", "grid"}
               /\ predicted'[u] \subseteq Image /\ Computed(u)' /\ Passed(u)' # 0,
           \A u, v \in Peers(p) : Passed(u)' = Passed(v)'
    PROVE  IInv'
  <1>1. /\ UNCHANGED <<job, mpc, turn, mcycle, version, content, peak, interrupted>>
        /\ TypeOK /\ Functions /\ MasterInStep
    BY DEF masterVars, IInv
  <1>2. \A u \in Worker : Dealt(u)' <=> Dealt(u)
    BY <1>1 DEF Dealt
  <1>3. ASSUME NEW u \in Worker \ Peers(p)
        PROVE  InStep(u)' /\ Computed(u)' /\ Passed(u)' = Passed(u) /\ Typed(u)'
    <2>1. InStep(u)' /\ Computed(u)' /\ Passed(u)' = Passed(u)
      BY <1>1, <1>2, SameWorker DEF IInv
    <2>2. Typed(u)
      BY AtPlace
    <2> QED
      BY <2>1, <2>2, SameSizes DEF Typed, OwnState, IsNE
  <1>4. ASSUME NEW u \in Worker, u \in Peers(p)
        PROVE  InStep(u)' /\ Computed(u)' /\ Typed(u)'
    <2>1. Works(u) /\ Typed(u) /\ pc[u] # "calc"
      BY <1>4, AtPlace
    <2>2. Part(u[1])' = Part(u[1]) /\ Stops' = Stops /\ pc'[u] \in {"flag", "data", "update", "grid"}
      BY <1>1, <1>4, SameSizes DEF Part, Stops, LeavesLoop
    <2>3. InStep(u)'
      BY <1>1, <1>2, <2>1, <2>2 DEF InStep, Works
    <2>4. Typed(u)'
      BY <1>4, <2>1, SameSizes DEF Typed, IsNE
    <2> QED
      BY <1>4, <2>3, <2>4
  <1>5. \A u \in Worker : InStep(u)' /\ Computed(u)' /\ Typed(u)'
    BY <1>3, <1>4
  <1>6. TypeOK'
    <2>1. WorkersTyped'
      BY <1>1, <1>5, SameSizes, Types DEF WorkersTyped
    <2>2. MasterTyped'
      BY <1>1, SameSizes, Types DEF MasterTyped, masterVars, IsNE
    <2> QED
      BY <2>1, <2>2, Types
  <1>7. MasterInStep'
    BY <1>1, SameSizes DEF MasterInStep, Stops, LeavesLoop
  <1>8. Functions'
    BY <1>1, SameSizes DEF Functions
  <1>9. PeersMatch'
    <2>a. Position' = Position /\ Grouped' = Grouped /\ content' = content
          /\ \A q : Peers(q)' = Peers(q)
      BY <1>1, SameSizes
    <2>1. SUFFICES ASSUME Grouped, NEW q \in Position, NEW u \in Peers(q), NEW v \in Peers(q)
                   PROVE  /\ Passed(u)' = 0 <=> Passed(v)' = 0
                          /\ content # {} => Passed(u)' = Passed(v)'
      BY <2>a DEF PeersMatch
    <2>2. CASE q = p
      BY <2>2
    <2>3. CASE q # p
      <3>1. u \in Worker \ Peers(p) /\ v \in Worker \ Peers(p)
        BY <2>3 DEF Peers
      <3>2. /\ Passed(u) = 0 <=> Passed(v) = 0
            /\ content # {} => Passed(u) = Passed(v)
        BY <2>1 DEF PeersMatch, IInv
      <3> QED
        BY <1>3, <3>1, <3>2
    <2> QED
      BY <2>2, <2>3
  <1> QED
    BY <1>5, <1>6, <1>7, <1>8, <1>9, SameSizes DEF IInv

\* The peers at a position have all the images between them.
LEMMA PeersHaveAll ==
    ASSUME IInv, NEW p \in Position,
           \A w \in Peers(p) : pc[w] \in {"flag", "data", "update", "grid"}
    PROVE  /\ \A w \in Peers(p) : Works(w) /\ Computed(w) /\ w \in Worker /\ w[2] = p
                                  /\ equation[w].content = content \cap ImagesOf(w[1])
           /\ \A g \in Group : \E w \in Peers(p) : w[1] = g
           /\ Peers(p) \subseteq Worker /\ \E w \in Peers(p) : TRUE
           /\ content = UNION {equation[w].content : w \in Peers(p)}
  <1>1. ASSUME NEW w \in Peers(p)
        PROVE  /\ Works(w) /\ Computed(w) /\ w \in Worker /\ w[2] = p
               /\ equation[w].content = content \cap ImagesOf(w[1])
    <2>1. w \in Worker /\ w[2] = p
      BY DEF Peers
    <2>2. Works(w) /\ Computed(w) /\ pc[w] # "calc"
      BY <2>1, AtPlace
    <2>3. equation[w] = Part(w[1])
      BY <2>2 DEF Works
    <2> QED
      BY <2>1, <2>2, <2>3, Messages DEF IInv
  <1>2. ASSUME NEW g \in Group PROVE \E w \in Peers(p) : w[1] = g
    <2>1. <<g, p>> \in Peers(p) /\ <<g, p>>[1] = g
      BY DEF Peers, Worker
    <2> QED
      BY <2>1
  <1>3. \A i \in content : \E g \in Group : i \in ImagesOf(g)
    BY DealtOnce DEF IInv, TypeOK
  <1>4. content = UNION {equation[w].content : w \in Peers(p)}
    <2>1. ASSUME NEW i \in content PROVE \E w \in Peers(p) : i \in equation[w].content
      <3>1. PICK g \in Group : i \in ImagesOf(g)
        BY <1>3
      <3>2. PICK w \in Peers(p) : w[1] = g
        BY <1>2
      <3> QED
        BY <1>1, <3>1, <3>2
    <2> QED
      BY <1>1, <2>1
  <1>5. \E w \in Peers(p) : TRUE
    BY <1>2, Sizes DEF IInv
  <1>6. Peers(p) \subseteq Worker
    BY DEF Peers
  <1> QED
    BY <1>1, <1>2, <1>4, <1>5, <1>6

LEMMA AggregateFlagKeeps ==
    ASSUME IInv, Grouped, NEW p \in Position, AggregateFlag(p)
    PROVE  IInv'
  <1>1. \A w \in Peers(p) : pc[w] = "flag"
    BY DEF AggregateFlag
  <1>2. /\ \A w \in Peers(p) : Works(w) /\ Computed(w) /\ w \in Worker /\ w[2] = p
                               /\ equation[w].content = content \cap ImagesOf(w[1])
        /\ Peers(p) \subseteq Worker
        /\ content = UNION {equation[w].content : w \in Peers(p)}
    BY <1>1, PeersHaveAll
  <1>3. Aggregated(p) <=> content # {}
    <2>1. \A w \in Peers(p) : degrid[w] <=> equation[w].content # {}
      BY <1>1, <1>2 DEF Computed
    <2> QED
      BY <1>2, <2>1 DEF Aggregated
  <1>4. /\ UNCHANGED <<job, masterVars, casts, sent, cycle, model, last, equation, chunk,
                       predicted, subtracted>>
        /\ pc' = [w \in Worker |-> IF w \in Peers(p) THEN "data" ELSE pc[w]]
        /\ degrid' = [w \in Worker |-> IF w \in Peers(p) THEN Aggregated(p) ELSE degrid[w]]
    BY DEF AggregateFlag
  <1>5. pc \in [Worker -> Place] /\ degrid \in [Worker -> BOOLEAN] /\ Functions
        /\ Aggregated(p) \in BOOLEAN
    BY Types DEF IInv, WorkersTyped, Aggregated
  <1>6. pc' \in [Worker -> Place] /\ degrid' \in [Worker -> BOOLEAN]
    BY <1>4, <1>5 DEF Place
  <1>7. predicted' = [w \in Worker |-> predicted'[w]]
    BY <1>4, <1>5 DEF Functions
  <1>8. \A u \in Worker \ Peers(p) : UNCHANGED OwnState(u)
    BY <1>4 DEF OwnState
  <1>9. ASSUME NEW u \in Peers(p)
        PROVE  /\ pc[u] = "flag" /\ pc'[u] = "data" /\ predicted'[u] \subseteq Image
               /\ Computed(u)' /\ Passed(u)' = 1
    <2>1. pc'[u] = "data" /\ (degrid'[u] <=> content # {}) /\ chunk[u] = 1 /\ subtracted[u] = {}
          /\ u \in Worker
      BY <1>1, <1>2, <1>3, <1>4 DEF Computed
    <2>2. job.chunks[u[2]] \in Nat \ {0} /\ ~HasAnswered(u) /\ predicted[u] \subseteq Image
      BY <1>2, AtPlace DEF Typed
    <2>3. ~HasAnswered(u)' /\ content' = content
      BY <1>4, <2>2 DEF HasAnswered, masterVars
    <2>4. Computed(u)'
      BY <1>4, <2>1, <2>2, <2>3 DEF Computed
    <2>5. Passed(u)' = 1
      BY <1>4, <2>1, <2>3 DEF Passed
    <2> QED
      BY <1>1, <1>4, <2>1, <2>2, <2>4, <2>5
  <1>10. \A u \in Peers(p) :
             /\ {pc[u], pc'[u]} \subseteq {"flag", "data", "update", "grid"}
             /\ predicted'[u] \subseteq Image /\ Computed(u)' /\ Passed(u)' # 0
    BY <1>9
  <1>11. \A u, v \in Peers(p) : Passed(u)' = Passed(v)'
    BY <1>9
  <1>12. UNCHANGED <<job, masterVars, casts, sent, cycle, model, last, equation, chunk, subtracted>>
    BY <1>4
  <1> QED
    BY ONLY IInv, <1>6, <1>7, <1>8, <1>10, <1>11, <1>12, CollectiveKeeps

LEMMA UpdateKeeps ==
    ASSUME IInv, Grouped, NEW p \in Position, Update(p)
    PROVE  IInv'
  <1>1. \A w \in Peers(p) : pc[w] = "update"
    BY DEF Update
  <1>2. /\ \A w \in Peers(p) : Works(w) /\ Computed(w) /\ w \in Worker /\ w[2] = p
        /\ Peers(p) \subseteq Worker
        /\ content = UNION {equation[w].content : w \in Peers(p)}
    BY <1>1, PeersHaveAll
  <1>3. SumOf(p) = content
    <2>1. \A w \in Peers(p) : predicted[w] = equation[w].content
      BY <1>1, <1>2 DEF Computed
    <2> QED
      BY <1>2, <2>1 DEF SumOf
  <1>4. /\ UNCHANGED <<job, masterVars, casts, sent, cycle, model, last, equation, degrid,
                       chunk, subtracted>>
        /\ pc' = [w \in Worker |-> IF w \in Peers(p) THEN "grid" ELSE pc[w]]
        /\ predicted' = [w \in Worker |-> IF w \in Peers(p) THEN content ELSE predicted[w]]
    BY <1>3 DEF Update
  <1>5. pc \in [Worker -> Place] /\ degrid \in [Worker -> BOOLEAN] /\ content \subseteq Image
    BY Types DEF IInv, WorkersTyped, MasterTyped
  <1>6. pc' \in [Worker -> Place] /\ degrid' \in [Worker -> BOOLEAN]
    BY <1>4, <1>5 DEF Place
  <1>7. predicted' = [w \in Worker |-> predicted'[w]]
    BY <1>4
  <1>8. \A u \in Worker \ Peers(p) : UNCHANGED OwnState(u)
    BY <1>4 DEF OwnState
  <1>9. ASSUME NEW u \in Peers(p)
        PROVE  /\ pc[u] = "update" /\ pc'[u] = "grid" /\ predicted'[u] \subseteq Image
               /\ Computed(u)' /\ Passed(u)' = Passed(u) + 1 /\ Passed(u) \in Nat /\ content # {}
    <2>1. pc'[u] = "grid" /\ predicted'[u] = content /\ Computed(u) /\ pc[u] = "update" /\ u \in Worker
      BY <1>1, <1>2, <1>4
    <2>2. ~HasAnswered(u) /\ job.chunks[u[2]] \in Nat \ {0} /\ chunk[u] \in Nat /\ degrid[u]
          /\ content # {}
      <3>1. ~HasAnswered(u) /\ job.chunks[u[2]] \in Nat \ {0}
        BY <1>2, AtPlace
      <3> QED
        BY <2>1, <3>1 DEF Computed
    <2>3. ~HasAnswered(u)' /\ content' = content
      BY <1>4, <2>2 DEF HasAnswered, masterVars
    <2>4. Computed(u)'
      BY <1>4, <2>1, <2>3 DEF Computed
    <2>5. Passed(u) = chunk[u] /\ Passed(u)' = chunk[u] + 1
      BY <1>4, <2>1, <2>2, <2>3 DEF Passed
    <2> QED
      BY <1>5, <2>1, <2>2, <2>4, <2>5
  <1>10. \A u, v \in Peers(p) : Passed(u) = Passed(v)
    BY <1>9 DEF IInv, PeersMatch
  <1>11. \A u, v \in Peers(p) : Passed(u)' = Passed(v)' /\ Passed(u)' # 0
    BY <1>9, <1>10
  <1>12. \A u \in Peers(p) :
             /\ {pc[u], pc'[u]} \subseteq {"flag", "data", "update", "grid"}
             /\ predicted'[u] \subseteq Image /\ Computed(u)'
    BY <1>9
  <1>13. UNCHANGED <<job, masterVars, casts, sent, cycle, model, last, equation, chunk, subtracted>>
    BY <1>4
  <1> QED
    BY ONLY IInv, <1>6, <1>7, <1>8, <1>11, <1>12, <1>13, CollectiveKeeps
-----------------------------------------------------------------------------
(* The steps of the master.                                                *)

\* A step that sends and receives nothing.
LEMMA QuietKeeps ==
    ASSUME IInv, UNCHANGED <<job, version, content, peak, casts, sent, workerVars>>,
           MasterTyped', MasterInStep', \A u \in Worker : Dealt(u)' <=> Dealt(u),
           mpc' = "over" <=> mpc = "over"
    PROVE  IInv'
  <1>1. ASSUME NEW u \in Worker
        PROVE  InStep(u)' /\ Computed(u)' /\ Passed(u)' = Passed(u) /\ Typed(u)'
    <2>1. UNCHANGED OwnState(u) /\ Typed(u)
      BY AtPlace DEF workerVars, OwnState
    <2>2. InStep(u)' /\ Computed(u)' /\ Passed(u)' = Passed(u)
      BY <2>1, SameWorker DEF IInv
    <2> QED
      BY <2>1, <2>2, SameSizes DEF Typed, OwnState, IsNE
  <1>2. TypeOK'
    <2>1. WorkersTyped'
      BY <1>1, SameSizes, Types DEF IInv, WorkersTyped, workerVars
    <2> QED
      BY <2>1, Types
  <1>3. Functions'
    BY SameSizes DEF IInv, Functions, workerVars
  <1>4. PeersMatch'
    <2>1. Position' = Position /\ Grouped' = Grouped /\ content' = content
          /\ \A q : Peers(q)' = Peers(q) /\ Peers(q) \subseteq Worker
      BY SameSizes DEF Peers
    <2>2. PeersMatch
      BY DEF IInv
    <2> QED
      BY <1>1, <2>1, <2>2 DEF PeersMatch
  <1> QED
    BY <1>1, <1>2, <1>3, <1>4, SameSizes DEF IInv

LEMMA Nobody ==
    ASSUME TypeOK, turn = 1, NEW w \in Worker
    PROVE  ~(turn > w[1])
  BY Sizes DEF Group

LEMMA RefuseModelKeeps == IInv /\ RefuseModel => IInv'
  <1> SUFFICES ASSUME IInv, RefuseModel PROVE IInv'
    OBVIOUS
  <1>1. /\ mpc = "broadcast" /\ mpc' = "refused" /\ TooFewImages /\ turn = 1
        /\ UNCHANGED <<job, turn, mcycle, version, content, peak, mne, signalled, interrupted,
                       casts, sent, workerVars>>
    BY DEF RefuseModel, IInv, MasterInStep
  <1>2. MasterTyped' /\ MasterInStep'
    <2>1. MasterTyped /\ MasterInStep
      BY Types DEF IInv
    <2>2. MasterTyped'
      BY <1>1, <2>1, SameSizes DEF MasterTyped, IsNE
    <2>3. MasterInStep'
      BY <1>1, <2>1, SameSizes DEF MasterInStep
    <2> QED
      BY <2>2, <2>3
  <1>3. \A u \in Worker : ~Dealt(u) /\ ~Dealt(u)'
    BY <1>1, Nobody DEF Dealt, IInv
  <1> QED
    BY <1>1, <1>2, <1>3, QuietKeeps

LEMMA SignalKeeps == IInv /\ Signal => IInv'
  <1> SUFFICES ASSUME IInv, Signal PROVE IInv'
    OBVIOUS
  <1>1. /\ signalled' \in BOOLEAN
        /\ UNCHANGED <<job, mpc, turn, mcycle, version, content, peak, mne, interrupted,
                       casts, sent, workerVars>>
    BY DEF Signal
  <1>2. MasterTyped' /\ MasterInStep'
    <2>1. MasterTyped /\ MasterInStep
      BY Types DEF IInv
    <2>2. MasterTyped'
      BY <1>1, <2>1, SameSizes DEF MasterTyped, IsNE
    <2>3. MasterInStep'
      BY <1>1, <2>1, SameSizes DEF MasterInStep, Stops, LeavesLoop
    <2> QED
      BY <2>2, <2>3
  <1>3. \A u \in Worker : Dealt(u)' <=> Dealt(u)
    BY <1>1 DEF Dealt
  <1> QED
    BY <1>1, <1>2, <1>3, QuietKeeps

LEMMA Stutter == IInv /\ UNCHANGED vars => IInv'
  <1> SUFFICES ASSUME IInv, UNCHANGED vars PROVE IInv'
    OBVIOUS
  <1>1. UNCHANGED <<job, mpc, turn, mcycle, version, content, peak, mne, interrupted, signalled,
                    casts, sent, workerVars>>
    BY DEF vars, masterVars
  <1>2. MasterTyped' /\ MasterInStep'
    <2>1. MasterTyped /\ MasterInStep
      BY Types DEF IInv
    <2>2. MasterTyped'
      BY <1>1, <2>1, SameSizes DEF MasterTyped, IsNE
    <2>3. MasterInStep'
      BY <1>1, <2>1, SameSizes DEF MasterInStep, Stops, LeavesLoop
    <2> QED
      BY <2>2, <2>3
  <1>3. \A u \in Worker : Dealt(u)' <=> Dealt(u)
    BY <1>1 DEF Dealt
  <1> QED
    BY <1>1, <1>2, <1>3, QuietKeeps

LEMMA BroadcastModelKeeps == IInv /\ BroadcastModel => IInv'
  <1> SUFFICES ASSUME IInv, BroadcastModel PROVE IInv'
    OBVIOUS
  <1>0. TypeOK /\ Functions /\ MasterInStep /\ MasterTyped /\ WorkersTyped
    BY Types DEF IInv
  <1>1. /\ mpc = "broadcast" /\ ~TooFewImages /\ ~interrupted /\ version = mcycle
        /\ job.groups \in Nat \ {0} /\ turn \in 1..job.groups
        /\ UNCHANGED <<job, mcycle, version, content, peak, mne, signalled, interrupted,
                       sent, workerVars>>
    BY <1>0, Sizes DEF BroadcastModel, MasterInStep, TypeOK, Group
  <1>2. \/ turn < job.groups /\ turn' = turn + 1 /\ mpc' = mpc
        \/ turn = job.groups /\ turn' = 1 /\ mpc' = IF Stops THEN "final" ELSE "solve"
    BY <1>1 DEF BroadcastModel, Stops
  <1>3. \A w \in Worker : casts'[w] = IF w[1] = turn THEN Append(casts[w], Part(turn)) ELSE casts[w]
    BY DEF BroadcastModel, Part, Kept
  <1>4. casts' = [w \in Worker |-> casts'[w]]
    BY <1>3 DEF BroadcastModel
  <1>5. \A w \in Worker : w[1] \in 1..job.groups
    BY <1>0, Sizes DEF Group
  <1>6. mpc # "over" /\ mpc' # "over"
    BY <1>1, <1>2
  <1>7. ASSUME NEW w \in Worker, w[1] # turn
        PROVE  InStep(w)' /\ Computed(w)' /\ Passed(w)' = Passed(w) /\ Typed(w)'
    <2>1. Dealt(w)' <=> Dealt(w)
      BY <1>1, <1>2, <1>5, <1>7 DEF Dealt
    <2>2. UNCHANGED OwnState(w) /\ Typed(w)
      BY <1>1, <1>3, <1>7, AtPlace DEF OwnState, workerVars
    <2>3. InStep(w)' /\ Computed(w)' /\ Passed(w)' = Passed(w)
      BY <1>1, <1>6, <2>1, <2>2, SameWorker DEF IInv
    <2> QED
      BY <1>1, <2>2, <2>3, SameSizes DEF Typed, OwnState, IsNE
  <1>8. ASSUME NEW w \in Worker, w[1] = turn
        PROVE  InStep(w)' /\ Computed(w)' /\ Passed(w)' = Passed(w) /\ Typed(w)'
    <2>1. ~Dealt(w) /\ Dealt(w)'
      BY <1>1, <1>2, <1>5, <1>8 DEF Dealt
    <2>2. Awaits(w) /\ casts[w] = <<>>
      BY <2>1, AtPlace DEF InStep, Awaits, Works, Answered
    <2>3. casts'[w] = <<Part(w[1])>>
      <3> DEFINE sends == Part(w[1])
      <3>1. casts'[w] = Append(casts[w], sends)
        BY <1>3, <1>8
      <3> HIDE DEF sends
      <3>2. Append(<<>>, sends) = <<sends>>
        OBVIOUS
      <3>3. casts'[w] = <<sends>>
        BY <2>2, <3>1, <3>2
      <3> QED
        BY <3>3 DEF sends
    <2>4. Part(w[1])' = Part(w[1])
      BY <1>1, SameSizes DEF Part
    <2>5. UNCHANGED <<pc[w], cycle[w], last[w], sent[w]>>
      BY <1>1 DEF workerVars
    <2>6. Awaits(w)'
      BY <1>1, <1>6, <2>1, <2>2, <2>3, <2>4, <2>5 DEF Awaits
    <2>7. Typed(w) /\ Computed(w)
      BY AtPlace
    <2>8. Computed(w)'
      BY <1>1, <2>2, <2>5 DEF Computed, Awaits
    <2>9. Passed(w)' = Passed(w)
      BY <1>1, <1>6, <2>5 DEF Passed, HasAnswered, workerVars
    <2>10. Typed(w)'
      <3>1. Part(w[1]) \in Models
        BY <1>0, Messages
      <3>2. \A i \in 1..Len(casts'[w]) : casts'[w][i] \in Models
        BY <2>3, <3>1
      <3> QED
        BY <1>1, <2>7, <3>2, SameSizes DEF Typed, IsNE, workerVars
    <2> QED
      BY <2>6, <2>8, <2>9, <2>10 DEF InStep
  <1>9. \A w \in Worker : InStep(w)' /\ Computed(w)' /\ Passed(w)' = Passed(w) /\ Typed(w)'
    BY <1>7, <1>8
  <1>10. MasterTyped' /\ MasterInStep'
    <2>1. MasterTyped'
      BY <1>0, <1>1, <1>2, SameSizes DEF MasterTyped, IsNE, Group
    <2>2. Stops' = Stops /\ ~TooFewImages'
      BY <1>1, SameSizes DEF Stops, LeavesLoop
    <2>3. MasterInStep'
      BY <1>0, <1>1, <1>2, <2>2 DEF MasterInStep
    <2> QED
      BY <2>1, <2>3
  <1>11. TypeOK'
    <2>1. WorkersTyped'
      BY <1>0, <1>1, <1>9, SameSizes DEF WorkersTyped, workerVars
    <2> QED
      BY <1>10, <2>1, Types
  <1>12. Functions'
    BY <1>0, <1>1, <1>4, SameSizes DEF Functions, workerVars
  <1>13. PeersMatch'
    <2>1. Position' = Position /\ Grouped' = Grouped /\ content' = content
          /\ \A q : Peers(q)' = Peers(q) /\ Peers(q) \subseteq Worker
      BY <1>1, SameSizes DEF Peers
    <2>2. PeersMatch
      BY DEF IInv
    <2> QED
      BY <1>9, <2>1, <2>2 DEF PeersMatch
  <1> QED
    BY <1>1, <1>9, <1>10, <1>11, <1>12, <1>13, SameSizes DEF IInv

\* The master has the answers of all workers to the present model.
LEMMA AllAnswer ==
    ASSUME IInv, ReceiveNE, mpc # "over"
    PROVE  /\ ~interrupted /\ mpc \in {"solve", "final"} /\ turn = 1 /\ ~TooFewImages
           /\ \A w \in Worker : Answered(w) /\ sent[w] = <<Answer(w[1])>> /\ sent'[w] = <<>>
                                /\ mne'[w] = Answer(w[1]) /\ IsNE(mne'[w])
           /\ sent' = [w \in Worker |-> sent'[w]] /\ DOMAIN mne' = Worker
  <1>1. TypeOK /\ MasterInStep
    BY DEF IInv
  <1>2. ASSUME NEW w \in Worker
        PROVE  /\ Answered(w) /\ Dealt(w) /\ sent[w] = <<Answer(w[1])>> /\ sent'[w] = <<>>
               /\ mne'[w] = Answer(w[1]) /\ IsNE(mne'[w])
    <2>1. sent[w] # <<>> /\ mne'[w] = Head(sent[w]) /\ sent'[w] = Tail(sent[w])
      BY DEF ReceiveNE
    <2>2. Answered(w) /\ Dealt(w) /\ sent[w] = <<Answer(w[1])>>
      BY <2>1, AtPlace DEF InStep, Awaits, Works, Answered
    <2>3. IsNE(Answer(w[1]))
      BY <1>1, Messages
    <2> DEFINE answer == Answer(w[1])
    <2>4. sent[w] = <<answer>> /\ IsNE(answer)
      BY <2>2, <2>3
    <2> HIDE DEF answer
    <2>5. Head(<<answer>>) = answer /\ Tail(<<answer>>) = <<>>
      OBVIOUS
    <2>6. mne'[w] = answer /\ sent'[w] = <<>>
      BY <2>1, <2>4, <2>5
    <2> QED
      BY <2>2, <2>4, <2>6 DEF answer
  <1>3. sent' = [w \in Worker |-> sent'[w]] /\ DOMAIN mne' = Worker
    BY DEF ReceiveNE
  <1>4. ~interrupted /\ (mpc \in {"solve", "final"} \/ mpc = "broadcast")
    <2>1. PICK w \in Worker : TRUE
      BY <1>1, Sizes
    <2> QED
      BY <1>2, <2>1 DEF Dealt
  <1>5. mpc # "broadcast"
    <2>1. CASE mpc = "broadcast"
      <3>1. turn \in Group /\ turn \in Nat
        BY <1>1, Sizes DEF TypeOK
      <3>2. PICK v \in Worker : v[1] = turn
        <4>1. PICK w \in Worker : TRUE
          BY <1>1, Sizes
        <4>2. w[2] \in Position
          BY <1>1, Sizes
        <4>3. <<turn, w[2]>> \in Worker /\ <<turn, w[2]>>[1] = turn
          BY <3>1, <4>2 DEF Worker
        <4> QED
          BY <4>3
      <3>3. Dealt(v)
        BY <1>2
      <3>4. turn > v[1]
        BY <2>1, <3>3 DEF Dealt
      <3> QED
        BY <3>1, <3>2, <3>4
    <2> QED
      BY <2>1
  <1> QED
    BY <1>1, <1>2, <1>3, <1>4, <1>5 DEF MasterInStep

LEMMA SolveNEKeeps == IInv /\ SolveNE => IInv'
  <1> SUFFICES ASSUME IInv, SolveNE PROVE IInv'
    OBVIOUS
  <1>0. TypeOK /\ Functions /\ MasterInStep /\ MasterTyped /\ WorkersTyped
    BY Types DEF IInv
  <1>1. /\ mpc = "solve" /\ ReceiveNE /\ version' = version + 1
        /\ content' \in SUBSET Image /\ peak' \in {"above", "below"}
        /\ \/ mpc' = "final" /\ interrupted' = TRUE /\ mcycle' = mcycle
           \/ mpc' = "broadcast" /\ mcycle' = mcycle + 1 /\ interrupted' = interrupted
        /\ UNCHANGED <<job, turn, signalled, casts, workerVars>>
    BY DEF SolveNE
  <1>2. /\ ~interrupted /\ turn = 1 /\ ~TooFewImages
        /\ \A w \in Worker : Answered(w) /\ sent[w] = <<Answer(w[1])>> /\ sent'[w] = <<>>
                             /\ mne'[w] = Answer(w[1]) /\ IsNE(mne'[w])
        /\ sent' = [w \in Worker |-> sent'[w]] /\ DOMAIN mne' = Worker
    BY <1>1, AllAnswer
  <1>3. ~Stops /\ version = mcycle /\ version \in 0..job.cycles /\ version' \in 0..job.cycles
        /\ job.cycles \in Nat
    BY <1>0, <1>1, <1>2, Sizes DEF MasterInStep, Stops, LeavesLoop, TypeOK
  <1>4. ASSUME NEW w \in Worker
        PROVE  InStep(w)' /\ Computed(w)' /\ Passed(w)' = 0 /\ Typed(w)'
    <2>1. ~Dealt(w)'
      BY <1>0, <1>1, <1>2, Nobody DEF Dealt
    <2>2. Answered(w) /\ sent'[w] = <<>> /\ casts[w] = <<>> /\ pc[w] \in {"sent", "model"}
      BY <1>2, <1>3 DEF Answered
    <2>3. UNCHANGED <<pc[w], cycle[w], last[w], casts[w]>>
      BY <1>1 DEF workerVars
    <2>4. Awaits(w)'
      BY <1>1, <1>3, <2>1, <2>2, <2>3 DEF Awaits, Answered
    <2>5. Computed(w)'
      BY <2>2, <2>3 DEF Computed
    <2>6. Passed(w)' = 0
      BY <1>1, <2>2, <2>3 DEF Passed, HasAnswered
    <2>7. Typed(w)'
      <3>1. Typed(w)
        BY AtPlace
      <3>2. \A i \in 1..Len(sent'[w]) : FALSE
        BY <2>2
      <3> QED
        BY <1>1, <3>1, <3>2, SameSizes DEF Typed, workerVars
    <2> QED
      BY <2>4, <2>5, <2>6, <2>7 DEF InStep
  <1>5. MasterTyped'
    <2>1. \A w \in Worker : IsNE(mne[w])'
      BY <1>1, <1>2, SameSizes DEF IsNE
    <2>2. mcycle' \in 0..job.cycles
      BY <1>1, <1>3
    <2> QED
      BY <1>0, <1>1, <1>2, <1>3, <2>1, <2>2, SameSizes DEF MasterTyped
  <1>6. MasterInStep'
    BY <1>0, <1>1, <1>2, <1>3, SameSizes DEF MasterInStep
  <1>7. TypeOK'
    <2>1. WorkersTyped'
      BY <1>0, <1>1, <1>4, SameSizes DEF WorkersTyped, workerVars
    <2> QED
      BY <1>5, <2>1, Types
  <1>8. Functions'
    BY <1>0, <1>1, <1>2, SameSizes DEF Functions, workerVars
  <1>9. PeersMatch'
    BY <1>1, <1>4, SameSizes DEF PeersMatch, Peers
  <1> QED
    BY <1>1, <1>4, <1>6, <1>7, <1>8, <1>9, SameSizes DEF IInv

LEMMA FinalResidualsKeeps == IInv /\ FinalResiduals => IInv'
  <1> SUFFICES ASSUME IInv, FinalResiduals PROVE IInv'
    OBVIOUS
  <1>0. TypeOK /\ Functions /\ MasterInStep /\ MasterTyped /\ WorkersTyped /\ PeersMatch
    BY Types DEF IInv
  <1>1. /\ mpc = "final" /\ ReceiveNE /\ mpc' = "over"
        /\ UNCHANGED <<job, turn, mcycle, version, content, peak, signalled, interrupted,
                       casts, workerVars>>
    BY DEF FinalResiduals
  <1>2. /\ ~interrupted /\ turn = 1 /\ ~TooFewImages
        /\ \A w \in Worker : Answered(w) /\ sent[w] = <<Answer(w[1])>> /\ sent'[w] = <<>>
                             /\ mne'[w] = Answer(w[1]) /\ IsNE(mne'[w])
        /\ sent' = [w \in Worker |-> sent'[w]] /\ DOMAIN mne' = Worker
    BY <1>1, AllAnswer
  <1>3. Stops /\ Stops'
    BY <1>0, <1>1, <1>2 DEF MasterInStep, Stops, LeavesLoop
  <1>4. ASSUME NEW w \in Worker
        PROVE  InStep(w)' /\ Computed(w)' /\ Passed(w)' = Passed(w) /\ Typed(w)'
    <2>1. Dealt(w)'
      BY <1>1, <1>2 DEF Dealt
    <2>2. /\ Answered(w) /\ HasAnswered(w) /\ sent'[w] = <<>>
          /\ UNCHANGED <<pc[w], cycle[w], last[w], casts[w]>>
      BY <1>1, <1>2, AtPlace DEF workerVars
    <2>3. Answered(w)'
      BY <1>1, <1>3, <2>1, <2>2 DEF Answered
    <2>4. Computed(w)'
      BY <2>2 DEF Computed, Answered
    <2>5. Passed(w)' = Passed(w)
      BY <1>1, <2>2 DEF Passed, HasAnswered
    <2>6. Typed(w)'
      <3>1. Typed(w)
        BY AtPlace
      <3>2. \A i \in 1..Len(sent'[w]) : FALSE
        BY <2>2
      <3> QED
        BY <1>1, <3>1, <3>2, SameSizes DEF Typed, workerVars
    <2> QED
      BY <2>3, <2>4, <2>5, <2>6 DEF InStep
  <1>5. MasterTyped'
    <2>1. \A w \in Worker : IsNE(mne[w])'
      BY <1>1, <1>2, SameSizes DEF IsNE
    <2> QED
      BY <1>0, <1>1, <1>2, <2>1, SameSizes DEF MasterTyped
  <1>6. MasterInStep'
    BY <1>0, <1>1, <1>2, <1>3, SameSizes DEF MasterInStep
  <1>7. TypeOK'
    <2>1. WorkersTyped'
      BY <1>0, <1>1, <1>4, SameSizes DEF WorkersTyped, workerVars
    <2> QED
      BY <1>5, <2>1, Types
  <1>8. Functions'
    BY <1>0, <1>1, <1>2, SameSizes DEF Functions, workerVars
  <1>9. PeersMatch'
    <2>1. Position' = Position /\ Grouped' = Grouped /\ content' = content
          /\ \A q : Peers(q)' = Peers(q) /\ Peers(q) \subseteq Worker
      BY <1>1, SameSizes DEF Peers
    <2> QED
      BY <1>0, <1>4, <2>1 DEF PeersMatch
  <1> QED
    BY <1>1, <1>4, <1>6, <1>7, <1>8, <1>9, SameSizes DEF IInv
-----------------------------------------------------------------------------
LEMMA Initially == Init => IInv
  <1> SUFFICES ASSUME Init PROVE IInv
    OBVIOUS
  <1> USE DEF Init
  <1>1. MasterTyped
    <2>1. 1 \in Group /\ job.cycles \in Nat
      BY JobsAssumption DEF Group
    <2>2. content \subseteq Image
      <3>1. CASE job.reuse
        BY <3>1
      <3>2. CASE ~job.reuse
        BY <3>2
      <3> QED
        BY <3>1, <3>2
    <2>3. /\ job \in Jobs /\ mpc = "broadcast" /\ turn = 1 /\ mcycle = 0 /\ version = 0
          /\ peak = "none" /\ mne = <<>> /\ signalled = FALSE /\ interrupted = FALSE
      OBVIOUS
    <2>4. 0 \in 0..job.cycles
      BY <2>1
    <2> QED
      BY ONLY <2>1, <2>2, <2>3, <2>4 DEF MasterTyped
  <1>2. ASSUME NEW w \in Worker
        PROVE  /\ Typed(w) /\ w[1] \in Group /\ w[2] \in Position
               /\ pc[w] = "model" /\ casts[w] = <<>> /\ sent[w] = <<>> /\ cycle[w] = 0
    <2>1. w[1] \in Group /\ w[2] \in Position
      BY DEF Worker
    <2>2. job.cycles \in Nat /\ MaxCycles \in Nat /\ job.chunks[w[2]] \in Nat
      BY <2>1, JobsAssumption DEF Position
    <2>3. NoModel \in Models
      BY <2>2 DEF NoModel, Models
    <2>4. /\ pc[w] = "model" /\ casts[w] = <<>> /\ sent[w] = <<>> /\ cycle[w] = 0
          /\ chunk[w] = 0 /\ model[w] = NoModel /\ equation[w] = NoModel
          /\ predicted[w] = {} /\ subtracted[w] = {}
      OBVIOUS
    <2>5. \A i \in 1..Len(<<>>) : FALSE
      OBVIOUS
    <2> QED
      BY <2>1, <2>2, <2>3, <2>4, <2>5 DEF Typed
  <1>3. TypeOK
    <2>1. pc \in [Worker -> Place] /\ last \in [Worker -> BOOLEAN] /\ degrid \in [Worker -> BOOLEAN]
      BY DEF Place
    <2> QED
      BY <1>1, <1>2, <2>1, Types DEF WorkersTyped
  <1>4. MasterInStep
    BY DEF MasterInStep
  <1>5. ASSUME NEW w \in Worker PROVE InStep(w) /\ Computed(w) /\ Passed(w) = 0
    <2>1. ~Dealt(w)
      BY <1>3, Nobody DEF Dealt
    <2> QED
      BY <1>2, <2>1 DEF InStep, Awaits, Computed, Passed, HasAnswered
  <1>6. PeersMatch
    BY <1>5 DEF PeersMatch, Peers
  <1>7. Functions
    BY DEF Functions
  <1> QED
    BY <1>3, <1>4, <1>5, <1>6, <1>7 DEF IInv

LEMMA NextKeeps == IInv /\ [Next]_vars => IInv'
  <1> SUFFICES ASSUME IInv, [Next]_vars PROVE IInv'
    OBVIOUS
  <1>1. ASSUME NEW w \in Worker, WorkerStep(w) PROVE IInv'
    BY <1>1, ReceiveModelKeeps, StartEquationsKeeps, PredictKeeps, GridKeeps, SendNEKeeps,
       NextCycleKeeps DEF WorkerStep
  <1>2. ASSUME NEW p \in Position, Grouped, Collective(p) PROVE IInv'
    BY <1>2, AggregateFlagKeeps, UpdateKeeps DEF Collective
  <1>3. CASE Master
    BY <1>3, RefuseModelKeeps, BroadcastModelKeeps, SolveNEKeeps, FinalResidualsKeeps DEF Master
  <1> QED
    BY <1>1, <1>2, <1>3, SignalKeeps, Stutter DEF Next

\* Each worker is where the master expects it: it waits for the model, works
\* on its part of it, or has answered with the residuals of its images from
\* which the whole model was subtracted (ImagerParallel.cc, cimager.cc).
THEOREM Invariance == Spec => []IInv
  <1> QED
    BY Initially, NextKeeps, PTL DEF Spec

\* Peers are never in different collective calls, nor in the same one for
\* another chunk or another model, because each has been through as many of
\* them as the others have (ImageFFTEquation.cc:399-462).
THEOREM CollectivesAlwaysMatch == Spec => []CollectivesMatch
  <1>1. IInv => CollectivesMatch
    <2> SUFFICES ASSUME IInv, NEW p \in Position, NEW v \in Peers(p), NEW w \in Peers(p),
                        pc[v] \in {"flag", "update"}, pc[w] \in {"flag", "update"}
                 PROVE  /\ pc[v] = pc[w] /\ chunk[v] = chunk[w]
                        /\ equation[v].version = equation[w].version
      BY DEF CollectivesMatch, IInv
    <2>1. ASSUME NEW u \in Peers(p), pc[u] \in {"flag", "update"}
          PROVE  /\ equation[u].version = version /\ Grouped
                 /\ pc[u] = "flag" => Passed(u) = 0 /\ chunk[u] = 1
                 /\ pc[u] = "update" => Passed(u) = chunk[u] /\ Passed(u) # 0 /\ content # {}
      <3>1. u \in Worker
        BY DEF Peers
      <3>2. Works(u) /\ Computed(u) /\ ~HasAnswered(u)
        BY <2>1, <3>1, AtPlace
      <3>3. equation[u].version = version
        BY <2>1, <3>1, <3>2, Messages DEF Works, IInv
      <3>4. pc[u] = "flag" => Grouped /\ Passed(u) = 0 /\ chunk[u] = 1
        BY <3>2 DEF Computed, Passed
      <3>5. pc[u] = "update" => Grouped /\ Passed(u) = chunk[u] /\ Passed(u) # 0 /\ content # {}
        BY <3>2 DEF Computed, Passed
      <3> QED
        BY <2>1, <3>3, <3>4, <3>5
    <2>2. /\ Passed(v) = 0 <=> Passed(w) = 0
          /\ content # {} => Passed(v) = Passed(w)
      BY <2>1 DEF IInv, PeersMatch
    <2> QED
      BY <2>1, <2>2
  <1> QED
    BY <1>1, Invariance, PTL
-----------------------------------------------------------------------------
(* The groups do what one processor does with the whole model.             *)

\* From the answers to one model the master has the residuals of all images
\* from all the data, and from all of them the whole model is subtracted.
LEMMA WholeResiduals ==
    ASSUME TypeOK, UNCHANGED job, DOMAIN mne' = Worker,
           \A w \in Worker : mne'[w] = Answer(w[1])
    PROVE  Residuals' = [x \in Image \X Position |-> <<version, content>>]
  <1> DEFINE whole == <<version, content>>
  <1>1. mne' # <<>>
    <2>1. PICK w \in Worker : TRUE
      BY Sizes
    <2>2. DOMAIN <<>> = {}
      OBVIOUS
    <2> QED
      BY <2>1, <2>2
  <1>2. Image' = Image /\ Position' = Position /\ \A p : Peers(p)' = Peers(p)
    BY SameSizes
  <1>3. ASSUME NEW i \in Image, NEW p \in Position
        PROVE  Subtracted(i, p)' = whole
    <2> DEFINE with == {w \in Peers(p)' : i \in mne'[w].images}
               what == UNION {{<<mne'[w].version, s>> : s \in mne'[w].subtracted} : w \in with}
    <2>1. PICK g \in Group : i \in ImagesOf(g) /\ \A h \in Group : i \in ImagesOf(h) => h = g
      BY DealtOnce
    <2>2. \A w \in Peers(p) : /\ mne'[w].images = ImagesOf(w[1]) /\ mne'[w].version = version
                              /\ mne'[w].subtracted = {content}
                              /\ w = <<w[1], p>> /\ w[1] \in Group
      BY DEF Answer, Peers, Worker
    <2>3. <<g, p>> \in Peers(p) /\ <<g, p>>[1] = g
      BY DEF Peers, Worker
    <2>4. with = {<<g, p>>}
      BY <1>2, <2>1, <2>2, <2>3
    <2>5. what = {whole}
      <3>1. \A w \in with : {<<mne'[w].version, s>> : s \in mne'[w].subtracted} = {whole}
        BY <1>2, <2>2
      <3>2. \E w \in with : TRUE
        BY <2>4
      <3> HIDE DEF with, whole
      <3>3. \A a \in what : a = whole
        BY <3>1
      <3>4. whole \in what
        BY <3>1, <3>2
      <3> QED
        BY <3>3, <3>4
    <2>6. Cardinality(with) = 1 /\ Cardinality(what) = 1
      <3> HIDE DEF with, what, whole
      <3> QED
        BY <2>4, <2>5, FS_Singleton
    <2>7. (CHOOSE m \in what : TRUE) = whole
      <3> HIDE DEF what, whole
      <3> QED
        BY <2>5
    <2>8. Subtracted(i, p)' =
              IF Cardinality(with) = 1 /\ Cardinality(what) = 1
              THEN CHOOSE m \in what : TRUE ELSE "a mixture"
      BY DEF Subtracted
    <2> HIDE DEF with, what, whole
    <2> QED
      BY <2>6, <2>7, <2>8
  <1>4. Residuals' = [x \in Image \X Position |-> Subtracted(x[1], x[2])']
    BY <1>1, <1>2 DEF Residuals
  <1>5. \A x \in Image \X Position : Subtracted(x[1], x[2])' = whole
    BY <1>3
  <1> QED
    BY <1>4, <1>5

LEMMA SameCleaning ==
    ASSUME UNCHANGED <<job, version, content, mne>>, UNCHANGED <<Enough, Finished>>
    PROVE  UNCHANGED OneProcessor!cleaningVars
  <1>1. Images' = Images /\ Parts' = Parts
    BY SameSizes DEF Images, Parts
  <1>2. Residuals' = Residuals
    <2>1. ASSUME NEW i, NEW p PROVE Subtracted(i, p)' = Subtracted(i, p)
      <3> DEFINE From(peers, ne) ==
                     LET with == {w \in peers : i \in ne[w].images}
                         what == UNION {{<<ne[w].version, s>> : s \in ne[w].subtracted} : w \in with}
                     IN  IF Cardinality(with) = 1 /\ Cardinality(what) = 1
                         THEN CHOOSE m \in what : TRUE ELSE "a mixture"
      <3>1. Subtracted(i, p) = From(Peers(p), mne) /\ Subtracted(i, p)' = From(Peers(p)', mne')
        BY DEF Subtracted
      <3> HIDE DEF From
      <3>2. Peers(p)' = Peers(p)
        BY SameSizes
      <3> QED
        BY <3>1, <3>2
    <2> QED
      BY <2>1, SameSizes DEF Residuals
  <1> QED
    BY <1>1, <1>2 DEF OneProcessor!cleaningVars

LEMMA SolveNECleans == IInv /\ SolveNE => OneProcessor!Clean
  <1> SUFFICES ASSUME IInv, SolveNE PROVE OneProcessor!Clean
    OBVIOUS
  <1>1. /\ mpc = "solve" /\ ReceiveNE /\ version' = version + 1 /\ mpc' # "over"
        /\ content' \in SUBSET Image /\ UNCHANGED job
    BY DEF SolveNE
  <1>2. /\ TypeOK /\ ~interrupted /\ DOMAIN mne' = Worker
        /\ \A w \in Worker : mne'[w] = Answer(w[1])
    BY <1>1, AllAnswer DEF IInv
  <1>3. version < MaxCycles /\ peak # "below"
    BY <1>1, <1>2, Sizes DEF IInv, MasterInStep, Stops, LeavesLoop, TypeOK
  <1>4. Residuals' = OneProcessor!Residuals
    BY <1>1, <1>2, WholeResiduals DEF OneProcessor!Residuals, Images, Parts
  <1>5. Images' = Images /\ Parts' = Parts
    BY <1>1, SameSizes DEF Images, Parts
  <1>6. Enough' \in BOOLEAN
    BY DEF Enough
  <1> QED
    BY <1>1, <1>3, <1>4, <1>5, <1>6 DEF OneProcessor!Clean, Enough, Finished, Images

LEMMA FinalResidualsFinishes == IInv /\ FinalResiduals => OneProcessor!Finish
  <1> SUFFICES ASSUME IInv, FinalResiduals PROVE OneProcessor!Finish
    OBVIOUS
  <1>1. /\ mpc = "final" /\ ReceiveNE /\ mpc' = "over"
        /\ UNCHANGED <<job, version, content, peak>>
    BY DEF FinalResiduals
  <1>2. /\ TypeOK /\ DOMAIN mne' = Worker /\ \A w \in Worker : mne'[w] = Answer(w[1])
    BY <1>1, AllAnswer DEF IInv
  <1>3. Residuals' = OneProcessor!Residuals
    BY <1>1, <1>2, WholeResiduals DEF OneProcessor!Residuals, Images, Parts
  <1>4. Images' = Images /\ Parts' = Parts
    BY <1>1, SameSizes DEF Images, Parts
  <1> QED
    BY <1>1, <1>3, <1>4 DEF OneProcessor!Finish, Enough, Finished

\* Each time the master solves, and when it is over, it has what one processor
\* would have that subtracts the whole model from all of the data, although
\* the images were dealt out and no worker has seen more than its own
\* (SynParallel.cc:124-192, ImageFFTEquation.cc:399-462, cimager.cc:149-206).
THEOREM CleaningImplemented == Spec => ImplementsCleaning
  <1>1. Init => OneProcessor!CleaningInit
    <2> SUFFICES ASSUME Init PROVE OneProcessor!CleaningInit
      OBVIOUS
    <2>1. content \subseteq Image
      BY Initially DEF IInv, TypeOK
    <2> QED
      BY <2>1 DEF Init, OneProcessor!CleaningInit, Residuals, Images, Enough, Finished
  <1>2. IInv /\ [Next]_vars =>
            [OneProcessor!Clean \/ OneProcessor!Finish]_(OneProcessor!cleaningVars)
    <2> SUFFICES ASSUME IInv, [Next]_vars
                 PROVE  \/ OneProcessor!Clean \/ OneProcessor!Finish
                        \/ UNCHANGED OneProcessor!cleaningVars
      OBVIOUS
    <2>1. ASSUME NEW w \in Worker, WorkerStep(w) PROVE UNCHANGED <<job, masterVars>>
      BY <2>1 DEF WorkerStep, ReceiveModel, StartEquations, Predict, Grid, SendNE, NextCycle
    <2>2. ASSUME NEW p \in Position, Collective(p) PROVE UNCHANGED <<job, masterVars>>
      BY <2>2 DEF Collective, AggregateFlag, Update
    <2>3. ASSUME UNCHANGED <<job, masterVars>> PROVE UNCHANGED OneProcessor!cleaningVars
      BY <2>3, SameCleaning DEF masterVars, Enough, Finished
    <2>4. ASSUME RefuseModel \/ BroadcastModel PROVE UNCHANGED OneProcessor!cleaningVars
      <3>1. /\ UNCHANGED <<job, version, content, mne, peak>>
            /\ mpc # "over" /\ mpc' # "over"
        BY <2>4 DEF RefuseModel, BroadcastModel
      <3> QED
        BY <3>1, SameCleaning DEF Enough, Finished
    <2>5. ASSUME Signal PROVE UNCHANGED OneProcessor!cleaningVars
      BY <2>5, SameCleaning DEF Signal, Enough, Finished
    <2>6. ASSUME UNCHANGED vars PROVE UNCHANGED OneProcessor!cleaningVars
      BY <2>6, <2>3 DEF vars
    <2> QED
      BY <2>1, <2>2, <2>3, <2>4, <2>5, <2>6, SolveNECleans, FinalResidualsFinishes
         DEF Next, Master
  <1> QED
    BY <1>1, <1>2, Invariance, PTL DEF Spec, ImplementsCleaning, OneProcessor!Cleans
=============================================================================
