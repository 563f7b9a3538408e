------------------------ MODULE WorkDistribution_proofs ------------------------
(***************************************************************************)
(* Proofs about WorkDistribution, for any workers and any allocation: what *)
(* is always so, and that it implements WorkDelivery.  The last part is    *)
(* about WorkAllocation, for any jobs: what its loops have done wherever   *)
(* they are, and that what they leave behind is fit to be distributed.     *)
(***************************************************************************)
EXTENDS WorkDistribution, WorkAllocation, FiniteSetTheorems, SequenceTheorems,
        WellFoundedInduction, TLAPS

-----------------------------------------------------------------------------
(* Everything but the counter is well typed by itself.                     *)

LEMMA InitTypeOK == Init => TypeOK
<1> SUFFICES ASSUME Init PROVE TypeOK
  OBVIOUS
<1>1. remainingWorkers \in Nat
  BY ConstantsAssumption, FS_CardinalityType DEF Init
<1>2. unitsLeft \in BOOLEAN
  BY Zenon DEF Init, AnyLeft
<1>3. /\ mpc \in {"loop", "body", "unitSize", "unitBody", "left"}
      /\ id \in Worker /\ wu \in Nat /\ allocated \in [Worker -> Nat]
  BY ConstantsAssumption DEF Init, DONE
<1>4. /\ requests \in [Worker -> Seq({"size", "body"})]
      /\ replies \in [Worker -> Seq(Sent)]
      /\ workUnits \in [Worker -> Seq(Nat)]
  BY DEF Init
<1>5. /\ pc \in [Worker -> {"sendSize", "sendBody", "awaitSize", "awaitBody",
                          "preprocess", "check", "barrier", "passed"}]
      /\ header \in [Worker -> Nat] /\ current \in [Worker -> Nat]
      /\ dropped \in [Worker -> SUBSET Nat]
  BY DEF Init, DONE
<1>6. aborted \in BOOLEAN
  BY DEF Init
<1> QED
  BY <1>1, <1>2, <1>3, <1>4, <1>5, <1>6 DEF TypeOK

LEMMA NextTypeOK ==
    ASSUME TypeOK, Next, remainingWorkers' \in Nat
    PROVE  TypeOK'
<1> USE DEF TypeOK
<1>1. CASE Master
  <2>1. ASSUME NEW w \in Worker, ReceiveRequestSize(w) PROVE TypeOK'
    <3>1. /\ mpc' = "body" /\ id' = w /\ requests' = [requests EXCEPT ![w] = Tail(@)]
          /\ UNCHANGED <<wu, allocated, unitsLeft, remainingWorkers, replies,
                         pc, header, current, workUnits, dropped, aborted>>
      BY <2>1 DEF ReceiveRequestSize, workerVars
    <3>2. Tail(requests[w]) \in Seq({"size", "body"})
      BY <2>1 DEF ReceiveRequestSize
    <3>3. requests' \in [Worker -> Seq({"size", "body"})]
      BY <3>1, <3>2
    <3> QED
      BY <3>1, <3>3
  <2>2. CASE ReceiveRequestBody
    <3>1. wu' \in Nat /\ allocated' \in [Worker -> Nat]
      BY <2>2 DEF ReceiveRequestBody, GetAllocation, DONE
    <3>2. unitsLeft' = unitsLeft \/ unitsLeft' = AnyLeft(allocated')
      BY <2>2 DEF ReceiveRequestBody, GetAllocation
    <3>3. unitsLeft' \in BOOLEAN
      BY <3>2, Zenon DEF AnyLeft
    <3>4. requests' \in [Worker -> Seq({"size", "body"})]
      BY <2>2 DEF ReceiveRequestBody
    <3>5. /\ mpc' = "unitSize" /\ UNCHANGED <<id, remainingWorkers, replies>>
          /\ UNCHANGED <<pc, header, current, workUnits, dropped, aborted>>
      BY <2>2 DEF ReceiveRequestBody, workerVars
    <3> QED
      BY <3>1, <3>3, <3>4, <3>5
  <2>3. CASE SendUnitSize
    BY <2>3 DEF SendUnitSize, Send, Sent, workerVars
  <2>4. CASE SendUnitBody
    BY <2>4 DEF SendUnitBody, LeftToServe, Send, Sent, workerVars
  <2>5. CASE LeaveLoop
    BY <2>5 DEF LeaveLoop, workerVars
  <2> QED
    BY <1>1, <2>1, <2>2, <2>3, <2>4, <2>5 DEF Master
<1>2. ASSUME NEW w \in Worker, WorkerStep(w) PROVE TypeOK'
  <2>1. CASE SendRequestSize(w)
    BY <2>1 DEF SendRequestSize, masterVars
  <2>2. CASE SendRequestBody(w)
    BY <2>2 DEF SendRequestBody, masterVars
  <2>3. CASE ReceiveUnitSize(w)
    <3>1. Head(replies[w]) \in Sent /\ Tail(replies[w]) \in Seq(Sent)
      BY <2>3 DEF ReceiveUnitSize
    <3> QED
      BY <2>3, <3>1 DEF ReceiveUnitSize, masterVars, Sent
  <2>4. CASE ReceiveUnitBody(w)
    <3>1. Head(replies[w]) \in Sent /\ Tail(replies[w]) \in Seq(Sent)
      BY <2>4 DEF ReceiveUnitBody
    <3> QED
      BY <2>4, <3>1 DEF ReceiveUnitBody, masterVars, Sent
  <2>5. CASE PreProcess(w)
    <3>1. <<current[w]>> \o workUnits[w] \in Seq(Nat)
      OBVIOUS
    <3>2. /\ workUnits' = [workUnits EXCEPT ![w] = <<current[w]>> \o workUnits[w]]
          /\ pc' = [pc EXCEPT ![w] = "sendSize"]
          /\ UNCHANGED <<mpc, id, wu, allocated, unitsLeft, remainingWorkers, requests,
                         replies, header, current, dropped, aborted>>
      BY <2>5 DEF PreProcess, InsertUnit, masterVars
    <3>3. workUnits' \in [Worker -> Seq(Nat)]
      BY <3>1, <3>2
    <3> QED
      BY <3>2, <3>3
  <2>6. CASE PreProcessFails(w)
    BY <2>6 DEF PreProcessFails, masterVars
  <2>7. CASE CheckHasWork(w)
    BY <2>7 DEF CheckHasWork, masterVars
  <2> QED
    BY <1>2, <2>1, <2>2, <2>3, <2>4, <2>5, <2>6, <2>7 DEF WorkerStep
<1>3. CASE PassBarrier
  BY <1>3 DEF PassBarrier, BarrierFull, masterVars
<1>4. CASE UNCHANGED vars
  BY <1>4 DEF vars, masterVars, workerVars
<1> QED
  BY <1>1, <1>2, <1>3, <1>4 DEF Next, Terminated

-----------------------------------------------------------------------------
(* The master, the queues and the workers stay in step.                    *)

LEMMA Append0 == ASSUME NEW x PROVE Append(<<>>, x) = <<x>>
  OBVIOUS

LEMMA Append1 == ASSUME NEW x, NEW y PROVE Append(<<x>>, y) = <<x, y>>
<1> DEFINE S == {x, y}
<1>1. Append(<<x>>, y) \in Seq(S) /\ <<x, y>> \in Seq(S)
  OBVIOUS
<1>2. /\ Len(Append(<<x>>, y)) = 2 /\ Len(<<x, y>>) = 2
      /\ Append(<<x>>, y)[1] = x /\ Append(<<x>>, y)[2] = y
  OBVIOUS
<1>3. \A i \in 1..Len(Append(<<x>>, y)) : Append(<<x>>, y)[i] = <<x, y>>[i]
  BY <1>2
<1> HIDE DEF S
<1> QED
  BY <1>1, <1>2, <1>3, SeqEqual

LEMMA Tail1 == ASSUME NEW x PROVE Tail(<<x>>) = <<>> /\ Head(<<x>>) = x /\ <<x>> # <<>>
  OBVIOUS

LEMMA Tail2 ==
    ASSUME NEW x, NEW y
    PROVE  Tail(<<x, y>>) = <<y>> /\ Head(<<x, y>>) = x /\ <<x, y>> # <<>>
  OBVIOUS

LEMMA AppendLast ==
    ASSUME NEW S, NEW s \in Seq(S), NEW x \in S
    PROVE  Append(s, x) # <<>> /\ Append(s, x)[Len(Append(s, x))] = x
<1>1. Len(Append(s, x)) = Len(s) + 1 /\ Append(s, x)[Len(s) + 1] = x /\ Len(s) \in Nat
  OBVIOUS
<1> QED
  BY <1>1

\* What the last message of a queue is.
LEMMA LastOfShort ==
    ASSUME NEW v
    PROVE  /\ <<Body(v)>>[Len(<<Body(v)>>)].unit = v
           /\ <<Size(v), Body(v)>>[Len(<<Size(v), Body(v)>>)].unit = v
           /\ <<Body(v)>> # <<>> /\ <<Size(v), Body(v)>> # <<>>
<1>1. Body(v).unit = v
  BY DEF Body
<1>2. /\ <<Body(v)>>[Len(<<Body(v)>>)] = Body(v)
      /\ <<Size(v), Body(v)>>[Len(<<Size(v), Body(v)>>)] = Body(v)
  OBVIOUS
<1> QED
  BY <1>1, <1>2

LEMMA InitExchange == Init => \A w \in Worker : Exchange(w)
  BY DEF Init, Exchange, Reading, Serving

LEMMA NextExchange ==
    ASSUME TypeOK, NEW w \in Worker, Exchange(w), Accounted(w), Next
    PROVE  Exchange(w)'
<1> USE DEF TypeOK, Reading, Serving, Closed
<1>1. CASE Master
  <2>1. ASSUME NEW v \in Worker, ReceiveRequestSize(v) PROVE Exchange(w)'
    <3>1. /\ mpc = "loop" /\ mpc' = "body" /\ id' = v /\ requests[v] # <<>>
          /\ requests' = [requests EXCEPT ![v] = Tail(@)]
          /\ UNCHANGED <<wu, replies, pc, header>>
      BY <2>1 DEF ReceiveRequestSize, workerVars
    <3>2. CASE v = w
      <4>1. \/ pc[w] = "sendBody" /\ requests[w] = <<"size">>
            \/ pc[w] = "awaitSize" /\ requests[w] = <<"size", "body">>
        BY <3>1, <3>2 DEF Exchange
      <4>2. replies[w] = <<>>
        BY <3>1, <3>2 DEF Exchange
      <4>3. CASE pc[w] = "sendBody" /\ requests[w] = <<"size">>
        BY <3>1, <3>2, <4>2, <4>3, Tail1 DEF Exchange
      <4>4. CASE pc[w] = "awaitSize" /\ requests[w] = <<"size", "body">>
        BY <3>1, <3>2, <4>2, <4>4, Tail2 DEF Exchange
      <4> QED
        BY <4>1, <4>3, <4>4
    <3>3. CASE v # w
      BY <3>1, <3>3 DEF Exchange
    <3> QED
      BY <3>2, <3>3
  <2>2. CASE ReceiveRequestBody
    <3>1. /\ mpc = "body" /\ mpc' = "unitSize" /\ requests[id] # <<>>
          /\ requests' = [requests EXCEPT ![id] = Tail(@)]
          /\ UNCHANGED <<id, replies, pc, header>>
      BY <2>2 DEF ReceiveRequestBody, workerVars
    <3>2. CASE id = w
      <4>1. \/ pc[w] = "sendBody" /\ requests[w] = <<>> 
            \/ pc[w] = "awaitSize" /\ requests[w] = <<"body">> /\ replies[w] = <<>>
        BY <3>1, <3>2 DEF Exchange
      <4> QED
        BY <3>1, <3>2, <4>1, Tail1 DEF Exchange
    <3>3. CASE id # w
      BY <3>1, <3>3 DEF Exchange
    <3> QED
      BY <3>2, <3>3
  <2>3. CASE SendUnitSize
    BY <2>3, Append0 DEF SendUnitSize, Send, workerVars, Exchange, Size
  <2>4. CASE SendUnitBody
    <3>1. CASE id = w
      <4>1. wu \in Payload(w)
        BY <2>4, <3>1, ConstantsAssumption
        DEF SendUnitBody, Accounted, Underway, Payload, Position, DONE
      <4>2. requests[w] = <<>> /\ mpc' = "loop" /\ UNCHANGED <<requests, pc, header>>
        BY <2>4, <3>1 DEF SendUnitBody, workerVars, Exchange
      <4>3. CASE pc[w] = "awaitSize" /\ replies[w] = <<Size(wu)>>
        <5>1. replies'[w] = <<Size(wu), Body(wu)>>
          BY <2>4, <3>1, <4>3, Append1 DEF SendUnitBody, Send, Size, Body
        <5> QED
          BY <4>1, <4>2, <4>3, <5>1, <2>4, ConstantsAssumption DEF Exchange, Payload, Position
      <4>4. CASE pc[w] = "awaitBody" /\ header[w] = wu /\ replies[w] = <<>>
        <5>1. replies'[w] = <<Body(wu)>>
          BY <2>4, <3>1, <4>4, Append0 DEF SendUnitBody, Send, Body
        <5> QED
          BY <4>2, <4>4, <5>1 DEF Exchange
      <4> QED
        BY <2>4, <3>1, <4>3, <4>4 DEF SendUnitBody, Exchange
    <3>2. CASE id # w
      BY <2>4, <3>2 DEF SendUnitBody, Send, workerVars, Exchange
    <3> QED
      BY <3>1, <3>2
  <2>5. CASE LeaveLoop
    BY <2>5 DEF LeaveLoop, workerVars, Exchange
  <2> QED
    BY <1>1, <2>1, <2>2, <2>3, <2>4, <2>5 DEF Master
<1>2. ASSUME NEW v \in Worker, WorkerStep(v) PROVE Exchange(w)'
  <2>1. CASE SendRequestSize(v)
    BY <2>1, Append0 DEF SendRequestSize, masterVars, Exchange
  <2>2. CASE SendRequestBody(v)
    BY <2>2, Append0, Append1 DEF SendRequestBody, masterVars, Exchange
  <2>3. CASE ReceiveUnitSize(v)
    <3>1. CASE v = w
      <4>1. \/ Serving(w) /\ mpc = "unitBody" /\ replies[w] = <<Size(wu)>>
            \/ /\ ~Reading(w) /\ ~Serving(w)
               /\ \E u \in Payload(w) : replies[w] = <<Size(u), Body(u)>>
        BY <2>3, <3>1 DEF ReceiveUnitSize, Exchange
      <4>2. CASE Serving(w) /\ mpc = "unitBody" /\ replies[w] = <<Size(wu)>>
        BY <2>3, <3>1, <4>2, Tail1 DEF ReceiveUnitSize, masterVars, Exchange, Size
      <4>3. ASSUME ~Reading(w), ~Serving(w), NEW u \in Payload(w),
                   replies[w] = <<Size(u), Body(u)>>
            PROVE  Exchange(w)'
        <5>1. Head(replies[w]).unit = u /\ Tail(replies[w]) = <<Body(u)>>
          BY <4>3, Tail2 DEF Size
        <5> QED
          BY <2>3, <3>1, <4>3, <5>1 DEF ReceiveUnitSize, masterVars, Exchange
      <4> QED
        BY <4>1, <4>2, <4>3
    <3>2. CASE v # w
      BY <2>3, <3>2 DEF ReceiveUnitSize, masterVars, Exchange
    <3> QED
      BY <3>1, <3>2
  <2>4. CASE ReceiveUnitBody(v)
    BY <2>4, Tail1 DEF ReceiveUnitBody, masterVars, Exchange
  <2>5. CASE PreProcess(v)
    BY <2>5 DEF PreProcess, masterVars, Exchange
  <2>6. CASE PreProcessFails(v)
    BY <2>6 DEF PreProcessFails, masterVars, Exchange
  <2>7. CASE CheckHasWork(v)
    BY <2>7 DEF CheckHasWork, masterVars, Exchange
  <2> QED
    BY <1>2, <2>1, <2>2, <2>3, <2>4, <2>5, <2>6, <2>7 DEF WorkerStep
<1>3. CASE PassBarrier
  BY <1>3 DEF PassBarrier, BarrierFull, masterVars, Exchange
<1>4. CASE UNCHANGED vars
  BY <1>4 DEF vars, masterVars, workerVars, Exchange
<1> QED
  BY <1>1, <1>2, <1>3, <1>4 DEF Next, Terminated

-----------------------------------------------------------------------------
(* No unit is lost or handed out twice.                                    *)

Elements(s) == {s[i] : i \in 1..Len(s)}

LEMMA ElementsOfInsert ==
    ASSUME NEW S, NEW x \in S, NEW s \in Seq(S)
    PROVE  Elements(<<x>> \o s) = Elements(s) \cup {x}
<1> DEFINE t == <<x>> \o s
<1>1. /\ Len(s) \in Nat /\ Len(t) = Len(s) + 1 /\ t[1] = x
      /\ \A i \in 1..Len(s) : t[i + 1] = s[i]
  OBVIOUS
<1> HIDE DEF t
<1>2. ASSUME NEW i \in 1..Len(t)
      PROVE  t[i] \in Elements(s) \cup {x}
  <2>1. CASE i = 1
    BY <1>1, <2>1
  <2>2. CASE i # 1
    <3>1. i - 1 \in 1..Len(s) /\ (i - 1) + 1 = i
      BY <1>1, <2>2
    <3>2. t[i] = s[i - 1]
      BY <1>1, <3>1
    <3> QED
      BY <3>1, <3>2 DEF Elements
  <2> QED
    BY <2>1, <2>2
<1>3. ASSUME NEW i \in 1..Len(s)
      PROVE  s[i] \in Elements(t)
  <2>1. i + 1 \in 1..Len(t) /\ t[i + 1] = s[i]
    BY <1>1
  <2> QED
    BY <2>1 DEF Elements
<1>4. x \in Elements(t)
  <2>1. 1 \in 1..Len(t)
    BY <1>1
  <2> QED
    BY <1>1, <2>1 DEF Elements
<1>5. Elements(t) \subseteq Elements(s) \cup {x}
  BY <1>2 DEF Elements
<1>6. Elements(s) \subseteq Elements(t)
  BY <1>3 DEF Elements
<1>7. Elements(t) = Elements(s) \cup {x}
  BY <1>4, <1>5, <1>6
<1> QED
  BY <1>7 DEF t

LEMMA GotInsert ==
    ASSUME NEW w \in Worker, current[w] \in Nat, workUnits[w] \in Seq(Nat),
           workUnits'[w] = <<current[w]>> \o workUnits[w]
    PROVE  Got(w)' = Got(w) \cup {current[w]}
<1>1. Elements(workUnits'[w]) = Elements(workUnits[w]) \cup {current[w]}
  BY ElementsOfInsert
<1> QED
  BY <1>1 DEF Got, Elements

LEMMA LastReply ==
    ASSUME NEW w \in Worker, replies[w] \in Seq(Sent), wu \in Nat,
           replies'[w] = Append(replies[w], Body(wu))
    PROVE  replies'[w] # <<>> /\ replies'[w][Len(replies'[w])].unit = wu
<1>1. Body(wu) \in Sent /\ Body(wu).unit = wu
  BY DEF Sent, Body
<1> QED
  BY <1>1, AppendLast

\* Accounted depends on a few facts about w only.
LEMMA AccountedStable ==
    ASSUME NEW w \in Worker, Accounted(w),
           allocated'[w] = allocated[w],
           workUnits'[w] = workUnits[w], dropped'[w] = dropped[w],
           Underway(w)' = Underway(w),
           Underway(w) = DONE /\ (Answered(w)' \/ pc'[w] \in Closed) =>
               Answered(w) \/ pc[w] \in Closed,
           pc'[w] = "preprocess" => Underway(w) # DONE
    PROVE  Accounted(w)'
  BY DEF Accounted, Got, Position, DONE

\* The part of Accounted that is about numbers.
LEMMA AccountedBounds ==
    ASSUME TypeOK, NEW w \in Worker, Accounted(w)
    PROVE  /\ allocated[w] \in Nat /\ UnitCount[w] \in Nat /\ allocated[w] <= UnitCount[w]
           /\ Underway(w) # DONE =>
                 Underway(w) = allocated[w] + 1 /\ Underway(w) <= UnitCount[w]
<1>1. allocated[w] \in Nat /\ UnitCount[w] \in Nat
  BY ConstantsAssumption DEF TypeOK
<1> QED
  BY <1>1 DEF Accounted

LEMMA InitAccounted == Init => \A w \in Worker : Accounted(w)
<1> SUFFICES ASSUME Init, NEW w \in Worker PROVE Accounted(w)
  OBVIOUS
<1>1. /\ allocated[w] = UnitCount[w] /\ UnitCount[w] \in Nat
      /\ Underway(w) = DONE /\ ~Answered(w) /\ pc[w] = "sendSize"
  BY ConstantsAssumption DEF Init, Underway, Answered, Serving
<1>2. Got(w) = {} /\ dropped[w] = {}
  BY DEF Init, Got
<1> QED
  BY <1>1, <1>2 DEF Accounted, Position, Closed, DONE

LEMMA NextAccounted ==
    ASSUME TypeOK, NEW w \in Worker, Exchange(w), Accounted(w), Next
    PROVE  Accounted(w)'
<1> USE DEF TypeOK
<1>1. CASE Master
  <2>1. ASSUME NEW v \in Worker, ReceiveRequestSize(v) PROVE Accounted(w)'
    <3>1. /\ mpc = "loop" /\ mpc' = "body"
          /\ UNCHANGED <<wu, allocated, replies, pc, current, workUnits, dropped>>
      BY <2>1 DEF ReceiveRequestSize, workerVars
    <3> QED
      BY <3>1, AccountedStable DEF Underway, Answered, Serving, Accounted, Reading
  <2>2. CASE ReceiveRequestBody
    <3>1. /\ mpc = "body" /\ mpc' = "unitSize"
          /\ UNCHANGED <<id, replies, pc, current, workUnits, dropped>>
          /\ GetAllocation(id) /\ requests[id] # <<>>
      BY <2>2 DEF ReceiveRequestBody, workerVars
    <3>2. CASE id = w
      <4>1. /\ replies[w] = <<>> /\ pc[w] \in {"sendBody", "awaitSize"} /\ ~Serving(w)
        BY <3>1, <3>2 DEF Exchange, Reading, Serving
      <4>2. Underway(w) = DONE /\ Serving(w)' /\ Underway(w)' = wu'
        BY <3>1, <3>2, <4>1 DEF Underway, Serving, Answered
      <4>3. CASE allocated[w] = 0 /\ wu' = DONE /\ allocated' = allocated
        <5>1. /\ Underway(w)' = Underway(w) /\ allocated'[w] = allocated[w] /\ allocated[w] = 0
              /\ pc'[w] # "preprocess"
          BY <3>1, <4>1, <4>2, <4>3
        <5>2. Got(w)' = Got(w) /\ dropped'[w] = dropped[w]
          BY <3>1 DEF Got
        <5> QED
          BY <5>1, <5>2 DEF Accounted, Position
      <4>4. CASE /\ allocated[w] > 0 /\ wu' = allocated[w]
                 /\ allocated' = [allocated EXCEPT ![w] = @ - 1]
        <5>a. /\ allocated[w] \in Nat /\ UnitCount[w] \in Nat
              /\ allocated[w] <= UnitCount[w]
          BY AccountedBounds
        <5>b. allocated'[w] = allocated[w] - 1
          BY <4>4
        <5>1. /\ allocated'[w] = allocated[w] - 1 /\ wu' = allocated'[w] + 1
              /\ wu' <= UnitCount[w] /\ wu' # DONE /\ UnitCount[w] \in Nat
          BY ONLY <4>4, <5>a, <5>b DEF DONE
        <5>2. Got(w)' = Got(w) /\ dropped'[w] = dropped[w]
          BY <3>1 DEF Got
        <5>3. {u \in Position(w) : u > allocated[w] /\ u # DONE} =
              {u \in Position(w) : u > allocated'[w] /\ u # wu'}
          BY <5>1 DEF Position, DONE
        <5> QED
          BY <3>1, <4>1, <4>2, <5>1, <5>2, <5>3 DEF Accounted, Position
      <4> QED
        BY <3>1, <3>2, <4>3, <4>4 DEF GetAllocation
    <3>3. CASE id # w
      <4>1. allocated'[w] = allocated[w]
        BY <3>1, <3>3 DEF GetAllocation
      <4> QED
        BY <3>1, <3>3, <4>1, AccountedStable DEF Underway, Answered, Serving, Accounted
    <3> QED
      BY <3>2, <3>3
  <2>3. CASE SendUnitSize
    <3>1. /\ mpc = "unitSize" /\ mpc' = "unitBody" /\ Send(id, "size")
          /\ UNCHANGED <<id, wu, allocated, pc, current, workUnits, dropped>>
      BY <2>3 DEF SendUnitSize, workerVars
    <3> QED
      BY <3>1, AccountedStable DEF Underway, Answered, Serving, Accounted, Send
  <2>4. CASE SendUnitBody
    <3>1. /\ mpc = "unitBody" /\ mpc' = "loop" /\ Send(id, "body")
          /\ UNCHANGED <<id, wu, allocated, pc, current, workUnits, dropped>>
      BY <2>4 DEF SendUnitBody, workerVars
    <3>2. CASE id = w
      <4>1. replies'[w] # <<>> /\ replies'[w][Len(replies'[w])].unit = wu
        <5>1. replies'[w] = Append(replies[w], Body(wu)) /\ replies[w] \in Seq(Sent)
          BY <3>1, <3>2 DEF Send, Body
        <5> QED
          BY <5>1, LastReply
      <4>2. Underway(w)' = wu /\ Underway(w) = wu /\ Answered(w)
        BY <3>1, <3>2, <4>1 DEF Underway, Answered, Serving
      <4> QED
        BY <3>1, <4>2, AccountedStable DEF Accounted
    <3>3. CASE id # w
      BY <3>1, <3>3, AccountedStable DEF Underway, Answered, Serving, Accounted, Send
    <3> QED
      BY <3>2, <3>3
  <2>5. CASE LeaveLoop
    <3>1. /\ mpc = "loop" /\ mpc' = "left"
          /\ UNCHANGED <<id, wu, allocated, replies, pc, current, workUnits, dropped>>
      BY <2>5 DEF LeaveLoop, workerVars
    <3> QED
      BY <3>1, AccountedStable DEF Underway, Answered, Serving, Accounted
  <2> QED
    BY <1>1, <2>1, <2>2, <2>3, <2>4, <2>5 DEF Master
<1>2. ASSUME NEW v \in Worker, WorkerStep(v) PROVE Accounted(w)'
  <2>1. CASE SendRequestSize(v)
    BY <2>1, AccountedStable
    DEF SendRequestSize, masterVars, Underway, Answered, Serving, Accounted, Closed
  <2>2. CASE SendRequestBody(v)
    BY <2>2, AccountedStable
    DEF SendRequestBody, masterVars, Underway, Answered, Serving, Accounted, Closed
  <2>3. CASE ReceiveUnitSize(v)
    <3>1. /\ pc[v] = "awaitSize" /\ pc' = [pc EXCEPT ![v] = "awaitBody"]
          /\ replies[v] # <<>> /\ replies' = [replies EXCEPT ![v] = Tail(@)]
          /\ UNCHANGED <<mpc, id, wu, allocated, current, workUnits, dropped>>
      BY <2>3 DEF ReceiveUnitSize, masterVars
    <3>2. CASE v = w
      <4>1. CASE Serving(w)
        BY <3>1, <3>2, <4>1, AccountedStable
        DEF Underway, Answered, Serving, Accounted, Closed
      <4>2. CASE ~Serving(w)
        <5>1. PICK u \in Payload(w) : replies[w] = <<Size(u), Body(u)>>
          BY <3>1, <3>2, <4>2 DEF Exchange
        <5>2. replies'[w] = <<Body(u)>>
          BY <3>1, <3>2, <5>1, Tail2
        <5>3. /\ Body(u).unit = u /\ replies[w] # <<>> /\ replies'[w] # <<>>
              /\ replies[w][Len(replies[w])] = Body(u)
              /\ replies'[w][Len(replies'[w])] = Body(u)
          BY <5>1, <5>2 DEF Body
        <5>4. ~Serving(w)'
          BY <3>1, <4>2 DEF Serving
        <5>5. Underway(w) = u /\ Underway(w)' = u /\ Answered(w)
          BY <4>2, <5>3, <5>4 DEF Underway, Answered
        <5> QED
          BY <3>1, <3>2, <5>5, AccountedStable DEF Accounted, Closed
      <4> QED
        BY <4>1, <4>2
    <3>3. CASE v # w
      BY <3>1, <3>3, AccountedStable DEF Underway, Answered, Serving, Accounted
    <3> QED
      BY <3>2, <3>3
  <2>4. CASE ReceiveUnitBody(v)
    <3>1. /\ pc[v] = "awaitBody" /\ replies[v] # <<>>
          /\ pc' = [pc EXCEPT ![v] = IF Head(replies[v]).unit = DONE THEN "check" ELSE "preprocess"]
          /\ current' = [current EXCEPT ![v] = Head(replies[v]).unit]
          /\ replies' = [replies EXCEPT ![v] = Tail(@)]
          /\ UNCHANGED <<mpc, id, wu, allocated, workUnits, dropped>>
      BY <2>4 DEF ReceiveUnitBody, masterVars
    <3>2. CASE v = w
      <4>1. ~Serving(w) /\ replies[w] = <<Body(header[w])>>
        BY <3>1, <3>2 DEF Exchange
      <4>2. Underway(w) = header[w] /\ Head(replies[w]).unit = header[w] /\ Answered(w)
        BY <3>1, <3>2, <4>1 DEF Underway, Answered, Body
      <4>3. replies'[w] = <<>> /\ current'[w] = header[w] /\ ~Serving(w)'
        BY <3>1, <3>2, <4>1, <4>2, Tail1 DEF Serving
      <4>4. pc'[w] = IF header[w] = DONE THEN "check" ELSE "preprocess"
        BY <3>1, <3>2, <4>2
      <4>5. Underway(w)' = header[w]
        BY <4>3, <4>4 DEF Underway, DONE
      <4> QED
        BY <3>1, <4>2, <4>4, <4>5, AccountedStable
    <3>3. CASE v # w
      BY <3>1, <3>3, AccountedStable DEF Underway, Answered, Serving, Accounted
    <3> QED
      BY <3>2, <3>3
  <2>5. CASE PreProcess(v) \/ PreProcessFails(v)
    <3>1. /\ pc[v] = "preprocess" /\ pc' = [pc EXCEPT ![v] = "sendSize"]
          /\ UNCHANGED <<mpc, id, wu, allocated, replies, current>>
      BY <2>5 DEF PreProcess, PreProcessFails, masterVars
    <3>2. CASE v = w
      <4>1. ~Serving(w) /\ replies[w] = <<>>
        BY <3>1, <3>2 DEF Exchange, Closed
      <4>2. /\ Underway(w) = current[w] /\ Underway(w)' = DONE
            /\ ~Answered(w)' /\ pc'[w] = "sendSize"
        BY <3>1, <3>2, <4>1 DEF Underway, Answered, Serving
      <4>3. /\ current[w] \in Position(w) /\ current[w] = allocated[w] + 1
            /\ current[w] # DONE /\ current[w] \notin Got(w) \cup dropped[w]
            /\ UnitCount[w] \in Nat /\ allocated[w] \in Nat
        <5>1. Underway(w) # DONE
          BY <3>1, <3>2 DEF Accounted
        <5>2. /\ current[w] = allocated[w] + 1 /\ current[w] <= UnitCount[w]
              /\ UnitCount[w] \in Nat /\ allocated[w] \in Nat /\ current[w] # DONE
          BY <4>2, <5>1, AccountedBounds
        <5>3. current[w] \notin Got(w) \cup dropped[w]
          BY <4>2 DEF Accounted
        <5> QED
          BY <5>2, <5>3 DEF Position
      <4>4. \/ Got(w)' = Got(w) \cup {current[w]} /\ dropped'[w] = dropped[w]
            \/ Got(w)' = Got(w) /\ dropped'[w] = dropped[w] \cup {current[w]}
        <5>1. CASE PreProcess(v)
          <6>1. workUnits'[w] = <<current[w]>> \o workUnits[w] /\ dropped' = dropped
            BY <3>2, <5>1 DEF PreProcess, InsertUnit
          <6>2. current[w] \in Nat /\ workUnits[w] \in Seq(Nat)
            OBVIOUS
          <6> QED
            BY <6>1, <6>2, GotInsert
        <5>2. CASE PreProcessFails(v)
          BY <3>2, <5>2 DEF PreProcessFails, Got
        <5> QED
          BY <2>5, <5>1, <5>2
      <4>5. {u \in Position(w) : u > allocated[w] /\ u # current[w]} \cup {current[w]} =
            {u \in Position(w) : u > allocated[w] /\ u # DONE}
        BY ONLY <4>3 DEF Position, DONE
      <4>6. /\ Got(w)' \cup dropped'[w] = {u \in Position(w) : u > allocated[w] /\ u # DONE}
            /\ Got(w)' \cap dropped'[w] = {}
        <5> DEFINE Before == {u \in Position(w) : u > allocated[w] /\ u # current[w]}
                   After == {u \in Position(w) : u > allocated[w] /\ u # DONE}
        <5>1. Got(w) \cup dropped[w] = Before /\ Got(w) \cap dropped[w] = {}
          BY <4>2 DEF Accounted
        <5>2. Before \cup {current[w]} = After
          BY <4>5
        <5> HIDE DEF Before, After
        <5>3. Got(w)' \cup dropped'[w] = After /\ Got(w)' \cap dropped'[w] = {}
          BY ONLY <4>3, <4>4, <5>1, <5>2
        <5> QED
          BY <5>3 DEF After
      <4> QED
        BY <3>1, <4>2, <4>6 DEF Accounted, Position, Closed
    <3>3. CASE v # w
      <4>1. workUnits'[w] = workUnits[w] /\ dropped'[w] = dropped[w]
        BY <2>5, <3>3 DEF PreProcess, PreProcessFails
      <4> QED
        BY <3>1, <3>3, <4>1, AccountedStable DEF Underway, Answered, Serving, Accounted
    <3> QED
      BY <3>2, <3>3
  <2>6. CASE CheckHasWork(v)
    <3>1. /\ pc[v] = "check" /\ (pc' = pc \/ pc' = [pc EXCEPT ![v] = "barrier"])
          /\ UNCHANGED <<mpc, id, wu, allocated, replies, current, workUnits, dropped>>
      BY <2>6 DEF CheckHasWork, masterVars
    <3> QED
      BY <3>1, AccountedStable DEF Underway, Answered, Serving, Accounted, Closed
  <2> QED
    BY <1>2, <2>1, <2>2, <2>3, <2>4, <2>5, <2>6 DEF WorkerStep
<1>3. CASE PassBarrier
  BY <1>3, AccountedStable
  DEF PassBarrier, BarrierFull, masterVars, Underway, Answered, Serving, Accounted, Closed
<1>4. CASE UNCHANGED vars
  BY <1>4, AccountedStable
  DEF vars, masterVars, workerVars, Underway, Answered, Serving, Accounted
<1> QED
  BY <1>1, <1>2, <1>3, <1>4 DEF Next, Terminated

-----------------------------------------------------------------------------
(* The counters of the master's loop.                                      *)

Untold == {w \in Worker : ~Told(w)}

LEMMA WorkersAreFinite ==
    ASSUME NEW S \in SUBSET Worker
    PROVE  IsFiniteSet(S) /\ Cardinality(S) \in Nat
<1>1. IsFiniteSet(S)
  BY ConstantsAssumption, FS_Subset
<1> QED
  BY <1>1, FS_CardinalityType

\* A step tells the worker it sends the body of DONE to, and nobody else.
LEMMA NextTold ==
    ASSUME TypeOK, NEW w \in Worker, Exchange(w), Accounted(w), Next
    PROVE  Told(w)' <=> Told(w) \/ (SendUnitBody /\ id = w /\ wu = DONE)
<1> USE DEF TypeOK
<1>1. CASE Master
  <2>1. ASSUME NEW v \in Worker, ReceiveRequestSize(v)
        PROVE  (Told(w)' <=> Told(w)) /\ mpc # "unitBody"
    BY <2>1 DEF ReceiveRequestSize, workerVars, Told, Underway, Serving
  <2>2. CASE ReceiveRequestBody
    <3>1. /\ mpc = "body" /\ mpc' = "unitSize" /\ requests[id] # <<>>
          /\ UNCHANGED <<id, replies, pc, current>>
      BY <2>2 DEF ReceiveRequestBody, workerVars
    <3>2. ~SendUnitBody
      BY <3>1 DEF SendUnitBody
    <3>3. CASE id = w
      <4>1. replies[w] = <<>> /\ pc[w] \in {"sendBody", "awaitSize"}
        BY <3>1, <3>3 DEF Exchange, Reading, Serving
      <4> QED
        BY <3>1, <3>2, <4>1 DEF Told, Closed
    <3>4. CASE id # w
      BY <3>1, <3>2, <3>4 DEF Told, Underway, Serving
    <3> QED
      BY <3>3, <3>4
  <2>3. CASE SendUnitSize
    <3>1. /\ mpc = "unitSize" /\ mpc' = "unitBody" /\ Send(id, "size")
          /\ UNCHANGED <<id, wu, pc, current>>
      BY <2>3 DEF SendUnitSize, workerVars
    <3>2. ~SendUnitBody
      BY <3>1 DEF SendUnitBody
    <3> QED
      BY <3>1, <3>2 DEF Told, Underway, Serving, Send
  <2>4. CASE SendUnitBody
    <3>1. /\ mpc = "unitBody" /\ mpc' = "loop" /\ Send(id, "body")
          /\ UNCHANGED <<id, wu, pc, current>>
      BY <2>4 DEF SendUnitBody, workerVars
    <3>2. CASE id = w
      <4>1. replies'[w] = Append(replies[w], Body(wu)) /\ replies[w] \in Seq(Sent)
        BY <3>1, <3>2 DEF Send, Body
      <4>2. replies'[w] # <<>> /\ replies'[w][Len(replies'[w])].unit = wu
        BY <4>1, LastReply
      <4>3. Underway(w)' = wu /\ ~Serving(w)' /\ Serving(w)
        BY <3>1, <3>2, <4>2 DEF Underway, Serving
      <4>4. pc[w] \notin Closed
        BY <4>3 DEF Exchange, Closed
      <4> QED
        BY <2>4, <3>1, <3>2, <4>2, <4>3, <4>4 DEF Told
    <3>3. CASE id # w
      BY <3>1, <3>3 DEF Told, Underway, Serving, Send
    <3> QED
      BY <3>2, <3>3
  <2>5. CASE LeaveLoop
    <3>1. mpc # "unitBody"
      BY <2>5 DEF LeaveLoop
    <3> QED
      BY <2>5, <3>1 DEF LeaveLoop, workerVars, Told, Underway, Serving, SendUnitBody
  <2>6. mpc # "unitBody" => ~SendUnitBody
    BY DEF SendUnitBody
  <2> QED
    BY <1>1, <2>1, <2>2, <2>3, <2>4, <2>5, <2>6 DEF Master
<1>2. ASSUME NEW v \in Worker, WorkerStep(v) PROVE (Told(w)' <=> Told(w)) /\ ~SendUnitBody
  <2>0. ASSUME mpc' = mpc PROVE ~SendUnitBody
    BY <2>0 DEF SendUnitBody
  <2>1. CASE SendRequestSize(v)
    BY <2>0, <2>1 DEF SendRequestSize, masterVars, Told, Underway, Serving, Closed
  <2>2. CASE SendRequestBody(v)
    BY <2>0, <2>2 DEF SendRequestBody, masterVars, Told, Underway, Serving, Closed
  <2>3. CASE ReceiveUnitSize(v)
    <3>1. /\ pc[v] = "awaitSize" /\ pc' = [pc EXCEPT ![v] = "awaitBody"]
          /\ replies[v] # <<>> /\ replies' = [replies EXCEPT ![v] = Tail(@)]
          /\ UNCHANGED <<mpc, id, wu, current>>
      BY <2>3 DEF ReceiveUnitSize, masterVars
    <3>2. CASE v = w
      <4>1. CASE Serving(w)
        BY <2>0, <3>1, <3>2, <4>1 DEF Told, Serving, Closed
      <4>2. CASE ~Serving(w)
        <5>1. PICK u \in Payload(w) : replies[w] = <<Size(u), Body(u)>>
          BY <3>1, <3>2, <4>2 DEF Exchange
        <5>2. replies'[w] = <<Body(u)>>
          BY <3>1, <3>2, <5>1, Tail2
        <5>3. /\ Body(u).unit = u /\ replies[w] # <<>> /\ replies'[w] # <<>>
              /\ replies[w][Len(replies[w])] = Body(u)
              /\ replies'[w][Len(replies'[w])] = Body(u)
          BY <5>1, <5>2 DEF Body
        <5>4. ~Serving(w)'
          BY <3>1, <4>2 DEF Serving
        <5>5. Underway(w) = u /\ Underway(w)' = u
          BY <4>2, <5>3, <5>4 DEF Underway
        <5> QED
          BY <2>0, <3>1, <3>2, <4>2, <5>3, <5>4, <5>5 DEF Told, Closed
      <4> QED
        BY <4>1, <4>2
    <3>3. CASE v # w
      BY <2>0, <3>1, <3>3 DEF Told, Underway, Serving
    <3> QED
      BY <3>2, <3>3
  <2>4. CASE ReceiveUnitBody(v)
    <3>1. /\ pc[v] = "awaitBody" /\ replies[v] # <<>>
          /\ pc' = [pc EXCEPT ![v] = IF Head(replies[v]).unit = DONE THEN "check" ELSE "preprocess"]
          /\ replies' = [replies EXCEPT ![v] = Tail(@)]
          /\ UNCHANGED <<mpc, id, wu>> /\ (v # w => current'[w] = current[w])
      BY <2>4 DEF ReceiveUnitBody, masterVars
    <3>2. CASE v = w
      <4>1. ~Serving(w) /\ replies[w] = <<Body(header[w])>>
        BY <3>1, <3>2 DEF Exchange
      <4>2. Underway(w) = header[w] /\ Head(replies[w]).unit = header[w] /\ replies[w] # <<>>
        BY <3>1, <3>2, <4>1 DEF Underway, Body
      <4>3. replies'[w] = <<>>
        BY <3>1, <3>2, <4>1, Tail1
      <4>4. pc'[w] = IF header[w] = DONE THEN "check" ELSE "preprocess"
        BY <3>1, <3>2, <4>2
      <4> QED
        BY <2>0, <3>1, <3>2, <4>1, <4>2, <4>3, <4>4 DEF Told, Closed
    <3>3. CASE v # w
      BY <2>0, <3>1, <3>3 DEF Told, Underway, Serving
    <3> QED
      BY <3>2, <3>3
  <2>5. CASE PreProcess(v) \/ PreProcessFails(v)
    <3>1. /\ pc[v] = "preprocess" /\ pc' = [pc EXCEPT ![v] = "sendSize"]
          /\ UNCHANGED <<mpc, id, wu, replies, current>>
      BY <2>5 DEF PreProcess, PreProcessFails, masterVars
    <3>2. CASE v = w
      <4>1. replies[w] = <<>>
        BY <3>1, <3>2 DEF Exchange, Closed
      <4> QED
        BY <2>0, <3>1, <3>2, <4>1 DEF Told, Closed
    <3>3. CASE v # w
      BY <2>0, <3>1, <3>3 DEF Told, Underway, Serving
    <3> QED
      BY <3>2, <3>3
  <2>6. CASE CheckHasWork(v)
    <3>1. /\ pc[v] = "check" /\ (pc' = pc \/ pc' = [pc EXCEPT ![v] = "barrier"])
          /\ UNCHANGED <<mpc, id, wu, replies, current>>
      BY <2>6 DEF CheckHasWork, masterVars
    <3> QED
      BY <2>0, <3>1 DEF Told, Underway, Serving, Closed
  <2> QED
    BY <1>2, <2>1, <2>2, <2>3, <2>4, <2>5, <2>6 DEF WorkerStep
<1>3. CASE PassBarrier
  BY <1>3 DEF PassBarrier, BarrierFull, masterVars, Told, Underway, Serving, Closed, SendUnitBody
<1>4. CASE UNCHANGED vars
  BY <1>4 DEF vars, masterVars, workerVars, Told, Underway, Serving, SendUnitBody
<1> QED
  BY <1>1, <1>2, <1>3, <1>4 DEF Next, Terminated

LEMMA InitCounted == Init => Counted
<1> SUFFICES ASSUME Init PROVE Counted
  OBVIOUS
<1>1. ASSUME NEW w \in Worker PROVE ~Told(w)
  BY DEF Init, Told, Closed
<1>2. {w \in Worker : ~Told(w)} = Worker
  BY <1>1
<1>3. unitsLeft = AnyLeft(allocated) /\ mpc = "loop"
  BY DEF Init
<1>4. remainingWorkers = Cardinality(Worker)
  BY DEF Init
<1> QED
  BY <1>2, <1>3, <1>4 DEF Counted

LEMMA NextCounted ==
    ASSUME TypeOK, \A w \in Worker : Exchange(w) /\ Accounted(w), Counted, Next
    PROVE  Counted' /\ remainingWorkers' \in Nat
<1>1. unitsLeft' = AnyLeft(allocated')
  <2>1. CASE ReceiveRequestBody
    BY <2>1, Zenon DEF ReceiveRequestBody, GetAllocation, Counted
  <2>2. CASE ~ReceiveRequestBody
    <3>1. unitsLeft' = unitsLeft /\ allocated' = allocated
      BY <2>2 DEF Next, Master, WorkerStep, Terminated, vars, masterVars, workerVars,
         ReceiveRequestSize, SendUnitSize, SendUnitBody, LeaveLoop, SendRequestSize,
         SendRequestBody, ReceiveUnitSize, ReceiveUnitBody, PreProcess, PreProcessFails,
         CheckHasWork, PassBarrier, BarrierFull
    <3> QED
      BY <3>1 DEF Counted
  <2> QED
    BY <2>1, <2>2
<1>2. remainingWorkers' = Cardinality(Untold')
  <2>1. CASE SendUnitBody /\ wu = DONE
    <3>1. id \in Untold
      <4>1. id \in Worker /\ Serving(id)
        BY <2>1 DEF SendUnitBody, Serving, TypeOK
      <4>2. pc[id] \notin Closed
        BY <4>1 DEF Exchange, Closed
      <4> QED
        BY <4>1, <4>2 DEF Untold, Told
    <3>2. Untold' = Untold \ {id}
      BY <2>1, NextTold DEF Untold
    <3>3. IsFiniteSet(Untold)
      BY WorkersAreFinite DEF Untold
    <3>4. Cardinality(Untold') = Cardinality(Untold) - 1
      BY <3>1, <3>2, <3>3, FS_RemoveElement
    <3>5. remainingWorkers' = remainingWorkers - 1
      BY <2>1 DEF SendUnitBody, LeftToServe
    <3> QED
      BY <3>4, <3>5 DEF Counted, Untold
  <2>2. CASE ~(SendUnitBody /\ wu = DONE)
    <3>1. Untold' = Untold
      BY <2>2, NextTold DEF Untold
    <3>2. remainingWorkers' = remainingWorkers
      BY <2>2 DEF Next, Master, WorkerStep, Terminated, vars, masterVars, workerVars,
         ReceiveRequestSize, ReceiveRequestBody, SendUnitSize, SendUnitBody, LeftToServe, LeaveLoop,
         SendRequestSize, SendRequestBody, ReceiveUnitSize, ReceiveUnitBody, PreProcess,
         PreProcessFails, CheckHasWork, PassBarrier, BarrierFull
    <3> QED
      BY <3>1, <3>2 DEF Counted, Untold
  <2> QED
    BY <2>1, <2>2
<1>3. mpc' = "left" => ~unitsLeft' /\ remainingWorkers' = 0
  <2>1. CASE LeaveLoop
    <3>1. /\ ~unitsLeft /\ ~(remainingWorkers > 0)
          /\ UNCHANGED <<unitsLeft, remainingWorkers>>
      BY <2>1 DEF LeaveLoop, MoreToDo
    <3>2. remainingWorkers = 0
      BY <3>1 DEF TypeOK
    <3> QED
      BY <3>1, <3>2, Zenon
  <2>2. CASE ~LeaveLoop /\ mpc' = "left"
    <3>1. mpc = "left" /\ UNCHANGED <<unitsLeft, remainingWorkers>>
      BY <2>2 DEF Next, Master, WorkerStep, Terminated, vars, masterVars, workerVars,
         ReceiveRequestSize, ReceiveRequestBody, SendUnitSize, SendUnitBody,
         SendRequestSize, SendRequestBody, ReceiveUnitSize, ReceiveUnitBody, PreProcess,
         PreProcessFails, CheckHasWork, PassBarrier, BarrierFull
    <3> QED
      BY <3>1, Zenon DEF Counted
  <2> QED
    BY <2>1, <2>2
<1>4. remainingWorkers' \in Nat
  <2>1. Untold' \in SUBSET Worker
    BY DEF Untold
  <2> QED
    BY <1>2, <2>1, WorkersAreFinite
<1> QED
  BY <1>1, <1>2, <1>3, <1>4 DEF Counted, Untold

-----------------------------------------------------------------------------
(* The order of the list, the barrier, the abort.                          *)

\* A unit in front of later ones, in order, leaves the list in order.
LEMMA InsertInOrder ==
    ASSUME NEW s \in Seq(Nat), NEW x \in Nat,
           \A i, j \in 1..Len(s) : i < j => s[i] < s[j],
           \A i \in 1..Len(s) : x < s[i]
    PROVE  \A i, j \in 1..Len(<<x>> \o s) : i < j => (<<x>> \o s)[i] < (<<x>> \o s)[j]
<1> DEFINE t == <<x>> \o s
<1>1. /\ Len(s) \in Nat /\ Len(t) = Len(s) + 1 /\ t[1] = x
      /\ \A i \in 1..Len(s) : t[i + 1] = s[i]
  OBVIOUS
<1> HIDE DEF t
<1>2. ASSUME NEW i \in 1..Len(t), NEW j \in 1..Len(t), i < j
      PROVE  t[i] < t[j]
  <2>1. j - 1 \in 1..Len(s) /\ (j - 1) + 1 = j
    BY <1>1, <1>2
  <2>2. t[j] = s[j - 1]
    BY <1>1, <2>1
  <2>3. CASE i = 1
    BY <1>1, <2>1, <2>2, <2>3
  <2>4. CASE i # 1
    <3>1. i - 1 \in 1..Len(s) /\ (i - 1) + 1 = i /\ i - 1 < j - 1
      BY <1>1, <1>2, <2>4
    <3>2. t[i] = s[i - 1]
      BY <1>1, <3>1
    <3> QED
      BY <2>1, <2>2, <3>1, <3>2
  <2> QED
    BY <2>3, <2>4
<1> QED
  BY <1>2 DEF t

Ordered(w) == \A i, j \in 1..Len(workUnits[w]) : i < j => workUnits[w][i] < workUnits[w][j]

LEMMA NextOrdered ==
    ASSUME TypeOK, NEW w \in Worker, Exchange(w), Accounted(w), Ordered(w), Next
    PROVE  Ordered(w)'
<1>1. CASE PreProcess(w)
  <2>1. /\ pc[w] = "preprocess" /\ workUnits'[w] = <<current[w]>> \o workUnits[w]
        /\ workUnits[w] \in Seq(Nat) /\ current[w] \in Nat
    BY <1>1 DEF PreProcess, InsertUnit, TypeOK
  <2>2. Underway(w) = current[w] /\ Underway(w) # DONE
    BY <2>1 DEF Exchange, Accounted, Underway, Closed
  <2>3. current[w] = allocated[w] + 1
    BY <2>2, AccountedBounds
  <2>4. ASSUME NEW i \in 1..Len(workUnits[w]) PROVE current[w] < workUnits[w][i]
    <3>1. workUnits[w][i] \in Got(w)
      BY DEF Got
    <3>2. /\ workUnits[w][i] > allocated[w] /\ workUnits[w][i] # current[w]
          /\ workUnits[w][i] \in Nat
      BY <2>1, <2>2, <3>1 DEF Accounted
    <3> QED
      BY <2>3, <3>2, AccountedBounds
  <2> QED
    BY <2>1, <2>4, InsertInOrder DEF Ordered
<1>2. CASE ~PreProcess(w)
  <2>1. workUnits'[w] = workUnits[w]
    BY <1>2 DEF TypeOK, Next, Master, WorkerStep, Terminated, vars, masterVars, workerVars,
       ReceiveRequestSize, ReceiveRequestBody, SendUnitSize, SendUnitBody, LeaveLoop,
       SendRequestSize, SendRequestBody, ReceiveUnitSize, ReceiveUnitBody, PreProcess,
       PreProcessFails, CheckHasWork, PassBarrier, BarrierFull
  <2> QED
    BY <2>1 DEF Ordered
<1> QED
  BY <1>1, <1>2

LEMMA NextTogetherPast ==
    ASSUME TypeOK, \A w \in Worker : Exchange(w), TogetherPast, Next
    PROVE  TogetherPast'
<1>1. CASE PassBarrier
  BY <1>1 DEF PassBarrier, BarrierFull, TogetherPast
<1>2. CASE ~PassBarrier
  <2>1. ASSUME NEW w \in Worker PROVE pc'[w] = "passed" <=> pc[w] = "passed"
    BY <1>2 DEF TypeOK, Next, Master, WorkerStep, Terminated, vars, masterVars, workerVars,
       ReceiveRequestSize, ReceiveRequestBody, SendUnitSize, SendUnitBody, LeaveLoop,
       SendRequestSize, SendRequestBody, ReceiveUnitSize, ReceiveUnitBody, PreProcess,
       PreProcessFails, CheckHasWork
  <2> QED
    BY <2>1 DEF TogetherPast
<1> QED
  BY <1>1, <1>2

LEMMA NextAborts ==
    ASSUME TypeOK, \A w \in Worker : Exchange(w) /\ Accounted(w), AbortsOnlyWithoutWork, Next
    PROVE  AbortsOnlyWithoutWork'
<1>1. CASE UNCHANGED vars
  BY <1>1 DEF vars, masterVars, workerVars, AbortsOnlyWithoutWork, Position
<1>2. ASSUME NEW v \in Worker, CheckHasWork(v), aborted' PROVE AbortsOnlyWithoutWork'
  <2>1. /\ pc[v] = "check" /\ UNCHANGED <<allocated, dropped>>
    BY <1>2 DEF CheckHasWork, NoWork, masterVars
  <2>2. CASE workUnits[v] = <<>>
    <3>1. Got(v) = {}
      BY <2>2 DEF Got
    <3>2. Underway(v) = DONE
      BY <2>1 DEF Exchange, Underway, Closed
    <3>3. allocated[v] = 0
      BY <2>1, <3>2 DEF Accounted, Closed
    <3>4. dropped[v] = Position(v)
      <4>1. {u \in Position(v) : u > 0 /\ u # DONE} = Position(v)
        BY ConstantsAssumption DEF Position, DONE
      <4> QED
        BY <3>1, <3>2, <3>3, <4>1 DEF Accounted
    <3> QED
      BY <2>1, <3>3, <3>4 DEF AbortsOnlyWithoutWork, Position
  <2>3. CASE workUnits[v] # <<>>
    BY <1>2, <2>1, <2>3 DEF CheckHasWork, NoWork, AbortsOnlyWithoutWork, Position
  <2> QED
    BY <2>2, <2>3
<1>3. CASE ~aborted'
  BY <1>3 DEF AbortsOnlyWithoutWork
<1>4. CASE aborted' /\ ~(UNCHANGED vars) /\ \A v \in Worker : ~CheckHasWork(v)
  BY <1>4 DEF Next, Master, WorkerStep, Terminated, vars, masterVars, workerVars,
     ReceiveRequestSize, ReceiveRequestBody, SendUnitSize, SendUnitBody, LeaveLoop,
     SendRequestSize, SendRequestBody, ReceiveUnitSize, ReceiveUnitBody, PreProcess,
     PreProcessFails, PassBarrier, BarrierFull
<1> QED
  BY <1>1, <1>2, <1>3, <1>4

-----------------------------------------------------------------------------
(* The theorems.                                                           *)

LEMMA InitInvariant == Init => IInv
<1> SUFFICES ASSUME Init PROVE IInv
  OBVIOUS
<1>1. AllocationOrder /\ TogetherPast /\ AbortsOnlyWithoutWork
  BY DEF Init, AllocationOrder, TogetherPast, AbortsOnlyWithoutWork
<1> QED
  BY <1>1, InitTypeOK, InitExchange, InitAccounted, InitCounted DEF IInv

LEMMA NextInvariant == IInv /\ [Next]_vars => IInv'
<1> SUFFICES ASSUME IInv, [Next]_vars PROVE IInv'
  OBVIOUS
<1>1. CASE Next
  <2>1. Counted' /\ remainingWorkers' \in Nat
    BY <1>1, NextCounted DEF IInv
  <2>2. TypeOK'
    BY <1>1, <2>1, NextTypeOK DEF IInv
  <2>3. ASSUME NEW w \in Worker PROVE Exchange(w)' /\ Accounted(w)' /\ Ordered(w)'
    BY <1>1, NextExchange, NextAccounted, NextOrdered DEF IInv, AllocationOrder, Ordered
  <2>4. TogetherPast' /\ AbortsOnlyWithoutWork'
    BY <1>1, NextTogetherPast, NextAborts DEF IInv
  <2> QED
    BY <2>1, <2>2, <2>3, <2>4 DEF IInv, AllocationOrder, Ordered
<1>2. CASE UNCHANGED vars
  <2>1. UNCHANGED <<mpc, id, wu, allocated, unitsLeft, remainingWorkers, requests, replies,
                    pc, header, current, workUnits, dropped, aborted>>
    BY <1>2 DEF vars, masterVars, workerVars
  <2>2. TypeOK' /\ AllocationOrder' /\ TogetherPast' /\ AbortsOnlyWithoutWork'
    BY <2>1 DEF IInv, TypeOK, AllocationOrder, TogetherPast, AbortsOnlyWithoutWork
  <2>3. ASSUME NEW w \in Worker PROVE Exchange(w)' /\ Accounted(w)' /\ (Told(w)' <=> Told(w))
    <3>1. /\ Serving(w)' = Serving(w) /\ Reading(w)' = Reading(w)
          /\ Underway(w)' = Underway(w) /\ Answered(w)' = Answered(w) /\ Got(w)' = Got(w)
      BY <2>1 DEF Serving, Reading, Underway, Answered, Got
    <3>2. Exchange(w)'
      BY <2>1, <3>1 DEF IInv, Exchange, Payload, Position
    <3>3. Accounted(w)'
      BY <2>1, <3>1 DEF IInv, Accounted, Position
    <3> QED
      BY <2>1, <3>1, <3>2, <3>3 DEF Told
  <2>4. Counted'
    BY <2>1, <2>3 DEF IInv, Counted, AnyLeft
  <2> QED
    BY <2>2, <2>3, <2>4 DEF IInv
<1> QED
  BY <1>1, <1>2

\* The state of ContinuumMaster::run and ContinuumWorker::run keeps its
\* shape, and the master, the queues and the workers stay in step.
THEOREM Invariance == Spec => []IInv
  BY InitInvariant, NextInvariant, PTL DEF Spec

\* Type correctness of the exchange.
THEOREM TypeCorrect == Spec => []TypeOK
<1>1. IInv => TypeOK
  BY DEF IInv
<1> QED
  BY Invariance, <1>1, PTL

\* The list that the insertions at the front build is in allocation order.
THEOREM KeepsOrder == Spec => []AllocationOrder
<1>1. IInv => AllocationOrder
  BY DEF IInv
<1> QED
  BY Invariance, <1>1, PTL

\* The job is killed only for a worker without a unit it could prepare.
THEOREM AbortIsJustified == Spec => []AbortsOnlyWithoutWork
<1>1. IInv => AbortsOnlyWithoutWork
  BY DEF IInv
<1> QED
  BY Invariance, <1>1, PTL

\* No receive takes the wrong half of a message or of another message.
THEOREM MessagesStayWhole == Spec => []FramesMatch
<1>1. IInv => FramesMatch
  <2> SUFFICES ASSUME IInv, NEW w \in Worker
               PROVE  /\ requests[w] # <<>> =>
                            Head(requests[w]) = (IF mpc = "body" /\ id = w THEN "body" ELSE "size")
                      /\ replies[w] # <<>> =>
                            Head(replies[w]).part = (IF pc[w] = "awaitBody" THEN "body" ELSE "size")
                      /\ pc[w] = "awaitBody" /\ replies[w] # <<>> => Head(replies[w]).unit = header[w]
    BY DEF FramesMatch
  <2>1. Exchange(w)
    BY DEF IInv
  <2> USE Tail1, Tail2 DEF Reading, Serving, Size, Body, Closed
  <2>2. requests[w] # <<>> =>
          Head(requests[w]) = (IF mpc = "body" /\ id = w THEN "body" ELSE "size")
    BY <2>1 DEF Exchange
  <2>3. replies[w] # <<>> =>
          Head(replies[w]).part = (IF pc[w] = "awaitBody" THEN "body" ELSE "size")
    <3>1. CASE pc[w] = "awaitBody"
      BY <2>1, <3>1 DEF Exchange
    <3>2. ASSUME pc[w] # "awaitBody", replies[w] # <<>> PROVE Head(replies[w]).part = "size"
      <4>1. \/ replies[w] = <<Size(wu)>>
            \/ \E u \in Payload(w) : replies[w] = <<Size(u), Body(u)>>
        BY <2>1, <3>2 DEF Exchange
      <4>2. ASSUME NEW u \in Payload(w), replies[w] = <<Size(u), Body(u)>>
            PROVE  Head(replies[w]).part = "size"
        BY <4>2
      <4>3. ASSUME replies[w] = <<Size(wu)>> PROVE Head(replies[w]).part = "size"
        BY <4>3
      <4> HIDE DEF Size, Body
      <4> QED
        BY <4>1, <4>2, <4>3
    <3> QED
      BY <3>1, <3>2
  <2>4. pc[w] = "awaitBody" /\ replies[w] # <<>> => Head(replies[w]).unit = header[w]
    BY <2>1 DEF Exchange
  <2> QED
    BY <2>2, <2>3, <2>4
<1> QED
  BY Invariance, <1>1, PTL

\* Once one worker is past the barrier every worker has its whole allocation
\* and no message of the exchange is left.
THEOREM BarrierMeansDistributed == Spec => []PassedMeansDistributed
<1>1. IInv => PassedMeansDistributed
  <2> SUFFICES ASSUME IInv, NEW u \in Worker, pc[u] = "passed", NEW w \in Worker
               PROVE  AllDelivered(w) /\ Got(w) \cup dropped[w] = Position(w)
    BY DEF PassedMeansDistributed
  <2>1. pc[w] = "passed" /\ Exchange(w) /\ Accounted(w)
    BY DEF IInv, TogetherPast
  <2>2. requests[w] = <<>> /\ replies[w] = <<>> /\ ~Serving(w) /\ Underway(w) = DONE
    BY <2>1 DEF Exchange, Underway, Closed
  <2>3. allocated[w] = 0
    BY <2>1, <2>2 DEF Accounted, Closed
  <2>4. {p \in Position(w) : p > 0 /\ p # DONE} = Position(w)
    BY ConstantsAssumption DEF Position, DONE
  <2> QED
    BY <2>1, <2>2, <2>3, <2>4 DEF Accounted, AllDelivered
<1> QED
  BY Invariance, <1>1, PTL

\* The units of every allocation are always in one place each.
THEOREM NoUnitIsLost == Spec => []NothingLost
<1>1. IInv => NothingLost
  <2> SUFFICES ASSUME IInv, NEW w \in Worker
               PROVE  /\ Position(w) = (1..allocated[w]) \cup InTransit(w) \cup Got(w) \cup dropped[w]
                      /\ InTransit(w) \subseteq {allocated[w] + 1}
                      /\ \A u \in Got(w) \cup dropped[w] : u > allocated[w] /\ u \notin InTransit(w)
                      /\ Got(w) \cap dropped[w] = {}
    BY DEF NothingLost
  <2>1. Exchange(w) /\ Accounted(w) /\ TypeOK
    BY DEF IInv
  <2>2. ASSUME NEW u \in Position(w)
        PROVE  u \in InTransit(w) <=> u = Underway(w)
    <3>1. u # DONE
      BY DEF Position, DONE
    <3> DEFINE Travels == \E i \in 1..Len(replies[w]) : replies[w][i] = Body(u)
    <3>2. u \in InTransit(w) <=>
            \/ Serving(w) /\ wu = u
            \/ Travels
            \/ pc[w] = "preprocess" /\ current[w] = u
      <4>1. Body(u) \in {replies[w][i] : i \in 1..Len(replies[w])} <=> Travels
        OBVIOUS
      <4> QED
        BY <4>1, Zenon DEF InTransit, Serving, Body
    <3>3. CASE replies[w] = <<>>
      <4>1. ~Travels
        BY <3>3
      <4>2. Serving(w) => pc[w] # "preprocess"
        BY <2>1 DEF Exchange, Closed
      <4> QED
        BY <3>1, <3>2, <3>3, <4>1, <4>2 DEF Underway
    <3>4. CASE replies[w] = <<Size(wu)>> /\ Serving(w)
      <4>1. Body(u) # Size(wu)
        BY DEF Size, Body
      <4>2. ~Travels
        BY <3>4, <4>1
      <4>3. pc[w] # "preprocess"
        BY <2>1, <3>4 DEF Exchange, Closed
      <4> QED
        BY <3>2, <3>4, <4>2, <4>3 DEF Underway
    <3>5. ASSUME NEW v, ~Serving(w), pc[w] # "preprocess",
                 replies[w] = <<Body(v)>> \/ replies[w] = <<Size(v), Body(v)>>
          PROVE  u \in InTransit(w) <=> u = Underway(w)
      <4>1. Body(u) # Size(v) /\ (Body(u) = Body(v) <=> u = v)
        BY DEF Size, Body
      <4>2. Travels <=> u = v
        <5>1. CASE replies[w] = <<Body(v)>>
          BY <4>1, <5>1
        <5>2. CASE replies[w] = <<Size(v), Body(v)>>
          <6>1. 2 \in 1..Len(replies[w]) /\ replies[w][2] = Body(v)
            BY <5>2
          <6>2. \A i \in 1..Len(replies[w]) : replies[w][i] = Size(v) \/ replies[w][i] = Body(v)
            BY <5>2
          <6> QED
            BY <4>1, <6>1, <6>2
        <5> QED
          BY <3>5, <5>1, <5>2
      <4>3. Underway(w) = v
        BY <3>5, LastOfShort DEF Underway
      <4> QED
        BY <3>2, <3>5, <4>2, <4>3
    <3>6. \/ replies[w] = <<>>
          \/ replies[w] = <<Size(wu)>> /\ Serving(w)
          \/ \E v : /\ ~Serving(w) /\ pc[w] # "preprocess"
                    /\ replies[w] = <<Body(v)>> \/ replies[w] = <<Size(v), Body(v)>>
      BY <2>1 DEF Exchange, Closed
    <3> QED
      BY <3>3, <3>4, <3>5, <3>6
  <2>3. InTransit(w) = {u \in Position(w) : u = Underway(w)}
    BY <2>2 DEF InTransit
  <2>4. Position(w) = (1..allocated[w]) \cup InTransit(w) \cup {u \in Position(w) : u > allocated[w] /\ u # Underway(w)}
    BY <2>1, <2>3, AccountedBounds DEF Position
  <2>5. InTransit(w) \subseteq {allocated[w] + 1}
    BY <2>1, <2>3, AccountedBounds DEF Position, DONE
  <2>6. ASSUME NEW u \in Got(w) \cup dropped[w]
        PROVE  u > allocated[w] /\ u \notin InTransit(w)
    BY <2>1, <2>3 DEF Accounted
  <2> QED
    BY <2>1, <2>4, <2>5, <2>6 DEF Accounted
<1> QED
  BY Invariance, <1>1, PTL

\* The master leaves its loop only when every rank was told DONE, its stack is
\* empty and no request is unanswered.
THEOREM MasterServesAll == Spec => []LeavesServed
<1>1. IInv => LeavesServed
  <2> SUFFICES ASSUME IInv, mpc = "left", NEW w \in Worker
               PROVE  /\ allocated[w] = 0 /\ requests[w] = <<>>
                      /\ \/ pc[w] \in {"check", "barrier", "passed"}
                         \/ \E i \in 1..Len(replies[w]) :
                                replies[w][i] = [part |-> "body", unit |-> DONE]
    BY DEF LeavesServed
  <2>1. Exchange(w) /\ Accounted(w) /\ TypeOK /\ Counted
    BY DEF IInv
  <2>2. Untold = {}
    <3>1. Cardinality(Untold) = 0 /\ IsFiniteSet(Untold)
      BY <2>1, WorkersAreFinite DEF Counted, Untold
    <3> QED
      BY <3>1, FS_EmptySet
  <2>3. Told(w)
    BY <2>2 DEF Untold
  <2>4. ~Serving(w) /\ ~Reading(w)
    BY DEF Serving, Reading
  <2>5. CASE pc[w] \in Closed
    <3>1. requests[w] = <<>> /\ replies[w] = <<>> /\ Underway(w) = DONE
      BY <2>1, <2>4, <2>5 DEF Exchange, Underway, Closed
    <3> QED
      BY <2>1, <2>5, <3>1 DEF Accounted, Closed
  <2>6. CASE pc[w] \notin Closed
    <3>1. replies[w] # <<>> /\ Underway(w) = DONE
      BY <2>3, <2>6 DEF Told
    <3>2. PICK v : requests[w] = <<>> /\ (replies[w] = <<Body(v)>> \/ replies[w] = <<Size(v), Body(v)>>)
      BY <2>1, <2>4, <3>1 DEF Exchange
    <3>3. Underway(w) = v
      BY <2>4, <3>2, LastOfShort DEF Underway
    <3>4. \E i \in 1..Len(replies[w]) : replies[w][i] = Body(DONE)
      <4>1. v = DONE
        BY <3>1, <3>3
      <4>2. CASE replies[w] = <<Body(v)>>
        <5>1. 1 \in 1..Len(replies[w]) /\ replies[w][1] = Body(DONE)
          BY <4>1, <4>2
        <5> QED
          BY <5>1
      <4>3. CASE replies[w] = <<Size(v), Body(v)>>
        <5>1. 2 \in 1..Len(replies[w]) /\ replies[w][2] = Body(DONE)
          BY <4>1, <4>3
        <5> QED
          BY <5>1
      <4> QED
        BY <3>2, <4>2, <4>3
    <3>5. allocated[w] = 0
      BY <2>1, <3>1 DEF Accounted, Answered
    <3> QED
      BY <3>2, <3>4, <3>5 DEF Body
  <2> QED
    BY <2>5, <2>6
<1> QED
  BY Invariance, <1>1, PTL
-----------------------------------------------------------------------------
(* That the exchange of messages implements WorkDelivery.                   *)

\* A worker that got past the check has a unit.
BarrierHasWork == \A w \in Worker : pc[w] \in {"barrier", "passed"} => workUnits[w] # <<>>

-----------------------------------------------------------------------------
(* What a step does to the variables of WorkDelivery.                       *)

\* Only a worker with a unit gets past the check, and no unit is taken back.
LEMMA NextBarrierHasWork ==
    ASSUME TypeOK, BarrierHasWork, [Next]_vars
    PROVE  BarrierHasWork'
<1> SUFFICES ASSUME NEW w \in Worker, pc'[w] \in {"barrier", "passed"}
             PROVE  workUnits'[w] # <<>>
  BY DEF BarrierHasWork
<1> USE DEF TypeOK, BarrierHasWork
<1>1. CASE Master
  BY <1>1 DEF Master, workerVars, ReceiveRequestSize, ReceiveRequestBody, SendUnitSize,
     SendUnitBody, LeaveLoop
<1>2. ASSUME NEW v \in Worker, WorkerStep(v) PROVE workUnits'[w] # <<>>
  <2>1. CASE CheckHasWork(v)
    BY <2>1 DEF CheckHasWork, NoWork
  <2>2. CASE PreProcess(v)
    BY <2>2 DEF PreProcess
  <2>3. CASE ~CheckHasWork(v) /\ ~PreProcess(v)
    BY <1>2, <2>3 DEF WorkerStep, SendRequestSize, SendRequestBody, ReceiveUnitSize,
       ReceiveUnitBody, PreProcessFails
  <2> QED
    BY <2>1, <2>2, <2>3
<1>3. CASE PassBarrier
  BY <1>3 DEF PassBarrier, BarrierFull
<1>4. CASE UNCHANGED vars
  BY <1>4 DEF vars, workerVars
<1> QED
  BY <1>1, <1>2, <1>3, <1>4 DEF Next, Terminated

\* What is left depends on the stack and the unit underway.
LEMMA LeftStable ==
    ASSUME NEW w \in Worker, allocated'[w] = allocated[w], Underway(w)' = Underway(w)
    PROVE  Left(w)' = Left(w)
BY DEF Left, DONE

\* The master moves units from its stack to the wire, which are both still to
\* be handed over.
LEMMA MasterLeft ==
    ASSUME TypeOK, NEW w \in Worker, Exchange(w), Accounted(w), Master
    PROVE  Left(w)' = Left(w)
<1> USE DEF TypeOK
<1>1. ASSUME NEW v \in Worker, ReceiveRequestSize(v) PROVE Left(w)' = Left(w)
  <2>1. /\ mpc = "loop" /\ mpc' = "body"
        /\ UNCHANGED <<wu, allocated, replies, pc, current>>
    BY <1>1 DEF ReceiveRequestSize, workerVars
  <2> QED
    BY <2>1, LeftStable DEF Underway, Serving
<1>2. CASE ReceiveRequestBody
  <2>1. /\ mpc = "body" /\ mpc' = "unitSize"
        /\ UNCHANGED <<id, replies, pc, current>>
        /\ GetAllocation(id) /\ requests[id] # <<>>
    BY <1>2 DEF ReceiveRequestBody, workerVars
  <2>2. CASE id = w
    <3>1. replies[w] = <<>> /\ pc[w] \in {"sendBody", "awaitSize"} /\ ~Serving(w)
      BY <2>1, <2>2 DEF Exchange, Reading, Serving
    <3>2. Underway(w) = DONE /\ Underway(w)' = wu'
      BY <2>1, <2>2, <3>1 DEF Underway, Serving
    <3>3. CASE wu' = DONE /\ allocated' = allocated
      BY <3>2, <3>3 DEF Left
    <3>4. CASE /\ allocated[w] > 0 /\ wu' = allocated[w]
               /\ allocated' = [allocated EXCEPT ![w] = @ - 1]
      <4>1. allocated'[w] = allocated[w] - 1 /\ wu' # DONE /\ allocated[w] \in Nat
        BY <3>4 DEF DONE
      <4> QED
        BY <3>2, <4>1 DEF Left
    <3> QED
      BY <2>1, <2>2, <3>3, <3>4 DEF GetAllocation
  <2>3. CASE id # w
    <3>1. allocated'[w] = allocated[w]
      BY <2>1, <2>3 DEF GetAllocation
    <3> QED
      BY <2>1, <2>3, <3>1, LeftStable DEF Underway, Serving
  <2> QED
    BY <2>2, <2>3
<1>3. CASE SendUnitSize
  <2>1. /\ mpc = "unitSize" /\ mpc' = "unitBody" /\ Send(id, "size")
        /\ UNCHANGED <<id, wu, allocated, pc, current>>
    BY <1>3 DEF SendUnitSize, workerVars
  <2> QED
    BY <2>1, LeftStable DEF Underway, Serving, Send
<1>4. CASE SendUnitBody
  <2>1. /\ mpc = "unitBody" /\ mpc' = "loop" /\ Send(id, "body")
        /\ UNCHANGED <<id, wu, allocated, pc, current>>
    BY <1>4 DEF SendUnitBody, workerVars
  <2>2. CASE id = w
    <3>1. replies'[w] # <<>> /\ replies'[w][Len(replies'[w])].unit = wu
      <4>1. replies'[w] = Append(replies[w], Body(wu)) /\ replies[w] \in Seq(Sent)
        BY <2>1, <2>2 DEF Send, Body
      <4> QED
        BY <4>1, LastReply
    <3>2. Underway(w)' = wu /\ Underway(w) = wu
      BY <2>1, <2>2, <3>1 DEF Underway, Serving
    <3> QED
      BY <2>1, <3>2, LeftStable
  <2>3. CASE id # w
    BY <2>1, <2>3, LeftStable DEF Underway, Serving, Send
  <2> QED
    BY <2>2, <2>3
<1>5. CASE LeaveLoop
  <2>1. /\ mpc = "loop" /\ mpc' = "left"
        /\ UNCHANGED <<id, wu, allocated, replies, pc, current>>
    BY <1>5 DEF LeaveLoop, workerVars
  <2> QED
    BY <2>1, LeftStable DEF Underway, Serving
<1> QED
  BY <1>1, <1>2, <1>3, <1>4, <1>5 DEF Master

\* What a worker sends and receives leaves the unit underway; only what it
\* preprocesses is handed over.
LEMMA WorkerLeft ==
    ASSUME TypeOK, NEW w \in Worker, Exchange(w), Accounted(w), NEW v \in Worker, WorkerStep(v),
           ~(v = w /\ (PreProcess(v) \/ PreProcessFails(v)))
    PROVE  Left(w)' = Left(w)
<1> USE DEF TypeOK
<1>1. allocated'[w] = allocated[w]
  BY DEF WorkerStep, masterVars, SendRequestSize, SendRequestBody, ReceiveUnitSize,
     ReceiveUnitBody, PreProcess, PreProcessFails, CheckHasWork
<1>2. SUFFICES Underway(w)' = Underway(w)
  BY <1>1, LeftStable
<1>3. CASE v # w
  BY <1>3 DEF Underway, Serving, WorkerStep, masterVars, SendRequestSize, SendRequestBody,
     ReceiveUnitSize, ReceiveUnitBody, PreProcess, PreProcessFails, CheckHasWork
<1>4. CASE v = w
  <2>1. CASE SendRequestSize(v) \/ SendRequestBody(v) \/ CheckHasWork(v)
    BY <1>4, <2>1 DEF Underway, Serving, masterVars, SendRequestSize, SendRequestBody, CheckHasWork
  <2>2. CASE ReceiveUnitSize(v)
    <3>1. /\ pc[w] = "awaitSize" /\ pc' = [pc EXCEPT ![w] = "awaitBody"]
          /\ replies[w] # <<>> /\ replies' = [replies EXCEPT ![w] = Tail(@)]
          /\ UNCHANGED <<mpc, id, wu, current>>
      BY <1>4, <2>2 DEF ReceiveUnitSize, masterVars
    <3>2. CASE Serving(w)
      BY <3>1, <3>2 DEF Underway, Serving
    <3>3. CASE ~Serving(w)
      <4>1. PICK u \in Payload(w) : replies[w] = <<Size(u), Body(u)>>
        BY <3>1, <3>3 DEF Exchange
      <4>2. replies'[w] = <<Body(u)>>
        BY <3>1, <4>1, Tail2
      <4>3. ~Serving(w)'
        BY <3>1, <3>3 DEF Serving
      <4> QED
        BY <3>3, <4>1, <4>2, <4>3, LastOfShort DEF Underway
    <3> QED
      BY <3>2, <3>3
  <2>3. CASE ReceiveUnitBody(v)
    <3>1. /\ pc[w] = "awaitBody" /\ replies[w] # <<>>
          /\ pc' = [pc EXCEPT ![w] = IF Head(replies[w]).unit = DONE THEN "check" ELSE "preprocess"]
          /\ current' = [current EXCEPT ![w] = Head(replies[w]).unit]
          /\ replies' = [replies EXCEPT ![w] = Tail(@)]
          /\ UNCHANGED <<mpc, id, wu>>
      BY <1>4, <2>3 DEF ReceiveUnitBody, masterVars
    <3>2. ~Serving(w) /\ replies[w] = <<Body(header[w])>>
      BY <3>1 DEF Exchange
    <3>3. Underway(w) = header[w] /\ Head(replies[w]).unit = header[w]
      BY <3>1, <3>2 DEF Underway, Body
    <3>4. replies'[w] = <<>> /\ current'[w] = header[w] /\ ~Serving(w)'
      BY <3>1, <3>2, <3>3, Tail1 DEF Serving
    <3>5. pc'[w] = IF header[w] = DONE THEN "check" ELSE "preprocess"
      BY <3>1, <3>3
    <3> QED
      BY <3>3, <3>4, <3>5 DEF Underway, DONE
  <2> QED
    BY <1>4, <2>1, <2>2, <2>3 DEF WorkerStep
<1> QED
  BY <1>3, <1>4

\* A worker that preprocesses a unit is handed the one that is left at the top.
LEMMA PreProcessLeft ==
    ASSUME TypeOK, NEW w \in Worker, Exchange(w), Accounted(w), PreProcess(w) \/ PreProcessFails(w)
    PROVE  /\ Left(w) \in Nat /\ Left(w) > 0 /\ current[w] = Left(w)
           /\ Left(w)' = Left(w) - 1
<1> USE DEF TypeOK
<1>1. /\ pc[w] = "preprocess" /\ pc' = [pc EXCEPT ![w] = "sendSize"]
      /\ UNCHANGED <<mpc, id, wu, allocated, replies, current>>
  BY DEF PreProcess, PreProcessFails, masterVars
<1>2. ~Serving(w) /\ replies[w] = <<>>
  BY <1>1 DEF Exchange, Closed
<1>3. Underway(w) = current[w] /\ Underway(w)' = DONE
  BY <1>1, <1>2 DEF Underway, Serving
<1>4. Underway(w) # DONE
  BY <1>1 DEF Accounted
<1>5. current[w] = allocated[w] + 1 /\ allocated[w] \in Nat
  BY <1>3, <1>4, AccountedBounds
<1>6. Left(w) = allocated[w] + 1 /\ Left(w)' = allocated[w]
  <2>1. allocated'[w] = allocated[w] /\ allocated'[w] + 0 = allocated[w]
    BY <1>1, <1>5
  <2>2. Left(w)' = allocated'[w] + 0
    BY <1>3 DEF Left, DONE
  <2>3. Left(w) = allocated[w] + 1
    BY <1>4 DEF Left
  <2> QED
    BY <2>1, <2>2, <2>3
<1>7. current[w] = Left(w)
  BY <1>5, <1>6
<1>8. Left(w) \in Nat /\ Left(w) > 0
  BY <1>5, <1>6
<1>9. Left(w)' = Left(w) - 1
  BY <1>5, <1>6
<1> QED
  BY <1>7, <1>8, <1>9

-----------------------------------------------------------------------------
(* Each step is a step of WorkDelivery or none.                             *)

\* At first the whole allocation is left and nobody has a list.
LEMMA InitSimulates == Init => Delivered!DeliveryInit
<1> SUFFICES ASSUME Init PROVE Delivered!DeliveryInit
  OBVIOUS
<1>1. \A w \in Worker : Left(w) = UnitCount[w] /\ UnitCount[w] \in Nat
  BY ConstantsAssumption DEF Init, Left, Underway, Serving
<1>2. LeftToHand = UnitCount
  BY <1>1, ConstantsAssumption DEF LeftToHand
<1>3. Complete = {} /\ ~Released
  BY DEF Init, Complete, Released, Closed
<1> QED
  <2>1. workUnits = [w \in Worker |-> <<>>]
    BY DEF Init
  <2>2. Released = FALSE
    BY <1>3 DEF Released
  <2> QED
    BY <1>2, <1>3, <2>1, <2>2, Zenon DEF Delivered!DeliveryInit

\* A step that hands over nothing, closes nothing and releases nobody.
LEMMA Stutter ==
    ASSUME \A w \in Worker : Left(w)' = Left(w), workUnits' = workUnits,
           \A w \in Worker : pc'[w] \in Closed <=> pc[w] \in Closed,
           \A w \in Worker : pc'[w] = "passed" <=> pc[w] = "passed"
    PROVE  UNCHANGED Delivered!deliveryVars
<1>1. LeftToHand' = LeftToHand
  BY DEF LeftToHand
<1>2. Complete' = Complete
  BY DEF Complete, Closed
<1>3. Released' = Released
  BY DEF Released
<1> QED
  BY <1>1, <1>2, <1>3 DEF Delivered!deliveryVars

\* To preprocess a unit is to be handed it, kept or dropped.
LEMMA HandsOver ==
    ASSUME IInv, NEW w \in Worker, PreProcess(w) \/ PreProcessFails(w)
    PROVE  Delivered!Keep(w) \/ Delivered!Drop(w)
<1>1. TypeOK /\ \A v \in Worker : Exchange(v) /\ Accounted(v)
  BY DEF IInv
<1>2. Left(w) \in Nat /\ Left(w) > 0 /\ current[w] = Left(w) /\ Left(w)' = Left(w) - 1
  BY <1>1, PreProcessLeft
<1>3. WorkerStep(w)
  BY DEF WorkerStep
<1>4. \A v \in Worker : v # w => Left(v)' = Left(v)
  BY <1>1, <1>3, WorkerLeft
<1>5. LeftToHand[w] > 0 /\ LeftToHand' = [LeftToHand EXCEPT ![w] = @ - 1]
  BY <1>2, <1>4 DEF LeftToHand
<1>6. pc[w] = "preprocess" /\ pc' = [pc EXCEPT ![w] = "sendSize"]
  BY DEF PreProcess, PreProcessFails
<1>7. Complete' = Complete /\ Released' = Released
  <2>1. \A v \in Worker : /\ pc'[v] \in {"check", "barrier", "passed"} <=> pc[v] \in {"check", "barrier", "passed"}
                          /\ pc'[v] = "passed" <=> pc[v] = "passed"
    BY <1>1, <1>6 DEF TypeOK
  <2> QED
    BY <2>1 DEF Complete, Released, Closed
<1>8. CASE PreProcess(w)
  <2>1. workUnits' = [workUnits EXCEPT ![w] = <<LeftToHand[w]>> \o @]
    BY <1>2, <1>8 DEF PreProcess, InsertUnit, LeftToHand
  <2> QED
    BY <1>5, <1>7, <2>1 DEF Delivered!Keep
<1>9. CASE PreProcessFails(w)
  BY <1>5, <1>7, <1>9 DEF Delivered!Drop, PreProcessFails
<1> QED
  BY <1>8, <1>9

\* DONE reaches a worker when nothing is left for it.
LEMMA Closes ==
    ASSUME IInv, NEW w \in Worker, ReceiveUnitBody(w), Head(replies[w]).unit = DONE
    PROVE  Delivered!Close(w)
<1>1. TypeOK /\ \A v \in Worker : Exchange(v) /\ Accounted(v)
  BY DEF IInv
<1>2. pc[w] = "awaitBody" /\ pc' = [pc EXCEPT ![w] = "check"] /\ workUnits' = workUnits
      /\ replies[w] # <<>>
  BY DEF ReceiveUnitBody
<1>3. ~Serving(w) /\ replies[w] = <<Body(header[w])>>
  BY <1>1, <1>2 DEF Exchange
<1>4. Underway(w) = DONE /\ Answered(w)
  BY <1>3, LastOfShort DEF Underway, Answered, Body
<1>5. allocated[w] = 0
  BY <1>1, <1>4 DEF Accounted
<1>6. LeftToHand[w] = 0
  BY <1>4, <1>5 DEF LeftToHand, Left
<1>7. WorkerStep(w) /\ ~PreProcess(w) /\ ~PreProcessFails(w)
  BY <1>2 DEF WorkerStep, PreProcess, PreProcessFails
<1>8. \A v \in Worker : Left(v)' = Left(v)
  BY <1>1, <1>7, WorkerLeft
<1>9. LeftToHand' = LeftToHand
  BY <1>8 DEF LeftToHand
<1>10. w \notin Complete /\ Complete' = Complete \cup {w} /\ Released' = Released
  BY <1>1, <1>2 DEF TypeOK, Complete, Released, Closed
<1> QED
  BY <1>2, <1>6, <1>9, <1>10 DEF Delivered!Close

\* The barrier lets everyone go on, and everyone has work.
LEMMA Releases ==
    ASSUME IInv, BarrierHasWork, PassBarrier
    PROVE  Delivered!Release
<1>1. TypeOK /\ \A v \in Worker : pc[v] = "barrier"
  BY DEF IInv, PassBarrier, BarrierFull
<1>2. \A v \in Worker : pc'[v] = "passed"
  BY <1>1 DEF PassBarrier
<1>3. Complete = Worker /\ Complete' = Worker /\ ~Released
  BY <1>1, <1>2 DEF Complete, Released, Closed
<1>4. Released'
  BY <1>2 DEF Released, PassBarrier, BarrierFull
<1>5. \A v \in Worker : workUnits[v] # <<>>
  BY <1>1 DEF BarrierHasWork
<1>6. \A v \in Worker : Left(v)' = Left(v)
  BY <1>1, <1>2, LeftStable DEF PassBarrier, masterVars, Underway, Serving
<1>7. LeftToHand' = LeftToHand /\ workUnits' = workUnits
  BY <1>6 DEF LeftToHand, PassBarrier
<1> QED
  BY <1>3, <1>4, <1>5, <1>7 DEF Delivered!Release

\* Whatever a process does is a step of WorkDelivery or none.
LEMMA StepSimulates ==
    ASSUME IInv, BarrierHasWork, [Next]_vars
    PROVE  [Delivered!DeliveryNext]_(Delivered!deliveryVars)
<1>1. TypeOK /\ \A w \in Worker : Exchange(w) /\ Accounted(w)
  BY DEF IInv
<1>2. CASE Master
  <2>1. \A w \in Worker : Left(w)' = Left(w)
    BY <1>1, <1>2, MasterLeft
  <2>2. workUnits' = workUnits /\ pc' = pc
    BY <1>2 DEF Master, workerVars, ReceiveRequestSize, ReceiveRequestBody, SendUnitSize,
       SendUnitBody, LeaveLoop
  <2> QED
    BY <2>1, <2>2, Stutter
<1>3. ASSUME NEW w \in Worker, WorkerStep(w)
      PROVE  [Delivered!DeliveryNext]_(Delivered!deliveryVars)
  <2>1. CASE PreProcess(w) \/ PreProcessFails(w)
    BY <2>1, HandsOver DEF Delivered!DeliveryNext
  <2>2. CASE ReceiveUnitBody(w) /\ Head(replies[w]).unit = DONE
    BY <2>2, Closes DEF Delivered!DeliveryNext
  <2>3. CASE /\ ~(PreProcess(w) \/ PreProcessFails(w))
             /\ ~(ReceiveUnitBody(w) /\ Head(replies[w]).unit = DONE)
    <3>1. \A v \in Worker : Left(v)' = Left(v)
      BY <1>1, <1>3, <2>3, WorkerLeft
    <3>2. workUnits' = workUnits
      BY <1>3, <2>3 DEF WorkerStep, SendRequestSize, SendRequestBody, ReceiveUnitSize,
         ReceiveUnitBody, CheckHasWork
    <3>3. \A v \in Worker : /\ pc'[v] \in Closed <=> pc[v] \in Closed
                            /\ pc'[v] = "passed" <=> pc[v] = "passed"
      BY <1>1, <1>3, <2>3 DEF TypeOK, Closed, WorkerStep, SendRequestSize, SendRequestBody,
         ReceiveUnitSize, ReceiveUnitBody, CheckHasWork
    <3> QED
      BY <3>1, <3>2, <3>3, Stutter
  <2> QED
    BY <2>1, <2>2, <2>3
<1>4. CASE PassBarrier
  BY <1>4, Releases DEF Delivered!DeliveryNext
<1>5. CASE UNCHANGED vars
  <2>1. \A w \in Worker : Left(w)' = Left(w)
    BY <1>5, LeftStable DEF vars, masterVars, workerVars, Underway, Serving
  <2>2. workUnits' = workUnits /\ pc' = pc
    BY <1>5 DEF vars, workerVars
  <2> QED
    BY <2>1, <2>2, Stutter
<1> QED
  BY <1>2, <1>3, <1>4, <1>5 DEF Next, Terminated

\* Every behaviour of the master and the workers, with the messages left out,
\* is one of WorkDelivery: each worker is handed its own units from the last
\* to the first, and is released with all the others when each has its list.
THEOREM DeliveryImplemented == Spec => ImplementsDelivery
<1>1. Init => BarrierHasWork
  BY DEF Init, BarrierHasWork
<1>2. IInv /\ BarrierHasWork /\ [Next]_vars => BarrierHasWork'
  BY NextBarrierHasWork DEF IInv
<1>3. Init => Delivered!DeliveryInit
  BY InitSimulates
<1>4. IInv /\ BarrierHasWork /\ [Next]_vars => [Delivered!DeliveryNext]_(Delivered!deliveryVars)
  BY StepSimulates
<1>5. Spec => []IInv
  BY Invariance
<1> QED
  BY <1>1, <1>2, <1>3, <1>4, <1>5, PTL DEF Spec, ImplementsDelivery, Delivered!Delivery
-----------------------------------------------------------------------------
(* An inductive invariant: where every loop is says what is there by then. *)

\* The frequencies dealt out so far fill the shares one after the other.
Dealt == IF stage \in {"adjust", "refused"} THEN 0
         ELSE IF stage \in {"share", "undefined"} THEN turn ELSE job.freqs
ShareLength(w) ==
    IF Dealt <= (w - 1) * perCore THEN 0
    ELSE IF Dealt < w * perCore THEN Dealt - (w - 1) * perCore ELSE perCore
InRuns ==
    \A w \in GroupRank :
        /\ Len(share[w]) = ShareLength(w)
        /\ \A i \in 1..Len(share[w]) : share[w][i] = (w - 1) * perCore + i - 1

\* The division has no remainder once everything is dealt out.
Filling == {"match", "writers", "groups", "prepared", "comms", "units", "sink", "counted"}
Even == stage \in Filling => job.freqs = PerGroup * perCore

LoopPlace ==
    /\ stage = "adjust" => turn = 0
    /\ stage = "share" => turn < job.freqs /\ perCore = job.freqs \div PerGroup
    /\ stage = "match" =>
        /\ turn < PerGroup /\ item <= perCore /\ globalChannel = turn * perCore + item
        /\ set # 0 => item < perCore
        /\ found <=> \E s \in 1..set : <<globalChannel, s>> \in job.matched
    /\ stage \notin Filling => globalChannel = 0 /\ item = 0 /\ set = 0 /\ ~found
    /\ stage \in Filling \ {"match"} => globalChannel = job.freqs /\ set = 0
    /\ stage = "writers" => turn < job.ranks
    /\ stage \in {"groups", "prepared"} => turn = 0
    /\ stage = "comms" => turn < job.ranks
    /\ stage = "units" => turn < job.ranks /\ item < Len(work[turn + 1])
    /\ stage \in {"comms", "units", "sink", "counted"} => job.localSolver

\* The units of the frequencies of a worker that have been matched so far.
Reached(c, s) == c < globalChannel \/ (c = globalChannel /\ s <= set)
Due(w, unit) ==
    /\ AllocationIndex(unit.freq) = w
    /\ \/ /\ IsWork(unit) /\ unit.channel = unit.freq
          /\ <<unit.freq, unit.set>> \in job.matched /\ Reached(unit.freq, unit.set)
       \/ /\ unit = NAUnit(unit.freq) /\ unit.freq < globalChannel
          /\ \A s \in 1..job.sets : <<unit.freq, s>> \notin job.matched

Before(u, v) == u.freq < v.freq \/ (u.freq = v.freq /\ u.set < v.set)
InOrder(units) == \A i, j \in 1..Len(units) : i < j => Before(units[i], units[j])
Original(w) == IF Prepared THEN CopyOf(w) ELSE w
Matched ==
    IF stage \in Filling
    THEN \A w \in Rank : InOrder(work[w]) /\ UnitsOf(w) = {unit \in Unit : Due(Original(w), unit)}
    ELSE \A w \in Rank : work[w] = <<>>

Assigned ==
    \A w \in Rank : writer[w] =
        IF Prepared THEN WriterFor(CopyOf(w))
        ELSE IF (stage = "groups" \/ (stage = "writers" /\ w <= turn)) /\ work[w] # <<>>
        THEN WriterFor(w) ELSE 0

\* What updateComms has gone through of the units of a worker, and found.
Counting == stage \in {"comms", "units", "sink", "counted"}
Entered(w) ==
    Counting /\ (w <= turn \/ (w = turn + 1 /\ stage = "units") \/ stage \in {"sink", "counted"})
Read(w) ==
    IF ~Counting THEN 0
    ELSE IF w <= turn \/ stage \in {"sink", "counted"} THEN Len(work[w])
    ELSE IF w = turn + 1 /\ stage = "units" THEN item ELSE 0
FreqsRead(w) == {work[w][i].freq : i \in {j \in 1..Read(w) : IsWork(work[w][j])}}
Clients(v) == {w \in Rank : writer[w] = v /\ FreqsRead(w) # {}}

Tallied ==
    /\ DOMAIN workerMap = {w \in Rank : Entered(w)}
    /\ \A w \in DOMAIN workerMap : workerMap[w] = Cardinality(FreqsRead(w))
    /\ DOMAIN writerMap = {v \in Rank : Clients(v) # {}} /\ DOMAIN clientMap = DOMAIN writerMap
    /\ \A v \in DOMAIN writerMap :
        /\ clientMap[v] = Clients(v)
        /\ writerMap[v] = Cardinality(UNION {FreqsRead(w) : w \in Clients(v)})
    /\ stage = "units" =>
        IF FreqsRead(turn + 1) = {} THEN lastFreq = work[turn + 1][1].freq
        ELSE lastFreq \in FreqsRead(turn + 1) /\ \A c \in FreqsRead(turn + 1) : c <= lastFreq
    /\ creators = IF stage # "counted" THEN {}
                  ELSE IF job.single THEN {Min(DOMAIN writerMap)} ELSE DOMAIN writerMap

AllocationInvariant ==
    AllocationTypeOK /\ InRuns /\ Even /\ LoopPlace /\ Matched /\ Assigned /\ Tallied
-----------------------------------------------------------------------------
(* Numbers.                                                                *)

LEMMA SmallestRank ==
    ASSUME NEW S, S \subseteq Nat, S # {}
    PROVE  Min(S) \in S /\ \A n \in S : Min(S) <= n
<1> DEFINE Below == OpToRel(<, Nat)
<1>1. PICK m \in S : \A n \in S : ~(<<n, m>> \in Below)
  BY NatLessThanWellFounded, WFMin
<1>2. \A n \in S : n < m => <<n, m>> \in Below
  BY DEF OpToRel
<1>3. \A n \in S : ~(n < m)
  <2> HIDE DEF Below
  <2> QED
    BY <1>1, <1>2
<1>4. m \in S /\ \A n \in S : m <= n
  BY <1>3
<1> QED
  BY <1>4 DEF Min

LEMMA GreatestRank ==
    ASSUME NEW N \in Nat, NEW S, S \subseteq 0..N, S # {}
    PROVE  Max(S) \in S /\ \A n \in S : n <= Max(S)
<1> DEFINE T == {N - n : n \in S}
<1>1. T \subseteq Nat /\ T # {}
  <2>1. \A n \in S : N - n \in Nat
    OBVIOUS
  <2> QED
    BY <2>1
<1>2. PICK k \in T : \A n \in T : k <= n
  BY <1>1, SmallestRank
<1>3. PICK m \in S : k = N - m
  BY <1>2
<1>4. ASSUME NEW n \in S PROVE n <= m
  <2>1. N - m <= N - n
    BY <1>2, <1>3
  <2> QED
    BY <2>1
<1> QED
  BY <1>4 DEF Max

LEMMA MoreTimes ==
    ASSUME NEW a \in Nat, NEW b \in Nat, NEW P \in Nat, a <= b
    PROVE  a * P <= b * P /\ a * P \in Nat /\ b * P \in Nat
<1>1. PICK d \in Nat : b = a + d
  <2>1. b - a \in Nat /\ b = a + (b - a)
    OBVIOUS
  <2> QED
    BY <2>1
<1>2. (a + d) * P = a * P + d * P /\ d * P \in Nat /\ a * P \in Nat
  OBVIOUS
<1>3. \A x, y \in Nat : x <= x + y
  OBVIOUS
<1> QED
  BY <1>1, <1>2, <1>3

\* The w-th run of so many numbers has those whose quotient is that of w.
LEMMA RunOf ==
    ASSUME NEW c \in Nat, NEW w \in Nat \ {0}, NEW P \in Nat \ {0}
    PROVE  /\ (c \div P) + 1 = w <=> (w - 1) * P <= c /\ c < w * P
           /\ (c \div P) + 1 \in Nat \ {0}
           /\ (w - 1) * P \in Nat /\ w * P \in Nat /\ w * P = (w - 1) * P + P
<1> DEFINE d == c \div P
<1>1. d \in Nat /\ c % P \in Nat /\ c % P < P /\ c = P * d + (c % P)
  OBVIOUS
<1> HIDE DEF d
<1>2. d * P <= c /\ c < (d + 1) * P /\ (d + 1) * P \in Nat /\ d * P \in Nat
  BY <1>1
<1>3. w - 1 \in Nat /\ (w - 1) + 1 = w /\ (w - 1) * P \in Nat /\ w * P \in Nat
  OBVIOUS
<1>4. w * P = (w - 1) * P + P
  BY <1>3
<1>5. ASSUME w < d + 1 PROVE w * P <= c
  <2>1. w * P <= d * P
    BY <1>1, <1>5, MoreTimes
  <2> QED
    BY <1>2, <1>3, <2>1
<1>6. ASSUME d + 1 < w PROVE c < (w - 1) * P
  <2>1. d + 1 <= w - 1 /\ d + 1 \in Nat
    BY <1>1, <1>6
  <2>2. (d + 1) * P <= (w - 1) * P
    BY <1>3, <2>1, MoreTimes
  <2> QED
    BY <1>2, <1>3, <2>2
<1>7. d + 1 = w => (w - 1) * P <= c /\ c < w * P
  <2>1. d + 1 = w => w - 1 = d
    BY <1>1
  <2> QED
    BY <1>2, <2>1
<1>8. d + 1 < w \/ w < d + 1 \/ d + 1 = w
  BY <1>1
<1>9. d + 1 = w <=> (w - 1) * P <= c /\ c < w * P
  BY <1>2, <1>3, <1>5, <1>6, <1>7, <1>8
<1> QED
  BY <1>1, <1>3, <1>4, <1>9 DEF d

\* A job has ranks, which the groups share evenly, and frequencies.
LEMMA Sizes ==
    ASSUME job \in Jobs
    PROVE  /\ job.ranks \in Nat \ {0} /\ job.groups \in Nat \ {0} /\ job.freqs \in Nat \ {0}
           /\ job.sets \in Nat /\ job.perCore \in Nat \ {0} /\ job.writers \in Nat \ {0}
           /\ job.writers <= job.ranks
           /\ PerGroup \in Nat \ {0} /\ job.ranks = PerGroup * job.groups /\ PerGroup <= job.ranks
           /\ job.localSolver => job.groups = 1 /\ PerGroup = job.ranks /\ job.matched # {}
           /\ job.matched \subseteq Frequency \X (1..job.sets)
           /\ job.single \in BOOLEAN
<1>1. /\ job \in Job /\ job.ranks > 0 /\ job.groups > 0 /\ job.freqs > 0 /\ job.perCore > 0
      /\ job.ranks % job.groups = 0 /\ job.writers \in 1..job.ranks
      /\ job.localSolver => job.groups = 1 /\ job.matched # {}
      /\ job.matched \subseteq Frequency \X (1..job.sets)
  BY JobsAssumption DEF Frequency
<1>2. /\ job.ranks \in Nat \ {0} /\ job.groups \in Nat \ {0} /\ job.freqs \in Nat \ {0}
      /\ job.sets \in Nat /\ job.perCore \in Nat \ {0} /\ job.single \in BOOLEAN
  BY <1>1 DEF Job
<1>3. \A r \in Nat \ {0}, g \in Nat \ {0} : r % g = 0 =>
          /\ r \div g \in Nat \ {0} /\ r = (r \div g) * g
  BY ONLY TRUE
<1>4. PerGroup \in Nat \ {0} /\ job.ranks = PerGroup * job.groups
  BY <1>1, <1>2, <1>3 DEF PerGroup
<1>5. PerGroup <= job.ranks
  <2>1. 1 * PerGroup <= job.groups * PerGroup
    BY <1>2, <1>4, MoreTimes
  <2> QED
    BY <1>2, <1>4, <2>1
<1>6. job.groups = 1 => PerGroup = job.ranks
  BY <1>2, <1>4
<1> QED
  BY <1>1, <1>2, <1>4, <1>5, <1>6
-----------------------------------------------------------------------------
(* Type correctness and the places of the loops.                           *)

LEMMA InitAllocation == AllocationInit => AllocationInvariant
<1> SUFFICES ASSUME AllocationInit PROVE AllocationInvariant
  OBVIOUS
<1> USE DEF AllocationInit
<1>1. /\ job \in Jobs /\ PerGroup \in Nat \ {0} /\ job.ranks \in Nat \ {0} /\ job.freqs \in Nat \ {0}
      /\ job.perCore \in Nat \ {0} /\ job.sets \in Nat
  BY Sizes
<1>2. AllocationTypeOK
  <2>1. 0 \in Frequency /\ DOMAIN workerMap = {} /\ DOMAIN writerMap = {} /\ DOMAIN clientMap = {}
    BY <1>1 DEF Frequency
  <2>2. share \in [GroupRank -> Seq(Frequency)] /\ work \in [Rank -> Seq(Unit)]
    OBVIOUS
  <2>3. writer \in [Rank -> 0..job.ranks] /\ set \in 0..job.sets /\ perCore \in Nat \ {0}
    BY <1>1
  <2>4. /\ DOMAIN workerMap \subseteq Rank /\ DOMAIN writerMap \subseteq Rank
        /\ DOMAIN clientMap \subseteq Rank /\ creators \subseteq Rank
    BY <2>1
  <2>5. stage = "adjust" /\ turn \in Nat /\ item \in Nat /\ globalChannel \in Nat /\ found \in BOOLEAN
        /\ lastFreq \in Frequency
    BY <2>1
  <2> QED
    BY ONLY <1>1, <2>2, <2>3, <2>4, <2>5 DEF AllocationTypeOK
<1>3. InRuns
  <2>1. ASSUME NEW w \in GroupRank PROVE ShareLength(w) = 0
    <3>1. w - 1 \in Nat /\ 0 <= (w - 1) * perCore
      BY <1>1, RunOf DEF GroupRank
    <3> QED
      BY <3>1 DEF ShareLength, Dealt
  <2> QED
    BY <2>1 DEF InRuns
<1>4. Even /\ LoopPlace
  BY DEF Even, LoopPlace, Filling
<1>5. Matched /\ Assigned
  BY DEF Matched, Assigned, Filling, Prepared
<1>6. Tallied
  <2>1. \A w : ~Entered(w) /\ FreqsRead(w) = {}
    BY DEF Entered, Counting, FreqsRead, Read
  <2>2. \A v : Clients(v) = {}
    BY <2>1 DEF Clients
  <2>3. DOMAIN workerMap = {} /\ DOMAIN writerMap = {} /\ DOMAIN clientMap = {}
    OBVIOUS
  <2> QED
    BY <2>1, <2>2, <2>3 DEF Tallied
<1> QED
  BY <1>2, <1>3, <1>4, <1>5, <1>6 DEF AllocationInvariant
-----------------------------------------------------------------------------
(* What a step leaves alone stays as it is.                                *)

LEMMA RunsStay ==
    ASSUME InRuns, UNCHANGED <<job, share, perCore>>, Dealt' = Dealt
    PROVE  InRuns'
<1>1. GroupRank' = GroupRank /\ \A w : ShareLength(w)' = ShareLength(w)
  BY DEF GroupRank, PerGroup, ShareLength
<1> QED
  BY <1>1 DEF InRuns

LEMMA UnitsStay ==
    ASSUME Matched, UNCHANGED <<job, work, perCore, globalChannel, set>>,
           Prepared' <=> Prepared, stage' \in Filling <=> stage \in Filling
    PROVE  Matched'
<1>1. Rank' = Rank /\ Frequency' = Frequency /\ Unit' = Unit
  BY DEF Rank, Frequency, Unit
<1>2. \A w : Original(w)' = Original(w) /\ UnitsOf(w)' = UnitsOf(w)
  BY DEF Original, CopyOf, PerGroup, UnitsOf
<1>3. ASSUME NEW w
      PROVE  {u \in Unit : Due(Original(w), u)}' = {u \in Unit : Due(Original(w), u)}
  BY <1>1, <1>2 DEF Due, AllocationIndex, Reached
<1> QED
  BY <1>1, <1>2, <1>3 DEF Matched, Filling

LEMMA WritersStay ==
    ASSUME Assigned, UNCHANGED <<job, work, writer>>, Prepared' <=> Prepared,
           Prepared \/ (stage \notin {"writers", "groups"} /\ stage' \notin {"groups"}
                        /\ (stage' = "writers" => turn' = 0))
    PROVE  Assigned'
<1>1. Rank' = Rank /\ \A w : WriterFor(w)' = WriterFor(w) /\ CopyOf(w)' = CopyOf(w)
  BY DEF Rank, WriterFor, CopyOf, PerGroup
<1>2. \A w : WriterFor(CopyOf(w))' = WriterFor(CopyOf(w))
  BY <1>1 DEF WriterFor
<1>3. \A w \in Rank : Prepared \/ ~(w <= turn' /\ stage' = "writers")
  BY DEF Rank
<1> QED
  BY <1>1, <1>2, <1>3 DEF Assigned

LEMMA NothingTallied ==
    ASSUME Tallied, ~Counting
    PROVE  DOMAIN workerMap = {} /\ DOMAIN writerMap = {} /\ DOMAIN clientMap = {} /\ creators = {}
<1>1. \A w : ~Entered(w) /\ FreqsRead(w) = {}
  BY DEF Entered, FreqsRead, Read
<1>2. \A v : Clients(v) = {}
  BY <1>1 DEF Clients
<1> QED
  BY <1>1, <1>2 DEF Tallied, Counting

\* Until updateComms begins there is nothing to count.
LEMMA StillNothing ==
    ASSUME Tallied, ~Counting, ~Counting', UNCHANGED commsVars
    PROVE  Tallied'
<1>1. \A w : ~Entered(w)' /\ FreqsRead(w)' = {}
  BY DEF Entered, FreqsRead, Read
<1>2. \A v : Clients(v)' = {}
  BY <1>1 DEF Clients
<1> QED
  BY <1>1, <1>2, NothingTallied DEF Tallied, Counting, commsVars
-----------------------------------------------------------------------------
(* The frequencies are dealt out.                                          *)

LEMMA AdjustStep == AllocationInvariant /\ AdjustPerCore => AllocationInvariant'
<1> SUFFICES ASSUME AllocationInvariant, AdjustPerCore PROVE AllocationInvariant'
  OBVIOUS
<1> USE DEF AdjustPerCore
<1>0. AllocationTypeOK /\ InRuns /\ LoopPlace /\ Matched /\ Assigned /\ Tallied
  BY DEF AllocationInvariant
<1> DEFINE fits == job.freqs \div PerGroup
<1>1. /\ job \in Jobs /\ turn = 0 /\ fits \in Nat /\ job.freqs \in Nat \ {0} /\ PerGroup \in Nat \ {0}
      /\ stage = "adjust" /\ stage' \in {"share", "refused"} /\ perCore \in Nat \ {0}
      /\ globalChannel = 0 /\ item = 0 /\ set = 0 /\ ~found
  <2>1. job \in Jobs /\ stage = "adjust" /\ turn = 0 /\ globalChannel = 0 /\ item = 0 /\ set = 0 /\ ~found
    BY <1>0 DEF AllocationTypeOK, LoopPlace, Filling
  <2>2. job.freqs \in Nat \ {0} /\ PerGroup \in Nat \ {0}
    BY <2>1, Sizes
  <2>3. fits \in Nat
    BY <2>2
  <2>4. perCore \in Nat \ {0}
    BY <1>0 DEF AllocationTypeOK
  <2>5. stage' \in {"share", "refused"}
    OBVIOUS
  <2> QED
    BY ONLY <2>1, <2>2, <2>3, <2>4, <2>5
<1>2. perCore' \in Nat \ {0} /\ (stage' = "share" => perCore' = fits)
  BY <1>1
<1>3. Rank' = Rank /\ GroupRank' = GroupRank /\ Frequency' = Frequency /\ Unit' = Unit
  BY DEF Rank, GroupRank, PerGroup, Frequency, Unit
<1>4. AllocationTypeOK'
  BY ONLY <1>0, <1>1, <1>2, <1>3, AdjustPerCore DEF AllocationTypeOK, AdjustPerCore, matchVars, commsVars
<1>5. InRuns'
  <2>1. ASSUME NEW w \in GroupRank PROVE ShareLength(w) = 0 /\ ShareLength(w)' = 0
    <3>1. w - 1 \in Nat /\ 0 <= (w - 1) * perCore /\ 0 <= (w - 1) * perCore'
      BY <1>1, <1>2, RunOf DEF GroupRank
    <3>2. Dealt = 0 /\ Dealt' = 0
      BY <1>1 DEF Dealt
    <3> QED
      BY <3>1, <3>2 DEF ShareLength
  <2> QED
    BY <1>0, <1>3, <2>1 DEF InRuns
<1>6. Even' /\ LoopPlace'
  <2>1. UNCHANGED <<job, turn, globalChannel, item, set, found>> /\ PerGroup' = PerGroup
    BY DEF matchVars, PerGroup
  <2> QED
    BY <1>1, <1>2, <2>1 DEF Even, LoopPlace, Filling
<1>7. Matched' /\ Assigned' /\ Tallied'
  <2>1. Matched'
    BY <1>0, <1>1, <1>3 DEF Matched, Filling
  <2>2. Assigned'
    BY <1>0, <1>1, WritersStay DEF Prepared
  <2>3. Tallied'
    BY <1>0, <1>1, StillNothing DEF Counting
  <2> QED
    BY <2>1, <2>2, <2>3
<1> QED
  BY <1>4, <1>5, <1>6, <1>7 DEF AllocationInvariant

\* Where a frequency goes, and what the others have got.
LEMMA ShareStep == AllocationInvariant /\ ShareFrequency => AllocationInvariant'
<1> SUFFICES ASSUME AllocationInvariant, ShareFrequency PROVE AllocationInvariant'
  OBVIOUS
<1>0. AllocationTypeOK /\ InRuns /\ LoopPlace /\ Matched /\ Assigned /\ Tallied
  BY DEF AllocationInvariant
<1> DEFINE a == AllocationIndex(turn)
<1>1. /\ job \in Jobs /\ stage = "share" /\ turn \in Nat /\ turn < job.freqs
      /\ perCore \in Nat \ {0} /\ perCore = job.freqs \div PerGroup
      /\ globalChannel = 0 /\ item = 0 /\ set = 0 /\ ~found
  BY <1>0 DEF AllocationTypeOK, LoopPlace, Filling, ShareFrequency
<1>2. job.freqs \in Nat \ {0} /\ PerGroup \in Nat \ {0} /\ job.sets \in Nat
  BY <1>1, Sizes
<1>3. /\ UNCHANGED <<job, perCore, work, writer, lastFreq, item, set, globalChannel, found, commsVars>>
      /\ Rank' = Rank /\ GroupRank' = GroupRank /\ Frequency' = Frequency /\ Unit' = Unit
      /\ PerGroup' = PerGroup
  BY DEF ShareFrequency, matchVars, Rank, GroupRank, PerGroup, Frequency, Unit
<1>4. stage' \in {"share", "match", "undefined"} /\ turn' \in Nat
  BY <1>1 DEF ShareFrequency, Loop
<1>5. \/ a \notin GroupRank /\ stage' = "undefined" /\ UNCHANGED <<turn, share>>
      \/ /\ a \in GroupRank /\ share' = [share EXCEPT ![a] = Append(@, turn)]
         /\ \/ turn + 1 < job.freqs /\ turn' = turn + 1 /\ stage' = "share"
            \/ turn + 1 = job.freqs /\ turn' = 0 /\ stage' = "match"
  BY <1>1, <1>2 DEF ShareFrequency, Loop
<1>6. share \in [GroupRank -> Seq(Frequency)] /\ turn \in Frequency
  BY <1>0, <1>1, <1>2 DEF AllocationTypeOK, Frequency
<1>7. a \in Nat \ {0} /\ (a - 1) * perCore <= turn /\ turn < a * perCore
  BY <1>1, RunOf DEF AllocationIndex
<1> HIDE DEF a
<1>8. AllocationTypeOK'
  <2>1. share' \in [GroupRank -> Seq(Frequency)]
    <3>1. CASE a \in GroupRank
      <4>1. share[a] \in Seq(Frequency)
        BY ONLY <1>6, <3>1
      <4>2. Append(share[a], turn) \in Seq(Frequency)
        BY ONLY <1>6, <4>1, AppendProperties
      <4>3. share' = [share EXCEPT ![a] = Append(@, turn)]
        BY ONLY <1>5, <3>1
      <4> QED
        BY ONLY <1>6, <3>1, <4>2, <4>3
    <3>2. CASE a \notin GroupRank
      BY ONLY <1>5, <1>6, <3>2
    <3> QED
      BY ONLY <3>1, <3>2
  <2> QED
    BY ONLY <1>0, <1>1, <1>3, <1>4, <2>1 DEF AllocationTypeOK, commsVars
<1>9. InRuns'
  <2>1. CASE a \notin GroupRank
    <3>1. Dealt = Dealt'
      BY <1>1, <1>5, <2>1 DEF Dealt
    <3> QED
      BY <1>0, <1>3, <1>5, <2>1, <3>1, RunsStay
  <2>2. CASE a \in GroupRank
    <3>1. Dealt = turn /\ Dealt' = turn + 1
      BY <1>1, <1>3, <1>5, <2>2 DEF Dealt
    <3>2. ASSUME NEW w \in GroupRank
          PROVE  /\ Len(share'[w]) = ShareLength(w)'
                 /\ \A i \in 1..Len(share'[w]) : share'[w][i] = (w - 1) * perCore + i - 1
      <4>1. /\ w \in Nat \ {0} /\ (w - 1) * perCore \in Nat /\ w * perCore \in Nat
            /\ w * perCore = (w - 1) * perCore + perCore
        BY <1>1, RunOf DEF GroupRank
      <4>2. /\ Len(share[w]) = ShareLength(w)
            /\ \A i \in 1..Len(share[w]) : share[w][i] = (w - 1) * perCore + i - 1
            /\ share[w] \in Seq(Frequency)
        BY <1>0, <1>6 DEF InRuns
      <4>3. CASE w = a
        <5>1. share'[w] = Append(share[w], turn)
          BY <1>5, <1>6, <2>2, <4>3
        <5>2. /\ Len(share'[w]) = Len(share[w]) + 1 /\ share'[w][Len(share[w]) + 1] = turn
              /\ \A i \in 1..Len(share[w]) : share'[w][i] = share[w][i]
          BY <1>6, <4>2, <5>1, AppendProperties
        <5>3. ShareLength(w) = turn - (w - 1) * perCore /\ ShareLength(w) \in Nat
          BY <1>1, <1>7, <3>1, <4>1, <4>3 DEF ShareLength
        <5>4. ShareLength(w)' = turn + 1 - (w - 1) * perCore
          BY <1>1, <1>3, <1>7, <3>1, <4>1, <4>3 DEF ShareLength
        <5>5. turn = (w - 1) * perCore + (Len(share[w]) + 1) - 1
          BY <1>1, <4>1, <4>2, <5>3
        <5>6. Len(share'[w]) = ShareLength(w)'
          BY <1>1, <4>1, <4>2, <5>2, <5>3, <5>4
        <5>7. ASSUME NEW i \in 1..Len(share'[w])
              PROVE  share'[w][i] = (w - 1) * perCore + i - 1
          <6>1. i \in 1..Len(share[w]) \/ i = Len(share[w]) + 1
            BY <4>2, <5>2, <5>3
          <6> QED
            BY <4>2, <5>2, <5>5, <6>1
        <5> QED
          BY <5>6, <5>7
      <4>4. CASE w # a
        <5>1. share'[w] = share[w]
          BY <1>5, <1>6, <2>2, <4>4
        <5>2. turn < (w - 1) * perCore \/ w * perCore <= turn
          <6>1. ~((w - 1) * perCore <= turn /\ turn < w * perCore)
            BY <1>1, <4>1, <4>4, RunOf DEF a, AllocationIndex
          <6> QED
            BY <1>1, <4>1, <6>1
        <5>3. ShareLength(w)' = ShareLength(w)
          BY <1>1, <1>3, <3>1, <4>1, <5>2 DEF ShareLength
        <5> QED
          BY <4>2, <5>1, <5>3
      <4> QED
        BY <4>3, <4>4
    <3> QED
      BY <1>3, <3>2 DEF InRuns
  <2> QED
    BY <2>1, <2>2
<1>10. ASSUME stage' = "match" PROVE job.freqs = PerGroup * perCore
  <2>1. a \in GroupRank /\ turn + 1 = job.freqs
    BY <1>5, <1>10
  <2>2. a * perCore <= PerGroup * perCore /\ PerGroup * perCore \in Nat /\ a * perCore \in Nat
    BY <1>1, <1>2, <1>7, <2>1, MoreTimes DEF GroupRank
  <2>3. PerGroup * perCore <= job.freqs
    <3>1. \A F \in Nat, G \in Nat \ {0} : G * (F \div G) <= F
      BY ONLY TRUE
    <3> QED
      BY <1>1, <1>2, <3>1
  <2> QED
    BY <1>1, <1>2, <1>7, <2>1, <2>2, <2>3
<1>11. Even' /\ LoopPlace'
  <2>1. Even'
    BY <1>3, <1>4, <1>10 DEF Even, Filling
  <2>2. LoopPlace'
    BY <1>1, <1>2, <1>3, <1>4, <1>5 DEF LoopPlace, Filling
  <2> QED
    BY <2>1, <2>2
<1>12. Matched'
  <2>1. \A w \in Rank : work'[w] = <<>>
    BY <1>0, <1>1, <1>3 DEF Matched, Filling
  <2>2. ASSUME stage' = "match", NEW w \in Rank
        PROVE  InOrder(work[w])' /\ UnitsOf(w)' = {unit \in Unit : Due(Original(w), unit)}'
    <3>1. UnitsOf(w)' = {} /\ InOrder(work[w])'
      BY <2>1 DEF UnitsOf, InOrder
    <3>2. ASSUME NEW v, NEW unit \in Unit PROVE ~Due(v, unit)'
      <4>1. unit.freq \in Nat /\ unit.set \in Nat
        BY <1>2 DEF Unit, Frequency
      <4> QED
        BY <1>1, <1>3, <4>1 DEF Due, IsWork, Reached
    <3>3. \A unit \in Unit' : ~Due(Original(w), unit)'
      BY <1>3, <3>2 DEF Due
    <3> QED
      BY <3>1, <3>3
  <2> QED
    BY <1>3, <1>4, <2>1, <2>2 DEF Matched, Filling
<1>13. Assigned' /\ Tallied'
  <2>1. ~Prepared /\ ~Prepared' /\ ~Counting /\ ~Counting'
    BY <1>1, <1>4 DEF Prepared, Counting
  <2> QED
    BY <1>0, <1>1, <1>3, <1>4, <2>1, WritersStay, StillNothing
<1> QED
  BY <1>8, <1>9, <1>11, <1>12, <1>13 DEF AllocationInvariant
-----------------------------------------------------------------------------
(* The data sets of each frequency become units.                           *)

\* A share is as long as nchanpercore.
LEMMA FullShare ==
    ASSUME AllocationInvariant, stage = "match"
    PROVE  /\ Len(share[turn + 1]) = perCore
           /\ turn + 1 \in GroupRank /\ (turn + 1) * perCore <= job.freqs
           /\ turn * perCore \in Nat /\ (turn + 1) * perCore = turn * perCore + perCore
<1>1. /\ job \in Jobs /\ turn \in Nat /\ perCore \in Nat \ {0} /\ turn < PerGroup /\ InRuns
      /\ job.freqs = PerGroup * perCore
  BY DEF AllocationInvariant, AllocationTypeOK, LoopPlace, Even, Filling
<1>2. PerGroup \in Nat \ {0} /\ job.freqs \in Nat \ {0}
  BY <1>1, Sizes
<1>3. turn + 1 \in GroupRank /\ turn + 1 \in Nat \ {0} /\ (turn + 1) - 1 = turn
  BY <1>1, <1>2 DEF GroupRank
<1>4. turn * perCore \in Nat /\ (turn + 1) * perCore = turn * perCore + perCore
  BY <1>1, <1>3, RunOf
<1>5. (turn + 1) * perCore <= job.freqs
  BY <1>1, <1>2, <1>3, MoreTimes
<1>6. ShareLength(turn + 1) = perCore
  <2>1. Dealt = job.freqs
    BY DEF Dealt
  <2> QED
    BY <1>1, <1>2, <1>3, <1>4, <1>5, <2>1 DEF ShareLength
<1> QED
  BY <1>1, <1>3, <1>4, <1>5, <1>6 DEF InRuns

\* The frequency that is matched is the one the global channel counts.
LEMMA AtChannel ==
    ASSUME AllocationInvariant, stage = "match", item < Len(share[turn + 1])
    PROVE  /\ turn + 1 \in GroupRank /\ turn + 1 \in Rank
           /\ ThisFrequency = globalChannel /\ globalChannel \in Frequency
           /\ AllocationIndex(globalChannel) = turn + 1
           /\ item < perCore /\ globalChannel = turn * perCore + item
<1>1. /\ job \in Jobs /\ turn \in Nat /\ item \in Nat /\ perCore \in Nat \ {0} /\ turn < PerGroup
      /\ globalChannel = turn * perCore + item /\ InRuns
  BY DEF AllocationInvariant, AllocationTypeOK, LoopPlace
<1>2. PerGroup \in Nat \ {0} /\ job.freqs \in Nat \ {0} /\ job.ranks \in Nat /\ PerGroup <= job.ranks
  BY <1>1, Sizes
<1>3. /\ Len(share[turn + 1]) = perCore
      /\ turn + 1 \in GroupRank /\ (turn + 1) * perCore <= job.freqs
      /\ turn * perCore \in Nat /\ (turn + 1) * perCore = turn * perCore + perCore
  BY FullShare
<1>4. turn + 1 \in Rank /\ turn + 1 \in Nat \ {0} /\ (turn + 1) - 1 = turn
  BY <1>1, <1>2 DEF Rank
<1>5. item + 1 \in 1..Len(share[turn + 1])
  BY <1>1, <1>3
<1>6. ThisFrequency = turn * perCore + (item + 1) - 1
  BY <1>1, <1>3, <1>4, <1>5 DEF InRuns, ThisFrequency
<1>7. globalChannel \in Nat /\ turn * perCore <= globalChannel /\ globalChannel < (turn + 1) * perCore
  BY <1>1, <1>3
<1>8. AllocationIndex(globalChannel) = turn + 1
  <2> DEFINE w == turn + 1
  <2>1. w \in Nat \ {0} /\ (w - 1) * perCore = turn * perCore /\ w * perCore = (turn + 1) * perCore
    BY <1>4
  <2> HIDE DEF w
  <2>2. perCore \in Nat \ {0} /\ (w - 1) * perCore <= globalChannel /\ globalChannel < w * perCore
    BY ONLY <1>1, <1>7, <2>1
  <2>3. (globalChannel \div perCore) + 1 = w
    BY ONLY <1>7, <2>1, <2>2, RunOf
  <2> QED
    BY <2>3 DEF w, AllocationIndex
<1> QED
  BY <1>1, <1>2, <1>3, <1>4, <1>6, <1>7, <1>8 DEF Frequency

LEMMA PushInOrder ==
    ASSUME NEW units \in Seq(Unit), NEW u \in Unit, InOrder(units),
           \A i \in 1..Len(units) : Before(units[i], u)
    PROVE  /\ Append(units, u) \in Seq(Unit) /\ InOrder(Append(units, u))
           /\ {Append(units, u)[i] : i \in 1..Len(Append(units, u))}
                = {units[i] : i \in 1..Len(units)} \cup {u}
<1> DEFINE more == Append(units, u)
<1>1. /\ more \in Seq(Unit) /\ Len(more) = Len(units) + 1 /\ more[Len(units) + 1] = u
      /\ \A i \in 1..Len(units) : more[i] = units[i]
      /\ Len(units) \in Nat
  BY AppendProperties
<1> HIDE DEF more
<1>2. ASSUME NEW i \in 1..Len(more)
      PROVE  i \in 1..Len(units) \/ i = Len(units) + 1
  BY <1>1
<1>3. InOrder(more)
  <2>1. ASSUME NEW i \in 1..Len(more), NEW j \in 1..Len(more), i < j PROVE Before(more[i], more[j])
    <3>1. i \in 1..Len(units)
      BY <1>1, <2>1
    <3> QED
      BY <1>1, <1>2, <2>1, <3>1 DEF InOrder
  <2> QED
    BY <2>1 DEF InOrder
<1>4. {more[i] : i \in 1..Len(more)} = {units[i] : i \in 1..Len(units)} \cup {u}
  <2>1. \A i \in 1..Len(units) : i \in 1..Len(more)
    BY <1>1
  <2>2. Len(units) + 1 \in 1..Len(more)
    BY <1>1
  <2> QED
    BY <1>1, <1>2, <2>1, <2>2
<1> QED
  BY <1>1, <1>3, <1>4 DEF more

LEMMA PushMatched ==
    ASSUME AllocationTypeOK, Matched, stage = "match", stage' = "match", turn + 1 \in Rank,
           UNCHANGED job, NEW u \in Unit, Push(u),
           \A v \in Unit : Due(turn + 1, v) => Before(v, u),
           \A w \in Rank, v \in Unit : Due(w, v)' <=> Due(w, v) \/ (w = turn + 1 /\ v = u)
    PROVE  Matched' /\ work' \in [Rank -> Seq(Unit)]
<1> DEFINE me == turn + 1
<1>1. /\ work \in [Rank -> Seq(Unit)] /\ work' = [work EXCEPT ![me] = Append(@, u)]
      /\ Rank' = Rank /\ Unit' = Unit /\ me \in Rank
  BY DEF AllocationTypeOK, Push, Rank, Unit, Frequency
<1>2. \A w : Original(w) = w /\ Original(w)' = w
  BY DEF Original, Prepared
<1>3. \A w \in Rank : InOrder(work[w]) /\ UnitsOf(w) = {v \in Unit : Due(w, v)}
  <2>1. \A w \in Rank : InOrder(work[w]) /\ UnitsOf(w) = {v \in Unit : Due(Original(w), v)}
    BY DEF Matched, Filling
  <2>2. \A w \in Rank : Original(w) = w
    BY <1>2
  <2> QED
    BY <2>1, <2>2
<1> HIDE DEF me
<1>4. ASSUME NEW w \in Rank
      PROVE  InOrder(work'[w]) /\ UnitsOf(w)' = {v \in Unit : Due(w, v)'} /\ work'[w] \in Seq(Unit)
  <2>1. CASE w = me
    <3>1. work'[w] = Append(work[w], u) /\ work[w] \in Seq(Unit)
      BY <1>1, <2>1
    <3>2. \A i \in 1..Len(work[w]) : Before(work[w][i], u)
      <4>1. ASSUME NEW i \in 1..Len(work[w]) PROVE Before(work[w][i], u)
        <5>1. work[w][i] \in UnitsOf(w)
          BY DEF UnitsOf
        <5>2. work[w][i] \in Unit /\ Due(me, work[w][i])
          BY <1>3, <2>1, <5>1
        <5> QED
          BY <5>2 DEF me
      <4> QED
        BY <4>1
    <3>3. InOrder(Append(work[w], u)) /\ Append(work[w], u) \in Seq(Unit)
          /\ {Append(work[w], u)[i] : i \in 1..Len(Append(work[w], u))} = UnitsOf(w) \cup {u}
      BY <1>3, <3>1, <3>2, PushInOrder DEF UnitsOf
    <3>4. UnitsOf(w)' = UnitsOf(w) \cup {u}
      BY <3>1, <3>3 DEF UnitsOf
    <3>5. \A v \in Unit : Due(w, v)' <=> v \in UnitsOf(w) \/ v = u
      BY <1>3, <2>1 DEF me
    <3> QED
      BY <1>3, <3>1, <3>3, <3>4, <3>5
  <2>2. CASE w # me
    <3>1. work'[w] = work[w]
      BY <1>1, <2>2
    <3>2. UnitsOf(w)' = UnitsOf(w)
      BY <3>1 DEF UnitsOf
    <3>3. \A v \in Unit : Due(w, v)' <=> Due(w, v)
      BY <2>2 DEF me
    <3> QED
      BY <1>1, <1>3, <3>1, <3>2, <3>3
  <2> QED
    BY <2>1, <2>2
<1>5. \A w \in Rank' : InOrder(work[w])' /\ UnitsOf(w)' = {v \in Unit : Due(Original(w), v)}'
  <2>1. ASSUME NEW w \in Rank
        PROVE {v \in Unit : Due(Original(w), v)}' = {v \in Unit : Due(w, v)'}
    BY <1>1, <1>2 DEF Due
  <2>2. \A w \in Rank : InOrder(work[w])' <=> InOrder(work'[w])
    BY DEF InOrder
  <2> QED
    BY <1>1, <1>4, <2>1, <2>2
<1>6. work' \in [Rank -> Seq(Unit)]
  <2>1. work' = [w \in Rank |-> work'[w]]
    BY <1>1
  <2> QED
    BY <1>4, <2>1
<1> QED
  BY <1>5, <1>6 DEF Matched, Filling

LEMMA MatchStep == AllocationInvariant /\ MatchSet => AllocationInvariant'
<1> SUFFICES ASSUME AllocationInvariant, MatchSet PROVE AllocationInvariant'
  OBVIOUS
<1>0. AllocationTypeOK /\ InRuns /\ Even /\ LoopPlace /\ Matched /\ Assigned /\ Tallied
  BY DEF AllocationInvariant
<1> DEFINE me == turn + 1
           c == globalChannel
           u == WorkUnit(c, c, set + 1)
           has == <<c, set + 1>> \in job.matched
<1>1. /\ stage = "match" /\ item < Len(share[turn + 1]) /\ set < job.sets /\ set' = set + 1
      /\ UNCHANGED <<job, stage, turn, item, perCore, globalChannel, share, writer, lastFreq, commsVars>>
  BY DEF MatchSet
<1>2. /\ me \in GroupRank /\ me \in Rank /\ ThisFrequency = c /\ c \in Frequency
      /\ AllocationIndex(c) = me /\ item < perCore /\ c = turn * perCore + item
  BY <1>1, AtChannel
<1>3. /\ job \in Jobs /\ set \in 0..job.sets /\ job.sets \in Nat /\ job.freqs \in Nat
      /\ found \in BOOLEAN /\ turn < PerGroup
      /\ found <=> \E s \in 1..set : <<c, s>> \in job.matched
  <2>1. job \in Jobs /\ set \in 0..job.sets /\ found \in BOOLEAN
    BY <1>0 DEF AllocationTypeOK
  <2>2. turn < PerGroup /\ (found <=> \E s \in 1..set : <<c, s>> \in job.matched)
    BY <1>0, <1>1 DEF LoopPlace
  <2> QED
    BY <2>1, <2>2, Sizes
<1>4. /\ Rank' = Rank /\ GroupRank' = GroupRank /\ Frequency' = Frequency /\ Unit' = Unit
      /\ PerGroup' = PerGroup
  BY <1>1 DEF Rank, GroupRank, PerGroup, Frequency, Unit
<1>5. \/ has /\ Push(u) /\ found' = TRUE
      \/ ~has /\ UNCHANGED <<work, found>>
  BY <1>1, <1>2 DEF MatchSet
<1>6. u \in Unit /\ u.freq = c /\ u.set = set + 1 /\ u.channel = c /\ set + 1 \in 1..job.sets
  BY <1>1, <1>2, <1>3 DEF Unit, WorkUnit
<1>7. \A v \in Unit : v.freq \in Nat /\ v.set \in 0..job.sets
  BY <1>3 DEF Unit, Frequency
<1>8. ASSUME NEW w \in Rank, NEW v \in Unit
      PROVE  Due(w, v)' <=> Due(w, v) \/ (has /\ w = me /\ v = u)
  <2>1. AllocationIndex(v.freq)' = AllocationIndex(v.freq)
    BY <1>1 DEF AllocationIndex
  <2>2. IsWork(v) => (Reached(v.freq, v.set)' <=> Reached(v.freq, v.set) \/ (v.freq = c /\ v.set = set + 1))
    BY <1>1, <1>3, <1>7, <1>2 DEF Reached, Frequency
  <2>3. IsWork(v) /\ v.freq = c /\ v.set = set + 1 /\ v.channel = v.freq <=> v = u
    BY <1>3, <1>6 DEF Unit, WorkUnit, IsWork
  <2>4. Due(w, v)' <=> /\ AllocationIndex(v.freq) = w
                       /\ \/ /\ IsWork(v) /\ v.channel = v.freq
                             /\ <<v.freq, v.set>> \in job.matched /\ Reached(v.freq, v.set)'
                          \/ /\ v = NAUnit(v.freq) /\ v.freq < globalChannel
                             /\ \A s \in 1..job.sets : <<v.freq, s>> \notin job.matched
    BY <1>1, <2>1 DEF Due
  <2>5. v = u => AllocationIndex(v.freq) = me /\ (<<v.freq, v.set>> \in job.matched <=> has)
    BY <1>2, <1>6
  <2> HIDE DEF me, c, u, has
  <2> QED
    BY <2>2, <2>3, <2>4, <2>5 DEF Due
<1>9. Matched' /\ work' \in [Rank -> Seq(Unit)]
  <2>1. CASE has
    <3>1. ASSUME NEW v \in Unit, Due(me, v) PROVE Before(v, u)
      <4>1. v.freq < c \/ (v.freq = c /\ v.set <= set)
        BY <3>1 DEF Due, Reached
      <4> QED
        BY <1>3, <1>6, <1>7, <4>1 DEF Before
    <3>2. Push(u)
      BY <1>5, <2>1
    <3>3. \A w \in Rank, v \in Unit : Due(w, v)' <=> Due(w, v) \/ (w = turn + 1 /\ v = u)
      BY <1>8, <2>1
    <3> HIDE DEF u, has, c
    <3> QED
      BY <1>0, <1>1, <1>2, <1>6, <3>1, <3>2, <3>3, PushMatched
  <2>2. CASE ~has
    <3>1. work' = work
      BY <1>5, <2>2
    <3>2. \A w \in Rank, v \in Unit : Due(w, v)' <=> Due(w, v)
      BY <1>8, <2>2
    <3> HIDE DEF u, has, c, me
    <3>3. ASSUME NEW w \in Rank
          PROVE  {v \in Unit : Due(Original(w), v)}' = {v \in Unit : Due(Original(w), v)}
      <4>1. Original(w)' = w /\ Original(w) = w
        BY <1>1 DEF Original, Prepared
      <4>2. {v \in Unit : Due(Original(w), v)}' = {v \in Unit : Due(w, v)'}
        BY <1>4, <4>1 DEF Due
      <4> QED
        BY <3>2, <4>1, <4>2
    <3>4. \A w \in Rank : UnitsOf(w)' = UnitsOf(w) /\ (InOrder(work[w])' <=> InOrder(work[w]))
      BY <3>1 DEF UnitsOf, InOrder
    <3>5. Matched'
      BY <1>0, <1>1, <1>4, <3>3, <3>4 DEF Matched, Filling
    <3> QED
      BY <1>0, <3>1, <3>5 DEF AllocationTypeOK
  <2> QED
    BY <2>1, <2>2
<1>10. AllocationTypeOK'
  <2>1. set' \in 0..job.sets /\ found' \in BOOLEAN
    <3>1. set + 1 \in 0..job.sets
      BY <1>1, <1>3
    <3>2. found' \in BOOLEAN
      BY <1>3, <1>5
    <3> QED
      BY <1>1, <3>1, <3>2
  <2> QED
    BY ONLY <1>0, <1>1, <1>4, <1>9, <2>1 DEF AllocationTypeOK, commsVars
<1>11. InRuns' /\ Even'
  <2>1. Dealt' = Dealt
    BY <1>1 DEF Dealt
  <2> QED
    BY <1>0, <1>1, <1>4, <2>1, RunsStay DEF Even
<1>12. LoopPlace'
  <2>1. found' <=> \E s \in 1..(set + 1) : <<c, s>> \in job.matched
    <3>1. \A s : s \in 1..(set + 1) <=> s \in 1..set \/ s = set + 1
      BY <1>3
    <3> QED
      BY <1>3, <1>5, <3>1
  <2> QED
    BY <1>0, <1>1, <1>2, <1>4, <2>1 DEF LoopPlace, Filling
<1>13. Assigned' /\ Tallied'
  <2>1. ~Prepared /\ ~Prepared' /\ ~Counting /\ ~Counting'
    BY <1>1 DEF Prepared, Counting
  <2>2. Tallied'
    BY <1>0, <1>1, <2>1, StillNothing
  <2>3. Assigned'
    BY <1>0, <1>1, <1>4, <2>1 DEF Assigned
  <2> QED
    BY <2>2, <2>3
<1> QED
  BY <1>9, <1>10, <1>11, <1>12, <1>13 DEF AllocationInvariant

LEMMA FrequencyStep == AllocationInvariant /\ NextFrequency => AllocationInvariant'
<1> SUFFICES ASSUME AllocationInvariant, NextFrequency PROVE AllocationInvariant'
  OBVIOUS
<1>0. AllocationTypeOK /\ InRuns /\ Even /\ LoopPlace /\ Matched /\ Assigned /\ Tallied
  BY DEF AllocationInvariant
<1> DEFINE me == turn + 1
           c == globalChannel
           u == NAUnit(c)
<1>1. /\ stage = "match" /\ item < Len(share[turn + 1]) /\ set = job.sets /\ set' = 0
      /\ globalChannel' = globalChannel + 1 /\ item' = item + 1 /\ found' = FALSE
      /\ UNCHANGED <<job, stage, turn, perCore, share, writer, lastFreq, commsVars>>
  BY DEF NextFrequency, NextChannel
<1>2. /\ me \in GroupRank /\ me \in Rank /\ ThisFrequency = c /\ c \in Frequency
      /\ AllocationIndex(c) = me /\ item < perCore /\ c = turn * perCore + item
  BY <1>1, AtChannel
<1>3. /\ job \in Jobs /\ job.sets \in Nat /\ job.freqs \in Nat /\ item \in Nat /\ turn \in Nat
      /\ perCore \in Nat \ {0} /\ turn < PerGroup /\ turn * perCore \in Nat
      /\ found <=> \E s \in 1..job.sets : <<c, s>> \in job.matched
  <2>1. job \in Jobs /\ item \in Nat /\ turn \in Nat /\ perCore \in Nat \ {0}
    BY <1>0 DEF AllocationTypeOK
  <2>2. turn < PerGroup /\ (found <=> \E s \in 1..job.sets : <<c, s>> \in job.matched)
    BY <1>0, <1>1 DEF LoopPlace
  <2>3. turn * perCore \in Nat
    BY <1>1, FullShare
  <2> QED
    BY <2>1, <2>2, <2>3, Sizes
<1>4. /\ Rank' = Rank /\ GroupRank' = GroupRank /\ Frequency' = Frequency /\ Unit' = Unit
      /\ PerGroup' = PerGroup
  BY <1>1 DEF Rank, GroupRank, PerGroup, Frequency, Unit
<1>5. (found /\ UNCHANGED work) \/ (~found /\ Push(u))
  BY <1>1, <1>2 DEF NextFrequency
<1>6. u \in Unit /\ u.freq = c /\ u.set = 0
  BY <1>2, <1>3 DEF Unit, NAUnit
<1>7. \A v \in Unit : v.freq \in Nat /\ v.set \in 0..job.sets
  BY <1>3 DEF Unit, Frequency
<1>8. ASSUME NEW w \in Rank, NEW v \in Unit
      PROVE  Due(w, v)' <=> Due(w, v) \/ (~found /\ w = me /\ v = u)
  <2>1. AllocationIndex(v.freq)' = AllocationIndex(v.freq)
    BY <1>1 DEF AllocationIndex
  <2>2. IsWork(v) => (Reached(v.freq, v.set)' <=> Reached(v.freq, v.set))
    <3>1. c \in Nat /\ v.freq \in Nat /\ v.set \in 0..set /\ set \in Nat
      <4>1. v.freq \in Nat /\ v.set \in 0..job.sets
        BY ONLY <1>7
      <4>2. c \in Nat /\ job.sets \in Nat /\ set = job.sets
        BY <1>1, <1>2, <1>3 DEF Frequency
      <4> QED
        BY ONLY <4>1, <4>2
    <3>2. Reached(v.freq, v.set) <=> v.freq < c \/ v.freq = c
      BY <3>1 DEF Reached
    <3>3. Reached(v.freq, v.set)' <=> v.freq < c + 1 \/ (v.freq = c + 1 /\ v.set <= 0)
      BY <1>1 DEF Reached
    <3> QED
      BY ONLY <3>1, <3>2, <3>3 DEF IsWork
  <2>3. v = NAUnit(v.freq) => (v.freq < c + 1 <=> v.freq < c \/ v = u)
    <3>1. v.freq < c + 1 <=> v.freq < c \/ v.freq = c
      BY <1>2, <1>7 DEF Frequency
    <3>2. v = u => v.freq = c
      BY <1>6
    <3> QED
      BY <3>1, <3>2
  <2>4. Due(w, v)' <=> /\ AllocationIndex(v.freq) = w
                       /\ \/ /\ IsWork(v) /\ v.channel = v.freq
                             /\ <<v.freq, v.set>> \in job.matched /\ Reached(v.freq, v.set)'
                          \/ /\ v = NAUnit(v.freq) /\ v.freq < c + 1
                             /\ \A s \in 1..job.sets : <<v.freq, s>> \notin job.matched
    BY <1>1, <2>1 DEF Due
  <2>5. v = u => AllocationIndex(v.freq) = me /\ v = NAUnit(v.freq)
                 /\ ((\A s \in 1..job.sets : <<v.freq, s>> \notin job.matched) <=> ~found)
    BY <1>2, <1>3, <1>6
  <2> HIDE DEF me, c, u
  <2> QED
    BY <2>2, <2>3, <2>4, <2>5 DEF Due, c
<1>9. Matched' /\ work' \in [Rank -> Seq(Unit)]
  <2>1. CASE ~found
    <3>1. ASSUME NEW v \in Unit, Due(me, v) PROVE Before(v, u)
      <4>1. v.freq < c \/ (v.freq = c /\ <<c, v.set>> \in job.matched /\ IsWork(v))
        <5>1. v.freq < c \/ (IsWork(v) /\ <<v.freq, v.set>> \in job.matched /\ v.freq = c)
          BY <3>1 DEF Due, Reached
        <5> QED
          BY <5>1
      <4>2. ASSUME <<c, v.set>> \in job.matched, IsWork(v) PROVE FALSE
        <5>1. v.set \in 1..job.sets
          BY <1>3, <1>7, <4>2 DEF IsWork
        <5> QED
          BY <1>3, <2>1, <4>2, <5>1
      <4> QED
        BY <1>6, <4>1, <4>2 DEF Before
    <3>2. Push(u)
      BY <1>5, <2>1
    <3>3. \A w \in Rank, v \in Unit : Due(w, v)' <=> Due(w, v) \/ (w = turn + 1 /\ v = u)
      BY <1>8, <2>1
    <3> HIDE DEF u, c
    <3> QED
      BY <1>0, <1>1, <1>2, <1>6, <3>1, <3>2, <3>3, PushMatched
  <2>2. CASE found
    <3>1. work' = work
      BY <1>5, <2>2
    <3>2. \A w \in Rank, v \in Unit : Due(w, v)' <=> Due(w, v)
      BY <1>8, <2>2
    <3> HIDE DEF u, c, me
    <3>3. ASSUME NEW w \in Rank
          PROVE  {v \in Unit : Due(Original(w), v)}' = {v \in Unit : Due(Original(w), v)}
      <4>1. Original(w)' = w /\ Original(w) = w
        BY <1>1 DEF Original, Prepared
      <4>2. {v \in Unit : Due(Original(w), v)}' = {v \in Unit : Due(w, v)'}
        BY <1>4, <4>1 DEF Due
      <4> QED
        BY <3>2, <4>1, <4>2
    <3>4. \A w \in Rank : UnitsOf(w)' = UnitsOf(w) /\ (InOrder(work[w])' <=> InOrder(work[w]))
      BY <3>1 DEF UnitsOf, InOrder
    <3>5. Matched'
      BY <1>0, <1>1, <1>4, <3>3, <3>4 DEF Matched, Filling
    <3> QED
      BY <1>0, <3>1, <3>5 DEF AllocationTypeOK
  <2> QED
    BY <2>1, <2>2
<1>10. AllocationTypeOK'
  <2>1. set' \in 0..job.sets /\ found' \in BOOLEAN /\ globalChannel' \in Nat /\ item' \in Nat
    <3>1. globalChannel \in Nat
      BY <1>2 DEF Frequency
    <3>2. item \in Nat /\ 0 \in 0..job.sets
      BY <1>3
    <3>3. found' \in BOOLEAN
      BY <1>1
    <3>4. globalChannel' \in Nat /\ item' \in Nat /\ set' \in 0..job.sets
      BY ONLY <1>1, <3>1, <3>2
    <3> QED
      BY ONLY <3>3, <3>4
  <2> QED
    BY ONLY <1>0, <1>1, <1>4, <1>9, <2>1 DEF AllocationTypeOK, commsVars
<1>11. InRuns' /\ Even'
  <2>1. Dealt' = Dealt
    BY <1>1 DEF Dealt
  <2> QED
    BY <1>0, <1>1, <1>4, <2>1, RunsStay DEF Even
<1>12. LoopPlace'
  <2>1. item + 1 <= perCore /\ globalChannel + 1 = turn * perCore + (item + 1)
    BY <1>2, <1>3
  <2>2. ~ \E s \in 1..0 : <<globalChannel + 1, s>> \in job.matched
    OBVIOUS
  <2> QED
    BY <1>1, <1>3, <1>4, <2>1, <2>2 DEF LoopPlace, Filling
<1>13. Assigned' /\ Tallied'
  <2>1. ~Prepared /\ ~Prepared' /\ ~Counting /\ ~Counting'
    BY <1>1 DEF Prepared, Counting
  <2>2. Tallied'
    BY <1>0, <1>1, <2>1, StillNothing
  <2>3. Assigned'
    BY <1>0, <1>1, <1>4, <2>1 DEF Assigned
  <2> QED
    BY <2>2, <2>3
<1> QED
  BY <1>9, <1>10, <1>11, <1>12, <1>13 DEF AllocationInvariant

LEMMA NextWorkerStep == AllocationInvariant /\ NextWorker => AllocationInvariant'
<1> SUFFICES ASSUME AllocationInvariant, NextWorker PROVE AllocationInvariant'
  OBVIOUS
<1>0. AllocationTypeOK /\ InRuns /\ Even /\ LoopPlace /\ Matched /\ Assigned /\ Tallied
  BY DEF AllocationInvariant
<1>1. /\ stage = "match" /\ item = Len(share[turn + 1]) /\ item' = 0
      /\ UNCHANGED <<job, set, perCore, globalChannel, found, share, work, writer, lastFreq, commsVars>>
  BY DEF NextWorker
<1>2. /\ item = perCore /\ turn * perCore \in Nat /\ (turn + 1) * perCore = turn * perCore + perCore
  BY <1>1, FullShare
<1>3. /\ job \in Jobs /\ job.freqs \in Nat \ {0} /\ job.ranks \in Nat \ {0} /\ turn \in Nat
      /\ perCore \in Nat \ {0} /\ turn < PerGroup /\ PerGroup \in Nat \ {0} /\ set \in 0..job.sets
      /\ globalChannel = turn * perCore + item /\ set = 0 /\ ~found
  <2>1. job \in Jobs /\ turn \in Nat /\ perCore \in Nat \ {0} /\ set \in 0..job.sets
    BY <1>0 DEF AllocationTypeOK
  <2>2. /\ turn < PerGroup /\ globalChannel = turn * perCore + item /\ (set # 0 => item < perCore)
        /\ found <=> \E s \in 1..set : <<globalChannel, s>> \in job.matched
    BY <1>0, <1>1 DEF LoopPlace
  <2>3. set = 0
    BY <1>2, <2>1, <2>2
  <2>4. ~found
    BY <2>2, <2>3
  <2> QED
    BY <2>1, <2>2, <2>3, <2>4, Sizes
<1>4. /\ Rank' = Rank /\ GroupRank' = GroupRank /\ Frequency' = Frequency /\ Unit' = Unit
      /\ PerGroup' = PerGroup
  BY <1>1 DEF Rank, GroupRank, PerGroup, Frequency, Unit
<1>5. \/ turn + 1 < PerGroup /\ turn' = turn + 1 /\ stage' = "match"
      \/ turn + 1 = PerGroup /\ turn' = 0 /\ stage' = "writers"
  BY <1>1, <1>3 DEF NextWorker, Loop
<1>6. globalChannel = (turn + 1) * perCore
  BY <1>2, <1>3
<1>7. AllocationTypeOK'
  <2>1. stage' \in {"match", "writers"} /\ turn' \in Nat /\ item' \in Nat
    BY <1>1, <1>3, <1>5
  <2> QED
    BY ONLY <1>0, <1>1, <1>4, <2>1 DEF AllocationTypeOK, commsVars
<1>8. InRuns' /\ Even'
  <2>1. Dealt' = Dealt
    BY <1>1, <1>5 DEF Dealt
  <2> QED
    BY <1>0, <1>1, <1>4, <1>5, <2>1, RunsStay DEF Even, Filling
<1>9. LoopPlace'
  <2>1. CASE stage' = "match"
    <3>1. turn' = turn + 1 /\ turn' < PerGroup /\ globalChannel' = turn' * perCore + item'
      <4>1. turn' = turn + 1 /\ turn + 1 < PerGroup /\ item' = 0 /\ globalChannel' = globalChannel
        BY <1>1, <1>5, <2>1
      <4>2. turn' * perCore = (turn + 1) * perCore /\ (turn + 1) * perCore \in Nat
        BY <1>2, <1>3, <4>1
      <4> QED
        BY <1>6, <4>1, <4>2
    <3>2. /\ turn' < PerGroup' /\ item' = 0 /\ 0 <= perCore' /\ set' = 0 /\ ~found'
          /\ globalChannel' = turn' * perCore' + item'
      <4>1. item' = 0 /\ set' = set /\ found' = found /\ perCore' = perCore
        BY <1>1
      <4>2. set = 0 /\ ~found /\ 0 <= perCore
        BY <1>3
      <4> QED
        BY ONLY <1>4, <3>1, <4>1, <4>2
    <3>3. ~(\E s \in 1..set' : <<globalChannel', s>> \in job'.matched)
      BY <3>2
    <3> QED
      BY ONLY <2>1, <3>2, <3>3 DEF LoopPlace, Filling
  <2>2. CASE stage' = "writers"
    <3>1. globalChannel = job.freqs
      <4>1. job.freqs = PerGroup * perCore
        BY <1>0, <1>1 DEF Even, Filling
      <4> QED
        BY <1>5, <1>6, <2>2, <4>1
    <3>2. /\ turn' < job'.ranks /\ globalChannel' = job'.freqs /\ set' = 0
      <4>1. turn' = 0 /\ job' = job /\ globalChannel' = globalChannel /\ set' = set
        BY <1>1, <1>5, <2>2
      <4>2. set = 0 /\ 0 < job.ranks
        BY <1>3
      <4> QED
        BY ONLY <3>1, <4>1, <4>2
    <3> QED
      BY ONLY <2>2, <3>2 DEF LoopPlace, Filling
  <2> QED
    BY <1>5, <2>1, <2>2
<1>10. Matched' /\ Assigned' /\ Tallied'
  <2>1. ~Prepared /\ ~Prepared' /\ ~Counting /\ ~Counting' /\ stage \in Filling /\ stage' \in Filling
    BY <1>1, <1>5 DEF Prepared, Counting, Filling
  <2>2. Matched'
    BY <1>0, <1>1, <2>1, UnitsStay
  <2>3. Tallied'
    BY <1>0, <1>1, <2>1, StillNothing
  <2>4. Assigned'
    BY <1>0, <1>1, <1>5, <2>1, WritersStay
  <2> QED
    BY <2>2, <2>3, <2>4
<1> QED
  BY <1>7, <1>8, <1>9, <1>10 DEF AllocationInvariant
-----------------------------------------------------------------------------
(* The writers and the copies for the other groups.                        *)

\* The first rank of the block of a rank is the first rank of its own block.
LEMMA FirstOfBlock ==
    ASSUME NEW w \in Nat \ {0}, NEW P \in Nat \ {0}
    PROVE  LET first == ((w - 1) \div P) * P + 1
           IN  /\ first \in Nat \ {0} /\ first <= w
               /\ ((first - 1) \div P) * P + 1 = first
<1> DEFINE q == (w - 1) \div P
           b == q * P
<1>1. w - 1 \in Nat
  OBVIOUS
<1>2. q \in Nat /\ (w - 1) % P \in Nat /\ w - 1 = P * q + ((w - 1) % P)
  BY <1>1
<1> HIDE DEF q
<1>3. b \in Nat /\ b <= w - 1
  BY <1>1, <1>2
<1>4. b \div P = q
  <2>1. \A x \in Nat, N \in Nat \ {0} : (x * N) \div N = x
    BY ONLY TRUE
  <2> QED
    BY <1>2, <2>1
<1>5. b + 1 \in Nat \ {0} /\ b + 1 <= w /\ (b + 1) - 1 = b
  <2> HIDE DEF b
  <2> QED
    BY <1>3
<1>6. (((b + 1) - 1) \div P) * P + 1 = b + 1
  BY <1>4, <1>5
<1> QED
  BY <1>5, <1>6 DEF q, b

LEMMA WriterOf ==
    ASSUME job \in Jobs, NEW w \in Rank
    PROVE  /\ WriterFor(w) \in 1..w
           /\ HasWork(work[w]) => /\ HasWork(work[WriterFor(w)])
                                  /\ WriterFor(WriterFor(w)) = WriterFor(w)
<1> DEFINE P == job.ranks \div job.writers
           first == ((w - 1) \div P) * P + 1
<1>1. P \in Nat \ {0} /\ w \in Nat \ {0}
  <2>1. \A r \in Nat \ {0}, n \in Nat \ {0} : n <= r => r \div n \in Nat \ {0}
    BY ONLY TRUE
  <2> QED
    BY <2>1, Sizes DEF Rank
<1> HIDE DEF P
<1>2. first \in Nat \ {0} /\ first <= w /\ ((first - 1) \div P) * P + 1 = first
  BY <1>1, FirstOfBlock
<1>3. WriterFor(w) = IF HasWork(work[first]) THEN first ELSE w
  BY DEF WriterFor, P
<1>4. HasWork(work[first]) => WriterFor(first) = first
  BY <1>2 DEF WriterFor, P
<1> HIDE DEF first
<1>5. WriterFor(w) \in 1..w
  BY <1>1, <1>2, <1>3
<1> QED
  BY <1>3, <1>4, <1>5

LEMMA CopyInGroup ==
    ASSUME job \in Jobs, NEW w \in Nat \ {0}
    PROVE  CopyOf(w) \in GroupRank /\ (w \in GroupRank => CopyOf(w) = w)
<1>1. PerGroup \in Nat \ {0}
  BY Sizes
<1>2. \A x \in Nat, N \in Nat \ {0} : x % N \in 0..(N - 1) /\ (x < N => x % N = x)
  BY ONLY TRUE
<1>3. w - 1 \in Nat
  OBVIOUS
<1> QED
  BY <1>1, <1>2, <1>3 DEF CopyOf, GroupRank

LEMMA OriginInGroup ==
    ASSUME AllocationTypeOK, stage \in Filling, NEW w \in Rank, w \in GroupRank \/ Prepared
    PROVE  Original(w) \in GroupRank /\ job.freqs \in Nat
<1>1. job \in Jobs /\ w \in Nat \ {0}
  BY DEF AllocationTypeOK, Rank
<1> QED
  BY <1>1, CopyInGroup, Sizes DEF Original

\* Everybody has the units of at least one frequency.
LEMMA SomeUnit ==
    ASSUME AllocationInvariant, stage \in Filling \ {"match"}, NEW w \in Rank, w \in GroupRank \/ Prepared
    PROVE  work[w] # <<>>
<1> DEFINE o == Original(w)
           c == (o - 1) * perCore
<1>1. /\ job \in Jobs /\ perCore \in Nat \ {0} /\ globalChannel = job.freqs /\ AllocationTypeOK
      /\ job.freqs = PerGroup * perCore /\ UnitsOf(w) = {unit \in Unit : Due(o, unit)}
  BY DEF AllocationInvariant, AllocationTypeOK, LoopPlace, Even, Matched
<1>2. o \in GroupRank /\ job.sets \in Nat /\ job.freqs \in Nat /\ PerGroup \in Nat
  BY <1>1, OriginInGroup, Sizes
<1> HIDE DEF o
<1>3. o \in Nat \ {0} /\ o <= PerGroup
  BY <1>2 DEF GroupRank
<1>4. c \in Nat /\ o * perCore = c + perCore /\ o * perCore \in Nat /\ o * perCore <= PerGroup * perCore
  BY <1>1, <1>2, <1>3, RunOf, MoreTimes
<1>5. AllocationIndex(c) = o
  <2>1. (o - 1) * perCore <= c /\ c < o * perCore
    BY <1>1, <1>4
  <2> QED
    BY <1>1, <1>3, <1>4, <2>1, RunOf DEF AllocationIndex
<1>6. c \in Frequency /\ c < globalChannel
  <2> HIDE DEF c
  <2> QED
    BY <1>1, <1>2, <1>4 DEF Frequency
<1> HIDE DEF c
<1>7. CASE \E s \in 1..job.sets : <<c, s>> \in job.matched
  <2>1. PICK s \in 1..job.sets : <<c, s>> \in job.matched
    BY <1>7
  <2>2. WorkUnit(c, c, s) \in Unit /\ Due(o, WorkUnit(c, c, s))
    BY <1>2, <1>5, <1>6, <2>1 DEF Unit, WorkUnit, Due, IsWork, Reached
  <2>3. WorkUnit(c, c, s) \in UnitsOf(w)
    BY <1>1, <2>2
  <2> QED
    BY <2>3 DEF UnitsOf
<1>8. CASE ~ \E s \in 1..job.sets : <<c, s>> \in job.matched
  <2>1. NAUnit(c) \in Unit /\ Due(o, NAUnit(c))
    BY <1>2, <1>5, <1>6, <1>8 DEF Unit, NAUnit, Due
  <2>2. NAUnit(c) \in UnitsOf(w)
    BY <1>1, <2>1
  <2> QED
    BY <2>2 DEF UnitsOf
<1> QED
  BY <1>7, <1>8

LEMMA AssignStep == AllocationInvariant /\ AssignWriter => AllocationInvariant'
<1> SUFFICES ASSUME AllocationInvariant, AssignWriter PROVE AllocationInvariant'
  OBVIOUS
<1>0. AllocationTypeOK /\ InRuns /\ Even /\ LoopPlace /\ Matched /\ Assigned /\ Tallied
  BY DEF AllocationInvariant
<1> DEFINE me == turn + 1
<1>1. /\ stage = "writers"
      /\ UNCHANGED <<job, perCore, share, work, lastFreq, item, set, globalChannel, found, commsVars>>
      /\ writer' = [writer EXCEPT ![me] = IF work[me] = <<>> THEN @ ELSE WriterFor(me)]
  BY DEF AssignWriter, matchVars
<1>2. /\ job \in Jobs /\ job.ranks \in Nat \ {0} /\ turn \in Nat /\ turn < job.ranks
      /\ globalChannel = job.freqs /\ set = 0
  BY <1>0, <1>1, Sizes DEF AllocationTypeOK, LoopPlace, Filling
<1>3. \/ turn + 1 < job.ranks /\ turn' = turn + 1 /\ stage' = "writers"
      \/ turn + 1 = job.ranks /\ turn' = 0 /\ stage' = "groups"
  BY <1>1, <1>2 DEF AssignWriter, Loop
<1>4. /\ Rank' = Rank /\ GroupRank' = GroupRank /\ Frequency' = Frequency /\ Unit' = Unit
      /\ PerGroup' = PerGroup
  BY <1>1 DEF Rank, GroupRank, PerGroup, Frequency, Unit
<1>5. me \in Rank /\ writer \in [Rank -> 0..job.ranks]
  BY <1>0, <1>2 DEF Rank, AllocationTypeOK
<1>6. WriterFor(me) \in 0..job.ranks
  <2>1. WriterFor(me) \in 1..me
    BY <1>2, <1>5, WriterOf
  <2> QED
    BY <1>2, <1>5, <2>1 DEF Rank
<1>7. AllocationTypeOK'
  <2>1. stage' \in {"writers", "groups"} /\ turn' \in Nat
    BY <1>2, <1>3
  <2>2. writer' \in [Rank -> 0..job.ranks]
    BY <1>1, <1>5, <1>6
  <2> QED
    BY ONLY <1>0, <1>1, <1>4, <2>1, <2>2 DEF AllocationTypeOK, commsVars
<1>8. InRuns' /\ Even'
  <2>1. Dealt' = Dealt
    BY <1>1, <1>3 DEF Dealt
  <2> QED
    BY <1>0, <1>1, <1>3, <1>4, <2>1, RunsStay DEF Even, Filling
<1>9. LoopPlace'
  BY <1>1, <1>2, <1>3 DEF LoopPlace, Filling
<1>10. Assigned'
  <2>1. ~Prepared /\ ~Prepared'
    BY <1>1, <1>3 DEF Prepared
  <2>2. \A w : WriterFor(w)' = WriterFor(w)
    BY <1>1 DEF WriterFor
  <2>3. ASSUME NEW w \in Rank
        PROVE  writer'[w] = IF (stage' = "groups" \/ (stage' = "writers" /\ w <= turn')) /\ work[w] # <<>>
                            THEN WriterFor(w) ELSE 0
    <3>1. writer[w] = IF w <= turn /\ work[w] # <<>> THEN WriterFor(w) ELSE 0
      BY <1>0, <1>1, <2>1 DEF Assigned
    <3>2. stage' = "groups" \/ (stage' = "writers" /\ w <= turn') <=> w <= turn \/ w = me
      BY <1>2, <1>3 DEF Rank
    <3>3. writer'[w] = IF w = me /\ work[w] # <<>> THEN WriterFor(w) ELSE writer[w]
      BY <1>1, <1>5
    <3>4. w = me => ~(w <= turn)
      BY <1>2
    <3> QED
      BY <3>1, <3>2, <3>3, <3>4
  <2> QED
    BY <1>1, <1>4, <2>1, <2>2, <2>3 DEF Assigned
<1>11. Matched' /\ Tallied'
  <2>1. /\ ~Prepared /\ ~Prepared' /\ ~Counting /\ ~Counting'
        /\ stage \in Filling /\ stage' \in Filling
    BY <1>1, <1>3 DEF Prepared, Counting, Filling
  <2> QED
    BY <1>0, <1>1, <2>1, UnitsStay, StillNothing
<1> QED
  BY <1>7, <1>8, <1>9, <1>10, <1>11 DEF AllocationInvariant

LEMMA CopyStep == AllocationInvariant /\ CopyGroups => AllocationInvariant'
<1> SUFFICES ASSUME AllocationInvariant, CopyGroups PROVE AllocationInvariant'
  OBVIOUS
<1>0. AllocationTypeOK /\ InRuns /\ Even /\ LoopPlace /\ Matched /\ Assigned /\ Tallied
  BY DEF AllocationInvariant
<1>1. /\ stage = "groups" /\ work' = [w \in Rank |-> work[CopyOf(w)]]
      /\ writer' = [w \in Rank |-> writer[CopyOf(w)]]
      /\ stage' = IF job.localSolver THEN "comms" ELSE "prepared"
      /\ UNCHANGED <<job, turn, perCore, share, lastFreq, item, set, globalChannel, found, commsVars>>
  BY DEF CopyGroups, matchVars
<1>2. /\ job \in Jobs /\ job.ranks \in Nat \ {0} /\ PerGroup \in Nat /\ PerGroup <= job.ranks /\ turn = 0
      /\ globalChannel = job.freqs /\ set = 0
  BY <1>0, <1>1, Sizes DEF AllocationTypeOK, LoopPlace, Filling
<1>3. /\ Rank' = Rank /\ GroupRank' = GroupRank /\ Frequency' = Frequency /\ Unit' = Unit
      /\ PerGroup' = PerGroup /\ \A w : CopyOf(w)' = CopyOf(w)
  BY <1>1 DEF Rank, GroupRank, PerGroup, Frequency, Unit, CopyOf
<1>4. stage' \in {"comms", "prepared"} /\ ~Prepared /\ Prepared'
  BY <1>1 DEF Prepared
<1>5. \A w \in Rank : CopyOf(w) \in GroupRank /\ CopyOf(w) \in Rank
  <2>1. \A w \in Rank : w \in Nat \ {0}
    BY DEF Rank
  <2>2. GroupRank \subseteq Rank
    BY <1>2 DEF GroupRank, Rank
  <2> QED
    BY <1>2, <2>1, <2>2, CopyInGroup
<1>6. \A w \in GroupRank : w \in Rank /\ CopyOf(w) = w /\ work'[w] = work[w]
  <2>1. \A w \in GroupRank : w \in Rank /\ w \in Nat \ {0}
    BY <1>2 DEF GroupRank, Rank
  <2>2. \A w \in GroupRank : CopyOf(w) = w
    BY <1>2, <2>1, CopyInGroup
  <2> QED
    BY <1>1, <2>1, <2>2
<1>7. AllocationTypeOK'
  <2>1. work' \in [Rank -> Seq(Unit)] /\ writer' \in [Rank -> 0..job.ranks]
    BY <1>0, <1>1, <1>5 DEF AllocationTypeOK
  <2> QED
    BY ONLY <1>0, <1>1, <1>3, <1>4, <2>1 DEF AllocationTypeOK, commsVars
<1>8. InRuns' /\ Even'
  <2>1. Dealt' = Dealt
    BY <1>1, <1>4 DEF Dealt
  <2> QED
    BY <1>0, <1>1, <1>3, <1>4, <2>1, RunsStay DEF Even, Filling
<1>9. LoopPlace'
  <2>1. turn' = 0 /\ globalChannel' = job'.freqs /\ set' = 0 /\ turn' < job'.ranks
    BY <1>1, <1>2
  <2>2. stage' = "comms" => job'.localSolver
    BY <1>1
  <2> QED
    BY ONLY <1>4, <2>1, <2>2 DEF LoopPlace, Filling
<1>10. Matched'
  <2>1. ASSUME NEW w \in Rank
        PROVE  InOrder(work[w])' /\ UnitsOf(w)' = {unit \in Unit : Due(Original(w), unit)}'
    <3>1. work'[w] = work[CopyOf(w)]
      BY <1>1
    <3>2. UnitsOf(w)' = UnitsOf(CopyOf(w)) /\ (InOrder(work[w])' <=> InOrder(work[CopyOf(w)]))
      BY <3>1 DEF UnitsOf, InOrder
    <3>3. /\ InOrder(work[CopyOf(w)])
          /\ UnitsOf(CopyOf(w)) = {unit \in Unit : Due(Original(CopyOf(w)), unit)}
      BY <1>0, <1>1, <1>5 DEF Matched, Filling
    <3>4. Original(CopyOf(w)) = CopyOf(w) /\ Original(w)' = CopyOf(w)
      BY <1>3, <1>4 DEF Original
    <3>5. \A unit \in Unit : Due(CopyOf(w), unit)' <=> Due(CopyOf(w), unit)
      BY <1>1, <1>3 DEF Due, AllocationIndex, Reached
    <3>6. {unit \in Unit : Due(Original(w), unit)}' = {unit \in Unit : Due(CopyOf(w), unit)}
      BY <1>1, <1>3, <3>4 DEF Due, AllocationIndex, Reached
    <3> QED
      BY <3>2, <3>3, <3>4, <3>6
  <2> QED
    BY <1>3, <1>4, <2>1 DEF Matched, Filling
<1>11. Assigned'
  <2>1. ASSUME NEW w \in Rank
        PROVE  writer'[w] = WriterFor(CopyOf(w))'
    <3>1. writer'[w] = writer[CopyOf(w)]
      BY <1>1
    <3>2. work[CopyOf(w)] # <<>>
      BY <1>1, <1>5, SomeUnit DEF Filling
    <3>3. writer[CopyOf(w)] = WriterFor(CopyOf(w))
      BY <1>0, <1>1, <1>4, <1>5, <3>2 DEF Assigned
    <3>4. WriterFor(CopyOf(w))' = WriterFor(CopyOf(w))
      <4> DEFINE x == CopyOf(w)
                 P == job.ranks \div job.writers
                 first == ((x - 1) \div P) * P + 1
      <4>1. P \in Nat \ {0}
        <5>1. \A r \in Nat \ {0}, n \in Nat \ {0} : n <= r => r \div n \in Nat \ {0}
          BY ONLY TRUE
        <5> QED
          BY <1>2, <5>1, Sizes
      <4>2. first \in GroupRank
        <5>1. x \in Nat \ {0} /\ x <= PerGroup
          BY <1>5 DEF GroupRank
        <5> HIDE DEF x, P
        <5>2. first \in Nat \ {0} /\ first <= x
          BY <4>1, <5>1, FirstOfBlock
        <5> HIDE DEF first
        <5> QED
          BY <1>2, <5>1, <5>2 DEF GroupRank
      <4>3. WriterFor(x) = IF HasWork(work[first]) THEN first ELSE x
        BY DEF WriterFor
      <4>4. WriterFor(CopyOf(w))' = IF HasWork(work'[first]) THEN first ELSE x
        BY <1>1, <1>3 DEF WriterFor, HasWork
      <4> QED
        BY <1>6, <4>2, <4>3, <4>4
    <3> QED
      BY <3>1, <3>3, <3>4
  <2> QED
    BY <1>3, <1>4, <2>1 DEF Assigned
<1>12. Tallied'
  <2>1. DOMAIN workerMap = {} /\ DOMAIN writerMap = {} /\ DOMAIN clientMap = {} /\ creators = {}
    BY <1>0, <1>1, NothingTallied DEF Counting
  <2>2. \A w \in Rank : ~Entered(w)' /\ FreqsRead(w)' = {}
    <3>1. \A w \in Rank : ~(w <= turn')
      BY <1>1, <1>2 DEF Rank
    <3>2. \A w \in Rank : ~Entered(w)' /\ Read(w)' = 0
      BY <1>4, <3>1 DEF Entered, Read
    <3>3. \A w \in Rank : FreqsRead(w)' = {}
      BY <3>2 DEF FreqsRead
    <3> QED
      BY <3>2, <3>3
  <2>3. \A v : Clients(v)' = {}
    BY <1>3, <2>2 DEF Clients
  <2>4. /\ DOMAIN workerMap' = {} /\ DOMAIN writerMap' = {} /\ DOMAIN clientMap' = {} /\ creators' = {}
    BY <1>1, <2>1 DEF commsVars
  <2> QED
    BY <1>3, <1>4, <2>2, <2>3, <2>4 DEF Tallied
<1> QED
  BY <1>7, <1>8, <1>9, <1>10, <1>11, <1>12 DEF AllocationInvariant
-----------------------------------------------------------------------------
(* Counting for the writers.                                               *)

LEMMA InCounting ==
    ASSUME AllocationInvariant, Counting
    PROVE  /\ job \in Jobs /\ job.localSolver /\ PerGroup = job.ranks /\ job.ranks \in Nat \ {0}
           /\ globalChannel = job.freqs /\ stage \in Filling
           /\ \A w \in Rank :
                /\ Original(w) = w /\ CopyOf(w) = w
                /\ work[w] \in Seq(Unit) /\ Len(work[w]) \in Nat \ {0}
                /\ UnitsOf(w) = {unit \in Unit : Due(w, unit)} /\ InOrder(work[w])
                /\ \A i \in 1..Len(work[w]) : work[w][i] \in Unit /\ Due(w, work[w][i])
                /\ writer[w] = WriterFor(w) /\ writer[w] \in Rank /\ Read(w) \in 0..Len(work[w])
<1>1. /\ job \in Jobs /\ job.localSolver /\ globalChannel = job.freqs /\ stage \in Filling \ {"match"}
      /\ Prepared /\ work \in [Rank -> Seq(Unit)]
  BY DEF AllocationInvariant, LoopPlace, Counting, Filling, AllocationTypeOK, Prepared
<1>2. PerGroup = job.ranks /\ job.ranks \in Nat \ {0}
  BY <1>1, Sizes
<1>3. ASSUME NEW w \in Rank
      PROVE  /\ Original(w) = w /\ CopyOf(w) = w
             /\ work[w] \in Seq(Unit) /\ Len(work[w]) \in Nat \ {0}
             /\ UnitsOf(w) = {unit \in Unit : Due(w, unit)} /\ InOrder(work[w])
             /\ \A i \in 1..Len(work[w]) : work[w][i] \in Unit /\ Due(w, work[w][i])
             /\ writer[w] = WriterFor(w) /\ writer[w] \in Rank /\ Read(w) \in 0..Len(work[w])
  <2>1. w \in GroupRank /\ w \in Nat \ {0} /\ w <= job.ranks
    BY <1>2 DEF Rank, GroupRank
  <2>2. CopyOf(w) = w /\ Original(w) = w
    BY <1>1, <2>1, CopyInGroup DEF Original
  <2>3. work[w] \in Seq(Unit) /\ work[w] # <<>>
    BY <1>1, SomeUnit
  <2>4. Len(work[w]) \in Nat \ {0}
    BY <2>3, EmptySeq
  <2>5. InOrder(work[w]) /\ UnitsOf(w) = {unit \in Unit : Due(Original(w), unit)}
    BY <1>1 DEF AllocationInvariant, Matched
  <2>6. UnitsOf(w) = {unit \in Unit : Due(w, unit)}
    BY <2>2, <2>5
  <2>7. ASSUME NEW i \in 1..Len(work[w]) PROVE work[w][i] \in Unit /\ Due(w, work[w][i])
    <3>1. work[w][i] \in UnitsOf(w)
      BY DEF UnitsOf
    <3> QED
      BY <2>6, <3>1
  <2>8. writer[w] = WriterFor(w)
    BY <1>1, <2>2 DEF AllocationInvariant, Assigned
  <2>9. writer[w] \in Rank
    <3>1. WriterFor(w) \in 1..w
      BY <1>1, WriterOf
    <3> QED
      BY <1>2, <2>1, <2>8, <3>1 DEF Rank
  <2>10. Read(w) \in 0..Len(work[w])
    <3>1. ASSUME stage = "units", w = turn + 1 PROVE item \in 0..Len(work[w])
      <4>1. item \in Nat /\ item < Len(work[turn + 1])
        BY <3>1 DEF AllocationInvariant, AllocationTypeOK, LoopPlace
      <4> QED
        BY <2>4, <3>1, <4>1
    <3> QED
      BY <2>4, <3>1 DEF Read
  <2> QED
    BY <2>2, <2>3, <2>4, <2>5, <2>6, <2>7, <2>8, <2>9, <2>10
<1> QED
  BY <1>1, <1>2, <1>3 DEF Filling

\* Frequencies are finitely many, and nobody else has those of a worker.
LEMMA ReadsAreOwn ==
    ASSUME AllocationInvariant, Counting, NEW w \in Rank
    PROVE  /\ IsFiniteSet(Frequency)
           /\ FreqsRead(w) \subseteq Frequency
           /\ \A c \in FreqsRead(w) : AllocationIndex(c) = w
<1>1. job \in Jobs /\ job.freqs \in Nat /\ Read(w) \in 0..Len(work[w]) /\ Len(work[w]) \in Nat
  BY InCounting, Sizes
<1>2. IsFiniteSet(Frequency)
  <2>1. 0 \in Int /\ job.freqs - 1 \in Int
    BY <1>1
  <2> QED
    BY <2>1, FS_Interval DEF Frequency
<1>3. ASSUME NEW c \in FreqsRead(w) PROVE c \in Frequency /\ AllocationIndex(c) = w
  <2>1. PICK i \in 1..Read(w) : c = work[w][i].freq
    BY DEF FreqsRead
  <2>2. i \in 1..Len(work[w])
    BY <1>1
  <2>3. work[w][i] \in Unit /\ Due(w, work[w][i])
    BY <2>2, InCounting
  <2> QED
    BY <2>1, <2>3 DEF Unit, Due
<1> QED
  BY <1>2, <1>3

LEMMA AddWorkerStep == AllocationInvariant /\ AddWorker => AllocationInvariant'
<1> SUFFICES ASSUME AllocationInvariant, AddWorker PROVE AllocationInvariant'
  OBVIOUS
<1>0. AllocationTypeOK /\ InRuns /\ Even /\ LoopPlace /\ Matched /\ Assigned /\ Tallied
  BY DEF AllocationInvariant
<1> DEFINE me == turn + 1
<1>1. /\ stage = "comms" /\ stage' = "units" /\ item' = 0
      /\ workerMap' = [r \in DOMAIN workerMap \cup {me} |->
                           IF r \in DOMAIN workerMap THEN workerMap[r] ELSE 0]
      /\ lastFreq' = work[me][1].freq
      /\ UNCHANGED <<job, turn, perCore, share, work, writer, set, globalChannel, found,
                     writerMap, clientMap, creators>>
  BY DEF AddWorker
<1>2. Counting /\ Counting' /\ Prepared /\ Prepared'
  BY <1>1 DEF Counting, Prepared
<1>3. /\ job \in Jobs /\ turn \in Nat /\ turn < job.ranks /\ job.ranks \in Nat
      /\ globalChannel = job.freqs /\ set = 0 /\ job.localSolver
  BY <1>0, <1>1, Sizes DEF AllocationTypeOK, LoopPlace, Filling
<1>4. /\ Rank' = Rank /\ GroupRank' = GroupRank /\ Frequency' = Frequency /\ Unit' = Unit
      /\ PerGroup' = PerGroup
  BY <1>1 DEF Rank, GroupRank, PerGroup, Frequency, Unit
<1>5. me \in Rank
  BY <1>3 DEF Rank
<1>6. Len(work[me]) \in Nat \ {0} /\ work[me][1] \in Unit
  <2>1. Len(work[me]) \in Nat \ {0} /\ \A i \in 1..Len(work[me]) : work[me][i] \in Unit
    BY <1>2, <1>5, InCounting
  <2> QED
    BY <2>1
<1>7. AllocationTypeOK'
  <2>1. lastFreq' \in Frequency
    BY <1>1, <1>6 DEF Unit
  <2>2. DOMAIN workerMap' \subseteq Rank
    BY <1>0, <1>1, <1>5 DEF AllocationTypeOK
  <2> QED
    BY ONLY <1>0, <1>1, <1>4, <2>1, <2>2 DEF AllocationTypeOK
<1>8. InRuns' /\ Even'
  <2>1. Dealt' = Dealt
    BY <1>1 DEF Dealt
  <2> QED
    BY <1>0, <1>1, <1>4, <2>1, RunsStay DEF Even, Filling
<1>9. LoopPlace'
  <2>1. item' < Len(work'[turn' + 1]) /\ turn' < job'.ranks
    BY <1>1, <1>3, <1>6
  <2>2. globalChannel' = job'.freqs /\ set' = 0 /\ job'.localSolver
    BY <1>1, <1>3
  <2> QED
    BY ONLY <1>1, <2>1, <2>2 DEF LoopPlace, Filling
<1>10. Matched' /\ Assigned'
  BY <1>0, <1>1, <1>2, UnitsStay, WritersStay DEF Filling
<1>11. Tallied'
  <2>1. ASSUME NEW w \in Rank
        PROVE  Read(w)' = Read(w) /\ (Entered(w)' <=> Entered(w) \/ w = me)
    BY <1>1, <1>2, <1>3 DEF Read, Entered, Rank
  <2>2. \A w \in Rank : FreqsRead(w)' = FreqsRead(w)
    <3>1. \A w \in Rank : FreqsRead(w)' = {work[w][i].freq : i \in {j \in 1..Read(w)' : IsWork(work[w][j])}}
      BY <1>1 DEF FreqsRead, IsWork
    <3> QED
      BY <2>1, <3>1 DEF FreqsRead
  <2>3. \A v : Clients(v)' = Clients(v)
    BY <1>1, <1>4, <2>2 DEF Clients
  <2>4. ~Entered(me) /\ FreqsRead(me) = {}
    <3>1. Read(me) = 0 /\ ~Entered(me)
      BY <1>1, <1>3 DEF Read, Entered, Counting
    <3> QED
      BY <3>1 DEF FreqsRead
  <2>5. me \notin DOMAIN workerMap /\ DOMAIN workerMap = {w \in Rank : Entered(w)}
    BY <1>0, <2>4 DEF Tallied
  <2>6. DOMAIN workerMap' = {w \in Rank : Entered(w)'}
    BY <1>1, <1>5, <2>1, <2>5
  <2>7. \A w \in DOMAIN workerMap' : workerMap'[w] = Cardinality(FreqsRead(w)')
    <3>1. ASSUME NEW w \in DOMAIN workerMap PROVE workerMap'[w] = Cardinality(FreqsRead(w)')
      BY <1>0, <1>1, <2>2, <2>5, <3>1 DEF Tallied
    <3>2. workerMap'[me] = Cardinality(FreqsRead(me)')
      BY <1>1, <1>5, <2>2, <2>4, <2>5, FS_EmptySet
    <3> QED
      BY <1>1, <3>1, <3>2
  <2>8. \A v \in DOMAIN writerMap :
            {FreqsRead(w) : w \in Clients(v)}' = {FreqsRead(w) : w \in Clients(v)}
    BY <2>2, <2>3 DEF Clients
  <2>9. /\ DOMAIN writerMap = {v \in Rank : Clients(v) # {}} /\ DOMAIN clientMap = DOMAIN writerMap
        /\ \A v \in DOMAIN writerMap :
              /\ clientMap[v] = Clients(v)
              /\ writerMap[v] = Cardinality(UNION {FreqsRead(w) : w \in Clients(v)})
        /\ creators = {}
    BY <1>0, <1>1 DEF Tallied
  <2>10. FreqsRead(turn + 1)' = {} /\ lastFreq' = work'[turn' + 1][1].freq
    <3>1. FreqsRead(turn + 1)' = FreqsRead(me)'
      BY <1>1 DEF FreqsRead, Read
    <3> QED
      BY <1>1, <1>5, <2>2, <2>4, <3>1
  <2>11. /\ DOMAIN writerMap' = {v \in Rank : Clients(v) # {}}' /\ DOMAIN clientMap' = DOMAIN writerMap'
         /\ creators' = {} /\ stage' # "counted"
    BY <1>1, <1>4, <2>3, <2>9
  <2>12. \A v \in DOMAIN writerMap' :
              /\ clientMap'[v] = Clients(v)'
              /\ writerMap'[v] = Cardinality(UNION {FreqsRead(w) : w \in Clients(v)}')
    BY <1>1, <2>3, <2>8, <2>9
  <2>13. DOMAIN workerMap' = {w \in Rank : Entered(w)}'
    BY <1>4, <2>6
  <2> QED
    BY <2>7, <2>10, <2>11, <2>12, <2>13 DEF Tallied
<1> QED
  BY <1>7, <1>8, <1>9, <1>10, <1>11 DEF AllocationInvariant

\* A unit of work counts if and only if its frequency has not been read before.
LEMMA CountsNew ==
    ASSUME AllocationInvariant, stage = "units"
    PROVE  LET w == turn + 1
               unit == work[w][item + 1]
           IN  /\ w \in Rank /\ item + 1 \in 1..Len(work[w]) /\ unit \in Unit /\ Due(w, unit)
               /\ Counts(unit) <=> IsWork(unit) /\ unit.freq \notin FreqsRead(w)
               /\ \A c \in FreqsRead(w) : c <= unit.freq
<1> DEFINE w == turn + 1
           unit == work[w][item + 1]
<1>1. /\ turn \in Nat /\ item \in Nat /\ turn < job.ranks /\ item < Len(work[w]) /\ Counting
      /\ IF FreqsRead(w) = {} THEN lastFreq = work[w][1].freq
         ELSE lastFreq \in FreqsRead(w) /\ \A c \in FreqsRead(w) : c <= lastFreq
  BY DEF AllocationInvariant, AllocationTypeOK, LoopPlace, Tallied, Counting
<1>2. w \in Rank
  BY <1>1, InCounting DEF Rank
<1>3. /\ Len(work[w]) \in Nat \ {0} /\ InOrder(work[w])
      /\ \A i \in 1..Len(work[w]) : work[w][i] \in Unit /\ Due(w, work[w][i])
      /\ job.freqs \in Nat /\ job.sets \in Nat
  BY <1>1, <1>2, InCounting, Sizes
<1>4. item + 1 \in 1..Len(work[w]) /\ unit \in Unit /\ Due(w, unit)
  <2>1. item + 1 \in 1..Len(work[w])
    BY <1>1, <1>3
  <2> QED
    BY <1>3, <2>1
<1>5. Read(w) = item
  BY <1>1 DEF Read
<1>6. \A i \in 1..item : i \in 1..Len(work[w]) /\ i < item + 1
  BY <1>1, <1>3
<1>7. \A v \in Unit : v.freq \in Nat /\ v.set \in Nat
  BY <1>3 DEF Unit, Frequency
<1>8. unit.freq \in Nat /\ FreqsRead(w) \subseteq Nat
  <2>1. FreqsRead(w) \subseteq Nat
    BY <1>1, <1>2, ReadsAreOwn DEF Frequency
  <2> QED
    BY <1>4, <1>7, <2>1
<1>9. ASSUME NEW c \in FreqsRead(w) PROVE c <= unit.freq
  <2>1. PICK i \in 1..item : c = work[w][i].freq
    BY <1>5 DEF FreqsRead
  <2>2. Before(work[w][i], unit)
    BY <1>3, <1>4, <1>6 DEF InOrder
  <2>3. work[w][i].freq \in Nat
    BY <1>3, <1>6, <1>7
  <2> QED
    BY <1>8, <2>1, <2>2, <2>3 DEF Before
<1>10. Counts(unit) <=> IsWork(unit) /\ unit.freq \notin FreqsRead(w)
  <2>1. CASE FreqsRead(w) # {}
    <3>1. lastFreq \in FreqsRead(w) /\ \A c \in FreqsRead(w) : c <= lastFreq
      BY <1>1, <2>1
    <3>2. item # 0
      BY <1>5, <2>1 DEF FreqsRead
    <3>3. unit.freq \in FreqsRead(w) => unit.freq = lastFreq
      BY <1>8, <1>9, <3>1
    <3> QED
      BY <3>1, <3>2, <3>3 DEF Counts
  <2>2. CASE FreqsRead(w) = {}
    <3>1. CASE item = 0
      BY <2>2, <3>1 DEF Counts
    <3>2. CASE item # 0
      <4>1. lastFreq = work[w][1].freq /\ 1 \in 1..item
        BY <1>1, <2>2, <3>2
      <4>2. ~IsWork(work[w][1])
        BY <1>5, <2>2, <4>1 DEF FreqsRead
      <4>3. \A s \in 1..job.sets : <<lastFreq, s>> \notin job.matched
        BY <1>3, <1>6, <4>1, <4>2 DEF Due
      <4>4. IsWork(unit) => unit.freq # lastFreq
        <5>1. IsWork(unit) => <<unit.freq, unit.set>> \in job.matched /\ unit.set \in 1..job.sets
          BY <1>3, <1>4 DEF Due, IsWork, NAUnit, Unit
        <5> QED
          BY <4>3, <5>1
      <4> QED
        BY <2>2, <4>4 DEF Counts
    <3> QED
      BY <3>1, <3>2
  <2> QED
    BY <2>1, <2>2
<1> QED
  BY <1>2, <1>4, <1>9, <1>10

\* Afterwards that unit has been read, and nothing else.
LEMMA ReadOne ==
    ASSUME AllocationInvariant, stage = "units", NextUnit, UNCHANGED <<job, work>>
    PROVE  LET me == turn + 1
               unit == work[me][item + 1]
           IN  /\ \A w \in Rank : FreqsRead(w)' =
                      IF w = me /\ IsWork(unit) THEN FreqsRead(w) \cup {unit.freq} ELSE FreqsRead(w)
               /\ \A w \in Rank : Entered(w)' <=> Entered(w)
               /\ Counting' /\ Prepared' /\ stage' \in {"units", "comms", "sink"}
               /\ turn' \in Nat /\ item' \in Nat
               /\ stage' \in {"units", "comms"} => turn' < job.ranks
               /\ stage' = "units" => turn' = turn /\ item' < Len(work[me])
<1> DEFINE me == turn + 1
           unit == work[me][item + 1]
<1>1. /\ turn \in Nat /\ item \in Nat /\ turn < job.ranks /\ item < Len(work[me]) /\ Counting
  BY DEF AllocationInvariant, AllocationTypeOK, LoopPlace, Counting
<1>2. me \in Rank /\ item + 1 \in 1..Len(work[me]) /\ job.ranks \in Nat /\ Len(work[me]) \in Nat
  <2>1. job.ranks \in Nat /\ me \in Rank
    BY <1>1, InCounting DEF Rank
  <2> QED
    BY <1>1, <2>1, InCounting
<1>3. \/ item + 1 < Len(work[me]) /\ item' = item + 1 /\ stage' = "units" /\ turn' = turn
      \/ item + 1 = Len(work[me]) /\ turn' = me /\ stage' = "comms" /\ item' = item /\ me < job.ranks
      \/ item + 1 = Len(work[me]) /\ stage' = "sink" /\ turn' = turn /\ item' = item /\ me = job.ranks
  BY <1>1, <1>2 DEF NextUnit, Rank
<1>4. ASSUME NEW w \in Rank
      PROVE  /\ Read(w)' = IF w = me THEN Read(w) + 1 ELSE Read(w)
             /\ w = me => Read(w) = item
             /\ Entered(w)' <=> Entered(w)
  BY <1>1, <1>2, <1>3 DEF Read, Entered, Counting, Rank
<1>5. ASSUME NEW w \in Rank
      PROVE  FreqsRead(w)' =
                IF w = me /\ IsWork(unit) THEN FreqsRead(w) \cup {unit.freq} ELSE FreqsRead(w)
  <2>1. FreqsRead(w)' = {work[w][i].freq : i \in {j \in 1..Read(w)' : IsWork(work[w][j])}}
    BY DEF FreqsRead, IsWork
  <2>2. CASE w # me
    BY <1>4, <2>1, <2>2 DEF FreqsRead
  <2>3. CASE w = me
    <3>1. Read(w)' = item + 1 /\ Read(w) = item
      BY <1>4, <2>3
    <3>2. \A i : i \in 1..(item + 1) <=> i \in 1..item \/ i = item + 1
      BY <1>1
    <3>3. FreqsRead(w)' = {work[w][i].freq : i \in {j \in 1..(item + 1) : IsWork(work[w][j])}}
      BY <2>1, <3>1
    <3>4. FreqsRead(w) = {work[w][i].freq : i \in {j \in 1..item : IsWork(work[w][j])}}
      BY <3>1 DEF FreqsRead
    <3>5. work[w][item + 1] = unit
      BY <2>3
    <3> HIDE DEF unit
    <3> QED
      BY <2>3, <3>2, <3>3, <3>4, <3>5
  <2> QED
    BY <2>2, <2>3
<1>6. /\ Counting' /\ Prepared' /\ stage' \in {"units", "comms", "sink"}
      /\ turn' \in Nat /\ item' \in Nat
      /\ stage' \in {"units", "comms"} => turn' < job.ranks
      /\ stage' = "units" => turn' = turn /\ item' < Len(work[me])
  BY <1>1, <1>2, <1>3 DEF Counting, Prepared
<1> QED
  BY <1>4, <1>5, <1>6

\* The counts after a unit: those of its worker and of its writer.
LEMMA CountTally ==
    ASSUME AllocationInvariant, CountUnit
    PROVE  Tallied'
<1>0. PICK me : me = turn + 1
  OBVIOUS
<1> DEFINE unit == work[me][item + 1]
           f == unit.freq
           v == writer[me]
<1>1. /\ stage = "units" /\ NextUnit /\ Counting
      /\ UNCHANGED <<job, perCore, share, work, writer, set, globalChannel, found, creators>>
  BY DEF CountUnit, Counting
<1>2. /\ me \in Rank /\ unit \in Unit /\ Due(me, unit)
      /\ Counts(unit) <=> IsWork(unit) /\ f \notin FreqsRead(me)
      /\ \A c \in FreqsRead(me) : c <= f
  BY <1>0, <1>1, CountsNew
<1>3. /\ \A w \in Rank : FreqsRead(w)' =
             IF w = me /\ IsWork(unit) THEN FreqsRead(w) \cup {f} ELSE FreqsRead(w)
      /\ \A w \in Rank : Entered(w)' <=> Entered(w)
      /\ Counting' /\ Prepared' /\ stage' \in {"units", "comms", "sink"}
      /\ stage' = "units" => turn' = turn
  BY <1>0, <1>1, ReadOne
<1>4. \/ /\ Counts(unit) /\ lastFreq' = f
         /\ writerMap' = CountUp(writerMap, v)
         /\ clientMap' = AddClient(clientMap, v, me)
         /\ workerMap' = CountUp(workerMap, me)
      \/ ~Counts(unit) /\ UNCHANGED <<workerMap, writerMap, clientMap, lastFreq>>
  BY <1>0 DEF CountUnit
<1>5. Rank' = Rank /\ v \in Rank
  BY <1>1, <1>2, InCounting DEF Rank
<1>6. /\ DOMAIN workerMap = {w \in Rank : Entered(w)}
      /\ \A w \in DOMAIN workerMap : workerMap[w] = Cardinality(FreqsRead(w))
      /\ DOMAIN writerMap = {x \in Rank : Clients(x) # {}} /\ DOMAIN clientMap = DOMAIN writerMap
      /\ \A x \in DOMAIN writerMap :
          /\ clientMap[x] = Clients(x)
          /\ writerMap[x] = Cardinality(UNION {FreqsRead(w) : w \in Clients(x)})
      /\ creators = {} /\ Entered(me)
      /\ IF FreqsRead(me) = {} THEN lastFreq = work[me][1].freq
         ELSE lastFreq \in FreqsRead(me) /\ \A c \in FreqsRead(me) : c <= lastFreq
  BY <1>0, <1>1, <1>2 DEF AllocationInvariant, Tallied, Entered
<1>7. /\ IsFiniteSet(Frequency)
      /\ \A w \in Rank : FreqsRead(w) \subseteq Frequency /\ \A c \in FreqsRead(w) : AllocationIndex(c) = w
  BY <1>1, <1>2, ReadsAreOwn
<1>8. AllocationIndex(f) = me /\ f \in Frequency /\ f \in Nat
  <2>1. AllocationIndex(f) = me /\ f \in Frequency
    BY <1>2 DEF Due, Unit
  <2>2. job.freqs \in Nat
    BY <1>1, InCounting, Sizes
  <2> QED
    BY <2>1, <2>2 DEF Frequency
<1>9. \A x : Clients(x)' = {w \in Rank : writer[w] = x /\ FreqsRead(w)' # {}}
  BY <1>1, <1>5 DEF Clients
<1> HIDE DEF f, v, unit
<1>10. /\ DOMAIN workerMap' = {w \in Rank : Entered(w)}' /\ creators' = {} /\ stage' # "counted"
  <2>1. {w \in Rank : Entered(w)}' = {w \in Rank : Entered(w)}
    BY <1>3, <1>5
  <2>2. DOMAIN workerMap' = DOMAIN workerMap
    BY <1>2, <1>4, <1>6 DEF CountUp
  <2> QED
    BY <1>1, <1>3, <1>6, <2>1, <2>2
<1>11. CASE ~Counts(unit)
  <2>1. \A w \in Rank : FreqsRead(w)' = FreqsRead(w)
    BY <1>2, <1>3, <1>11
  <2>2. \A x : Clients(x)' = Clients(x)
    BY <1>9, <2>1 DEF Clients
  <2>3. /\ DOMAIN writerMap' = {x \in Rank : Clients(x) # {}}' /\ DOMAIN clientMap' = DOMAIN writerMap'
        /\ \A w \in DOMAIN workerMap' : workerMap'[w] = Cardinality(FreqsRead(w)')
    BY <1>4, <1>5, <1>6, <1>11, <2>1, <2>2
  <2>4. \A x \in DOMAIN writerMap' :
              /\ clientMap'[x] = Clients(x)'
              /\ writerMap'[x] = Cardinality(UNION {FreqsRead(w) : w \in Clients(x)}')
    <3>1. \A x : {FreqsRead(w) : w \in Clients(x)}' = {FreqsRead(w) : w \in Clients(x)}
      BY <2>1, <2>2 DEF Clients
    <3> QED
      BY <1>4, <1>6, <1>11, <2>2, <3>1
  <2>5. stage' = "units" =>
            IF FreqsRead(turn + 1)' = {} THEN lastFreq' = work'[turn' + 1][1].freq
            ELSE lastFreq' \in FreqsRead(turn + 1)' /\ \A c \in FreqsRead(turn + 1)' : c <= lastFreq'
    <3>1. stage' = "units" => FreqsRead(turn + 1)' = FreqsRead(me)' /\ turn' + 1 = me
      BY <1>0, <1>3 DEF FreqsRead, Read
    <3> QED
      BY <1>1, <1>2, <1>4, <1>6, <1>11, <2>1, <3>1
  <2> QED
    BY <1>10, <2>3, <2>4, <2>5 DEF Tallied
<1>12. CASE Counts(unit)
  <2>1. /\ FreqsRead(me)' = FreqsRead(me) \cup {f} /\ f \notin FreqsRead(me)
        /\ \A w \in Rank : w # me => FreqsRead(w)' = FreqsRead(w)
    BY <1>2, <1>3, <1>12
  <2>2. \A x : Clients(x)' = IF x = v THEN Clients(x) \cup {me} ELSE Clients(x)
    <3>1. ASSUME NEW x PROVE Clients(x)' = IF x = v THEN Clients(x) \cup {me} ELSE Clients(x)
      <4>1. \A w \in Rank : FreqsRead(w)' # {} <=> FreqsRead(w) # {} \/ w = me
        BY <2>1
      <4>2. writer[me] = v
        BY DEF v
      <4> QED
        BY <1>2, <1>9, <4>1, <4>2 DEF Clients
    <3> QED
      BY <3>1
  <2>3. \A w \in DOMAIN workerMap' : workerMap'[w] = Cardinality(FreqsRead(w)')
    <3>1. ASSUME NEW w \in DOMAIN workerMap' PROVE workerMap'[w] = Cardinality(FreqsRead(w)')
      <4>1. w \in DOMAIN workerMap /\ w \in Rank
        BY <1>2, <1>4, <1>6, <1>12 DEF CountUp
      <4>2. workerMap'[w] = workerMap[w] + IF w = me THEN 1 ELSE 0
        BY <1>4, <1>12, <4>1 DEF CountUp
      <4>3. IsFiniteSet(FreqsRead(w))
        BY <1>7, <4>1, FS_Subset
      <4>4. CASE w = me
        <5>1. Cardinality(FreqsRead(me) \cup {f}) = Cardinality(FreqsRead(me)) + 1
          BY <2>1, <4>3, <4>4, FS_AddElement
        <5> QED
          BY <1>6, <2>1, <4>1, <4>2, <4>4, <5>1
      <4>5. CASE w # me
        <5>1. Cardinality(FreqsRead(w)) \in Nat
          BY <4>3, FS_CardinalityType
        <5> QED
          BY <1>6, <2>1, <4>1, <4>2, <4>5, <5>1
      <4> QED
        BY <4>4, <4>5
    <3> QED
      BY <3>1
  <2>4. /\ DOMAIN writerMap' = {x \in Rank : Clients(x) # {}}' /\ DOMAIN clientMap' = DOMAIN writerMap'
    <3>1. DOMAIN writerMap' = DOMAIN writerMap \cup {v} /\ DOMAIN clientMap' = DOMAIN clientMap \cup {v}
      BY <1>4, <1>12 DEF CountUp, AddClient
    <3>2. {x \in Rank : Clients(x) # {}}' = {x \in Rank : Clients(x)' # {}}
      BY <1>5
    <3> QED
      BY <1>5, <1>6, <2>2, <3>1, <3>2
  <2>5. ASSUME NEW x \in DOMAIN writerMap'
        PROVE  /\ clientMap'[x] = Clients(x)'
               /\ writerMap'[x] = Cardinality(UNION {FreqsRead(w) : w \in Clients(x)}')
    <3> DEFINE all == UNION {FreqsRead(w) : w \in Clients(x)}
    <3>1. /\ writerMap'[x] = (IF x \in DOMAIN writerMap THEN writerMap[x] ELSE 0) + (IF x = v THEN 1 ELSE 0)
          /\ clientMap'[x] = (IF x \in DOMAIN writerMap THEN clientMap[x] ELSE {})
                                \cup IF x = v THEN {me} ELSE {}
          /\ x \in Rank /\ (x \in DOMAIN writerMap \/ x = v)
      BY <1>4, <1>5, <1>6, <1>12 DEF CountUp, AddClient
    <3>2. x \notin DOMAIN writerMap => Clients(x) = {}
      BY <1>6, <3>1
    <3>3. clientMap'[x] = Clients(x)'
      BY <1>6, <2>2, <3>1, <3>2
    <3>4. /\ IsFiniteSet(all) /\ Cardinality(all) \in Nat
          /\ (IF x \in DOMAIN writerMap THEN writerMap[x] ELSE 0) = Cardinality(all)
      <4>1. all \subseteq Frequency
        BY <1>7 DEF Clients
      <4>2. IsFiniteSet(all) /\ Cardinality(all) \in Nat
        BY <1>7, <4>1, FS_Subset, FS_CardinalityType
      <4>3. x \notin DOMAIN writerMap => all = {}
        BY <3>2
      <4>4. x \notin DOMAIN writerMap => Cardinality(all) = 0
        BY <4>3, FS_EmptySet
      <4>5. x \in DOMAIN writerMap => writerMap[x] = Cardinality(all)
        BY <1>6
      <4> QED
        BY <4>2, <4>4, <4>5
    <3>5. UNION {FreqsRead(w) : w \in Clients(x)}' = IF x = v THEN all \cup {f} ELSE all
      <4>1. {FreqsRead(w) : w \in Clients(x)}' = {FreqsRead(w)' : w \in Clients(x)'}
        OBVIOUS
      <4>2. UNION {FreqsRead(w)' : w \in Clients(x)'} = IF x = v THEN all \cup {f} ELSE all
        <5>1. \A w \in Clients(x) : w \in Rank
          BY DEF Clients
        <5>2. CASE x = v
          <6>1. Clients(x)' = Clients(x) \cup {me}
            BY <2>2, <5>2
          <6>2. \A w \in Clients(x) \cup {me} : FreqsRead(w)' = IF w = me THEN FreqsRead(me) \cup {f} ELSE FreqsRead(w)
            BY <1>2, <2>1, <5>1
          <6>3. me \notin Clients(x) => FreqsRead(me) = {}
            BY <1>2, <5>2 DEF Clients, v
          <6>4. ASSUME NEW c, c \in UNION {FreqsRead(w)' : w \in Clients(x)'}
                PROVE  c \in all \cup {f}
            BY <6>1, <6>2, <6>3, <6>4
          <6>5. ASSUME NEW c, c \in all \cup {f}
                PROVE  c \in UNION {FreqsRead(w)' : w \in Clients(x)'}
            BY <6>1, <6>2, <6>5
          <6> HIDE DEF all
          <6> QED
            BY <5>2, <6>4, <6>5
        <5>3. CASE x # v
          <6>1. Clients(x)' = Clients(x)
            BY <2>2, <5>3
          <6>2. \A w \in Clients(x) : w # me
            BY <5>3 DEF Clients, v
          <6>3. \A w \in Clients(x) : FreqsRead(w)' = FreqsRead(w)
            BY <2>1, <5>1, <6>2
          <6> QED
            BY <5>3, <6>1, <6>3
        <5> QED
          BY <5>2, <5>3
      <4> QED
        BY <4>1, <4>2
    <3>6. x = v => f \notin all
      <4>1. ASSUME NEW w \in Clients(x), f \in FreqsRead(w) PROVE FALSE
        <5>1. w \in Rank
          BY DEF Clients
        <5>2. w = me
          BY <1>7, <1>8, <4>1, <5>1
        <5> QED
          BY <2>1, <4>1, <5>2
      <4> QED
        BY <4>1
    <3>7. x = v => Cardinality(all \cup {f}) = Cardinality(all) + 1
      BY <3>4, <3>6, FS_AddElement
    <3> HIDE DEF all
    <3>8. writerMap'[x] = Cardinality(all) + IF x = v THEN 1 ELSE 0
      BY <3>1, <3>4
    <3>9. writerMap'[x] = Cardinality(IF x = v THEN all \cup {f} ELSE all)
      <4>1. CASE x = v
        BY <3>7, <3>8, <4>1
      <4>2. CASE x # v
        BY <3>4, <3>8, <4>2
      <4> QED
        BY <4>1, <4>2
    <3> QED
      BY ONLY <3>3, <3>5, <3>9
  <2>6. stage' = "units" =>
            IF FreqsRead(turn + 1)' = {} THEN lastFreq' = work'[turn' + 1][1].freq
            ELSE lastFreq' \in FreqsRead(turn + 1)' /\ \A c \in FreqsRead(turn + 1)' : c <= lastFreq'
    <3>1. stage' = "units" => FreqsRead(turn + 1)' = FreqsRead(me)'
      BY <1>0, <1>3 DEF FreqsRead, Read
    <3>2. \A c \in FreqsRead(me)' : c <= f
      BY <1>2, <1>8, <2>1
    <3> QED
      BY <1>4, <1>12, <2>1, <3>1, <3>2
  <2> QED
    BY <1>10, <2>3, <2>4, <2>5, <2>6 DEF Tallied
<1> QED
  BY <1>11, <1>12

LEMMA CountStep == AllocationInvariant /\ CountUnit => AllocationInvariant'
<1> SUFFICES ASSUME AllocationInvariant, CountUnit PROVE AllocationInvariant'
  OBVIOUS
<1>0. AllocationTypeOK /\ InRuns /\ Even /\ LoopPlace /\ Matched /\ Assigned /\ Tallied
  BY DEF AllocationInvariant
<1> DEFINE me == turn + 1
           unit == work[me][item + 1]
<1>1. /\ stage = "units" /\ NextUnit /\ Counting /\ Prepared
      /\ UNCHANGED <<job, perCore, share, work, writer, set, globalChannel, found, creators>>
  BY DEF CountUnit, Counting, Prepared
<1>2. /\ Counting' /\ Prepared' /\ stage' \in {"units", "comms", "sink"}
      /\ turn' \in Nat /\ item' \in Nat
      /\ stage' \in {"units", "comms"} => turn' < job.ranks
      /\ stage' = "units" => turn' = turn /\ item' < Len(work[me])
  BY <1>1, ReadOne
<1>3. me \in Rank /\ unit \in Unit /\ writer[me] \in Rank
  BY <1>1, CountsNew, InCounting
<1>4. /\ Rank' = Rank /\ GroupRank' = GroupRank /\ Frequency' = Frequency /\ Unit' = Unit
      /\ PerGroup' = PerGroup
  BY <1>1 DEF Rank, GroupRank, PerGroup, Frequency, Unit
<1>5. \/ /\ lastFreq' = unit.freq
         /\ writerMap' = CountUp(writerMap, writer[me])
         /\ clientMap' = AddClient(clientMap, writer[me], me)
         /\ workerMap' = CountUp(workerMap, me)
      \/ UNCHANGED <<workerMap, writerMap, clientMap, lastFreq>>
  BY DEF CountUnit
<1>6. AllocationTypeOK'
  <2>1. lastFreq' \in Frequency
    BY <1>0, <1>3, <1>5 DEF Unit, AllocationTypeOK
  <2>2. /\ DOMAIN workerMap' \subseteq Rank /\ DOMAIN writerMap' \subseteq Rank
        /\ DOMAIN clientMap' \subseteq Rank
    <3>1. /\ DOMAIN workerMap' \subseteq DOMAIN workerMap \cup {me}
          /\ DOMAIN writerMap' \subseteq DOMAIN writerMap \cup {writer[me]}
          /\ DOMAIN clientMap' \subseteq DOMAIN clientMap \cup {writer[me]}
      BY <1>5 DEF CountUp, AddClient
    <3>2. /\ DOMAIN workerMap \subseteq Rank /\ DOMAIN writerMap \subseteq Rank
          /\ DOMAIN clientMap \subseteq Rank
      BY <1>0 DEF AllocationTypeOK
    <3> HIDE DEF me
    <3> QED
      BY ONLY <1>3, <3>1, <3>2
  <2> QED
    BY ONLY <1>0, <1>1, <1>2, <1>4, <2>1, <2>2 DEF AllocationTypeOK
<1>7. InRuns' /\ Even'
  <2>1. Dealt' = Dealt
    BY <1>1, <1>2 DEF Dealt
  <2> QED
    BY <1>0, <1>1, <1>2, <1>4, <2>1, RunsStay DEF Even, Filling
<1>8. LoopPlace'
  <2>1. stage' = "units" => turn' < job'.ranks /\ item' < Len(work'[turn' + 1])
    BY <1>1, <1>2
  <2>2. stage' = "comms" => turn' < job'.ranks
    BY <1>1, <1>2
  <2>3. globalChannel' = job'.freqs /\ set' = 0 /\ job'.localSolver
    BY <1>0, <1>1 DEF LoopPlace, Filling
  <2> QED
    BY ONLY <1>2, <2>1, <2>2, <2>3 DEF LoopPlace, Filling
<1>9. Matched' /\ Assigned'
  BY <1>0, <1>1, <1>2, UnitsStay, WritersStay DEF Filling
<1> QED
  BY <1>6, <1>7, <1>8, <1>9, CountTally DEF AllocationInvariant

\* Some data are somebody's, who has a writer then.
LEMMA SomeWriter ==
    ASSUME AllocationInvariant, stage = "sink"
    PROVE  Min(DOMAIN writerMap) \in DOMAIN writerMap
<1>1. /\ job \in Jobs /\ job.localSolver /\ PerGroup = job.ranks /\ job.ranks \in Nat \ {0}
      /\ globalChannel = job.freqs /\ Counting /\ Tallied
      /\ perCore \in Nat \ {0} /\ job.freqs = PerGroup * perCore
  <2>1. Counting
    BY DEF Counting
  <2> QED
    BY <2>1, InCounting DEF AllocationInvariant, AllocationTypeOK, Even, Filling
<1>2. PICK p \in job.matched : p \in Frequency \X (1..job.sets)
  BY <1>1, Sizes
<1> DEFINE c == p[1]
           w == AllocationIndex(c)
           u == WorkUnit(c, c, p[2])
<1>3. c \in Frequency /\ p[2] \in 1..job.sets /\ <<c, p[2]>> \in job.matched /\ job.freqs \in Nat /\ job.sets \in Nat
  BY <1>1, <1>2, Sizes
<1> HIDE DEF c
<1>4. w \in Rank
  <2>1. w \in Nat \ {0} /\ (w - 1) * perCore <= c /\ c \in Nat /\ c < PerGroup * perCore
    BY <1>1, <1>3, RunOf DEF AllocationIndex, Frequency
  <2> HIDE DEF w
  <2>2. ASSUME PerGroup <= w - 1 PROVE FALSE
    <3>1. PerGroup * perCore <= (w - 1) * perCore /\ PerGroup * perCore \in Nat /\ (w - 1) * perCore \in Nat
      BY <1>1, <2>1, <2>2, MoreTimes
    <3> QED
      BY <2>1, <3>1
  <2> QED
    BY <1>1, <2>1, <2>2 DEF Rank
<1>5. u \in Unit /\ Due(w, u) /\ IsWork(u)
  BY <1>1, <1>3 DEF Unit, WorkUnit, Due, IsWork, Reached, Frequency
<1> HIDE DEF w, u
<1>6. PICK i \in 1..Len(work[w]) : work[w][i] = u
  <2>1. u \in UnitsOf(w)
    BY <1>1, <1>4, <1>5, InCounting
  <2> QED
    BY <2>1 DEF UnitsOf
<1>7. FreqsRead(w) # {}
  <2>1. Read(w) = Len(work[w])
    BY <1>1 DEF Read
  <2> QED
    BY <1>5, <1>6, <2>1 DEF FreqsRead
<1>8. writer[w] \in DOMAIN writerMap
  <2>1. w \in Clients(writer[w]) /\ writer[w] \in Rank
    BY <1>1, <1>4, <1>7, InCounting DEF Clients
  <2> QED
    BY <1>1, <2>1 DEF Tallied
<1>9. DOMAIN writerMap \subseteq Nat
  BY <1>1 DEF Tallied, Rank
<1> QED
  BY <1>8, <1>9, SmallestRank

LEMMA SinkStep == AllocationInvariant /\ SetSink => AllocationInvariant'
<1> SUFFICES ASSUME AllocationInvariant, SetSink PROVE AllocationInvariant'
  OBVIOUS
<1>0. AllocationTypeOK /\ InRuns /\ Even /\ LoopPlace /\ Matched /\ Assigned /\ Tallied
  BY DEF AllocationInvariant
<1>1. /\ stage = "sink" /\ stage' = "counted"
      /\ creators' = IF job.single THEN {Min(DOMAIN writerMap)} ELSE DOMAIN writerMap
      /\ UNCHANGED <<job, turn, perCore, share, work, writer, lastFreq, item, set, globalChannel, found,
                     workerMap, writerMap, clientMap>>
  BY DEF SetSink, matchVars
<1>2. Counting /\ Counting' /\ Prepared /\ Prepared'
  BY <1>1 DEF Counting, Prepared
<1>3. /\ Rank' = Rank /\ GroupRank' = GroupRank /\ Frequency' = Frequency /\ Unit' = Unit
      /\ PerGroup' = PerGroup
  BY <1>1 DEF Rank, GroupRank, PerGroup, Frequency, Unit
<1>4. AllocationTypeOK'
  <2>1. creators' \subseteq Rank
    <3>1. DOMAIN writerMap \subseteq Rank
      BY <1>0 DEF AllocationTypeOK
    <3> QED
      BY <1>1, <3>1, SomeWriter
  <2> QED
    BY ONLY <1>0, <1>1, <1>3, <2>1 DEF AllocationTypeOK
<1>5. InRuns' /\ Even'
  <2>1. Dealt' = Dealt
    BY <1>1 DEF Dealt
  <2> QED
    BY <1>0, <1>1, <1>3, <2>1, RunsStay DEF Even, Filling
<1>6. LoopPlace'
  BY <1>0, <1>1 DEF LoopPlace, Filling
<1>7. Matched' /\ Assigned'
  BY <1>0, <1>1, <1>2, UnitsStay, WritersStay DEF Filling
<1>8. Tallied'
  <2>1. \A w : Read(w)' = Read(w) /\ (Entered(w)' <=> Entered(w))
    BY <1>1 DEF Read, Entered, Counting
  <2>2. \A w : FreqsRead(w)' = FreqsRead(w)
    <3>1. ASSUME NEW w PROVE FreqsRead(w)' = {work[w][i].freq : i \in {j \in 1..Read(w)' : IsWork(work[w][j])}}
      BY <1>1 DEF FreqsRead, IsWork
    <3> QED
      BY <2>1, <3>1 DEF FreqsRead
  <2>3. \A v : Clients(v)' = Clients(v)
    BY <1>1, <1>3, <2>2 DEF Clients
  <2>4. \A v : {FreqsRead(w) : w \in Clients(v)}' = {FreqsRead(w) : w \in Clients(v)}
    BY <2>2, <2>3
  <2>5. /\ DOMAIN workerMap' = {w \in Rank : Entered(w)}'
        /\ \A w \in DOMAIN workerMap' : workerMap'[w] = Cardinality(FreqsRead(w)')
    BY <1>0, <1>1, <1>3, <2>1, <2>2 DEF Tallied
  <2>6. /\ DOMAIN writerMap' = {v \in Rank : Clients(v) # {}}' /\ DOMAIN clientMap' = DOMAIN writerMap'
        /\ \A v \in DOMAIN writerMap' :
            /\ clientMap'[v] = Clients(v)'
            /\ writerMap'[v] = Cardinality(UNION {FreqsRead(w) : w \in Clients(v)}')
    BY <1>0, <1>1, <1>3, <2>3, <2>4 DEF Tallied
  <2>7. creators' = IF job.single' THEN {Min(DOMAIN writerMap)}' ELSE DOMAIN writerMap'
    BY <1>1
  <2> QED
    BY <1>1, <2>5, <2>6, <2>7 DEF Tallied
<1> QED
  BY <1>4, <1>5, <1>6, <1>7, <1>8 DEF AllocationInvariant

LEMMA NextAllocation == AllocationInvariant /\ [AllocationNext]_allocationVars => AllocationInvariant'
<1> SUFFICES ASSUME AllocationInvariant, [AllocationNext]_allocationVars PROVE AllocationInvariant'
  OBVIOUS
<1>1. CASE UNCHANGED allocationVars
  <2>1. /\ UNCHANGED <<job, stage, turn, item, set, perCore, globalChannel, found, share, work, writer,
                       lastFreq, workerMap, writerMap, clientMap, creators>>
    BY <1>1 DEF allocationVars, matchVars, commsVars
  <2>2. AllocationTypeOK' /\ Even' /\ LoopPlace'
    BY <2>1 DEF AllocationInvariant, AllocationTypeOK, Even, LoopPlace, Rank, GroupRank, PerGroup,
                Frequency, Unit
  <2>3. InRuns' /\ Matched'
    <3>1. Dealt' = Dealt /\ (Prepared' <=> Prepared)
      BY <2>1 DEF Dealt, Prepared
    <3> QED
      BY <2>1, <3>1, RunsStay, UnitsStay DEF AllocationInvariant
  <2>4. Assigned'
    <3>1. Rank' = Rank /\ (Prepared' <=> Prepared) /\ \A w : WriterFor(w)' = WriterFor(w)
      BY <2>1 DEF Rank, Prepared, WriterFor, HasWork
    <3>2. \A w : WriterFor(CopyOf(w))' = WriterFor(CopyOf(w))
      BY <2>1 DEF WriterFor, CopyOf, PerGroup
    <3> QED
      BY <2>1, <3>1, <3>2 DEF AllocationInvariant, Assigned
  <2>5. Tallied'
    <3>1. \A w : FreqsRead(w)' = FreqsRead(w) /\ (Entered(w)' <=> Entered(w))
      BY <2>1 DEF FreqsRead, Read, Entered, Counting, IsWork
    <3>2. FreqsRead(turn + 1)' = FreqsRead(turn + 1)
      BY <2>1 DEF FreqsRead, Read, Counting, IsWork
    <3>3. Rank' = Rank
      BY <2>1 DEF Rank
    <3>4. \A v : Clients(v)' = Clients(v)
      BY <2>1, <3>1, <3>3 DEF Clients
    <3>5. \A v : {FreqsRead(w) : w \in Clients(v)}' = {FreqsRead(w) : w \in Clients(v)}
      BY <3>1, <3>4
    <3> QED
      BY <2>1, <3>1, <3>2, <3>3, <3>4, <3>5 DEF AllocationInvariant, Tallied
  <2> QED
    BY <2>2, <2>3, <2>4, <2>5 DEF AllocationInvariant
<1> QED
  BY <1>1, AdjustStep, ShareStep, MatchStep, FrequencyStep, NextWorkerStep, AssignStep, CopyStep,
     AddWorkerStep, CountStep, SinkStep DEF AllocationNext

\* Wherever AdviseDI::prepare and updateComms are in their loops, the shares so
\* far are runs of frequencies that follow each other, each unit dealt out is in
\* the list of the worker its share says, and the counts are those of the
\* channels looked at.
THEOREM AllocationInvariance == Allocation => []AllocationInvariant
<1> QED
  BY InitAllocation, NextAllocation, PTL DEF Allocation
-----------------------------------------------------------------------------
(* What the allocation is good for.                                        *)

LEMMA IndexOfFrequency ==
    ASSUME AllocationInvariant, stage \in Filling, NEW c \in Frequency
    PROVE  AllocationIndex(c) \in GroupRank
<1> DEFINE w == AllocationIndex(c)
<1>1. /\ job \in Jobs /\ perCore \in Nat \ {0} /\ job.freqs = PerGroup * perCore
  BY DEF AllocationInvariant, AllocationTypeOK, Even
<1>2. PerGroup \in Nat \ {0} /\ job.freqs \in Nat
  BY <1>1, Sizes
<1>3. w \in Nat \ {0} /\ (w - 1) * perCore <= c /\ c \in Nat /\ c < PerGroup * perCore
  BY <1>1, <1>2, RunOf DEF AllocationIndex, Frequency
<1> HIDE DEF w
<1>4. ASSUME PerGroup <= w - 1 PROVE FALSE
  <2>1. PerGroup * perCore <= (w - 1) * perCore /\ PerGroup * perCore \in Nat /\ (w - 1) * perCore \in Nat
    BY <1>1, <1>2, <1>3, <1>4, MoreTimes
  <2> QED
    BY <1>3, <2>1
<1>5. w \in GroupRank
  BY <1>2, <1>3, <1>4 DEF GroupRank
<1> QED
  BY <1>5 DEF w

\* The ranks of a group are its copies of the ranks of the first.
LEMMA OfGroup ==
    ASSUME job \in Jobs, NEW a \in GroupRank, NEW g \in 0..(job.groups - 1)
    PROVE  /\ g * PerGroup + a \in Rank
           /\ \A w \in Rank : (w - 1) \div PerGroup = g /\ CopyOf(w) = a <=> w = g * PerGroup + a
<1>1. /\ PerGroup \in Nat \ {0} /\ job.groups \in Nat \ {0} /\ job.ranks = PerGroup * job.groups
      /\ job.ranks \in Nat
  BY Sizes
<1>2. g \in Nat /\ g + 1 <= job.groups /\ a \in Nat \ {0} /\ a <= PerGroup
  BY <1>1 DEF GroupRank
<1> DEFINE b == g * PerGroup
<1>3. b \in Nat /\ b + PerGroup <= job.ranks
  <2>1. (g + 1) * PerGroup <= job.groups * PerGroup /\ (g + 1) * PerGroup = g * PerGroup + PerGroup
    BY <1>1, <1>2, MoreTimes
  <2>2. job.groups * PerGroup = job.ranks /\ g * PerGroup \in Nat
    BY <1>1, <1>2
  <2> QED
    BY <2>1, <2>2
<1>4. b + a \in Rank
  <2> HIDE DEF b
  <2> QED
    BY <1>1, <1>2, <1>3 DEF Rank
<1>5. ASSUME NEW w \in Rank
      PROVE  (w - 1) \div PerGroup = g /\ CopyOf(w) = a <=> w = b + a
  <2> DEFINE q == (w - 1) \div PerGroup
             r == (w - 1) % PerGroup
  <2>1. w - 1 \in Nat
    BY DEF Rank
  <2>2. q \in Nat /\ r \in Nat /\ r < PerGroup /\ w - 1 = q * PerGroup + r
    <3>1. \A x \in Nat, N \in Nat \ {0} :
             x \div N \in Nat /\ x % N \in Nat /\ x % N < N /\ x = (x \div N) * N + (x % N)
      BY ONLY TRUE
    <3>2. PerGroup \in Nat \ {0}
      BY <1>1
    <3> QED
      BY ONLY <2>1, <3>1, <3>2 DEF q, r
  <2>3. CopyOf(w) = r + 1
    BY DEF CopyOf
  <2>4. ASSUME q = g, r + 1 = a PROVE w = b + a
    <3>1. q * PerGroup = b
      BY <2>4
    <3> HIDE DEF b, q, r
    <3> QED
      BY <1>2, <1>3, <2>1, <2>2, <2>4, <3>1 DEF Rank
  <2>5. ASSUME w = b + a PROVE q = g /\ r + 1 = a
    <3>1. w - 1 = b + (a - 1) /\ a - 1 \in Nat /\ a - 1 < PerGroup
      <4> HIDE DEF b
      <4> QED
        BY <1>1, <1>2, <1>3, <2>5
    <3>2. \A x, y \in Nat, N \in Nat \ {0} : y < N => (x * N + y) \div N = x /\ (x * N + y) % N = y
      BY ONLY TRUE
    <3>3. (b + (a - 1)) \div PerGroup = g /\ (b + (a - 1)) % PerGroup = a - 1
      BY <1>1, <1>2, <3>1, <3>2
    <3>4. q = g /\ r = a - 1
      BY <3>1, <3>3
    <3> QED
      BY <1>2, <3>4
  <2> HIDE DEF q, r, b
  <2>6. q = g /\ CopyOf(w) = a <=> w = b + a
    BY <2>3, <2>4, <2>5
  <2> QED
    BY <2>6 DEF q
<1> QED
  BY <1>4, <1>5

LEMMA PreparedUnits ==
    ASSUME AllocationInvariant, Prepared, NEW w \in Rank
    PROVE  /\ CopyOf(w) \in GroupRank /\ CopyOf(w) \in Rank /\ CopyOf(CopyOf(w)) = CopyOf(w)
           /\ UnitsOf(w) = {unit \in Unit : Due(CopyOf(w), unit)} /\ InOrder(work[w])
           /\ stage \in Filling /\ job \in Jobs /\ globalChannel = job.freqs
           /\ writer[w] = WriterFor(CopyOf(w))
<1>1. job \in Jobs /\ stage \in Filling \ {"match"} /\ w \in Nat \ {0}
  BY DEF AllocationInvariant, AllocationTypeOK, Prepared, Filling, Rank
<1>2. PerGroup \in Nat \ {0} /\ PerGroup <= job.ranks /\ job.ranks \in Nat
  BY <1>1, Sizes
<1>3. CopyOf(w) \in GroupRank
  BY <1>1, CopyInGroup
<1>4. CopyOf(w) \in Nat \ {0} /\ CopyOf(w) \in Rank
  BY <1>2, <1>3 DEF GroupRank, Rank
<1>5. CopyOf(CopyOf(w)) = CopyOf(w)
  BY <1>1, <1>3, <1>4, CopyInGroup
<1>6. UnitsOf(w) = {unit \in Unit : Due(Original(w), unit)} /\ InOrder(work[w])
  BY <1>1 DEF AllocationInvariant, Matched
<1>7. Original(w) = CopyOf(w)
  BY DEF Original
<1>8. writer[w] = WriterFor(CopyOf(w)) /\ globalChannel = job.freqs
  BY <1>1 DEF AllocationInvariant, Assigned, LoopPlace
<1> QED
  BY <1>1, <1>3, <1>4, <1>5, <1>6, <1>7, <1>8

LEMMA CompleteWhenPrepared == AllocationInvariant => AllocationIsComplete
<1> SUFFICES ASSUME AllocationInvariant, Prepared PROVE AllocationIsComplete
  BY DEF AllocationIsComplete
<1>1. /\ job \in Jobs /\ stage \in Filling /\ globalChannel = job.freqs
  BY DEF AllocationInvariant, AllocationTypeOK, LoopPlace, Prepared, Filling
<1>2. /\ job.sets \in Nat /\ job.freqs \in Nat /\ PerGroup \in Nat \ {0} /\ PerGroup <= job.ranks
      /\ job.ranks \in Nat
  BY <1>1, Sizes
<1>3. ASSUME NEW c \in Frequency, NEW s \in 1..job.sets, NEW g \in 0..(job.groups - 1)
      PROVE  LET owners == {w \in Rank : (w - 1) \div PerGroup = g
                                         /\ WorkUnit(c, c, s) \in UnitsOf(w)}
             IN  Cardinality(owners) = IF <<c, s>> \in job.matched THEN 1 ELSE 0
  <2> DEFINE owners == {w \in Rank : (w - 1) \div PerGroup = g /\ WorkUnit(c, c, s) \in UnitsOf(w)}
             a == AllocationIndex(c)
             u == WorkUnit(c, c, s)
  <2>1. a \in GroupRank
    BY <1>1, IndexOfFrequency
  <2>2. u \in Unit /\ u.freq = c /\ u.channel = c /\ u.set = s /\ IsWork(u) /\ u # NAUnit(c)
    BY <1>2 DEF Unit, WorkUnit, IsWork, NAUnit
  <2>3. c < globalChannel
    BY <1>1, <1>2 DEF Frequency
  <2>4. \A x : Due(x, u) <=> x = a /\ <<c, s>> \in job.matched
    BY <2>2, <2>3 DEF Due, Reached
  <2>5. \A w \in Rank : u \in UnitsOf(w) <=> CopyOf(w) = a /\ <<c, s>> \in job.matched
    BY <2>2, <2>4, PreparedUnits
  <2>6. owners = {w \in Rank : (w - 1) \div PerGroup = g /\ CopyOf(w) = a /\ <<c, s>> \in job.matched}
    BY <2>5
  <2> HIDE DEF a, u
  <2>7. CASE <<c, s>> \in job.matched
    <3>1. owners = {g * PerGroup + a}
      BY <1>1, <2>1, <2>6, <2>7, OfGroup
    <3>2. Cardinality(owners) = 1
      BY ONLY <3>1, FS_Singleton
    <3> QED
      BY <2>7, <3>2
  <2>8. CASE <<c, s>> \notin job.matched
    <3>1. owners = {}
      BY <2>6, <2>8
    <3>2. Cardinality(owners) = 0
      BY ONLY <3>1, FS_EmptySet
    <3> QED
      BY <2>8, <3>2
  <2> QED
    BY <2>7, <2>8
<1>4. ASSUME NEW w \in Rank, NEW unit \in WorkOf(w) PROVE unit.channel = unit.freq
  <2>1. unit \in UnitsOf(w) /\ IsWork(unit)
    BY DEF WorkOf
  <2>2. Due(CopyOf(w), unit)
    BY <2>1, PreparedUnits
  <2> QED
    BY <2>1, <2>2 DEF Due, IsWork, NAUnit
<1>5. ASSUME NEW c \in Frequency
      PROVE  (\E w \in Rank : NAUnit(c) \in UnitsOf(w)) <=>
                \A s \in 1..job.sets : <<c, s>> \notin job.matched
  <2> DEFINE a == AllocationIndex(c)
             u == NAUnit(c)
  <2>1. a \in GroupRank
    BY <1>1, IndexOfFrequency
  <2>2. u \in Unit /\ u.freq = c /\ ~IsWork(u) /\ c < globalChannel
    BY <1>1, <1>2 DEF Unit, IsWork, NAUnit, Frequency
  <2>3. \A x : Due(x, u) <=> x = a /\ \A s \in 1..job.sets : <<c, s>> \notin job.matched
    BY <2>2 DEF Due
  <2>4. \A w \in Rank : u \in UnitsOf(w) <=> Due(CopyOf(w), u)
    BY <2>2, PreparedUnits
  <2>5. a \in Rank /\ CopyOf(a) = a
    <3>1. a \in Rank /\ a \in Nat \ {0}
      BY <1>2, <2>1 DEF GroupRank, Rank
    <3> QED
      BY <1>1, <2>1, <3>1, CopyInGroup
  <2> HIDE DEF a, u
  <2> QED
    BY <2>3, <2>4, <2>5 DEF u
<1>6. ASSUME NEW w \in Rank, NEW i \in 1..Len(work[w]), NEW j \in 1..Len(work[w]), i < j
      PROVE  \/ work[w][i].freq < work[w][j].freq
             \/ work[w][i].freq = work[w][j].freq /\ work[w][i].set < work[w][j].set
  BY <1>6, PreparedUnits DEF InOrder, Before
<1> QED
  BY <1>3, <1>4, <1>5, <1>6 DEF AllocationIsComplete

LEMMA WritersHaveData == AllocationInvariant => WritersTakePart
<1> SUFFICES ASSUME AllocationInvariant, Prepared, NEW w \in Rank, WorkOf(w) # {}
             PROVE  WorkOf(writer[w]) # {} /\ writer[writer[w]] = writer[w]
  BY DEF WritersTakePart
<1> DEFINE o == CopyOf(w)
           v == WriterFor(o)
<1>1. /\ o \in GroupRank /\ o \in Rank /\ CopyOf(o) = o /\ UnitsOf(w) = UnitsOf(o)
      /\ job \in Jobs /\ writer[w] = v
  <2>1. o \in GroupRank /\ o \in Rank /\ CopyOf(o) = o /\ job \in Jobs /\ writer[w] = v
        /\ UnitsOf(w) = {unit \in Unit : Due(o, unit)}
    BY PreparedUnits
  <2>2. UnitsOf(o) = {unit \in Unit : Due(CopyOf(o), unit)}
    BY <2>1, PreparedUnits
  <2> QED
    BY <2>1, <2>2
<1>2. \A x : HasWork(work[x]) <=> WorkOf(x) # {}
  BY DEF HasWork, WorkOf, UnitsOf
<1>3. WorkOf(o) # {}
  BY <1>1 DEF WorkOf
<1>4. v \in 1..o /\ HasWork(work[v]) /\ WriterFor(v) = v
  BY <1>1, <1>2, <1>3, WriterOf
<1> HIDE DEF v, o
<1>5. v \in GroupRank /\ v \in Rank /\ v \in Nat \ {0}
  <2>1. PerGroup \in Nat /\ job.ranks \in Nat /\ PerGroup <= job.ranks
    BY <1>1, Sizes
  <2> QED
    BY <1>1, <1>4, <2>1 DEF GroupRank, Rank
<1>6. writer[v] = WriterFor(CopyOf(v)) /\ CopyOf(v) = v
  BY <1>1, <1>5, PreparedUnits, CopyInGroup
<1> QED
  BY <1>1, <1>2, <1>4, <1>6

\* What AdviseDI::prepare leaves behind is fit for the distribution: every data
\* set's share of every frequency is dealt out once in each group, under the
\* global channel of its place, everybody has units, and writers take part in
\* the loop over the channels.
THEOREM AllocationFits == Allocation => []FitToDistribute
<1>1. AllocationInvariant => FitToDistribute
  <2> SUFFICES ASSUME AllocationInvariant PROVE FitToDistribute
    OBVIOUS
  <2>1. EveryoneHasUnits
    <3>1. Prepared => stage \in Filling \ {"match"}
      BY DEF Prepared, Filling
    <3> QED
      BY <3>1, SomeUnit DEF EveryoneHasUnits
  <2> QED
    BY <2>1, CompleteWhenPrepared, WritersHaveData DEF FitToDistribute, AllocationInvariant
<1> QED
  BY <1>1, AllocationInvariance, PTL

\* When updateComms is done, what a worker has read are the channels of its data.
LEMMA AllRead ==
    ASSUME AllocationInvariant, stage = "counted", NEW w \in Rank
    PROVE  FreqsRead(w) = ChannelsOf(w) /\ (WorkOf(w) # {} <=> ChannelsOf(w) # {})
<1>1. Read(w) = Len(work[w])
  BY DEF Read, Counting
<1>2. FreqsRead(w) = {unit.freq : unit \in WorkOf(w)}
  BY <1>1 DEF FreqsRead, WorkOf, UnitsOf
<1>3. \A unit \in WorkOf(w) : unit.channel = unit.freq
  BY CompleteWhenPrepared DEF AllocationIsComplete, Prepared
<1> QED
  BY <1>2, <1>3 DEF ChannelsOf

LEMMA CountedChannels == AllocationInvariant => CountsAreChannels
<1> SUFFICES ASSUME AllocationInvariant, stage = "counted", NEW v \in Rank
             PROVE  LET members == {w \in Rank : writer[w] = v /\ WorkOf(w) # {}} IN
                    /\ (v \in DOMAIN writerMap) <=> members # {}
                    /\ members # {} =>
                        /\ writerMap[v] = Cardinality(UNION {ChannelsOf(w) : w \in members})
                        /\ Served(v) = members
  BY DEF CountsAreChannels
<1> DEFINE members == {w \in Rank : writer[w] = v /\ WorkOf(w) # {}}
<1>1. Counting /\ Prepared /\ Tallied
  BY DEF Counting, Prepared, AllocationInvariant
<1>2. \A w \in Rank : FreqsRead(w) = ChannelsOf(w) /\ (WorkOf(w) # {} <=> ChannelsOf(w) # {})
  BY AllRead
<1>3. Clients(v) = members
  BY <1>2 DEF Clients
<1>4. \A w \in Rank : w \in DOMAIN workerMap /\ workerMap[w] = Cardinality(FreqsRead(w))
  <2>1. \A w \in Rank : Entered(w)
    BY <1>1 DEF Entered
  <2> QED
    BY <1>1, <2>1 DEF Tallied
<1>5. \A w \in members : workerMap[w] > 0
  <2>1. ASSUME NEW w \in members PROVE workerMap[w] > 0
    <3>1. w \in Rank /\ FreqsRead(w) # {}
      BY <1>2
    <3>2. IsFiniteSet(FreqsRead(w))
      BY <1>1, <3>1, ReadsAreOwn, FS_Subset
    <3>3. Cardinality(FreqsRead(w)) \in Nat /\ Cardinality(FreqsRead(w)) # 0
      BY <3>1, <3>2, FS_CardinalityType, FS_EmptySet
    <3> QED
      BY <1>4, <3>1, <3>3
  <2> QED
    BY <2>1
<1>6. v \in DOMAIN writerMap <=> members # {}
  BY <1>1, <1>3 DEF Tallied
<1>7. ASSUME members # {}
      PROVE  /\ writerMap[v] = Cardinality(UNION {ChannelsOf(w) : w \in members})
             /\ Served(v) = members
  <2>1. clientMap[v] = members /\ writerMap[v] = Cardinality(UNION {FreqsRead(w) : w \in members})
    BY <1>1, <1>3, <1>6, <1>7 DEF Tallied
  <2>2. {FreqsRead(w) : w \in members} = {ChannelsOf(w) : w \in members}
    BY <1>2
  <2>3. v \in members
    <3>1. PICK w \in Rank : writer[w] = v /\ WorkOf(w) # {}
      BY <1>7
    <3>2. WorkOf(writer[w]) # {} /\ writer[writer[w]] = writer[w]
      BY <1>1, <3>1, WritersHaveData DEF WritersTakePart
    <3> QED
      BY <3>1, <3>2
  <2>4. Served(v) = members
    BY <1>5, <2>1, <2>3 DEF Served
  <2> QED
    BY <2>1, <2>2, <2>4
<1> QED
  BY <1>6, <1>7

\* The count of a writer in CubeComms is the number of channels that it and its
\* clients have data for, however many epochs they come in (AdviseDI::updateComms).
THEOREM WritersKnowTheirChannels == Allocation => []CountsAreChannels
<1> QED
  BY CountedChannels, AllocationInvariance, PTL

LEMMA SlicesFit == AllocationInvariant => SlicesFitTheCube
<1> SUFFICES ASSUME AllocationInvariant, stage = "counted", NEW w \in Rank, NEW c \in ChannelsOf(w)
             PROVE  /\ c >= BaseChannel(writer[w])
                    /\ c < BaseChannel(writer[w]) + NChanCube(writer[w])
                    /\ IF job.single THEN Cardinality(creators) = 1 ELSE writer[w] \in creators
  BY DEF SlicesFitTheCube
<1> DEFINE v == writer[w]
           S == Served(v)
           lo == Min(S)
           hi == Max(S)
<1>1. /\ Counting /\ Tallied /\ perCore \in Nat \ {0} /\ job.freqs = PerGroup * perCore
  BY DEF Counting, AllocationInvariant, AllocationTypeOK, Even, Filling
<1>2. /\ job \in Jobs /\ job.localSolver /\ PerGroup = job.ranks /\ job.ranks \in Nat \ {0}
      /\ v \in Rank
  BY <1>1, InCounting
<1>3. job.groups = 1 /\ job.single \in BOOLEAN
  BY <1>2, Sizes
<1>4. c \in FreqsRead(w) /\ WorkOf(w) # {}
  BY AllRead
<1>5. c \in Frequency /\ AllocationIndex(c) = w /\ c \in Nat /\ w \in Nat \ {0} /\ c < job.freqs
  <2>1. c \in Frequency /\ AllocationIndex(c) = w /\ job.freqs \in Nat
    BY <1>1, <1>2, <1>4, ReadsAreOwn, Sizes
  <2> QED
    BY <2>1 DEF Frequency, Rank
<1>6. (w - 1) * perCore <= c /\ c < w * perCore /\ (w - 1) * perCore \in Nat /\ w * perCore \in Nat
  BY <1>1, <1>5, RunOf DEF AllocationIndex
<1>7. w \in S /\ S \subseteq Rank /\ v \in DOMAIN writerMap
  <2>1. S = {x \in Rank : writer[x] = v /\ WorkOf(x) # {}} /\ v \in DOMAIN writerMap
    BY <1>2, <1>4, CountedChannels DEF CountsAreChannels
  <2> QED
    BY <1>4, <2>1
<1>8. /\ lo \in Nat \ {0} /\ hi \in Nat \ {0} /\ lo <= w /\ w <= hi
  <2>1. S \subseteq Nat /\ S \subseteq 0..job.ranks /\ S # {}
    BY <1>2, <1>7 DEF Rank
  <2>2. lo \in S /\ \A n \in S : lo <= n
    BY <2>1, SmallestRank
  <2>3. hi \in S /\ \A n \in S : n <= hi
    BY <1>2, <2>1, GreatestRank
  <2> QED
    BY <1>7, <2>2, <2>3 DEF Rank
<1> HIDE DEF v, S, lo, hi
<1>9. CASE job.single
  <2>1. creators = {Min(DOMAIN writerMap)}
    BY <1>1, <1>9 DEF Tallied
  <2>2. Cardinality(creators) = 1
    BY <2>1, FS_Singleton
  <2>3. BaseChannel(v) = 0 /\ NChanCube(v) = (job.ranks * perCore) \div 1
    BY <1>3, <1>9 DEF BaseChannel, NChanCube
  <2>4. (job.ranks * perCore) \div 1 = job.freqs
    <3>1. \A x \in Nat : x \div 1 = x
      OBVIOUS
    <3>2. job.freqs \in Nat /\ job.freqs = job.ranks * perCore
      BY <1>1, <1>2, Sizes
    <3> QED
      BY <3>1, <3>2
  <2>5. job.freqs \in Nat
    BY <1>2, Sizes
  <2> QED
    BY <1>5, <1>9, <2>2, <2>3, <2>4, <2>5 DEF v
<1>10. CASE ~job.single
  <2>1. v \in creators
    BY <1>1, <1>7, <1>10 DEF Tallied
  <2>2. BaseChannel(v) = (lo - 1) * perCore /\ NChanCube(v) = (hi - lo + 1) * perCore
    BY <1>10 DEF BaseChannel, NChanCube, S, lo, hi
  <2>3. (lo - 1) * perCore <= (w - 1) * perCore /\ (lo - 1) * perCore \in Nat
    BY <1>1, <1>5, <1>8, MoreTimes
  <2>4. w * perCore <= hi * perCore /\ hi * perCore \in Nat
    BY <1>1, <1>5, <1>8, MoreTimes
  <2>5. (lo - 1) * perCore + (hi - lo + 1) * perCore = hi * perCore /\ (hi - lo + 1) * perCore \in Nat
    <3>1. \A x, y, z \in Nat : (x + y) * z = x * z + y * z /\ y * z \in Nat
      OBVIOUS
    <3>2. lo - 1 \in Nat /\ hi - lo + 1 \in Nat /\ (lo - 1) + (hi - lo + 1) = hi
      BY <1>5, <1>8
    <3> QED
      BY <1>1, <3>1, <3>2
  <2> QED
    BY <1>5, <1>6, <1>10, <2>1, <2>2, <2>3, <2>4, <2>5 DEF v
<1> QED
  BY <1>3, <1>9, <1>10

\* The channel of every slice is inside the cube of the writer it is sent to
\* (ContinuumWorker::run), and that writer has a cube unless there is only one.
THEOREM CubesAreLargeEnough == Allocation => []SlicesFitTheCube
<1> QED
  BY SlicesFit, AllocationInvariance, PTL
=============================================================================
