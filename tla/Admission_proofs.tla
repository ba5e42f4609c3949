-------------------------- MODULE Admission_proofs ---------------------------
(* Typing and safety of Admission, for any reviews, stealers, label          *)
(* spellings, patterns and budget.                                           *)
EXTENDS Admission, TLAPS

USE DEF Processes, Kinds, PCs, ConnectorPCs, Answers

\* The code's two tests leave exactly what an operator means to have stolen.
LEMMA StealableIsTested ==
  ASSUME NEW v
  PROVE  Stealable(v) <=> ~(NotEligible(v) \/ Ignored(v))
BY DEF Stealable, NotEligible, Ignored, IsLabelExists, IsItIgnoredNamespace

LEMMA InitTyped == Init => TypeOK
BY ProcessesAssumption, BudgetAssumption DEF Init, TypeOK

LEMMA ConnectorStepTyped ==
  ASSUME TypeOK, NEW p \in Processes, ConnectorStep(p)
  PROVE  TypeOK'
<1> USE DEF TypeOK, Goto, Free, Fails
<1>1. stream' \in BOOLEAN /\ bucket' \in BOOLEAN
  <2>1. CASE Connect(p)      BY <2>1 DEF Connect
  <2>2. CASE AddStream(p)    BY <2>2, Zenon DEF AddStream
  <2>3. CASE GetBucket(p)    BY <2>3 DEF GetBucket
  <2>4. CASE CreateBucket(p) BY <2>4, Zenon DEF CreateBucket
  <2>5. QED BY <2>1, <2>2, <2>3, <2>4 DEF ConnectorStep
<1>2. /\ UNCHANGED <<review, answer>>
      /\ left' = left \/ \E kind \in Kinds : Fails(kind)
      /\ pc[p] \in ConnectorPCs
      /\ \E to \in ConnectorPCs : pc' = [pc EXCEPT ![p] = to]
  BY Zenon DEF ConnectorStep, Connect, AddStream, GetBucket, CreateBucket
<1>3. left' \in [Kinds -> Nat] BY <1>2
<1>4. pc' \in [Processes -> PCs]
  <2>1. ConnectorPCs \subseteq PCs OBVIOUS
  <2> HIDE DEF PCs, ConnectorPCs, Processes
  <2>2. QED BY <1>2, <2>1
<1>5. \A x \in Reviews : pc'[x] = "answered" <=> answer'[x] # "none" BY <1>2
<1>6. QED BY <1>1, <1>2, <1>3, <1>4, <1>5

LEMMA ReviewStepTyped ==
  ASSUME TypeOK, NEW x \in Reviews, ReviewStep(x)
  PROVE  TypeOK'
<1> USE DEF TypeOK, Goto, Free, Respond
<1>1. CASE Serve(x) \/ NilResponse(x) \/ Undecodable(x) \/ Wrap(x)
  BY <1>1 DEF Serve, NilResponse, Undecodable, Wrap
<1>2. CASE Fallback(x) \/ Offer(x)
  BY <1>2 DEF Fallback, Offer
<1>3. CASE ConnectorStep(x)
  BY <1>3, ConnectorStepTyped
<1>4. QED BY <1>1, <1>2, <1>3 DEF ReviewStep

LEMMA WorkerStepTyped ==
  ASSUME TypeOK, NEW w \in Workers, WorkerStep(w)
  PROVE  TypeOK'
<1>1. CASE ConnectorStep(w)
  BY <1>1, ConnectorStepTyped
<1>2. CASE Subscribe(w) \/ Exit(w) \/ Restart(w)
  BY <1>2, ProcessesAssumption DEF TypeOK, Goto, Free, Fails, Subscribe, Exit, Restart
<1>3. QED BY <1>1, <1>2 DEF WorkerStep

\* Whatever fails, each process is at a place of the code, and a review has a
\* response, one of the three, exactly when its handler is done with it.
THEOREM TypeCorrect == Spec => []TypeOK
<1>1. ASSUME TypeOK, [Next]_vars PROVE TypeOK'
  <2>1. CASE Next BY <1>1, <2>1, ReviewStepTyped, WorkerStepTyped DEF Next
  <2>2. CASE UNCHANGED vars BY <1>1, <2>2 DEF vars, TypeOK
  <2>3. QED BY <1>1, <2>1, <2>2
<1>2. QED BY <1>1, InitTyped, PTL DEF Spec

------------------------------------------------------------------------------
(* The invariant follows a review from its tests to the offer, and a process  *)
(* through the connector.                                                     *)

Tested(v) == /\ v.sound /\ Expected(v) /\ v.decodes
             /\ ~(NotEligible(v) \/ Ignored(v))

ReviewInv == \A x \in Reviews :
  /\ pc[x] = "mutate" => review[x].sound
  /\ pc[x] \in ConnectorPCs \cup {"offer"} => Tested(review[x])
  /\ answer[x] = "allowed" => \/ NotEligible(review[x]) \/ Ignored(review[x])
                              \/ Failed("connect") \/ Failed("bucket")

ConnectorInv == \A p \in Processes :
  /\ pc[p] = "failed" => Failed("connect") \/ Failed("bucket")
  /\ pc[p] \in {"bucket", "create"} \cup SetUp => stream \/ Failed("stream")
  /\ pc[p] \in SetUp => bucket

SpentInv == \A kind \in Kinds : left[kind] <= Budget[kind]

Inv == TypeOK /\ ReviewInv /\ ConnectorInv /\ SpentInv

LEMMA InitInv == Init => Inv
<1> USE DEF Init, Inv
<1>1. Init => TypeOK BY InitTyped
<1>2. Init => ReviewInv BY DEF ReviewInv
<1>3. Init => ConnectorInv BY DEF ConnectorInv, SetUp
<1>4. Init => SpentInv BY BudgetAssumption DEF SpentInv
<1>5. QED BY <1>1, <1>2, <1>3, <1>4

\* The budget only shrinks: what has failed has failed for good.
LEMMA SpentForGood ==
  ASSUME TypeOK, SpentInv, [Next]_vars
  PROVE  /\ SpentInv'
         /\ \A kind \in Kinds : Failed(kind) => Failed(kind)'
<1> USE DEF TypeOK, SpentInv, Failed, Free, Fails
<1>1. CASE \E p \in Processes : ConnectorStep(p)
  <2>1. left' = left \/ \E kind \in Kinds : Fails(kind)
    BY <1>1, Zenon DEF ConnectorStep, Connect, AddStream, GetBucket, CreateBucket
  <2>2. QED BY <2>1, BudgetAssumption
<1>2. CASE \E x \in Reviews : Serve(x) \/ NilResponse(x) \/ Undecodable(x) \/ Wrap(x)
                              \/ Fallback(x) \/ Offer(x)
  BY <1>2 DEF Serve, NilResponse, Undecodable, Wrap, Fallback, Offer
<1>3. CASE \E w \in Workers : Subscribe(w) \/ Exit(w) \/ Restart(w)
  BY <1>3, BudgetAssumption DEF Subscribe, Exit, Restart
<1>4. CASE UNCHANGED vars
  BY <1>4 DEF vars
<1>5. QED BY <1>1, <1>2, <1>3, <1>4 DEF Next, ReviewStep, WorkerStep

LEMMA ConnectorStepInv ==
  ASSUME Inv, TypeOK', NEW p \in Processes, ConnectorStep(p),
         \A kind \in Kinds : Failed(kind) => Failed(kind)'
  PROVE  ReviewInv' /\ ConnectorInv'
<1> USE DEF Inv, TypeOK, SetUp, Goto, Free
<1>1. \A kind \in Kinds : Fails(kind) => Failed(kind)'
  BY BudgetAssumption DEF Fails, Failed, SpentInv
<1>2. /\ UNCHANGED <<review, answer>>
      /\ pc[p] \in ConnectorPCs
      /\ \E to \in ConnectorPCs : pc' = [pc EXCEPT ![p] = to]
  BY Zenon DEF ConnectorStep, Connect, AddStream, GetBucket, CreateBucket
<1>3. ReviewInv' BY <1>2 DEF ReviewInv
<1>4. (stream => stream') /\ (bucket => bucket')
  BY Zenon DEF ConnectorStep, Connect, AddStream, GetBucket, CreateBucket
<1>5. /\ pc'[p] = "failed" => Failed("connect")' \/ Failed("bucket")'
      /\ pc'[p] \in {"bucket", "create"} \cup SetUp => stream' \/ Failed("stream")'
      /\ pc'[p] \in SetUp => bucket'
  <2>1. CASE Connect(p)
    BY <2>1, <1>1 DEF Connect
  <2>2. CASE AddStream(p)
    <3>1. pc'[p] = "bucket" BY <2>2 DEF AddStream
    <3>2. stream' \/ Failed("stream")'
      <4>1. CASE stream' = TRUE BY <4>1, Zenon
      <4>2. CASE Fails("stream") BY <4>2, <1>1
      <4>3. QED BY <2>2, <4>1, <4>2, Zenon DEF AddStream
    <3>3. QED BY <3>1, <3>2
  <2>3. CASE GetBucket(p)
    BY <2>3, <1>1, <1>4 DEF GetBucket, ConnectorInv
  <2>4. CASE CreateBucket(p)
    <3>1. pc'[p] \in {"ready", "failed"} BY <2>4 DEF CreateBucket
    <3>2. stream' \/ Failed("stream")'
      BY <2>4, <1>4 DEF CreateBucket, ConnectorInv
    <3>3. CASE bucket' = TRUE /\ pc'[p] = "ready"
      BY <3>2, <3>3, Zenon
    <3>4. CASE Fails("bucket") /\ pc'[p] = "failed"
      BY <3>2, <3>4, <1>1
    <3>5. \/ bucket' = TRUE /\ Goto(p, "ready")
          \/ Fails("bucket") /\ Goto(p, "failed")
      BY <2>4, Zenon DEF CreateBucket
    <3>6. QED BY <3>3, <3>4, <3>5
  <2>5. QED BY <2>1, <2>2, <2>3, <2>4 DEF ConnectorStep
<1>6. \A q \in Processes : q # p => pc'[q] = pc[q] BY <1>2
<1>7. ConnectorInv' BY <1>4, <1>5, <1>6 DEF ConnectorInv
<1>8. QED BY <1>3, <1>7

LEMMA ReviewStepInv ==
  ASSUME Inv, TypeOK', NEW x \in Reviews, ReviewStep(x),
         \A kind \in Kinds : Failed(kind) => Failed(kind)'
  PROVE  ReviewInv' /\ ConnectorInv'
<1> USE DEF Inv, TypeOK, ReviewInv, ConnectorInv, SetUp, Goto, Free
<1>1. CASE Serve(x)
  BY <1>1 DEF Serve, Respond
<1>2. CASE NilResponse(x) \/ Undecodable(x)
  BY <1>2 DEF NilResponse, Undecodable, Respond
<1>3. CASE Wrap(x)
  BY <1>3 DEF Wrap, Respond, Tested
<1>4. CASE Fallback(x) \/ Offer(x)
  BY <1>4 DEF Fallback, Offer, Respond
<1>5. CASE ConnectorStep(x)
  BY <1>5, ConnectorStepInv
<1>6. QED BY <1>1, <1>2, <1>3, <1>4, <1>5 DEF ReviewStep

LEMMA WorkerStepInv ==
  ASSUME Inv, TypeOK', NEW w \in Workers, WorkerStep(w),
         \A kind \in Kinds : Failed(kind) => Failed(kind)'
  PROVE  ReviewInv' /\ ConnectorInv'
<1>1. CASE ConnectorStep(w)
  BY <1>1, ConnectorStepInv
<1>2. CASE Subscribe(w) \/ Exit(w) \/ Restart(w)
  BY <1>2, ProcessesAssumption
     DEF Subscribe, Exit, Restart, Inv, TypeOK, ReviewInv, ConnectorInv, SetUp, Goto, Free
<1>3. QED BY <1>1, <1>2 DEF WorkerStep

LEMMA Invariance == Spec => []Inv
<1>1. ASSUME Inv, TypeOK', [Next]_vars PROVE Inv'
  <2>1. SpentInv' /\ \A kind \in Kinds : Failed(kind) => Failed(kind)'
    BY <1>1, SpentForGood DEF Inv
  <2>2. CASE Next BY <1>1, <2>1, <2>2, ReviewStepInv, WorkerStepInv DEF Next, Inv
  <2>3. CASE UNCHANGED vars
    BY <1>1, <2>1, <2>3 DEF vars, Inv, ReviewInv, ConnectorInv
  <2>4. QED BY <1>1, <2>2, <2>3
<1>2. QED BY <1>1, InitInv, TypeCorrect, PTL DEF Spec

------------------------------------------------------------------------------
\* Nothing that must stay at home is offered, with any patterns, valid or not.
THEOREM OnlyStealableOfferedTheorem == Spec => []OnlyStealableOffered
<1>1. Inv => OnlyStealableOffered
  BY StealableIsTested DEF Inv, ReviewInv, Tested, OnlyStealableOffered
<1>2. QED BY <1>1, Invariance, PTL

\* A pod that may be stolen is kept at home by a failure only, however many
\* donors and stealers set up stream and bucket at once.
THEOREM FallbackOnlyOnFailureTheorem == Spec => []FallbackOnlyOnFailure
<1>1. Inv => FallbackOnlyOnFailure
  BY StealableIsTested DEF Inv, ReviewInv, FallbackOnlyOnFailure
<1>2. QED BY <1>1, Invariance, PTL

\* No offer and no subscription is made without a bucket, nor without a stream
\* unless its creation failed.
THEOREM ReadyIsSetUpTheorem == Spec => []ReadyIsSetUp
<1>1. Inv => ReadyIsSetUp
  BY DEF Inv, ConnectorInv, ReadyIsSetUp
<1>2. QED BY <1>1, Invariance, PTL
==============================================================================
